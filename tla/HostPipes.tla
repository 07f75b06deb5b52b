----------------------------- MODULE HostPipes -----------------------------
(***************************************************************************)
(* The interrupt endpoints of the real device as the relay loop polls them *)
(* (usb_host.c): one IN and one OUT endpoint, each with a data toggle on   *)
(* either side, and transactions whose packets may be lost.  The device    *)
(* and the wire behave as USB prescribes: a side flips its toggle when it  *)
(* sees the other's packet through, and an answer with the wrong toggle is *)
(* acknowledged all the same.                                              *)
(***************************************************************************)
EXTENDS Naturals, Sequences, FiniteSets

CONSTANTS
    MaxTries,     \* repeats one usbhs_transact puts up with (10 in the code)
    MaxReports,   \* bound: reports the device has
    MaxOuts,      \* bound: packets for the device
    MaxLosses,    \* bound: packets lost on the wire
    MaxGlitches   \* bound: connect changes in the middle of a transaction

VARIABLES
    \* the host
    pc,        \* "idle", or the transaction that is on: "in" or "out"
    inTog,     \* in_slots[].tog
    outTog,    \* out_slots[].tog
    tries,     \* trans_retry
    outs,      \* packets usb_host_interrupt_out_send was given
    \* the device
    devInTog, devOutTog,
    report,    \* the number of the report its IN endpoint holds
    \* bounds and history
    losses, glitches,
    taken,     \* the reports usb_host_interrupt_poll_zerocopy returned
    accepted,  \* the packets the device took from its OUT endpoint
    confirmed, \* the packets usb_host_interrupt_out_send returned true for
    inUnheard, \* answers the host threw away although it acknowledged them
    outUnheard \* packets the device acknowledged unheard

host == <<pc, inTog, outTog, tries, outs>>
dev == <<devInTog, devOutTog, report>>
bounds == <<losses, glitches>>
inHistory == <<taken, inUnheard>>
outHistory == <<accepted, confirmed, outUnheard>>
vars == <<host, dev, bounds, inHistory, outHistory>>

Init ==
    /\ pc = "idle" /\ inTog = 0 /\ outTog = 0 /\ tries = 0 /\ outs = 0
    /\ devInTog = 0 /\ devOutTog = 0 /\ report = 1
    /\ losses = 0 /\ glitches = 0
    /\ taken = <<>> /\ inUnheard = 0
    /\ accepted = <<>> /\ confirmed = {} /\ outUnheard = 0

Flip(t) == 1 - t

Lose == losses < MaxLosses /\ losses' = losses + 1 /\ UNCHANGED glitches

\* The port reports a connect change although the device is there and SOFs are on:
\* usbhs_transact returns without a look at the answer.
Glitch == glitches < MaxGlitches /\ glitches' = glitches + 1 /\ UNCHANGED losses

-----------------------------------------------------------------------------
\* usb_host_interrupt_poll_zerocopy: an IN token, without patience for a NAK.
PollIn ==
    /\ pc = "idle"
    /\ pc' = "in" /\ tries' = 0
    /\ UNCHANGED <<inTog, outTog, outs, dev, bounds, inHistory, outHistory>>

\* The device has nothing to report, or stalls.
InNak ==
    /\ pc = "in"
    /\ pc' = "idle"
    /\ UNCHANGED <<inTog, outTog, tries, outs, dev, bounds, inHistory, outHistory>>

\* Token or data are lost: no answer within a millisecond.
InLost ==
    /\ pc = "in"
    /\ Lose
    /\ pc' = "idle"
    /\ UNCHANGED <<inTog, outTog, tries, outs, dev, inHistory, outHistory>>

\* The device is done with its report when the acknowledgement reaches it.
Done ==
    /\ devInTog' = Flip(devInTog) /\ report' = report + 1
    /\ UNCHANGED devOutTog

\* Mutants: every answer is taken for a new report; the slot's toggle stays.
ExpectedAny == TRUE
AfterInSame == inTog

Expected == devInTog = inTog
AfterIn == Flip(inTog)

\* The device answers with its report: one of the expected toggle is returned, one of
\* the other is a repeat and the token is sent again.
InData ==
    /\ pc = "in"
    /\ report <= MaxReports
    /\ \/ Done /\ UNCHANGED bounds
       \/ Lose /\ UNCHANGED dev
    /\ IF Expected
       THEN /\ taken' = Append(taken, report)
            /\ inTog' = AfterIn
            /\ pc' = "idle" /\ UNCHANGED tries
       ELSE /\ tries' = tries + 1
            /\ pc' = IF tries' = MaxTries THEN "idle" ELSE "in"
            /\ UNCHANGED <<inTog, taken>>
    /\ UNCHANGED <<outTog, outs, inUnheard, outHistory>>

InGlitch ==
    /\ pc = "in"
    /\ report <= MaxReports
    /\ Glitch
    /\ pc' = "idle"
    /\ Done
    /\ inUnheard' = inUnheard + 1
    /\ UNCHANGED <<inTog, outTog, tries, outs, taken, outHistory>>

-----------------------------------------------------------------------------
\* usb_host_interrupt_out_send
SendOut ==
    /\ pc = "idle"
    /\ outs < MaxOuts
    /\ outs' = outs + 1
    /\ pc' = "out" /\ tries' = 0
    /\ UNCHANGED <<inTog, outTog, dev, bounds, inHistory, outHistory>>

\* The device is busy: again, until 5 ms are over; or it stalls.
OutNak ==
    /\ pc = "out"
    /\ pc' \in {"out", "idle"}
    /\ UNCHANGED <<inTog, outTog, tries, outs, dev, bounds, inHistory, outHistory>>

OutLost ==
    /\ pc = "out"
    /\ Lose
    /\ pc' = "idle"
    /\ UNCHANGED <<inTog, outTog, tries, outs, dev, inHistory, outHistory>>

\* The device takes a packet of the toggle it expects, drops any other as a repeat, and
\* acknowledges both.
DeviceTakes ==
    /\ IF devOutTog = outTog
       THEN accepted' = Append(accepted, outs) /\ devOutTog' = Flip(devOutTog)
       ELSE UNCHANGED <<accepted, devOutTog>>
    /\ UNCHANGED <<devInTog, report>>

OutData ==
    /\ pc = "out"
    /\ DeviceTakes
    /\ \/ /\ outTog' = Flip(outTog)
          /\ confirmed' = confirmed \cup {outs}
          /\ UNCHANGED <<bounds, outUnheard>>
       \/ /\ Lose \/ Glitch
          /\ outUnheard' = outUnheard + 1
          /\ UNCHANGED <<outTog, confirmed>>
    /\ pc' = "idle"
    /\ UNCHANGED <<inTog, tries, outs, inHistory>>

Next ==
    \/ PollIn \/ InNak \/ InLost \/ InData \/ InGlitch
    \/ SendOut \/ OutNak \/ OutLost \/ OutData

-----------------------------------------------------------------------------
TypeOK ==
    /\ pc \in {"idle", "in", "out"} /\ tries \in 0 .. MaxTries
    /\ {inTog, outTog, devInTog, devOutTog} \subseteq 0 .. 1
    /\ report \in 1 .. MaxReports + 1 /\ outs \in 0 .. MaxOuts

Increasing(s) == \A i, j \in DOMAIN s : i < j => s[i] < s[j]
Items(s) == {s[i] : i \in DOMAIN s}

\* Whatever packets are lost, the relay gets each report of the device once and in
\* order: a repeat is recognised by its toggle, and a fresh report is not taken for a
\* repeat.  Only an answer thrown away on a connect change costs reports, itself and
\* the next one, whose toggle is then the wrong one (usb_host.c:240-268, 545-556).
\* And a packet reported as sent is one the device took, but for the one that follows
\* an acknowledgement the host did not hear (usb_host.c:610-622).
TransfersOnce ==
    /\ Increasing(taken) /\ Increasing(accepted)
    /\ Cardinality((1 .. report - 1) \ Items(taken)) <= 2 * inUnheard
    /\ Cardinality(confirmed \ Items(accepted)) <= outUnheard
=============================================================================
