------------------------------- MODULE Ep0Hs -------------------------------
(***************************************************************************)
(* Endpoint 0 of the High-Speed clone: the control part of                 *)
(* USBHS_IRQHandler (usb_device_hs.c).  The handler does not look at the   *)
(* toggle of an OUT packet, and it stops listening after each one until it *)
(* has dealt with it.                                                      *)
(***************************************************************************)
EXTENDS Ep0Host

\* Mutants: more OUT data is never asked for, a capture that is not started
\* over, a request not clamped to its descriptor, a toggle that stays.
NotAsked == Answer("NAK", 0)
GoesOn == captured
Unclamped(r) == r.len
SameToggle(t) == t

MoreData == Answer("ACK", 1)
CaptureStart == <<>>
Clamp(r) == Min2(r.len, Size[r.item])
NextToggle(t) == 1 - t

-----------------------------------------------------------------------------
\* SETUP: the request is latched, the response chosen by its kind; a data or
\* status stage begins at DATA1.

\* GET_DESCRIPTOR of a descriptor in the capture, or of the qualifier made up
\* for a High-Speed clone; any other is refused.
GetDescriptor ==
    /\ packet.kind = "get"
    /\ LET first == FirstOf(Min2(Clamp(packet), Mps), Bytes(packet.item))
       IN  /\ tx' = Arm(first, 1)
           /\ reqLen' = Clamp(packet) - Len(first)
           /\ descr' = After(Len(first), Bytes(packet.item))
    /\ rx' = Answer("NAK", 0)
    /\ UNCHANGED <<newAddr, capture, excused>>

\* SET_REPORT, captured only if the relay has taken the one before.
SetReport ==
    /\ packet.kind = "set"
    /\ IF pending THEN UNCHANGED capture
       ELSE /\ capturing' = TRUE /\ captured' = CaptureStart /\ value' = packet.item
            /\ UNCHANGED pending
    /\ reqLen' = packet.len
    /\ tx' = Idle(0) /\ rx' = Answer("ACK", 1)
    /\ UNCHANGED <<descr, newAddr, excused>>

\* SET_ADDRESS and the requests without data: the status stage at once.
NoData ==
    /\ packet.kind \in {"address", "plain"}
    /\ newAddr' = IF packet.kind = "address" THEN packet.len ELSE newAddr
    /\ reqLen' = 0
    /\ tx' = ZeroLength /\ rx' = Answer("NAK", 0)
    /\ UNCHANGED <<descr, capture, excused>>

Unsupported ==
    /\ packet.kind = "bad"
    /\ tx' = [Idle(1) EXCEPT !.resp = "STALL"] /\ rx' = Answer("STALL", 1)
    /\ reqLen' = packet.len
    /\ UNCHANGED <<descr, newAddr, capture, excused>>

HandleSetup ==
    /\ irq = "setup" /\ irq' = "none"
    /\ setup' = packet
    /\ GetDescriptor \/ SetReport \/ NoData \/ Unsupported
    /\ UNCHANGED <<pc, togOk, packet, addr>>

\* A data packet was taken: the next one, or an empty one behind the last; after
\* the status stage of SET_ADDRESS the address takes effect.
HandleIn ==
    /\ irq = "in" /\ irq' = "none"
    /\ rx' = IF reqLen = 0 THEN Answer("ACK", 1) ELSE rx
    /\ IF setup.kind = "get"
       THEN LET next == FirstOf(Min2(reqLen, Mps), descr)
            IN  /\ tx' = Arm(next, NextToggle(tx.tog))
                /\ reqLen' = reqLen - Len(next) /\ descr' = After(Len(next), descr)
       ELSE UNCHANGED <<tx, reqLen, descr>>
    /\ addr' = IF setup.kind = "address" THEN newAddr ELSE addr
    /\ UNCHANGED <<pc, togOk, packet, setup, newAddr, capture, excused>>

\* An OUT packet: of a SET_REPORT it is appended, repeated or not, and the last
\* one publishes the capture.
HandleOut ==
    /\ irq = "out" /\ irq' = "none"
    /\ IF setup.kind = "set"
       THEN /\ reqLen' = IF reqLen > Mps THEN reqLen - Mps ELSE 0
            /\ captured' = IF capturing THEN FirstOf(BufMax, captured \o packet) ELSE captured
            /\ excused' = IF capturing THEN repeated > 0 ELSE excused
            /\ capturing' = (capturing /\ reqLen' # 0)
            /\ pending' = (pending \/ (capturing /\ reqLen' = 0))
       ELSE UNCHANGED <<reqLen, captured, excused, capturing, pending>>
    /\ IF reqLen' = 0 THEN tx' = ZeroLength /\ rx' = Answer("NAK", 0)
       ELSE rx' = MoreData /\ tx' = tx
    /\ UNCHANGED <<pc, togOk, packet, addr, setup, descr, newAddr, value>>

BusReset ==
    /\ Reset
    /\ addr' = 0 /\ newAddr' = 0
    /\ tx' = Idle(0) /\ rx' = Answer("ACK", 0)
    /\ capturing' = FALSE /\ pending' = FALSE /\ captured' = <<>> /\ excused' = FALSE

Handler == HandleSetup \/ HandleIn \/ HandleOut

Next == Pc \/ Release \/ Handler \/ BusReset

\* As in Ep0Fs.
Fairness ==
    /\ WF_vars(Handler) /\ WF_vars(Release) /\ WF_vars(Pc) /\ WF_vars(BusReset)

Spec == Init /\ [][Next]_vars /\ Fairness

-----------------------------------------------------------------------------
\* What is published for the relay is one whole SET_REPORT, cut to the capture
\* buffer, under its own wValue, unless the PC had to repeat one of its packets.
PublishedWhole == pending /\ ~excused => captured = FirstOf(BufMax, Bytes(value))
=============================================================================
