---------------------------- MODULE HostControl ----------------------------
(***************************************************************************)
(* A control transfer with the real device (usb_host.c): its SETUP, its    *)
(* data and its status stage, against a wire that loses packets and        *)
(* acknowledgements, a device that answers NAK or STALL, and a port that   *)
(* reports a connect change in between.  One failed transaction ends the   *)
(* transfer; the next one begins with a SETUP of its own.  The device      *)
(* behaves as USB prescribes.                                              *)
(***************************************************************************)
EXTENDS Naturals, Sequences

CONSTANTS
    Mps,          \* bytes in a packet, the device's and desc.ep0_maxpkt
    Requests,     \* what is asked: [kind, has, len], has: bytes the device can give
    MaxTries,     \* repeats one usbhs_transact puts up with (10 in the code)
    MaxTransfers, \* bound: transfers
    MaxTrouble    \* bound: packets lost and connect changes

VARIABLES
    \* the host
    stage,    \* "idle", "setup", "in", "out", "statusIn", "statusOut"
    req,      \* the setup packet
    tog,      \* the toggle in USBHSH->CONTROL
    rem,      \* rem_len
    got,      \* the bytes read
    tries,    \* trans_retry
    result,   \* of the last transfer: "none", "ok" or "failed"
    number,   \* of the transfer
    \* the device: its stage and request, its toggle, the bytes it gave or took
    devStage, devReq, devTog, given, taken,
    acted,    \* history: how often it did what this transfer asks
    trouble

host == <<stage, req, tog, rem, got, tries, result, number>>
device == <<devStage, devReq, devTog, given, taken, acted>>
vars == <<host, device, trouble>>

Least(a, b) == IF a < b THEN a ELSE b
Bytes(n, from, to) == [i \in 1 .. (to - from) |-> <<n, from + i>>]
None == [kind |-> "none", has |-> 0, len |-> 0]
Zero == <<>>

Init ==
    /\ stage = "idle" /\ req = None /\ tog = 0 /\ rem = 0 /\ got = <<>> /\ tries = 0
    /\ result = "none" /\ number = 0
    /\ devStage = "none" /\ devReq = None /\ devTog = 0 /\ given = 0 /\ taken = <<>>
    /\ acted = 0 /\ trouble = 0

-----------------------------------------------------------------------------
\* The wire

Trouble == trouble < MaxTrouble /\ trouble' = trouble + 1
Smooth == trouble' = trouble

\* usb_host_control_transfer returns.
Return(r) == stage' = "idle" /\ result' = r

\* -1 to -5: an answer is lost or thrown away, a STALL, or the budget is spent.
Abort == Return("failed") /\ UNCHANGED <<req, tog, rem, got, tries, number>>

\* No answer, or one that a connect change makes the host ignore: nothing reached the
\* device.
Nothing ==
    /\ stage # "idle"
    /\ Trouble /\ Abort
    /\ UNCHANGED device

\* NAK until the time that is left of the whole transfer's budget is spent, or a STALL.
\* A NAK in between changes nothing.
Refused ==
    /\ stage \notin {"idle", "setup"}
    /\ Abort /\ Smooth
    /\ UNCHANGED device

-----------------------------------------------------------------------------
\* The device

\* A SETUP is always taken, whatever went on before it.
DeviceSetup ==
    /\ devReq' = req /\ devTog' = 1 /\ given' = 0 /\ taken' = <<>>
    /\ devStage' = IF req.kind \in {"in", "out"} THEN req.kind ELSE "statusIn"
    /\ acted' = IF req.kind \in {"plain", "in"} THEN 1 ELSE 0

\* The packet its endpoint holds for an IN.
Due == Least(devReq.has, devReq.len)
Packet ==
    IF devStage = "in" THEN Bytes(number, given, Least(given + Mps, Due)) ELSE Zero

\* It goes on when it hears the host's acknowledgement: an address counts from then.
DeviceGoesOn ==
    /\ devTog' = 1 - devTog
    /\ given' = given + Len(Packet)
    /\ devStage' = IF devStage = "statusIn" THEN "none" ELSE devStage
    /\ acted' = IF devStage = "statusIn" /\ devReq.kind = "address" THEN 1 ELSE acted
    /\ UNCHANGED <<devReq, taken>>

\* An OUT packet of the expected toggle is taken, any other acknowledged as a repeat.
DeviceTakes(p, t) ==
    LET all == taken \o p IN
    /\ IF devStage = "out" /\ t = devTog
       THEN /\ taken' = all /\ devTog' = IF Len(all) < devReq.len THEN 1 - devTog ELSE 1
            /\ devStage' = IF Len(all) < devReq.len THEN "out" ELSE "statusIn"
            /\ acted' = IF Len(all) < devReq.len THEN acted ELSE acted + 1
       ELSE UNCHANGED <<taken, devTog, devStage, acted>>
    /\ UNCHANGED <<devReq, given>>

-----------------------------------------------------------------------------
\* usb_host_control_transfer

Begin(r) ==
    /\ stage = "idle" /\ number < MaxTransfers
    /\ stage' = "setup" /\ req' = r /\ number' = number + 1
    /\ rem' = r.len /\ got' = <<>> /\ tries' = 0 /\ result' = "none"
    /\ UNCHANGED <<tog, device, trouble>>

\* Mutants: the data stage begins with DATA0; its toggle stays.
FirstIsZero == 0
ToggleStays == tog

FirstToggle == 1
NextToggle == 1 - tog
Short(p) == Len(p) = 0 \/ Len(p) % Mps # 0

\* The SETUP is acknowledged; where the status stage goes is told by TX_LEN.
Setup ==
    /\ stage = "setup"
    /\ DeviceSetup
    /\ \/ /\ Smooth
          /\ stage' = IF req.kind \in {"in", "out"} THEN req.kind ELSE "statusIn"
          /\ tog' = FirstToggle
          /\ UNCHANGED <<req, rem, got, tries, result, number>>
       \/ Trouble /\ Abort

\* A packet whose toggle is not the one asked for is a repeat: the token again.
Repeat ==
    /\ tries' = tries + 1
    /\ IF tries' = MaxTries THEN Return("failed") ELSE UNCHANGED <<stage, result>>
    /\ UNCHANGED <<req, tog, rem, got, number>>

\* The device answers an IN of the data stage.  The host acknowledges, heard or not.
ReadPacket ==
    /\ stage = "in" /\ devStage = "in"
    /\ \/ DeviceGoesOn /\ Smooth
       \/ Trouble /\ UNCHANGED device
    /\ IF devTog # tog THEN Repeat
       ELSE LET n == Least(Len(Packet), rem) IN
            /\ got' = got \o SubSeq(Packet, 1, n)
            /\ rem' = rem - n
            /\ tog' = NextToggle
            /\ stage' = IF rem' = 0 \/ Short(Packet) THEN "statusOut" ELSE "in"
            /\ tries' = 0
            /\ UNCHANGED <<req, result, number>>

WritePacket ==
    /\ stage = "out"
    /\ LET n == Least(rem, Mps)
           from == req.len - rem
       IN  /\ DeviceTakes(Bytes(number, from, from + n), tog)
           /\ \/ /\ Smooth
                 /\ rem' = rem - n /\ tog' = NextToggle
                 /\ stage' = IF rem' = 0 THEN "statusIn" ELSE "out"
                 /\ UNCHANGED <<req, got, tries, result, number>>
              \/ Trouble /\ Abort

\* The status stage: an empty packet, DATA1, against the direction of the data.
StatusIn ==
    /\ stage = "statusIn" /\ devStage = "statusIn"
    /\ \/ DeviceGoesOn /\ Smooth
       \/ Trouble /\ UNCHANGED device
    /\ IF devTog # 1 THEN Repeat
       ELSE Return("ok") /\ UNCHANGED <<req, tog, rem, got, tries, number>>

\* A device in its data stage takes an OUT for the end of it.
StatusOut ==
    /\ stage = "statusOut" /\ devStage = "in"
    /\ devStage' = "none" /\ UNCHANGED <<devReq, devTog, given, taken, acted>>
    /\ \/ Smooth /\ Return("ok") /\ UNCHANGED <<req, tog, rem, got, tries, number>>
       \/ Trouble /\ Abort

\* A connect change makes the host throw away an answer it has acknowledged.
Glitch ==
    /\ \/ stage = "in" /\ devStage = "in"
       \/ stage = "statusIn" /\ devStage = "statusIn"
    /\ Trouble /\ DeviceGoesOn /\ Abort

Next ==
    \/ \E r \in Requests : Begin(r)
    \/ Setup \/ ReadPacket \/ WritePacket \/ StatusIn \/ StatusOut
    \/ Nothing \/ Refused \/ Glitch

Spec == Init /\ [][Next]_vars

-----------------------------------------------------------------------------
TypeOK ==
    /\ stage \in {"idle", "setup", "in", "out", "statusIn", "statusOut"}
    /\ devStage \in {"none", "in", "out", "statusIn"}
    /\ {req, devReq} \subseteq Requests \cup {None} /\ {tog, devTog} \subseteq {0, 1}
    /\ rem + Len(got) <= req.len + Mps /\ tries \in 0 .. MaxTries
    /\ result \in {"none", "ok", "failed"} /\ number \in 0 .. MaxTransfers

\* What Enumeration takes for one step: a transfer that succeeds has read exactly what
\* the device had to give, each byte once and none of an earlier transfer's, or written
\* all its bytes, and the device has done once what was asked; but for an address whose
\* status packet the device does not know acknowledged (usb_host.c:438-494).
TransferWhole ==
    result = "ok" =>
        /\ req.kind = "in" => got = Bytes(number, 0, Least(req.has, req.len))
        /\ req.kind = "out" => taken = Bytes(number, 0, req.len)
        /\ acted = 1 \/ (req.kind = "address" /\ acted = 0 /\ trouble > 0)
=============================================================================
