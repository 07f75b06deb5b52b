------------------------------- MODULE Ep0Fs -------------------------------
(***************************************************************************)
(* Endpoint 0 of the Full-Speed clone: the control part of                 *)
(* USBFS_IRQHandler (usb_device_fs.c).  The controller reports of an OUT   *)
(* packet whether its toggle was the one expected (USBFS_UIS_TOG_OK).      *)
(***************************************************************************)
EXTENDS Ep0Host

\* Mutants: a packet counts whatever its toggle, the status stage is never
\* opened, a request not clamped to its descriptor, a descriptor pointer that
\* stays, an address taken at once.
Always == TRUE
NeverOpen == rx
Unclamped(r) == r.len
Stays(n, bytes) == bytes
AtOnce == IF packet.kind = "address" THEN packet.len ELSE addr

Counts == togOk
OpenStatus == IF reqLen = 0 THEN Answer("ACK", 1) ELSE rx
Clamp(r) == Min2(r.len, Size[r.item])
Advanced(n, bytes) == After(n, bytes)
AddressAfterSetup == addr

-----------------------------------------------------------------------------
\* SETUP: the request is latched, the response chosen by its kind.

\* GET_DESCRIPTOR of a descriptor in the capture; any other is refused.
GetDescriptor ==
    /\ packet.kind = "get"
    /\ LET first == FirstOf(Min2(Clamp(packet), Mps), Bytes(packet.item))
       IN  /\ tx' = Arm(first, 1)
           /\ reqLen' = Clamp(packet) - Len(first)
           /\ descr' = Advanced(Len(first), Bytes(packet.item))
    /\ rx' = Answer("NAK", 1)
    /\ UNCHANGED <<newAddr, capture, excused>>

\* SET_REPORT, captured only if the relay has taken the one before.
SetReport ==
    /\ packet.kind = "set"
    /\ IF pending THEN UNCHANGED capture
       ELSE /\ capturing' = TRUE /\ captured' = <<>> /\ value' = packet.item
            /\ UNCHANGED pending
    /\ reqLen' = packet.len
    /\ tx' = Idle(1) /\ rx' = Answer("ACK", 1)
    /\ UNCHANGED <<descr, newAddr, excused>>

\* SET_ADDRESS and the requests without data: the status stage at once.
NoData ==
    /\ packet.kind \in {"address", "plain"}
    /\ newAddr' = IF packet.kind = "address" THEN packet.len ELSE newAddr
    /\ reqLen' = 0
    /\ tx' = ZeroLength /\ rx' = Answer("NAK", 1)
    /\ UNCHANGED <<descr, capture, excused>>

Unsupported ==
    /\ packet.kind = "bad"
    /\ tx' = [Idle(1) EXCEPT !.resp = "STALL"] /\ rx' = Answer("STALL", 1)
    /\ reqLen' = packet.len
    /\ UNCHANGED <<descr, newAddr, capture, excused>>

HandleSetup ==
    /\ irq = "setup" /\ irq' = "none"
    /\ setup' = packet
    /\ addr' = AddressAfterSetup
    /\ GetDescriptor \/ SetReport \/ NoData \/ Unsupported
    /\ UNCHANGED <<pc, togOk, packet>>

\* A data packet was taken: the next one, or an empty one behind the last; after
\* the status stage of SET_ADDRESS the address takes effect.
HandleIn ==
    /\ irq = "in" /\ irq' = "none"
    /\ rx' = OpenStatus
    /\ IF setup.kind = "get"
       THEN LET next == FirstOf(Min2(reqLen, Mps), descr)
            IN  /\ tx' = Arm(next, 1 - tx.tog)
                /\ reqLen' = reqLen - Len(next) /\ descr' = Advanced(Len(next), descr)
       ELSE UNCHANGED <<tx, reqLen, descr>>
    /\ addr' = IF setup.kind = "address" THEN newAddr ELSE addr
    /\ UNCHANGED <<pc, togOk, packet, setup, newAddr, capture, excused>>

\* An OUT packet: of a SET_REPORT it is appended, and the last one publishes the
\* capture.  The toggle moves on even when the packet did not count.
HandleOut ==
    /\ irq = "out" /\ irq' = "none"
    /\ IF Counts /\ setup.kind = "set"
       THEN /\ reqLen' = IF reqLen > Mps THEN reqLen - Mps ELSE 0
            /\ captured' = IF capturing THEN FirstOf(BufMax, captured \o packet) ELSE captured
            /\ excused' = IF capturing THEN repeated > 1 ELSE excused
            /\ capturing' = (capturing /\ reqLen' # 0)
            /\ pending' = (pending \/ (capturing /\ reqLen' = 0))
       ELSE UNCHANGED <<reqLen, captured, excused, capturing, pending>>
    /\ IF reqLen' = 0 THEN tx' = ZeroLength /\ rx' = rx
       ELSE rx' = Answer("ACK", 1 - rx.tog) /\ tx' = tx
    /\ UNCHANGED <<pc, togOk, packet, addr, setup, descr, newAddr, value>>

BusReset ==
    /\ Reset
    /\ addr' = 0 /\ newAddr' = 0
    /\ tx' = Idle(0) /\ rx' = Answer("ACK", 0)
    /\ capturing' = FALSE /\ pending' = FALSE /\ captured' = <<>> /\ excused' = FALSE

Handler == HandleSetup \/ HandleIn \/ HandleOut

Next == Pc \/ Release \/ Handler \/ BusReset

\* The PC goes on with what it began and gives up where it gets no answer; an
\* interrupt is served and the relay loop takes what is pending.
Fairness ==
    /\ WF_vars(Handler) /\ WF_vars(Release) /\ WF_vars(Pc) /\ WF_vars(BusReset)

Spec == Init /\ [][Next]_vars /\ Fairness

-----------------------------------------------------------------------------
\* What is published for the relay is one whole SET_REPORT, cut to the capture
\* buffer, under its own wValue, unless the PC had to repeat one packet twice.
PublishedWhole == pending /\ ~excused => captured = FirstOf(BufMax, Bytes(value))
=============================================================================
