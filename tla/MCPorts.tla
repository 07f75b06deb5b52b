------------------------------ MODULE MCPorts ------------------------------
(***************************************************************************)
(* The two ports a host talks to with the means of a register: the command *)
(* UART, receive (UartRx) and transmit (UartTx), and endpoint 0 of the     *)
(* clone on either controller (Ep0Fs, Ep0Hs).  They share neither a        *)
(* variable nor an interrupt source, so a behaviour exercises one of them, *)
(* chosen at the start: interleaving them would add states and no          *)
(* behaviour of any.                                                       *)
(***************************************************************************)
EXTENDS UartRx

CONSTANTS TxRingBytes, ResponseSizes, Baud, DefaultBaud, MaxTxBytes, MaxBauds,
          Mps, BufMax, MaxRequests, MaxLost, MaxAborts

ASSUME TxAssumption ==
    /\ TxRingBytes \in Nat \ {0} /\ ResponseSizes \subseteq Nat /\ MaxTxBytes \in Nat
    /\ MaxBauds \in Nat

\* Packets of endpoint 0 hold something; the capture buffer has a size (64 bytes, 256).
ASSUME PacketAssumption == Mps \in Nat \ {0} /\ BufMax \in Nat

\* The bounds on requests, lost acknowledgements and early time-outs are numbers.
ASSUME TroubleAssumption == {MaxRequests, MaxLost, MaxAborts} \subseteq Nat

VARIABLES
    part,       \* the port this behaviour exercises
    \* UartTx
    txPc, resp, pending, empty, txRing, txeOn, txDr, shift, baud, offered, asked,
    admitted, line,
    \* Ep0Host
    stage, req, got, written, pcTog, pcAddr, requests, lost, aborts, unheard, repeated,
    irq, togOk, packet, tx, rx, addr, setup, reqLen, descr, newAddr, capturing,
    published, captured, value, excused

\* With packets of two bytes: a descriptor that ends in a short packet and one that
\* ends in a full one, a SET_REPORT of three packets, of one, and one longer than
\* the capture buffer.
Sizes == [short |-> 3, even |-> 4, config |-> 5, byte |-> 1]

Ask(kind, item, len) == [kind |-> kind, item |-> item, len |-> len]

Asked ==
    {Ask("get", "short", 6), Ask("get", "even", 6), Ask("get", "even", 2),
     Ask("set", "config", 5), Ask("set", "byte", 1),
     Ask("address", "none", 1), Ask("plain", "none", 0), Ask("bad", "none", 2)}

Tx == INSTANCE UartTx WITH
        RingBytes <- TxRingBytes, MaxBytes <- MaxTxBytes, pc <- txPc, ring <- txRing,
        dr <- txDr

Fs == INSTANCE Ep0Fs WITH
        sent <- written, pending <- published, Size <- Sizes, Requests <- Asked
Hs == INSTANCE Ep0Hs WITH
        sent <- written, pending <- published, Size <- Sizes, Requests <- Asked

txvars == <<txPc, resp, pending, empty, txRing, txeOn, txDr, shift, baud, offered,
            asked, admitted, line>>
ep0vars == <<stage, req, got, written, pcTog, pcAddr, requests, lost, aborts, unheard,
             repeated, irq, togOk, packet, tx, rx, addr, setup, reqLen, descr, newAddr,
             capturing, published, captured, value, excused>>

MCInit == part \in {"rx", "tx", "fs", "hs"} /\ Init /\ Tx!Init /\ Fs!Init

InRx(A) == part = "rx" /\ A /\ UNCHANGED <<part, txvars, ep0vars>>
InTx(A) == part = "tx" /\ A /\ UNCHANGED <<part, vars, ep0vars>>
InEp0(F, H) ==
    /\ (part = "fs" /\ F) \/ (part = "hs" /\ H)
    /\ UNCHANGED <<part, vars, txvars>>

MCNext == InRx(Next) \/ InTx(Tx!Next) \/ InEp0(Fs!Next, Hs!Next)

\* The fairness of the parts: UartRx!Fairness, UartTx!Fairness, Ep0Fs!Fairness.
all == <<part, vars, txvars, ep0vars>>
MCSpec ==
    /\ MCInit /\ [][MCNext]_all
    /\ WF_all(InRx(Foreground)) /\ WF_all(InRx(RxInterrupt)) /\ WF_all(InRx(LineQuiet))
    /\ WF_all(InTx(Tx!PublishHead \/ Tx!EnableTxe \/ Tx!Flush))
    /\ WF_all(InTx(Tx!TxInterrupt)) /\ WF_all(InTx(Tx!Shift)) /\ WF_all(InTx(Tx!StopBit))
    /\ WF_all(InEp0(Fs!Handler, Hs!Handler)) /\ WF_all(InEp0(Fs!Release, Hs!Release))
    /\ WF_all(InEp0(Fs!Pc, Hs!Pc)) /\ WF_all(InEp0(Fs!BusReset, Hs!BusReset))

\* Rings, registers and lengths keep their ranges (uart.c's and the drivers' statics).
TypesOK == TypeOK /\ Tx!TypeOK /\ Fs!TypeOK

\* UartRx: before the first loss every byte is held somewhere, and past a loss the
\* parser never reads across a hole (uart.c:60-155, kmbox_cmd.c:48-84).
ParserSeesNoHole == NoHoleInParser /\ CleanLineLosesNothing

\* UartTx: admitted responses leave whole and in order, and no byte is cut by a
\* change of the baud rate (uart.c:166-202, 242-249).
ResponsesLeaveWhole == Tx!WholeResponses /\ Tx!NoByteCutByBaud

\* Ep0Host, Ep0Fs, Ep0Hs: a descriptor the PC has read is the one it asked for, and what
\* the relay is given is one whole SET_REPORT (usb_device_fs.c:434-466, 488-538, 719-728;
\* usb_device_hs.c:589-622, 796-805, 973-1013).
DataStagesWhole ==
    /\ Fs!DescriptorWhole
    /\ part = "fs" => Fs!PublishedWhole
    /\ part = "hs" => Hs!PublishedWhole

\* UartTx: admitted responses and asked-for rates get their turn (uart.c:180-202).
EverythingSent == Tx!EverythingSent

\* Ep0Host: the PC gets done with every request (USBFS_IRQHandler, USBHS_IRQHandler).
ControlFinishes == Fs!ControlFinishes
=============================================================================
