------------------------------- MODULE UsbCdc -------------------------------
(***************************************************************************)
(* Board B's command port (usb_cdc_fs.c): bulk packets of command bytes    *)
(* from the PC and of response bytes to it, each with a ring between the   *)
(* endpoint and the parser.  The relay loop (two_board.c) reads the ring   *)
(* empty, then polls the endpoints; the interrupt handler runs between any *)
(* two of its steps.  An action of the PC is a transaction together with   *)
(* the handler run it causes.  No handshake is lost on this port.          *)
(***************************************************************************)
EXTENDS Naturals, Sequences

CONSTANTS
    RxRingBytes, TxRingBytes, \* ring sizes, one byte stays free (512 in the code)
    Bulk,          \* bytes of a full packet, and of the loop's buffer (64)
    CdcResponses,  \* bytes the parser may answer to what it is fed
    MaxCommands,   \* bound: command bytes
    MaxControls    \* bound: resets and requests of the PC

VARIABLES
    \* the port
    configured,  \* s_configured
    outResp,     \* response field of RX_CTRL(EP2)
    outBuf,      \* EP2's DMA buffer up to s_ep2_rx_len
    outPend,     \* s_ep2_rx_pend
    rxRing, txRing,
    inResp, inTog, \* response and toggle of TX_CTRL(EP3)
    inBuf,       \* EP3's DMA buffer up to its length
    ctrl,        \* the toggle cdc_fs_poll read from TX_CTRL(EP3)
    at,          \* where the loop is
    \* the PC
    sent,        \* command bytes it has sent, numbered from 1
    pcTog,       \* the toggle it expects next
    controls,
    \* history
    fed,         \* the bytes the parser got
    answered,    \* response bytes the ring took, numbered from 1
    got,         \* the response bytes the PC got
    exposed,     \* command bytes hit when the PC itself reset or re-opened the endpoint
    reopened,    \* it did so over a waiting packet, or in the middle of a poll
    excused,     \* response bytes likewise
    skewed       \* toggles may differ: the PC restarted its own alone

outEp == <<outResp, outBuf, outPend>>
inEp == <<inResp, inTog, inBuf>>
pcSide == <<sent, pcTog, controls>>
history == <<fed, answered, got, exposed, reopened, excused,
             skewed>>
vars == <<configured, outEp, rxRing, txRing, inEp, ctrl, at, pcSide, history>>

Items(s) == {s[i] : i \in DOMAIN s}
Smaller(a, b) == IF a < b THEN a ELSE b
First(s, n) == SubSeq(s, 1, Smaller(n, Len(s)))
Rest(s, n) == SubSeq(s, n + 1, Len(s))
Numbers(from, n) == [i \in 1 .. n |-> from + i]

Init ==
    /\ configured = FALSE
    /\ outResp = "ACK" /\ outBuf = <<>> /\ outPend = FALSE
    /\ rxRing = <<>> /\ txRing = <<>>
    /\ inResp = "NAK" /\ inTog = 0 /\ inBuf = <<>> /\ ctrl = 0
    /\ at = "read"
    /\ sent = 0 /\ pcTog = 0 /\ controls = 0
    /\ fed = <<>> /\ answered = 0 /\ got = <<>>
    /\ exposed = {} /\ reopened = FALSE /\ excused = {} /\ skewed = FALSE

-----------------------------------------------------------------------------
\* The relay loop

Room(ring, size) == size - 1 - Len(ring)

\* Mutant: the endpoint is opened before the flag is cleared.
OpenFirst == <<"open", "clear">>
DrainOrder == <<"clear", "open">>

\* cdc_fs_rx_read, and proto_feed of what it brought: the parser's answer goes through
\* cdc_fs_tx_write, which takes what there is room for.
Read ==
    /\ at = "read" /\ rxRing # <<>>
    /\ LET batch == First(rxRing, Bulk) IN
           /\ fed' = fed \o batch
           /\ rxRing' = Rest(rxRing, Len(batch))
    /\ \E n \in CdcResponses :
           LET fits == Smaller(n, Room(txRing, TxRingBytes)) IN
               /\ txRing' = txRing \o Numbers(answered, fits)
               /\ answered' = answered + fits
    /\ UNCHANGED <<configured, outEp, inEp, ctrl, at, pcSide, got, exposed,
                   reopened, excused, skewed>>

ReadEmpty ==
    /\ at = "read" /\ rxRing = <<>>
    /\ at' = "drain"
    /\ UNCHANGED <<configured, outEp, rxRing, txRing, inEp, ctrl, pcSide, history>>

\* cdc_fs_poll, first half: what does not fit the ring is dropped.
Drain ==
    /\ at = "drain"
    /\ IF outPend
       THEN /\ rxRing' = rxRing \o First(outBuf, Room(rxRing, RxRingBytes))
            /\ at' = DrainOrder[1]
       ELSE at' = "load" /\ UNCHANGED rxRing
    /\ UNCHANGED <<configured, outEp, txRing, inEp, ctrl, pcSide, history>>

AfterDrain(step) == IF step = DrainOrder[1] THEN DrainOrder[2] ELSE "load"

ClearPending ==
    /\ at = "clear"
    /\ outPend' = FALSE
    /\ at' = AfterDrain("clear")
    /\ exposed' = IF reopened THEN exposed \cup Items(outBuf) ELSE exposed
    /\ UNCHANGED <<configured, outResp, outBuf, rxRing, txRing, inEp, ctrl, pcSide, fed,
                   answered, got, reopened, excused, skewed>>

OpenOut ==
    /\ at = "open"
    /\ outResp' = "ACK"
    /\ at' = AfterDrain("open")
    /\ UNCHANGED <<configured, outBuf, outPend, rxRing, txRing, inEp, ctrl, pcSide, history>>

\* Second half: an idle endpoint gets the next packet; its control register is read
\* and written back.  Mutant: loaded although a packet is armed.
LoadAnyTime == configured /\ txRing # <<>>
MayLoad == configured /\ txRing # <<>> /\ inResp = "NAK"

Load ==
    /\ at = "load"
    /\ IF MayLoad
       THEN /\ inBuf' = First(txRing, Bulk)
            /\ txRing' = Rest(txRing, Len(inBuf'))
            /\ ctrl' = inTog
            /\ at' = "arm"
       ELSE at' = "read" /\ UNCHANGED <<inBuf, txRing, ctrl>>
    /\ reopened' = (reopened /\ outPend)
    /\ UNCHANGED <<configured, outEp, rxRing, inResp, inTog, pcSide, fed, answered, got,
                   exposed, excused, skewed>>

Arm ==
    /\ at = "arm"
    /\ inResp' = "ACK" /\ inTog' = ctrl
    /\ at' = "read"
    /\ UNCHANGED <<configured, outEp, rxRing, txRing, inBuf, ctrl, pcSide, history>>

-----------------------------------------------------------------------------
\* The PC and USBFS_IRQHandler

\* A bulk OUT packet.  Mutant: the endpoint stays open over it.
StayOpen == "ACK"
AfterOut == "NAK"

Command ==
    /\ configured /\ outResp = "ACK"
    /\ \E n \in 1 .. Bulk :
           /\ sent + n <= MaxCommands
           /\ sent' = sent + n
           /\ outBuf' = Numbers(sent, n)
    /\ exposed' = IF reopened /\ outPend
                  THEN exposed \cup Items(outBuf) \cup Items(outBuf')
                  ELSE exposed
    /\ outPend' = TRUE
    /\ outResp' = AfterOut
    /\ UNCHANGED <<configured, rxRing, txRing, inEp, ctrl, at, pcTog, controls, fed,
                   answered, got, reopened, excused, skewed>>

\* A bulk IN packet: the PC acknowledges one of the wrong toggle, too, and drops it.
Response ==
    /\ configured /\ inResp = "ACK"
    /\ IF pcTog = inTog
       THEN got' = got \o inBuf /\ pcTog' = 1 - pcTog /\ UNCHANGED <<excused, skewed>>
       ELSE /\ excused' = IF skewed THEN excused \cup Items(inBuf) ELSE excused
            /\ skewed' = FALSE
            /\ UNCHANGED <<got, pcTog>>
    /\ inResp' = "NAK" /\ inTog' = 1 - inTog
    /\ UNCHANGED <<configured, outEp, rxRing, txRing, inBuf, ctrl, at, sent, controls,
                   fed, answered, exposed, reopened>>

Control == controls < MaxControls /\ controls' = controls + 1

\* The packet that is armed, or about to be.
InFlight == IF inResp = "ACK" \/ at = "arm" THEN Items(inBuf) ELSE {}
Waiting == IF outPend THEN Items(outBuf) ELSE {}
Reopen ==
    /\ outResp' = "ACK"
    /\ exposed' = exposed \cup Waiting
    /\ reopened' = (reopened \/ outPend \/ at \in {"clear", "open"})

\* Bus reset: cdc_endp_init; the rings keep what they hold.
BusReset ==
    /\ Control
    /\ configured' = FALSE
    /\ Reopen /\ outPend' = FALSE
    /\ inResp' = "NAK" /\ inTog' = 0 /\ pcTog' = 0
    /\ excused' = excused \cup InFlight
    /\ skewed' = (at = "arm")
    /\ UNCHANGED <<outBuf, rxRing, txRing, inBuf, ctrl, at, sent, fed, answered, got>>

\* SET_CONFIGURATION: the PC starts its toggles over, the handler does not.
SetConfiguration(on) ==
    /\ Control
    /\ configured' = on
    /\ pcTog' = 0 /\ skewed' = TRUE
    /\ UNCHANGED <<outEp, rxRing, txRing, inEp, ctrl, at, sent, fed, answered, got,
                   exposed, reopened, excused>>

\* CLEAR_FEATURE(ENDPOINT_HALT): opens EP2 over a packet that waits, disarms EP3.
ClearHaltOut ==
    /\ Control /\ configured
    /\ Reopen
    /\ UNCHANGED <<configured, outBuf, outPend, rxRing, txRing, inEp, ctrl, at, sent,
                   pcTog, fed, answered, got, excused, skewed>>

ClearHaltIn ==
    /\ Control /\ configured
    /\ inResp' = "NAK" /\ inTog' = 0 /\ pcTog' = 0
    /\ excused' = excused \cup InFlight
    /\ skewed' = (at = "arm")
    /\ UNCHANGED <<configured, outEp, rxRing, txRing, inBuf, ctrl, at, sent, fed,
                   answered, got, exposed, reopened>>

Handler ==
    \/ Command \/ Response \/ BusReset \/ ClearHaltOut \/ ClearHaltIn
    \/ \E on \in BOOLEAN : SetConfiguration(on)

Next == Read \/ ReadEmpty \/ Drain \/ ClearPending \/ OpenOut \/ Load \/ Arm \/ Handler

-----------------------------------------------------------------------------
TypeOK ==
    /\ configured \in BOOLEAN /\ outPend \in BOOLEAN
    /\ reopened \in BOOLEAN /\ skewed \in BOOLEAN
    /\ {outResp, inResp} \subseteq {"ACK", "NAK"}
    /\ {inTog, ctrl, pcTog} \subseteq 0 .. 1
    /\ Len(rxRing) < RxRingBytes /\ Len(txRing) < TxRingBytes
    /\ Len(outBuf) <= Bulk /\ Len(inBuf) <= Bulk
    /\ at \in {"read", "drain", "clear", "open", "load", "arm"}

Increasing(s) == \A i, j \in DOMAIN s : i < j => s[i] < s[j]

\* The parser gets every command byte once and in order although cdc_fs_poll drops what
\* the ring has no room for: the endpoint NAKs until its packet is out (usb_cdc_fs.c:
\* 320-336, 433-447) and the loop empties the ring first (two_board.c:457-462).  Only a
\* reset or a cleared halt over a packet that waits may cost that packet and the next.
CommandsArrive ==
    /\ Increasing(fed \o rxRing)
    /\ 1 .. sent \subseteq Items(fed) \cup Items(rxRing) \cup Waiting \cup exposed

\* And the PC gets every response byte the ring took, once and in order, but for the
\* packet in flight when the PC itself resets the endpoint, or one of its toggles.
ResponsesArrive ==
    /\ Increasing(got)
    /\ 1 .. answered \subseteq Items(got) \cup Items(txRing) \cup InFlight \cup excused

PortIntact == CommandsArrive /\ ResponsesArrive
=============================================================================
