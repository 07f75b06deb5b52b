----------------------------- MODULE UsbDevice -----------------------------
(***************************************************************************)
(* The cloned device's USB controller (usb_device_fs.c; UsbDeviceHs says   *)
(* where usb_device_hs.c differs): one interrupt IN endpoint, one          *)
(* interrupt OUT endpoint and the capture of SET_REPORT on endpoint 0,     *)
(* whose packets Ep0Fs and Ep0Hs take apart.  The relay loop and the       *)
(* interrupt handler share the endpoint registers without a lock.  An      *)
(* action of the PC is a transaction on the wire together with the         *)
(* handler run it causes: the controller answers nothing until the handler *)
(* has acknowledged the transaction (USBFS_UC_INT_BUSY).                   *)
(***************************************************************************)
EXTENDS Integers, Sequences

CONSTANTS MaxPackets,  \* bound: OUT packets and SET_REPORTs the PC sends
          Parts        \* data packets of one SET_REPORT

VARIABLES
    \* the handler's state and the endpoint registers
    configured,  \* s_configured
    mapped,      \* the endpoints' bits of s_in_ep_mask, s_out_ep_mask, UEPx_MOD
    inResp,      \* response field of TX_CTRL(ep)
    inTog,       \* toggle bit of TX_CTRL(ep)
    outResp,     \* response field of RX_CTRL(ep)
    outBuf,      \* the OUT packet in the endpoint's DMA buffer
    outPend,     \* s_out_rx_pend
    reqLeft,     \* data packets of the SET_REPORT still to come, from SetupReqLen
    capturing,   \* s_ep0_rpt_capturing
    pending,     \* s_ep0_rpt_pending
    captured,    \* s_ep0_rpt_buf up to s_ep0_rpt_len
    value,       \* s_ep0_rpt_value
    \* the PC
    pcTog,       \* the toggle it expects next on the IN endpoint
    packets, writes,  \* OUT packets and SET_REPORTs sent so far; a repeat counts as
                      \* another packet: the handler does not tell it by its toggle
    \* the relay loop
    at,          \* where it is
    ctrl,        \* TX_CTRL's toggle as read by usbfsd_send_report
    outTaken,    \* the packet that was pending when it polled
    report,      \* wValue and what it has read of the SET_REPORT
    \* history
    fresh,       \* no SET_CONFIGURATION since the bus reset
    skewed,      \* the toggles may differ, until the next report is taken: a reset
                 \* or a cleared halt hit the arming of one with DATA1, or the PC
                 \* configured without a reset
    handed, flushed,  \* OUT packets given to the relay, discarded by the PC
    exposed,     \* a reset or a cleared halt opened the OUT endpoint over a pending
                 \* packet, or between the relay's taking one and re-arming
    cut          \* a bus reset hit while a SET_REPORT was being forwarded

device == <<configured, mapped>>
inEp == <<inResp, inTog>>
outEp == <<outResp, outBuf, outPend>>
ep0 == <<reqLeft, capturing, pending, captured, value>>
relay == <<at, ctrl, outTaken, report>>
history == <<fresh, skewed, handed, flushed, exposed, cut>>
vars == <<device, inEp, outEp, ep0, pcTog, packets, writes, relay, history>>

Forwarding == at \in {"forward", "done"}

\* Mutants: an IN completion that keeps its toggle, an OUT completion that
\* keeps acknowledging, a capture started over a report that awaits the relay.
SameToggle(t) == t
KeepAcking == "ACK"
AnyTime == TRUE

Flip(t) == 1 - t
AfterOut == "NAK"
MayCapture == ~pending

-----------------------------------------------------------------------------
\* The PC and USBFS_IRQHandler

\* The relay is about to write back DATA1.
ArmingOne == at = "arm" /\ ctrl = 1

\* The relay has taken an OUT packet and not yet re-armed the endpoint.
Reopening == at = "reopen"

\* Bus reset: usbfs_endp_init maps the endpoints again, at DATA0.
BusReset ==
    /\ configured' = FALSE /\ mapped' = TRUE
    /\ inResp' = "NAK" /\ inTog' = 0
    /\ outResp' = "ACK" /\ outPend' = FALSE
    /\ capturing' = FALSE /\ pending' = FALSE /\ captured' = <<>>
    /\ reqLeft' = 0
    /\ pcTog' = 0
    /\ fresh' = TRUE
    /\ skewed' = ArmingOne
    /\ flushed' = IF outPend THEN flushed + 1 ELSE flushed
    /\ exposed' = Reopening
    /\ cut' = (cut \/ Forwarding)
    /\ UNCHANGED <<outBuf, value, packets, writes, relay, handed>>

\* A SETUP that carries no data: what it leaves of a SET_REPORT cut short.
NoData == reqLeft' = 0 /\ UNCHANGED <<capturing, pending, captured, value>>

\* SET_CONFIGURATION: zero drops the endpoint map, nothing restores it.  The PC
\* starts its toggles over, the handler does not.
SetConfiguration(on) ==
    /\ configured' = on
    /\ mapped' = (mapped /\ on)
    /\ pcTog' = 0
    /\ fresh' = FALSE
    /\ skewed' = (skewed \/ ~fresh)
    /\ NoData
    /\ UNCHANGED <<inEp, outEp, packets, writes, relay, handed, flushed, exposed,
                   cut>>

\* SET_FEATURE(ENDPOINT_HALT)
HaltIn ==
    /\ configured /\ mapped
    /\ inResp' = "STALL"
    /\ NoData
    /\ UNCHANGED <<device, inTog, outEp, pcTog, packets, writes, relay, history>>

HaltOut ==
    /\ configured /\ mapped
    /\ outResp' = "STALL"
    /\ NoData
    /\ UNCHANGED <<device, inEp, outBuf, outPend, pcTog, packets, writes, relay,
                   history>>

\* CLEAR_FEATURE(ENDPOINT_HALT): both sides start the toggle over.
ClearHaltIn ==
    /\ configured /\ mapped
    /\ inResp' = "NAK" /\ inTog' = 0
    /\ pcTog' = 0
    /\ skewed' = ArmingOne
    /\ NoData
    /\ UNCHANGED <<device, outEp, packets, writes, relay, fresh, handed, flushed,
                   exposed, cut>>

\* The OUT endpoint acknowledges again even with a packet still pending, which
\* the PC's next one replaces.
ClearHaltOut ==
    /\ configured /\ mapped
    /\ outResp' = "ACK"
    /\ exposed' = (outPend \/ Reopening)
    /\ NoData
    /\ UNCHANGED <<device, inEp, outBuf, outPend, pcTog, packets, writes, relay,
                   fresh, skewed, handed, flushed, cut>>

\* The PC takes the armed report; one with the wrong toggle it drops as a repeat,
\* after which the toggles agree.
TakeReport ==
    /\ configured /\ mapped /\ inResp = "ACK"
    /\ inResp' = "NAK"
    /\ inTog' = Flip(inTog)
    /\ pcTog' = IF inTog = pcTog THEN 1 - pcTog ELSE pcTog
    /\ skewed' = FALSE
    /\ UNCHANGED <<device, outEp, ep0, packets, writes, relay, fresh, handed, flushed,
                   exposed, cut>>

\* An OUT packet, new or repeated, lands in the DMA buffer; the handler latches it.
OutPacket ==
    /\ configured /\ mapped /\ outResp = "ACK"
    /\ packets < MaxPackets
    /\ packets' = packets + 1
    /\ outBuf' = packets + 1
    /\ outPend' = TRUE
    /\ outResp' = AfterOut
    /\ flushed' = IF exposed /\ outPend THEN flushed + 1 ELSE flushed
    /\ exposed' = (exposed /\ Reopening)
    /\ UNCHANGED <<device, inEp, ep0, pcTog, writes, relay, fresh, skewed, handed,
                   cut>>

\* SETUP of a SET_REPORT; any earlier control transfer is abandoned.
SetReport ==
    /\ configured
    /\ writes < MaxPackets
    /\ writes' = writes + 1
    /\ reqLeft' = Parts
    /\ IF MayCapture
       THEN /\ capturing' = TRUE /\ captured' = <<>> /\ value' = writes + 1
            /\ cut' = (cut /\ Forwarding)
       ELSE UNCHANGED <<capturing, captured, value, cut>>
    /\ UNCHANGED <<device, inEp, outEp, pending, pcTog, packets, relay, fresh,
                   skewed, handed, flushed, exposed>>

\* One data packet of it.
ReportData ==
    /\ reqLeft > 0
    /\ reqLeft' = reqLeft - 1
    /\ captured' = IF capturing
                   THEN Append(captured, <<writes, Parts - reqLeft + 1>>)
                   ELSE captured
    /\ IF capturing /\ reqLeft = 1
       THEN capturing' = FALSE /\ pending' = TRUE
       ELSE UNCHANGED <<capturing, pending>>
    /\ UNCHANGED <<device, inEp, outEp, value, pcTog, packets, writes, relay,
                   history>>

-----------------------------------------------------------------------------
\* The relay loop

\* usbfsd_send_report, guards and copy: the endpoint is NAKing.
SendReport ==
    /\ at = "loop"
    /\ mapped /\ configured /\ inResp = "NAK"
    /\ at' = "copied"
    /\ UNCHANGED <<device, inEp, outEp, ep0, pcTog, packets, writes, ctrl,
                   outTaken, report, history>>

\* It arms with a read and a write of TX_CTRL, keeping the toggle it read.
ReadControl ==
    /\ at = "copied"
    /\ ctrl' = inTog
    /\ at' = "arm"
    /\ UNCHANGED <<device, inEp, outEp, ep0, pcTog, packets, writes, outTaken,
                   report, history>>

WriteControl ==
    /\ at = "arm"
    /\ inResp' = "ACK" /\ inTog' = ctrl
    /\ at' = "loop"
    /\ UNCHANGED <<device, outEp, ep0, pcTog, packets, writes, ctrl, outTaken,
                   report, history>>

\* usbfsd_poll_out takes the packet that is pending,
PollOut ==
    /\ at = "loop"
    /\ mapped /\ outPend
    /\ outPend' = FALSE
    /\ outTaken' = outBuf
    /\ handed' = handed + 1
    /\ at' = "reopen"
    /\ UNCHANGED <<device, inEp, outResp, outBuf, ep0, pcTog, packets, writes, ctrl,
                   report, fresh, skewed, flushed, exposed, cut>>

\* and re-arms the endpoint before the caller reads the buffer.
ReopenOut ==
    /\ Reopening
    /\ outResp' = "ACK"
    /\ exposed' = (exposed /\ outPend)
    /\ at' = "out"
    /\ UNCHANGED <<device, inEp, outBuf, outPend, ep0, pcTog, packets, writes, ctrl,
                   outTaken, report, fresh, skewed, handed, flushed, cut>>

\* usb_host_interrupt_out_send reads the buffer.
ForwardOut ==
    /\ at = "out"
    /\ at' = "loop"
    /\ UNCHANGED <<device, inEp, outEp, ep0, pcTog, packets, writes, ctrl,
                   outTaken, report, history>>

\* usbfsd_poll_ep0_report
PollReport ==
    /\ at = "loop"
    /\ pending /\ captured # <<>>
    /\ report' = [value |-> value, len |-> Len(captured), read |-> <<>>]
    /\ at' = "forward"
    /\ UNCHANGED <<device, inEp, outEp, ep0, pcTog, packets, writes, ctrl,
                   outTaken, history>>

\* usb_host_control_transfer sends the payload packet by packet; what lies
\* beyond the captured length is what the buffer held before.
ForwardPart ==
    /\ at = "forward"
    /\ LET n == Len(report.read) + 1
       IN  /\ report' = [report EXCEPT !.read = Append(@,
                            IF n <= Len(captured) THEN captured[n] ELSE <<0, n>>)]
           /\ at' = IF n = report.len THEN "done" ELSE "forward"
    /\ UNCHANGED <<device, inEp, outEp, ep0, pcTog, packets, writes, ctrl,
                   outTaken, history>>

\* usbfsd_ep0_report_done
ReportDone ==
    /\ at = "done"
    /\ captured' = <<>> /\ pending' = FALSE
    /\ at' = "loop"
    /\ UNCHANGED <<device, inEp, outEp, reqLeft, capturing, value, pcTog, packets,
                   writes, ctrl, outTaken, report, history>>

-----------------------------------------------------------------------------
\* usbfsd_init has run; the PC has not seen the device yet.
Init ==
    /\ configured = FALSE /\ mapped = TRUE
    /\ inResp = "NAK" /\ inTog = 0
    /\ outResp = "ACK" /\ outBuf = 0 /\ outPend = FALSE
    /\ reqLeft = 0 /\ capturing = FALSE /\ pending = FALSE
    /\ captured = <<>> /\ value = 0
    /\ pcTog = 0 /\ packets = 0 /\ writes = 0
    /\ at = "loop" /\ ctrl = 0 /\ outTaken = 0
    /\ report = [value |-> 0, len |-> 0, read |-> <<>>]
    /\ fresh = TRUE /\ skewed = FALSE /\ handed = 0 /\ flushed = 0
    /\ exposed = FALSE /\ cut = FALSE

Handler ==
    \/ BusReset
    \/ \E on \in BOOLEAN : SetConfiguration(on)
    \/ HaltIn \/ HaltOut \/ ClearHaltIn \/ ClearHaltOut
    \/ TakeReport \/ OutPacket \/ SetReport \/ ReportData

Relay ==
    \/ SendReport \/ ReadControl \/ WriteControl
    \/ PollOut \/ ReopenOut \/ ForwardOut
    \/ PollReport \/ ForwardPart \/ ReportDone

Next == Handler \/ Relay

Spec == Init /\ [][Next]_vars

-----------------------------------------------------------------------------
Piece == Nat \X Nat

TypeOK ==
    /\ configured \in BOOLEAN /\ mapped \in BOOLEAN
    /\ inResp \in {"NAK", "ACK", "STALL"} /\ outResp \in {"NAK", "ACK", "STALL"}
    /\ inTog \in 0 .. 1 /\ pcTog \in 0 .. 1 /\ ctrl \in 0 .. 1
    /\ packets \in 0 .. MaxPackets /\ writes \in 0 .. MaxPackets
    /\ outBuf \in 0 .. packets /\ outTaken \in 0 .. packets
    /\ outPend \in BOOLEAN /\ capturing \in BOOLEAN /\ pending \in BOOLEAN
    /\ reqLeft \in 0 .. Parts /\ value \in 0 .. writes
    /\ captured \in Seq(Piece)
    /\ at \in {"loop", "copied", "arm", "reopen", "out", "forward", "done"}
    /\ report \in [value : Nat, len : Nat, read : Seq(Piece)]
    /\ fresh \in BOOLEAN /\ skewed \in BOOLEAN /\ cut \in BOOLEAN
    /\ exposed \in BOOLEAN
    /\ handed \in Nat /\ flushed \in Nat

\* The toggle of the next report is the one the PC expects, whatever resets, halts and
\* completions come between the relay's read and its write of the register.  A reset
\* or a cleared halt that hits while it holds a DATA1 is the exception, and a PC that
\* configures again without a reset: that costs the one report the PC drops next
\* (usb_device_fs.c:355-361).
ToggleAgrees == configured /\ mapped /\ ~skewed => inTog = pcTog

\* Every OUT packet the handler acknowledged is handed to the relay once: none is
\* overwritten while it waits or forgotten when it lands between poll_out's two stores,
\* unless the PC reset the bus or cleared a halt there.  A packet that the PC repeats
\* because its acknowledgement was lost is handed over again (usb_device_fs.c:543-573).
OutHandedOnce ==
    packets = handed + flushed + (IF outPend THEN 1 ELSE 0)

\* What the relay replays on the real device is one whole SET_REPORT under its
\* own wValue, whatever else the PC sends meanwhile, unless a bus reset cut
\* into the replay.
SetReportIntact ==
    at = "done" /\ ~cut =>
        report.read = [i \in 1 .. Parts |-> <<report.value, i>>]

\* "the caller consumes the buffer synchronously before the next OUT can land
\* (the ISR left the EP NAK'ing)": the packet read is the one that was pending.
OutNotOverwritten == at = "out" => outBuf = outTaken
=============================================================================
