---------------------------- MODULE UsbDeviceHs ----------------------------
(***************************************************************************)
(* The cloned device on the High-Speed controller (usb_device_hs.c).  Its  *)
(* registers differ from the Full-Speed sibling's, and "enumeration logic  *)
(* is identical" (usb_device_hs.c:12-13): all but one of its operations    *)
(* are those of UsbDevice.                                                 *)
(***************************************************************************)
EXTENDS UsbDevice

VARIABLE kept  \* history: a cleared halt has left the toggle at DATA1, and no report
               \* was taken since

\* What an operation does as on the Full-Speed controller.
AsFs(A) == A /\ UNCHANGED kept

-----------------------------------------------------------------------------
\* USBHS_IRQHandler

HsBusReset == BusReset /\ kept' = FALSE

HsSetConfiguration(on) == AsFs(SetConfiguration(on))

HsSetHalt == AsFs(HaltIn \/ HaltOut)

\* CLEAR_FEATURE(ENDPOINT_HALT) writes the response field alone: the PC starts
\* its toggle over, the device goes on with the one it had.
HsClearHaltIn ==
    /\ configured /\ mapped
    /\ inResp' = "NAK" /\ inTog' = inTog
    /\ pcTog' = 0
    /\ kept' = (kept \/ inTog = 1)
    /\ skewed' = ArmingOne
    /\ NoData
    /\ UNCHANGED <<device, outEp, packets, writes, relay, fresh, handed, flushed,
                   exposed, cut>>

HsClearHaltOut == AsFs(ClearHaltOut)

HsTakeReport == TakeReport /\ kept' = FALSE

HsOutPacket == AsFs(OutPacket)

HsSetReport == AsFs(SetReport)

HsReportData == AsFs(ReportData)

-----------------------------------------------------------------------------
\* usbhsd_send_report, usbhsd_poll_out, usbhsd_poll_ep0_report,
\* usbhsd_ep0_report_done

HsSendReport == AsFs(SendReport)

HsArm == AsFs(ReadControl \/ WriteControl)

HsPollOut == AsFs(PollOut \/ ReopenOut)

HsPollReport == AsFs(PollReport)

HsReportDone == AsFs(ReportDone)

-----------------------------------------------------------------------------
HsInit == Init /\ kept = FALSE

HsHandler ==
    \/ HsBusReset
    \/ \E on \in BOOLEAN : HsSetConfiguration(on)
    \/ HsSetHalt \/ HsClearHaltIn \/ HsClearHaltOut
    \/ HsTakeReport \/ HsOutPacket \/ HsSetReport \/ HsReportData

HsNext ==
    \/ HsHandler
    \/ HsSendReport \/ HsArm \/ HsPollOut \/ HsPollReport \/ HsReportDone
    \/ AsFs(ForwardOut \/ ForwardPart)

-----------------------------------------------------------------------------
\* As on the Full-Speed controller; but a halt cleared over DATA1 costs the PC the
\* next report as well (usb_device_hs.c:852).
HsToggleAgrees == kept \/ ToggleAgrees

\* usb_device_hs.c:12-13, "Register-layer differences from the USBFS sibling driver
\* (enumeration logic is identical)": whatever this driver does the other would do.
LikeFullSpeed == [][Next]_vars
=============================================================================
