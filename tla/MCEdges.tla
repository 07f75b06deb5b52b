------------------------------ MODULE MCEdges ------------------------------
(***************************************************************************)
(* The wires of the system: the device the PC sees on either controller    *)
(* (UsbDevice, UsbDeviceHs), the real device's control transfers, capture  *)
(* and interrupt endpoints (HostControl, Enumeration, HostPipes), the      *)
(* layout read off its report descriptor (HidLayout),                      *)
(* the command port of Board B (UsbCdc) and the two directions of the SPI  *)
(* link, the byte stream into Board A (SpiStream) and the return slots out *)
(* of it (ReturnSlot).  They share no state, so each is explored alone:    *)
(* `part` picks one at the start.                                          *)
(***************************************************************************)
EXTENDS SpiStream

CONSTANTS Explored, MaxPackets, Parts,
          MaxTries, MaxReports, MaxOuts, MaxLosses, MaxGlitches,
          Mps, MaxTransfers, MaxTrouble, Attempts, MaxSessions, MaxCaptures,
          Pieces, MaxPieces, MaxUsages,
          RxRingBytes, TxRingBytes, Bulk, CdcResponses, MaxCommands, MaxControls,
          Words, MaxPublish, MaxMissed, MaxAborts, MaxOther

\* A packet of the command port fits its empty ring (512 and 64 bytes in usb_cdc_fs.c).
ASSUME PortAssumption ==
    /\ {Bulk, RxRingBytes, TxRingBytes} \subseteq Nat /\ CdcResponses \subseteq Nat
    /\ Bulk < RxRingBytes /\ TxRingBytes > 0

\* Packets of endpoint 0 hold something (8 to 64 bytes).
ASSUME PacketAssumption == Mps \in Nat \ {0}

\* A telemetry slot has words (16 in spi_link.c).
ASSUME SlotAssumption == Words \in Nat \ {0}

\* A SET_REPORT has a packet; a transaction may be repeated and a port reset at least once
\* (10 and 6 times in usb_host.c and desc_capture.c).
ASSUME ReportAssumption == Parts \in Nat \ {0}
ASSUME TriesAssumption == {MaxTries, Attempts} \subseteq Nat \ {0}

\* What happens is counted.
ASSUME BoundsAssumption ==
    {MaxPackets, MaxReports, MaxOuts, MaxTransfers, MaxSessions, MaxCaptures, MaxPieces,
     MaxUsages, MaxPublish} \subseteq Nat

\* A report descriptor is made of items, each a tag and a number.
Tags == {"page", "size", "count", "id", "usage", "min", "max", "input", "collection",
         "end", "output", "feature", "logical", "long"}
LayoutItem == [tag : Tags, val : Nat]
ASSUME PiecesAssumption == Pieces \subseteq Seq(LayoutItem)

\* Bytes after the first that look like a SOF: none, one, and all but one.
SomeDecoys == {{}, {2}, {1, 3}}

\* Control transfers: a device with more than is asked for, one with less that ends in
\* a short packet, one with less that fills its packets; a write that does and one that
\* does not; and requests without data.
Asked ==
    {[kind |-> "in", has |-> 5, len |-> 4], [kind |-> "in", has |-> 3, len |-> 6],
     [kind |-> "in", has |-> 4, len |-> 6], [kind |-> "out", has |-> 0, len |-> 3],
     [kind |-> "out", has |-> 0, len |-> 4], [kind |-> "plain", has |-> 0, len |-> 0],
     [kind |-> "address", has |-> 0, len |-> 0]}

\* What report descriptors are made of: buttons, padding, axes of whole bytes and of
\* twelve bits, a wheel, all of it at once; report IDs, a collection, a resolution
\* multiplier, lights.
Item(t, v) == [tag |-> t, val |-> v]
OfSize(s, c) == <<Item("size", s), Item("count", c), Item("input", 0)>>
MCPieces ==
    {<<Item("page", 9), Item("min", 1), Item("max", 3)>> \o OfSize(1, 3),
     OfSize(5, 1),
     <<Item("page", 1), Item("usage", 1), Item("usage", 2)>> \o OfSize(8, 2),
     <<Item("page", 1), Item("min", 1), Item("max", 2), Item("logical", 0)>>
        \o OfSize(12, 2),
     <<Item("usage", 3)>> \o OfSize(8, 1),
     [n \in 1 .. 4 |-> Item("usage", n)] \o OfSize(8, 4),
     <<Item("id", 1)>>, <<Item("id", 2)>>,
     <<Item("page", 1), Item("usage", 4), Item("collection", 0)>>, <<Item("end", 0)>>,
     <<Item("usage", 4), Item("size", 2), Item("feature", 0)>>,
     <<Item("page", 8), Item("size", 1), Item("output", 0), Item("long", 0)>>}

VARIABLES
    part,
    \* UsbDevice
    configured, mapped, inResp, inTog, outResp, outBuf, outPend, reqLeft, capturing,
    pending, captured, value, pcTog, packets, writes, at, ctrl, outTaken, report,
    fresh, skewed, handed, flushed, exposed, cut, kept,
    \* HostPipes
    pipe, hostInTog, hostOutTog, tries, outs, devInTog, devOutTog, held, losses,
    glitches, taken, accepted, confirmed, inUnheard, outUnheard,
    \* HostControl
    ctlStage, ctlReq, ctlTog, ctlRem, ctlGot, ctlTries, ctlResult, ctlNumber,
    ep0Stage, ep0Req, ep0Tog, given, written, acted, trouble,
    \* Enumeration
    session, plugged, address, devConfigured, step, attempt, captures, desc,
    \* HidLayout
    rest, pieces, items, global, id, bit, usages, range, layout,
    \* UsbCdc
    cdcConfigured, cdcOutResp, cdcOutBuf, cdcOutPend, rxRing, txRing, cdcInResp,
    cdcInTog, inBuf, cdcCtrl, cdcAt, cdcSent, cdcPcTog, controls, fed, answered, got,
    cdcExposed, reopened, excused, cdcSkewed,
    \* ReturnSlot
    shown, idx, staged, kind, rx, left, heard, decoded, quiet, sincePoll, missed,
    aborts, others

Device == INSTANCE UsbDeviceHs

Pipes == INSTANCE HostPipes WITH
    pc <- pipe, inTog <- hostInTog, outTog <- hostOutTog, report <- held

Control == INSTANCE HostControl WITH
    Requests <- Asked, stage <- ctlStage, req <- ctlReq, tog <- ctlTog, rem <- ctlRem,
    got <- ctlGot, tries <- ctlTries, result <- ctlResult, number <- ctlNumber,
    devStage <- ep0Stage, devReq <- ep0Req, devTog <- ep0Tog, taken <- written

Capture == INSTANCE Enumeration WITH
    configured <- devConfigured, at <- step

Hid == INSTANCE HidLayout

Cdc == INSTANCE UsbCdc WITH
    configured <- cdcConfigured, outResp <- cdcOutResp, outBuf <- cdcOutBuf,
    outPend <- cdcOutPend, inResp <- cdcInResp, inTog <- cdcInTog, ctrl <- cdcCtrl,
    at <- cdcAt, sent <- cdcSent, pcTog <- cdcPcTog, exposed <- cdcExposed, skewed <- cdcSkewed

Return == INSTANCE ReturnSlot WITH recent <- heard

devicevars == <<configured, mapped, inResp, inTog, outResp, outBuf, outPend,
                reqLeft, capturing, pending, captured, value, pcTog, packets,
                writes, at, ctrl, outTaken, report, fresh, skewed, handed,
                flushed, exposed, cut, kept>>
pipevars == <<pipe, hostInTog, hostOutTog, tries, outs, devInTog, devOutTog, held,
              losses, glitches, taken, accepted, confirmed, inUnheard, outUnheard>>
controlvars == <<ctlStage, ctlReq, ctlTog, ctlRem, ctlGot, ctlTries, ctlResult,
                 ctlNumber, ep0Stage, ep0Req, ep0Tog, given, written, acted, trouble>>
capturevars == <<session, plugged, address, devConfigured, step, attempt, captures,
                 desc>>
hidvars == <<rest, pieces, items, global, id, bit, usages, range, layout>>
cdcvars == <<cdcConfigured, cdcOutResp, cdcOutBuf, cdcOutPend, rxRing, txRing,
             cdcInResp, cdcInTog, inBuf, cdcCtrl, cdcAt, cdcSent, cdcPcTog,
             controls, fed, answered, got, cdcExposed, reopened, excused, cdcSkewed>>
returnvars == <<shown, idx, staged, kind, rx, left, heard, decoded, quiet,
                sincePoll, missed, aborts, others>>
usbvars == <<devicevars, pipevars, controlvars, capturevars, hidvars, cdcvars>>

MCInit ==
    /\ part \in Explored
    /\ Device!HsInit /\ Pipes!Init /\ Control!Init /\ Capture!Init /\ Hid!Init
    /\ Cdc!Init
    /\ Init /\ Return!Init

Usb ==
    \/ /\ \/ part = "device" /\ Device!AsFs(Device!Next)
          \/ part = "hs" /\ Device!HsNext
       /\ UNCHANGED <<pipevars, controlvars, capturevars, hidvars, cdcvars>>
    \/ /\ part = "pipes" /\ Pipes!Next
       /\ UNCHANGED <<devicevars, controlvars, capturevars, hidvars, cdcvars>>
    \/ /\ part = "control" /\ Control!Next
       /\ UNCHANGED <<devicevars, pipevars, capturevars, hidvars, cdcvars>>
    \/ /\ part = "capture" /\ Capture!Next
       /\ UNCHANGED <<devicevars, pipevars, controlvars, hidvars, cdcvars>>
    \/ /\ part = "layout" /\ Hid!Next
       /\ UNCHANGED <<devicevars, pipevars, controlvars, capturevars, cdcvars>>
    \/ /\ part = "cdc" /\ Cdc!Next
       /\ UNCHANGED <<devicevars, pipevars, controlvars, capturevars, hidvars>>

Spi ==
    \/ part = "stream" /\ Next /\ UNCHANGED returnvars
    \/ part = "return" /\ Return!Next /\ UNCHANGED vars

MCNext ==
    /\ UNCHANGED part
    /\ \/ Usb /\ UNCHANGED <<vars, returnvars>>
       \/ Spi /\ UNCHANGED usbvars

MCSpec == MCInit /\ [][MCNext]_<<vars, returnvars, usbvars, part>>

\* The tables, registers, buffers and counters stay in their ranges (usb_device_fs.c,
\* usb_host.c, desc_capture.c, hid_layout.c, usb_cdc_fs.c, spi_link.c, spi_frame_stream.c).
TypesOK ==
    /\ Device!TypeOK /\ Pipes!TypeOK /\ Control!TypeOK /\ Capture!TypeOK
    /\ Hid!TypeOK /\ Cdc!TypeOK
    /\ TypeOK /\ Return!TypeOK
\* The properties of the parts, stated and explained in their modules.
EndpointsAgree ==
    /\ part = "device" => Device!ToggleAgrees
    /\ part = "hs" => Device!HsToggleAgrees
    /\ Device!OutHandedOnce
LikeFullSpeed == [][part = "hs" => Device!Next]_devicevars
SetReportIntact == Device!SetReportIntact
OutNotOverwritten == Device!OutNotOverwritten
TransfersOnce == Pipes!TransfersOnce /\ Control!TransferWhole
CloneOfOneDevice == Capture!CloneOfOneDevice
LayoutFound == Hid!LayoutFound
PortIntact == Cdc!PortIntact
ThreeReturnsSuffice == Return!ThreeReturnsSuffice
=============================================================================
