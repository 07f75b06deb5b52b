-------------------------- MODULE UsbDeviceProofs --------------------------
(***************************************************************************)
(* What the lock-free sharing of the endpoint registers and the SET_REPORT *)
(* buffer keeps intact on either controller (UsbDevice, UsbDeviceHs), for  *)
(* any number of packets: the PC's OUT packets are handed on once, and a   *)
(* SET_REPORT that is replayed on the real device is a whole one.  pending *)
(* is what keeps the handler off the buffer; a bus reset breaks that, so   *)
(* all is claimed while none cut into a replay.                            *)
(***************************************************************************)
EXTENDS UsbDeviceHs, SequenceTheorems, TLAPS

\* The first n parts of the SET_REPORT v
Segment(v, n) == [i \in 1 .. n |-> <<v, i>>]

Counted ==
    /\ reqLeft \in 0 .. Parts /\ writes \in Nat /\ value \in Nat
    /\ cut \in BOOLEAN /\ capturing \in BOOLEAN /\ pending \in BOOLEAN
    /\ captured \in Seq(Piece)
    /\ report \in [value : Nat, len : Nat, read : Seq(Piece)]

\* The handler fills the buffer in step with the transfer that is on.
CaptureInStep ==
    capturing /\ reqLeft > 0 => value = writes /\ captured = Segment(value, Parts - reqLeft)

\* A pending report is whole, and the handler does not write to it.
PendingIsWhole == pending => ~capturing /\ captured = Segment(value, Parts)

\* The relay reads it part by part.
ReplayInStep ==
    Forwarding =>
        /\ pending
        /\ report.value = value /\ report.len = Parts
        /\ Len(report.read) \in 0 .. Parts
        /\ report.read = Segment(value, Len(report.read))
        /\ at = "forward" => Len(report.read) < Parts
        /\ at = "done" => Len(report.read) = Parts

ReportInv == Counted /\ (~cut => CaptureInStep /\ PendingIsWhole /\ ReplayInStep)

\* A packet is pending behind an endpoint that does not acknowledge, or is exposed; while
\* the relay re-arms, the endpoint is shut as well, or has been opened out of turn.
BufferGuarded ==
    /\ outPend \in BOOLEAN /\ exposed \in BOOLEAN
    /\ outResp = "ACK" /\ (outPend \/ Reopening) => exposed
    /\ outPend /\ Reopening => exposed
    /\ exposed => outPend \/ Reopening

OutInv ==
    /\ packets \in Nat /\ handed \in Nat /\ flushed \in Nat
    /\ BufferGuarded
    /\ OutHandedOnce

-----------------------------------------------------------------------------
LEMMA SegmentGrows ==
    ASSUME NEW v \in Nat, NEW n \in Nat
    PROVE  /\ Segment(v, n) \in Seq(Piece) /\ Len(Segment(v, n)) = n
           /\ Append(Segment(v, n), <<v, n + 1>>) = Segment(v, n + 1)
<1>1. ASSUME NEW m \in Nat
      PROVE  /\ Segment(v, m) \in Seq(Piece) /\ Len(Segment(v, m)) = m
             /\ \A i \in 1 .. m : Segment(v, m)[i] = <<v, i>>
  BY DEF Segment, Piece
<1>2. <<v, n + 1>> \in Piece
  BY DEF Piece
<1> DEFINE s == Append(Segment(v, n), <<v, n + 1>>)
<1>3. /\ s \in Seq(Piece) /\ Len(s) = n + 1
      /\ \A i \in 1 .. n : s[i] = <<v, i>>
      /\ s[n + 1] = <<v, n + 1>>
  BY <1>1, <1>2, AppendProperties
<1> HIDE DEF s
<1>4. \A i \in 1 .. n + 1 : s[i] = <<v, i>>
  BY <1>3
<1>5. /\ Segment(v, n + 1) \in Seq(Piece) /\ Len(Segment(v, n + 1)) = n + 1
      /\ \A i \in 1 .. n + 1 : Segment(v, n + 1)[i] = <<v, i>>
  <2>1. n + 1 \in Nat
    OBVIOUS
  <2> QED BY <1>1, <2>1
<1>6. s = Segment(v, n + 1)
  BY <1>3, <1>4, <1>5, SeqEqual
<1> QED BY <1>1, <1>6 DEF s

LEMMA EmptySegment == ASSUME NEW v PROVE Segment(v, 0) = <<>>
BY DEF Segment

-----------------------------------------------------------------------------
\* SET_REPORT on endpoint 0

LEMMA InitReport == ASSUME Parts \in Nat \ {0}, Init PROVE ReportInv
<1>1. Counted
  <2>1. cut = FALSE /\ capturing = FALSE /\ pending = FALSE
    BY DEF Init
  <2>2. reqLeft \in 0 .. Parts /\ writes \in Nat /\ value \in Nat
    BY DEF Init
  <2>3. captured \in Seq(Piece) /\ report \in [value : Nat, len : Nat, read : Seq(Piece)]
    BY EmptySeq DEF Init
  <2> QED BY <2>1, <2>2, <2>3 DEF Counted
<1>2. ~capturing /\ ~pending /\ ~Forwarding
  BY DEF Init, Forwarding
<1> QED BY <1>1, <1>2 DEF ReportInv, CaptureInStep, PendingIsWhole, ReplayInStep

\* What leaves the buffer and the relay alone, or only gives the transfer up
LEMMA OthersKeepReport ==
    ASSUME ReportInv, Parts \in Nat \ {0}, UNCHANGED <<capturing, pending, captured, value, writes, cut, report>>,
           reqLeft' = reqLeft \/ reqLeft' = 0, Forwarding' => Forwarding,
           at' = at \/ ~Forwarding'
    PROVE  ReportInv'
<1>1. Counted'
  BY DEF ReportInv, Counted
<1>2. ASSUME ~cut PROVE CaptureInStep' /\ PendingIsWhole' /\ ReplayInStep'
  <2>1. CaptureInStep'
    BY <1>2 DEF ReportInv, CaptureInStep
  <2>2. PendingIsWhole'
    BY <1>2 DEF ReportInv, PendingIsWhole
  <2>3. ReplayInStep'
    BY <1>2 DEF ReportInv, ReplayInStep
  <2> QED BY <2>1, <2>2, <2>3
<1> QED BY <1>1, <1>2 DEF ReportInv

\* A bus reset gives up what it finds, and marks a replay it cuts into.
LEMMA ResetKeepsReport == ASSUME ReportInv, Parts \in Nat \ {0}, BusReset PROVE ReportInv'
<1>1. /\ capturing' = FALSE /\ pending' = FALSE /\ reqLeft' = 0 /\ captured' = <<>>
      /\ cut' = (cut \/ Forwarding) /\ UNCHANGED <<value, writes, at, report>>
  BY DEF BusReset, relay
<1>2. cut' \in BOOLEAN
  BY <1>1 DEF ReportInv, Counted, Forwarding
<1>3. Counted'
  <2>1. reqLeft' \in 0 .. Parts /\ captured' \in Seq(Piece)
    BY <1>1, EmptySeq
  <2>2. UNCHANGED <<value, writes, report>>
    BY <1>1
  <2> QED BY <1>1, <1>2, <2>1, <2>2 DEF ReportInv, Counted
<1>4. ~cut' => ~Forwarding'
  BY <1>1 DEF Forwarding
<1> QED BY <1>1, <1>3, <1>4 DEF ReportInv, CaptureInStep, PendingIsWhole, ReplayInStep

\* A new SET_REPORT is captured only while none is pending, so while none is replayed.
LEMMA SetupKeepsReport == ASSUME ReportInv, Parts \in Nat \ {0}, SetReport PROVE ReportInv'
<1>1. /\ reqLeft' = Parts /\ writes' = writes + 1
      /\ UNCHANGED <<pending, report, at>>
  BY DEF SetReport, relay
<1>2. CASE MayCapture
  <2>1. /\ capturing' = TRUE /\ captured' = <<>> /\ value' = writes + 1
        /\ cut' = (cut /\ Forwarding) /\ ~pending
    BY <1>2 DEF SetReport, MayCapture
  <2>2. cut' \in BOOLEAN
    BY <2>1 DEF ReportInv, Counted, Forwarding
  <2>3. Counted'
    BY <1>1, <2>1, <2>2, EmptySeq DEF ReportInv, Counted
  <2>4. CaptureInStep'
    BY <1>1, <2>1, EmptySegment DEF CaptureInStep
  <2>5. ~cut' => ~Forwarding'
    BY <1>1, <2>1 DEF ReportInv, ReplayInStep, Forwarding
  <2> QED BY <1>1, <2>1, <2>3, <2>4, <2>5 DEF ReportInv, PendingIsWhole, ReplayInStep
<1>3. CASE ~MayCapture
  <2>1. UNCHANGED <<capturing, captured, value, cut>> /\ pending
    BY <1>3 DEF SetReport, MayCapture
  <2>2. Counted'
    BY <1>1, <2>1 DEF ReportInv, Counted
  <2>3. ASSUME ~cut PROVE CaptureInStep' /\ PendingIsWhole' /\ ReplayInStep'
    <3>1. PendingIsWhole'
      BY <1>1, <2>1, <2>3 DEF ReportInv, PendingIsWhole
    <3>2. CaptureInStep'
      BY <1>1, <2>1, <2>3 DEF ReportInv, PendingIsWhole, CaptureInStep
    <3>3. ReplayInStep'
      BY <1>1, <2>1, <2>3 DEF ReportInv, ReplayInStep, Forwarding
    <3> QED BY <3>1, <3>2, <3>3
  <2> QED BY <2>1, <2>2, <2>3 DEF ReportInv
<1> QED BY <1>2, <1>3

LEMMA DataKeepsReport == ASSUME ReportInv, Parts \in Nat \ {0}, ReportData PROVE ReportInv'
<1>1. /\ reqLeft > 0 /\ reqLeft' = reqLeft - 1
      /\ UNCHANGED <<value, writes, report, at, cut>>
  BY DEF ReportData, relay, history
<1>2. CASE ~capturing
  <2>1. UNCHANGED <<captured, capturing, pending>>
    BY <1>2 DEF ReportData
  <2>2. Counted'
    BY <1>1, <2>1 DEF ReportInv, Counted
  <2>3. ASSUME ~cut PROVE CaptureInStep' /\ PendingIsWhole' /\ ReplayInStep'
    BY <1>1, <1>2, <2>1, <2>3
       DEF ReportInv, CaptureInStep, PendingIsWhole, ReplayInStep, Forwarding
  <2> QED BY <1>1, <2>2, <2>3 DEF ReportInv
<1>3. CASE capturing
  <2>1. captured' = Append(captured, <<writes, Parts - reqLeft + 1>>)
    BY <1>3 DEF ReportData
  <2>2. /\ reqLeft \in 1 .. Parts /\ Parts - reqLeft \in Nat /\ writes \in Nat
        /\ captured' \in Seq(Piece)
    <3>1. reqLeft \in 1 .. Parts /\ Parts - reqLeft \in Nat /\ writes \in Nat
      BY <1>1 DEF ReportInv, Counted
    <3>2. <<writes, Parts - reqLeft + 1>> \in Piece
      BY <3>1 DEF Piece
    <3> QED BY <2>1, <3>1, <3>2, AppendProperties DEF ReportInv, Counted
  <2>3. ASSUME ~cut
        PROVE  /\ captured' = Segment(value, Parts - reqLeft + 1) /\ value = writes
               /\ ~pending /\ ~Forwarding
    <3>1. value = writes /\ captured = Segment(value, Parts - reqLeft)
      BY <1>1, <1>3, <2>3 DEF ReportInv, CaptureInStep
    <3>2. captured' = Segment(value, Parts - reqLeft + 1)
      BY <2>1, <2>2, <3>1, SegmentGrows
    <3>3. ~pending /\ ~Forwarding
      BY <1>3, <2>3 DEF ReportInv, PendingIsWhole, ReplayInStep
    <3> QED BY <3>1, <3>2, <3>3
  <2>4. CASE reqLeft = 1
    <3>1. capturing' = FALSE /\ pending' = TRUE
      BY <1>3, <2>4 DEF ReportData
    <3>2. Counted'
      <4>1. reqLeft' \in 0 .. Parts
        BY <1>1, <2>2
      <4> QED BY <1>1, <2>2, <3>1, <4>1 DEF ReportInv, Counted
    <3>3. ASSUME ~cut PROVE captured' = Segment(value', Parts) /\ ~Forwarding'
      BY <1>1, <2>2, <2>3, <2>4, <3>3 DEF Forwarding
    <3> QED BY <1>1, <3>1, <3>2, <3>3
               DEF ReportInv, CaptureInStep, PendingIsWhole, ReplayInStep
  <2>5. CASE reqLeft # 1
    <3>1. UNCHANGED <<capturing, pending>>
      BY <2>5 DEF ReportData
    <3>2. Counted'
      BY <1>1, <2>2, <3>1 DEF ReportInv, Counted
    <3>3. Parts - reqLeft' = Parts - reqLeft + 1
      BY <1>1, <2>2
    <3>4. ASSUME ~cut
          PROVE  /\ value' = writes' /\ captured' = Segment(value', Parts - reqLeft')
                 /\ ~pending' /\ ~Forwarding'
      BY <1>1, <2>3, <3>1, <3>3, <3>4 DEF Forwarding
    <3> QED BY <1>1, <3>2, <3>4
               DEF ReportInv, CaptureInStep, PendingIsWhole, ReplayInStep
  <2> QED BY <2>4, <2>5
<1>4. capturing \in BOOLEAN
  BY DEF ReportInv, Counted
<1> QED BY <1>2, <1>3, <1>4

\* The relay finds a whole report and replays one part after the other.
LEMMA ReplayKeepsReport ==
    ASSUME ReportInv, Parts \in Nat \ {0}, PollReport \/ ForwardPart \/ ReportDone
    PROVE  ReportInv'
<1>1. UNCHANGED <<reqLeft, capturing, value, writes, cut>>
  BY DEF PollReport, ForwardPart, ReportDone, ep0, history
<1>2. CASE PollReport
  <2>1. /\ report' = [value |-> value, len |-> Len(captured), read |-> <<>>]
        /\ at' = "forward" /\ pending /\ UNCHANGED <<pending, captured>>
    BY <1>2 DEF PollReport, ep0
  <2>2. report' \in [value : Nat, len : Nat, read : Seq(Piece)]
    BY <2>1, EmptySeq, LenProperties DEF ReportInv, Counted
  <2>3. Counted'
    BY <1>1, <2>1, <2>2 DEF ReportInv, Counted
  <2>4. ASSUME ~cut PROVE CaptureInStep' /\ PendingIsWhole' /\ ReplayInStep'
    <3>1. ~capturing /\ captured = Segment(value, Parts)
      BY <2>1, <2>4 DEF ReportInv, PendingIsWhole
    <3>2. Len(captured) = Parts
      BY <3>1, SegmentGrows DEF ReportInv, Counted
    <3>3. CaptureInStep' /\ PendingIsWhole'
      BY <1>1, <2>1, <3>1 DEF CaptureInStep, PendingIsWhole
    <3>4. /\ report'.value = value' /\ report'.len = Parts /\ report'.read = <<>>
          /\ Len(report'.read) = 0
      BY <1>1, <2>1, <3>2
    <3>5. ReplayInStep'
      BY <2>1, <3>4, EmptySegment DEF ReplayInStep
    <3> QED BY <3>3, <3>5
  <2> QED BY <1>1, <2>3, <2>4 DEF ReportInv
<1>3. CASE ForwardPart
  <2> DEFINE n == Len(report.read) + 1
             part == IF n <= Len(captured) THEN captured[n] ELSE <<0, n>>
  <2>1. /\ at = "forward" /\ report' = [report EXCEPT !.read = Append(@, part)]
        /\ at' = IF n = report.len THEN "done" ELSE "forward"
        /\ UNCHANGED <<pending, captured>>
    BY <1>3 DEF ForwardPart, ep0
  <2>2. /\ report \in [value : Nat, len : Nat, read : Seq(Piece)]
        /\ captured \in Seq(Piece)
    BY DEF ReportInv, Counted
  <2>3. n \in Nat \ {0} /\ part \in Piece
    <3>1. n \in Nat \ {0} /\ Len(captured) \in Nat
      BY <2>2, LenProperties
    <3>2. n <= Len(captured) => captured[n] \in Piece
      BY <2>2, <3>1, ElementOfSeq
    <3>3. <<0, n>> \in Piece
      BY <3>1 DEF Piece
    <3> QED BY <3>1, <3>2, <3>3
  <2>4. Append(report.read, part) \in Seq(Piece)
    BY <2>2, <2>3, AppendProperties
  <2>5. /\ report' \in [value : Nat, len : Nat, read : Seq(Piece)]
        /\ report'.value = report.value /\ report'.len = report.len
        /\ report'.read = Append(report.read, part)
    <3> HIDE DEF part
    <3> QED BY <2>1, <2>2, <2>4
  <2>6. Counted'
    BY <1>1, <2>1, <2>5 DEF ReportInv, Counted
  <2>7. ASSUME ~cut PROVE CaptureInStep' /\ PendingIsWhole' /\ ReplayInStep'
    <3>1. /\ pending /\ report.value = value /\ report.len = Parts
          /\ Len(report.read) \in 0 .. Parts - 1
          /\ report.read = Segment(value, Len(report.read))
      BY <2>1, <2>7 DEF ReportInv, ReplayInStep, Forwarding
    <3>2. ~capturing /\ captured = Segment(value, Parts) /\ value \in Nat
      BY <2>7, <3>1 DEF ReportInv, PendingIsWhole, Counted
    <3>3. CaptureInStep' /\ PendingIsWhole'
      BY <1>1, <2>1, <3>2 DEF CaptureInStep, PendingIsWhole
    <3>4. n \in 1 .. Parts /\ Len(captured) = Parts /\ captured[n] = <<value, n>>
      BY <3>1, <3>2, SegmentGrows DEF Segment
    <3>5. part = <<value, n>>
      BY <3>4
    <3>6. Append(Segment(value, Len(report.read)), <<value, n>>) = Segment(value, n)
      <4>1. Len(report.read) \in Nat
        BY <3>1
      <4> QED BY <3>2, <4>1, SegmentGrows
    <3>7. report'.read = Segment(value, n)
      BY <2>5, <3>1, <3>5, <3>6
    <3>8. Len(Segment(value, n)) = n
      <4> HIDE DEF n
      <4>1. n \in Nat
        BY <3>4
      <4> QED BY <3>2, <4>1, SegmentGrows
    <3> HIDE DEF n, part
    <3>9. at' = "done" => n = Parts
      BY <2>1, <3>1
    <3>10. at' = "forward" => n < Parts
      BY <2>1, <3>1, <3>4
    <3>11. ReplayInStep'
      BY <1>1, <2>1, <2>5, <3>1, <3>4, <3>7, <3>8, <3>9, <3>10 DEF ReplayInStep
    <3> QED BY <3>3, <3>11
  <2> QED BY <1>1, <2>6, <2>7 DEF ReportInv
<1>4. CASE ReportDone
  <2>1. /\ captured' = <<>> /\ pending' = FALSE /\ at = "done" /\ at' = "loop"
        /\ report' = report
    BY <1>4 DEF ReportDone
  <2>2. Counted'
    BY <1>1, <2>1, EmptySeq DEF ReportInv, Counted
  <2>3. ASSUME ~cut PROVE ~capturing'
    BY <1>1, <2>1, <2>3 DEF ReportInv, ReplayInStep, PendingIsWhole, Forwarding
  <2> QED BY <1>1, <2>1, <2>2, <2>3
          DEF ReportInv, CaptureInStep, PendingIsWhole, ReplayInStep, Forwarding
<1> QED BY <1>2, <1>3, <1>4

LEMMA StepKeepsReport ==
    ASSUME ReportInv, Parts \in Nat \ {0}, [Next]_vars
    PROVE  ReportInv'
<1> DEFINE Others ==
      \/ \E on \in BOOLEAN : SetConfiguration(on)
      \/ HaltIn \/ HaltOut \/ ClearHaltIn \/ ClearHaltOut \/ TakeReport \/ OutPacket
      \/ SendReport \/ ReadControl \/ WriteControl \/ PollOut \/ ReopenOut \/ ForwardOut
<1>1. CASE Others \/ UNCHANGED vars
  <2>1. UNCHANGED <<capturing, pending, captured, value, writes, cut, report>>
    BY <1>1 DEF SetConfiguration, HaltIn, HaltOut, ClearHaltIn, ClearHaltOut, NoData,
                TakeReport, OutPacket, SendReport, ReadControl, WriteControl, PollOut,
                ReopenOut, Reopening, ForwardOut, ep0, relay, history, vars
  <2>2. reqLeft' = reqLeft \/ reqLeft' = 0
    BY <1>1 DEF SetConfiguration, HaltIn, HaltOut, ClearHaltIn, ClearHaltOut, NoData,
                TakeReport, OutPacket, SendReport, ReadControl, WriteControl, PollOut,
                ReopenOut, Reopening, ForwardOut, ep0, vars
  <2>3. at' = at \/ ~Forwarding'
    BY <1>1 DEF SetConfiguration, HaltIn, HaltOut, ClearHaltIn, ClearHaltOut,
                TakeReport, OutPacket, SendReport, ReadControl, WriteControl, PollOut,
                ReopenOut, Reopening, ForwardOut, relay, vars, Forwarding
  <2>4. Forwarding' => Forwarding
    BY <2>3 DEF Forwarding
  <2> QED BY <2>1, <2>2, <2>3, <2>4, OthersKeepReport
<1>2. CASE BusReset \/ SetReport \/ ReportData \/ PollReport \/ ForwardPart \/ ReportDone
  BY <1>2, ResetKeepsReport, SetupKeepsReport, DataKeepsReport, ReplayKeepsReport
<1> QED BY <1>1, <1>2 DEF Next, Handler, Relay

\* What the relay replays on the real device is one whole SET_REPORT under its own
\* wValue, for any number of data packets and whatever the PC sends meanwhile, unless a
\* bus reset cut into a replay (usb_device_fs.c, usbfsd_poll_ep0_report).
THEOREM ReplayIsWhole ==
    ASSUME Parts \in Nat \ {0}
    PROVE  Spec => []SetReportIntact
<1>1. Init => ReportInv
  BY InitReport
<1>2. ReportInv /\ [Next]_vars => ReportInv'
  BY StepKeepsReport
<1>3. ReportInv => SetReportIntact
  BY DEF ReportInv, ReplayInStep, Forwarding, Segment, SetReportIntact
<1> QED BY <1>1, <1>2, <1>3, PTL DEF Spec

-----------------------------------------------------------------------------
\* The interrupt OUT endpoint

LEMMA InitOut == Init => OutInv
<1> SUFFICES ASSUME Init PROVE OutInv
  OBVIOUS
<1>1. BufferGuarded
  BY DEF Init, BufferGuarded, Reopening
<1>2. OutHandedOnce
  BY DEF Init, OutHandedOnce
<1>3. packets \in Nat /\ handed \in Nat /\ flushed \in Nat
  BY DEF Init
<1> QED BY <1>1, <1>2, <1>3 DEF OutInv

\* An OUT packet finds the buffer free, or exposed.
LEMMA PacketKeepsOut == ASSUME OutInv, OutPacket PROVE OutInv'
<1>1. /\ outResp = "ACK" /\ outResp' = "NAK" /\ outPend' = TRUE
      /\ exposed' = (exposed /\ Reopening) /\ at' = at
      /\ packets' = packets + 1 /\ handed' = handed
      /\ flushed' = IF exposed /\ outPend THEN flushed + 1 ELSE flushed
  BY DEF OutPacket, AfterOut, relay
<1>2. outPend => exposed
  BY <1>1 DEF OutInv, BufferGuarded
<1>3. OutHandedOnce'
  BY <1>1, <1>2 DEF OutInv, OutHandedOnce, BufferGuarded
<1>4. BufferGuarded'
  BY <1>1 DEF OutInv, BufferGuarded, Reopening
<1>5. packets' \in Nat /\ handed' \in Nat /\ flushed' \in Nat
  BY <1>1 DEF OutInv
<1> QED BY <1>3, <1>4, <1>5 DEF OutInv

LEMMA StepKeepsOut == ASSUME OutInv, [Next]_vars PROVE OutInv'
<1>1. CASE BusReset
  <2>1. /\ outPend' = FALSE /\ exposed' = Reopening /\ UNCHANGED <<packets, handed, at>>
        /\ flushed' = IF outPend THEN flushed + 1 ELSE flushed
    BY <1>1 DEF BusReset, relay
  <2>2. OutHandedOnce'
    BY <2>1 DEF OutInv, OutHandedOnce
  <2>3. packets' \in Nat /\ handed' \in Nat /\ flushed' \in Nat
    BY <2>1 DEF OutInv
  <2>4. BufferGuarded'
    BY <2>1 DEF BufferGuarded, Reopening
  <2> QED BY <2>2, <2>3, <2>4 DEF OutInv
<1>2. CASE PollOut
  <2>1. /\ outPend = TRUE /\ outPend' = FALSE /\ ~Reopening /\ Reopening'
        /\ handed' = handed + 1 /\ UNCHANGED <<packets, flushed, exposed, outResp>>
    BY <1>2 DEF PollOut, OutInv, BufferGuarded, Reopening
  <2>2. OutHandedOnce'
    BY <2>1 DEF OutInv, OutHandedOnce
  <2>3. packets' \in Nat /\ handed' \in Nat /\ flushed' \in Nat
    BY <2>1 DEF OutInv
  <2>4. BufferGuarded'
    BY <2>1 DEF OutInv, BufferGuarded
  <2> QED BY <2>2, <2>3, <2>4 DEF OutInv
<1>3. CASE ReopenOut
  <2>1. /\ Reopening /\ ~Reopening' /\ exposed' = (exposed /\ outPend)
        /\ UNCHANGED <<outPend, packets, handed, flushed>>
    BY <1>3 DEF ReopenOut, Reopening
  <2>2. OutHandedOnce'
    BY <2>1 DEF OutInv, OutHandedOnce
  <2>3. outPend' \in BOOLEAN /\ exposed' \in BOOLEAN
    BY <2>1 DEF OutInv, BufferGuarded
  <2>4. exposed' <=> outPend'
    BY <2>1 DEF OutInv, BufferGuarded
  <2>5. BufferGuarded'
    BY <2>1, <2>3, <2>4 DEF BufferGuarded
  <2> QED BY <2>1, <2>2, <2>5 DEF OutInv
<1>4. CASE HaltOut \/ ClearHaltOut
  <2>1. UNCHANGED <<outPend, packets, handed, flushed, at>>
    BY <1>4 DEF HaltOut, ClearHaltOut, history, relay
  <2>2. \/ outResp' = "STALL" /\ exposed' = exposed
        \/ exposed' = (outPend \/ Reopening)
    BY <1>4 DEF HaltOut, ClearHaltOut, history
  <2>3. OutHandedOnce'
    BY <2>1 DEF OutInv, OutHandedOnce
  <2>4. Reopening' <=> Reopening
    BY <2>1 DEF Reopening
  <2>5. ASSUME outResp' = "STALL", exposed' = exposed PROVE BufferGuarded'
    BY <2>1, <2>4, <2>5 DEF OutInv, BufferGuarded
  <2>6. ASSUME exposed' = (outPend \/ Reopening) PROVE BufferGuarded'
    <3>1. outPend' \in BOOLEAN /\ exposed' \in BOOLEAN
      BY <2>1, <2>6 DEF OutInv, BufferGuarded
    <3>2. exposed' <=> outPend' \/ Reopening'
      BY <2>1, <2>4, <2>6
    <3> QED BY <3>1, <3>2 DEF BufferGuarded
  <2> QED BY <2>1, <2>2, <2>3, <2>5, <2>6 DEF OutInv
<1>5. CASE \/ \E on \in BOOLEAN : SetConfiguration(on)
           \/ HaltIn \/ ClearHaltIn \/ TakeReport \/ SetReport \/ ReportData
           \/ SendReport \/ ReadControl \/ WriteControl \/ ForwardOut
           \/ PollReport \/ ForwardPart \/ ReportDone \/ UNCHANGED vars
  <2>1. UNCHANGED <<outPend, outResp, packets, handed, flushed, exposed>>
    BY <1>5 DEF SetConfiguration, HaltIn, ClearHaltIn, TakeReport, SetReport, ReportData,
                SendReport, ReadControl, WriteControl, ForwardOut, PollReport,
                ForwardPart, ReportDone, outEp, history, vars
  <2>2. Reopening' <=> Reopening
    BY <1>5 DEF SetConfiguration, HaltIn, ClearHaltIn, TakeReport, SetReport, ReportData,
                SendReport, ReadControl, WriteControl, ForwardOut, PollReport,
                ForwardPart, ReportDone, relay, vars, Reopening
  <2> QED BY <2>1, <2>2 DEF OutInv, OutHandedOnce, BufferGuarded
<1> QED BY <1>1, <1>2, <1>3, <1>4, <1>5, PacketKeepsOut DEF Next, Handler, Relay

\* Every OUT packet the handler acknowledged is handed to the relay once, a repeated one like
\* a new one, unless the PC reset the bus or cleared a halt over it or while the relay re-armed
\* the endpoint (usb_device_fs.c, usbfsd_poll_out).
THEOREM PacketsHandedOnce == Spec => []OutHandedOnce
<1>1. OutInv => OutHandedOnce
  BY DEF OutInv
<1> QED BY InitOut, StepKeepsOut, <1>1, PTL DEF Spec

-----------------------------------------------------------------------------
\* The High-Speed controller

LEMMA HsStep == HsNext => Next \/ HsClearHaltIn
BY DEF HsNext, HsHandler, HsBusReset, HsSetConfiguration, HsSetHalt, HsClearHaltOut,
       HsTakeReport, HsOutPacket, HsSetReport, HsReportData, HsSendReport, HsArm,
       HsPollOut, HsPollReport, HsReportDone, AsFs, Next, Handler, Relay

LEMMA HsClearKeepsReport ==
    ASSUME ReportInv, Parts \in Nat \ {0}, HsClearHaltIn
    PROVE  ReportInv'
<1>1. /\ UNCHANGED <<capturing, pending, captured, value, writes, cut, report, at>>
      /\ reqLeft' = 0
  BY DEF HsClearHaltIn, NoData, relay
<1> QED BY <1>1, OthersKeepReport DEF Forwarding

LEMMA HsStepKeepsReport ==
    ASSUME ReportInv, Parts \in Nat \ {0}, [HsNext]_<<vars, kept>>
    PROVE  ReportInv'
BY HsStep, StepKeepsReport, HsClearKeepsReport

LEMMA HsClearKeepsOut == ASSUME OutInv, HsClearHaltIn PROVE OutInv'
BY DEF HsClearHaltIn, outEp, relay, OutInv, OutHandedOnce, BufferGuarded, Reopening

LEMMA HsStepKeepsOut == ASSUME OutInv, [HsNext]_<<vars, kept>> PROVE OutInv'
BY HsStep, StepKeepsOut, HsClearKeepsOut

\* The same holds on the High-Speed controller, whose handler differs in the halts it
\* clears (usb_device_hs.c, usbhsd_poll_ep0_report).
THEOREM HsReplayIsWhole ==
    ASSUME Parts \in Nat \ {0}
    PROVE  HsInit /\ [][HsNext]_<<vars, kept>> => []SetReportIntact
<1>1. HsInit => ReportInv
  BY InitReport DEF HsInit
<1>2. ReportInv => SetReportIntact
  BY DEF ReportInv, ReplayInStep, Forwarding, Segment, SetReportIntact
<1> QED BY <1>1, <1>2, HsStepKeepsReport, PTL

\* So does that every OUT packet is handed over once (usb_device_hs.c, usbhsd_poll_out).
THEOREM HsPacketsHandedOnce == HsInit /\ [][HsNext]_<<vars, kept>> => []OutHandedOnce
<1>1. HsInit => OutInv
  BY InitOut DEF HsInit
<1>2. OutInv => OutHandedOnce
  BY DEF OutInv
<1> QED BY <1>1, <1>2, HsStepKeepsOut, PTL

-----------------------------------------------------------------------------
\* The toggle of the interrupt IN endpoint

\* While the relay arms the endpoint no report of its can be taken; and a fresh device has
\* not been configured, so that no report was.
ArmGuarded ==
    /\ fresh \in BOOLEAN /\ skewed \in BOOLEAN /\ kept \in BOOLEAN
    /\ inTog \in 0 .. 1 /\ ctrl \in 0 .. 1 /\ pcTog \in 0 .. 1
    /\ at \in {"copied", "arm"} => inResp # "ACK"
    /\ fresh => ~configured /\ pcTog = 0

\* The toggle the relay is about to write back is the one both sides expect.
TogglesEqual == ~skewed => inTog = pcTog /\ (at = "arm" => ctrl = inTog)

LEMMA InitToggles == HsInit => ArmGuarded /\ TogglesEqual
<1> SUFFICES ASSUME HsInit PROVE ArmGuarded /\ TogglesEqual
  OBVIOUS
<1>1. /\ fresh = TRUE /\ skewed = FALSE /\ kept = FALSE /\ configured = FALSE
      /\ inTog = 0 /\ pcTog = 0 /\ ctrl = 0 /\ at = "loop"
  BY DEF HsInit, Init
<1>2. at \notin {"copied", "arm"} /\ inTog \in 0 .. 1 /\ ctrl \in 0 .. 1 /\ pcTog \in 0 .. 1
  BY <1>1
<1>3. fresh \in BOOLEAN /\ skewed \in BOOLEAN /\ kept \in BOOLEAN
  BY <1>1
<1>4. ~configured /\ pcTog = 0
  BY <1>1
<1>5. ArmGuarded
  BY <1>2, <1>3, <1>4 DEF ArmGuarded
<1>6. TogglesEqual
  BY <1>1, <1>2 DEF TogglesEqual
<1> QED BY <1>5, <1>6

\* What moves no toggle
LEMMA OthersKeepToggles ==
    ASSUME ArmGuarded, UNCHANGED <<inTog, pcTog, skewed, fresh, configured, kept, ctrl>>,
           inResp' = inResp \/ inResp' = "STALL" \/ inResp' = "NAK",
           at' = at \/ at' \notin {"copied", "arm"} \/ (at' = "copied" /\ inResp' = "NAK")
    PROVE  ArmGuarded' /\ (TogglesEqual => TogglesEqual')
BY DEF ArmGuarded, TogglesEqual

\* A bus reset makes the toggles equal, unless it hits the arming of a report with DATA1.
LEMMA ResetEqualsToggles ==
    ASSUME ArmGuarded, BusReset, kept' \in BOOLEAN
    PROVE  ArmGuarded' /\ TogglesEqual'
<1>1. /\ configured' = FALSE /\ inResp' = "NAK" /\ inTog' = 0 /\ pcTog' = 0
      /\ fresh' = TRUE /\ UNCHANGED <<at, ctrl>>
  BY DEF BusReset, relay
<1>2. skewed' = ArmingOne
  BY DEF BusReset
<1>3. ArmGuarded'
  BY <1>1, <1>2 DEF ArmGuarded, ArmingOne
<1>4. ctrl = 0 \/ ctrl = 1
  BY DEF ArmGuarded
<1>5. ~skewed' /\ at = "arm" => ctrl = 0
  BY <1>2, <1>4 DEF ArmingOne
<1>6. TogglesEqual'
  BY <1>1, <1>5 DEF TogglesEqual
<1> QED BY <1>3, <1>6

\* Once a report is taken the toggles are equal, whatever they were before.
LEMMA TakingEqualsToggles ==
    ASSUME ArmGuarded, TakeReport, kept' \in BOOLEAN
    PROVE  ArmGuarded' /\ TogglesEqual'
<1>1. /\ configured /\ inResp = "ACK" /\ inResp' = "NAK" /\ inTog' = 1 - inTog
      /\ pcTog' = IF inTog = pcTog THEN 1 - pcTog ELSE pcTog
      /\ UNCHANGED <<configured, fresh, at, ctrl>> /\ skewed' = FALSE
  BY DEF TakeReport, Flip, device, relay
<1>2. at \notin {"copied", "arm"} /\ ~fresh
  BY <1>1 DEF ArmGuarded
<1>3. inTog' \in 0 .. 1 /\ inTog' = pcTog'
  BY <1>1 DEF ArmGuarded
<1>4. ArmGuarded'
  BY <1>1, <1>2, <1>3 DEF ArmGuarded
<1>5. TogglesEqual'
  BY <1>1, <1>2, <1>3 DEF TogglesEqual
<1> QED BY <1>4, <1>5

LEMMA StepKeepsToggles ==
    ASSUME ArmGuarded, [Next]_vars, kept' = kept \/ BusReset \/ TakeReport, kept' \in BOOLEAN
    PROVE  ArmGuarded' /\ (BusReset \/ TakeReport \/ TogglesEqual => TogglesEqual')
<1> SUFFICES ASSUME ~BusReset, ~TakeReport, kept' = kept
             PROVE  ArmGuarded' /\ (TogglesEqual => TogglesEqual')
  BY ResetEqualsToggles, TakingEqualsToggles
<1> USE DEF device, inEp, outEp, ep0, relay, history
<1>1. ASSUME NEW on \in BOOLEAN, SetConfiguration(on)
      PROVE  ArmGuarded' /\ (TogglesEqual => TogglesEqual')
  <2>1. /\ pcTog' = 0 /\ fresh' = FALSE /\ skewed' = (skewed \/ ~fresh)
        /\ UNCHANGED <<inResp, inTog, at, ctrl>>
    BY <1>1 DEF SetConfiguration
  <2>2. fresh' \in BOOLEAN /\ skewed' \in BOOLEAN
    BY <2>1
  <2>3. ArmGuarded'
    BY <2>1, <2>2 DEF ArmGuarded
  <2>4. TogglesEqual => TogglesEqual'
    BY <2>1 DEF ArmGuarded, TogglesEqual
  <2> QED BY <2>3, <2>4
<1>2. CASE ClearHaltIn
  <2>1. /\ configured /\ inResp' = "NAK" /\ inTog' = 0 /\ pcTog' = 0
        /\ skewed' = ArmingOne
        /\ UNCHANGED <<configured, fresh, at, ctrl>>
    BY <1>2 DEF ClearHaltIn
  <2>3. ArmGuarded'
    BY <2>1 DEF ArmGuarded, ArmingOne
  <2>4. ctrl = 0 \/ ctrl = 1
    BY DEF ArmGuarded
  <2>5. ~skewed' /\ at = "arm" => ctrl = 0
    BY <2>1, <2>4 DEF ArmingOne
  <2>6. TogglesEqual'
    BY <2>1, <2>5 DEF TogglesEqual
  <2> QED BY <2>3, <2>6
<1>3. CASE ReadControl
  <2>1. /\ at = "copied" /\ at' = "arm" /\ ctrl' = inTog
        /\ UNCHANGED <<configured, inResp, inTog, pcTog, fresh, skewed>>
    BY <1>3 DEF ReadControl
  <2> QED BY <2>1 DEF ArmGuarded, TogglesEqual
<1>4. CASE WriteControl
  <2>1. /\ at = "arm" /\ at' = "loop" /\ inTog' = ctrl
        /\ UNCHANGED <<configured, pcTog, fresh, skewed, ctrl>>
    BY <1>4 DEF WriteControl
  <2>2. ArmGuarded'
    BY <2>1 DEF ArmGuarded
  <2>3. TogglesEqual => TogglesEqual'
    BY <2>1 DEF TogglesEqual
  <2> QED BY <2>2, <2>3
<1>5. CASE \/ HaltIn \/ HaltOut \/ ClearHaltOut \/ OutPacket \/ SetReport \/ ReportData
           \/ SendReport \/ PollOut \/ ReopenOut \/ ForwardOut \/ PollReport \/ ForwardPart
           \/ ReportDone \/ UNCHANGED vars
  <2>1. /\ UNCHANGED <<inTog, pcTog, skewed, fresh, configured, ctrl>>
        /\ inResp' = inResp \/ inResp' = "STALL"
    BY <1>5
    DEF HaltIn, HaltOut, ClearHaltOut, OutPacket, SetReport, ReportData, SendReport, PollOut,
        ReopenOut, ForwardOut, PollReport, ForwardPart, ReportDone, vars
  <2>2. at' = at \/ at' \notin {"copied", "arm"} \/ (at' = "copied" /\ inResp' = "NAK")
    BY <1>5
    DEF HaltIn, HaltOut, ClearHaltOut, OutPacket, SetReport, ReportData, SendReport, PollOut,
        ReopenOut, ForwardOut, PollReport, ForwardPart, ReportDone, vars
  <2> QED BY <2>1, <2>2, OthersKeepToggles
<1> QED BY <1>1, <1>2, <1>3, <1>4, <1>5 DEF Next, Handler, Relay

\* Equal toggles, on the High-Speed controller but after a halt cleared over DATA1.
ToggleInv == ArmGuarded /\ (kept \/ TogglesEqual)

LEMMA FsStepKeepsToggles ==
    ToggleInv /\ [Next]_vars /\ UNCHANGED kept => ToggleInv'
BY StepKeepsToggles DEF ToggleInv, ArmGuarded

LEMMA HsClearKeepsToggles == ASSUME ToggleInv, HsClearHaltIn PROVE ToggleInv'
<1>1. /\ configured /\ inResp' = "NAK" /\ inTog' = inTog /\ pcTog' = 0
      /\ (kept' <=> kept \/ inTog = 1) /\ kept' \in BOOLEAN
      /\ (skewed' <=> at = "arm" /\ ctrl = 1) /\ skewed' \in BOOLEAN
      /\ UNCHANGED <<configured, fresh, at, ctrl>>
  BY DEF HsClearHaltIn, ArmingOne, device, relay, ToggleInv, ArmGuarded
<1>2. ArmGuarded'
  BY <1>1 DEF ToggleInv, ArmGuarded
<1>3. kept' \/ TogglesEqual'
  BY <1>1 DEF ToggleInv, ArmGuarded, TogglesEqual
<1> QED BY <1>2, <1>3 DEF ToggleInv

LEMMA HsStepKeepsToggles == ToggleInv /\ [HsNext]_<<vars, kept>> => ToggleInv'
<1> SUFFICES ASSUME ToggleInv, [HsNext]_<<vars, kept>> PROVE ToggleInv'
  OBVIOUS
<1>1. HsNext => \/ HsClearHaltIn
                \/ (BusReset \/ TakeReport) /\ kept' = FALSE
                \/ Next /\ UNCHANGED kept
  BY DEF HsNext, HsHandler, HsBusReset, HsSetConfiguration, HsSetHalt, HsClearHaltOut,
         HsTakeReport, HsOutPacket, HsSetReport, HsReportData, HsSendReport, HsArm,
         HsPollOut, HsPollReport, HsReportDone, AsFs, Next, Handler, Relay
<1>2. CASE (BusReset \/ TakeReport) /\ kept' = FALSE
  BY <1>2, ResetEqualsToggles, TakingEqualsToggles DEF ToggleInv
<1> QED BY <1>1, <1>2, HsClearKeepsToggles, FsStepKeepsToggles

\* The toggle of the next report is the one the PC expects, whatever comes between the
\* relay's read and its write of the register, except until the next report is taken after
\* a reset or a cleared halt that hit while the relay held a DATA1, or after a second
\* configuration without a reset (usb_device_fs.c, usbfsd_send_report).
THEOREM TogglesAgree ==
    HsInit /\ [][AsFs(Next)]_<<vars, kept>> => []ToggleAgrees
<1>1. HsInit => ToggleInv /\ ~kept
  BY InitToggles DEF HsInit, ToggleInv
<1>2. ToggleInv /\ ~kept /\ [AsFs(Next)]_<<vars, kept>> => (ToggleInv /\ ~kept)'
  BY FsStepKeepsToggles DEF AsFs
<1>3. ToggleInv /\ ~kept => ToggleAgrees
  BY DEF ToggleInv, TogglesEqual, ToggleAgrees
<1> QED BY <1>1, <1>2, <1>3, PTL

\* So it is on the High-Speed controller, where a halt cleared over DATA1 is another
\* exception until the next report is taken (usb_device_hs.c, usbhsd_send_report, and :852).
THEOREM HsTogglesAgree == HsInit /\ [][HsNext]_<<vars, kept>> => []HsToggleAgrees
<1>1. HsInit => ToggleInv
  BY InitToggles DEF ToggleInv
<1>2. ToggleInv => HsToggleAgrees
  BY DEF ToggleInv, TogglesEqual, HsToggleAgrees, ToggleAgrees
<1> QED BY <1>1, <1>2, HsStepKeepsToggles, PTL
=============================================================================
