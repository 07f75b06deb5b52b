----------------------------- MODULE TwoBoard -----------------------------
(***************************************************************************)
(* The two-board relay of src/src/two_board.c.  Board B (USB host, SPI     *)
(* master) ships the captured descriptor blob, HID reports cut into        *)
(* fragments, injected commands and telemetry polls as sequence-numbered   *)
(* SPI slots; Board A (USB device, SPI slave) rebuilds the blob,           *)
(* enumerates, and relays.  Nothing is acknowledged or retransmitted       *)
(* except the blob, which is sent again while Board A holds DRDY low.      *)
(*                                                                         *)
(* A slot reaches Board A whole and in order or not at all (spi_frame's    *)
(* CRC and the SOF scanner, module SpiStream).  It is lost when the master *)
(* aborts the exchange, a bit flips or Board A's receive ring is full.     *)
(***************************************************************************)
EXTENDS Naturals, Sequences

CONSTANTS
    Device,        \* the devices that may be plugged into Board B
    Chunks,        \* chunks of each device's descriptor blob
    Shape,         \* the reports a device sends: [total : fragments, ep : endpoint]
    SeqMod,        \* modulus of the slot sequence number (256 in the code)
    RingFrames,    \* slots Board A's receive ring holds (64 in the code)
    InjectDepth,   \* INJECT_LINK_DEPTH (8 in the code)
    MaxBurst,      \* bound: slots lost in a row
    MaxReports,    \* bound: reports captured
    MaxInject,     \* bound: commands injected
    MaxResets      \* bound: resets of either board

ASSUME DeviceAssumption == Chunks \in [Device -> Nat \ {0}]
ASSUME ShapeAssumption == \A s \in Shape : s.total \in Nat \ {0}
ASSUME SizeAssumption ==
    /\ SeqMod \in Nat /\ SeqMod >= 2
    /\ {RingFrames, MaxBurst, MaxReports, MaxInject, MaxResets} \subseteq Nat
    /\ InjectDepth \in Nat /\ InjectDepth >= 2

VARIABLES
    \* Board B
    bpc,        \* where two_board_host_run's loop is
    device,     \* the device whose descriptors were captured
    bseq,       \* seq: number of the next slot
    job,        \* what is left of the report or blob being sent
    inject,     \* the inject_link FIFO
    \* the link
    ring,       \* slots in Board A's receive ring
    lostRun,    \* slots lost since the last one that arrived
    \* Board A
    phase,      \* "desc", "enum" or "relay" (Phase 1, 2 and 3)
    desc,       \* desc_xfer_ctx_t
    clone,      \* the chunks desc was deserialized from
    prev,       \* prev_seq, NoSeq while !have_prev
    report,     \* report_xfer_ctx_t
    \* history
    captured, pushed, forwarded, applied, resets

boardB == <<bpc, device, bseq, job, inject>>
boardA == <<phase, desc, clone, prev, report>>
history == <<captured, pushed, forwarded, applied, resets>>
vars == <<boardB, ring, lostRun, boardA, history>>

NoSeq == SeqMod
Idle == [active |-> FALSE, total |-> 0, ep |-> 0, next |-> 0, parts |-> <<>>]
\* Mutant: a number that never wraps.
NextSeqNoWrap(s) == s + 1
NextSeq(s) == IF s = SeqMod - 1 THEN 0 ELSE s + 1

\* Mutant: no gap is ever seen.
GapUnchecked(p, s) == TRUE

\* spi_frame_seq_gap(prev, seq) = 0: the immediate successor or a repeat.
NoGap(p, s) == p = NoSeq \/ s = p \/ s = NextSeq(p)

Body(type, item, idx, total, ep) ==
    [type |-> type, item |-> item, idx |-> idx, total |-> total, ep |-> ep]

\* report_xfer_pack_fragment for each index, desc_xfer_pack_chunk for each index
ReportFragments(n, s) == [i \in 1 .. s.total |-> Body("REPORT", n, i - 1, s.total, s.ep)]
BlobChunks(d) == [i \in 1 .. Chunks[d] |-> Body("DESC", d, i - 1, Chunks[d], 0)]

Init ==
    /\ bpc = "blob" /\ device \in Device
    /\ bseq = 0 /\ job = BlobChunks(device) /\ inject = <<>>
    /\ ring = <<>> /\ lostRun = 0
    /\ phase = "desc" /\ desc = Idle /\ clone = <<>> /\ prev = NoSeq /\ report = Idle
    /\ captured = 0 /\ pushed = 0 /\ forwarded = <<>> /\ applied = <<>> /\ resets = 0

-----------------------------------------------------------------------------
\* The link: one slot is clocked out.

Arrive(body) ==
    /\ Len(ring) < RingFrames
    /\ ring' = Append(ring, [seq |-> bseq, body |-> body])
    /\ lostRun' = 0

Lose ==
    /\ lostRun < MaxBurst
    /\ lostRun' = lostRun + 1
    /\ UNCHANGED ring

Exchange(body) ==
    /\ bseq' = NextSeq(bseq)
    /\ Arrive(body) \/ Lose

-----------------------------------------------------------------------------
\* Board B

\* DRDY is low and the period is over: send_descriptor_blob begins.
StartBlob ==
    /\ bpc = "top"
    /\ phase # "relay"
    /\ job' = BlobChunks(device)
    /\ bpc' = "blob"
    /\ UNCHANGED <<device, bseq, inject, ring, lostRun, boardA, history>>

SkipBlob ==
    /\ bpc = "top"
    /\ bpc' = "eps"
    /\ UNCHANGED <<device, bseq, job, inject, ring, lostRun, boardA, history>>

\* An interrupt-IN poll returns a report: send_report_frames begins.
CaptureReport(s) ==
    /\ bpc = "eps"
    /\ captured < MaxReports
    /\ captured' = captured + 1
    /\ job' = ReportFragments(captured', s)
    /\ bpc' = "report"
    /\ UNCHANGED <<device, bseq, inject, ring, lostRun, boardA, pushed, forwarded,
                   applied, resets>>

\* The next fragment or chunk; nothing else is sent before the last one.
SendNext ==
    /\ bpc \in {"report", "blob"}
    /\ Exchange(Head(job))
    /\ job' = Tail(job)
    /\ bpc' = IF Len(job) = 1 THEN "eps" ELSE bpc
    /\ UNCHANGED <<device, inject, boardA, history>>

EndPolls ==
    /\ bpc = "eps"
    /\ bpc' = "cmd"
    /\ UNCHANGED <<device, bseq, job, inject, ring, lostRun, boardA, history>>

\* Mutant: a FIFO that is a stack.
EnqueueInFront(q, n) == <<n>> \o (IF Len(q) = InjectDepth - 1 THEN Tail(q) ELSE q)

\* A full FIFO evicts its oldest record.
Enqueue(q, n) == Append(IF Len(q) = InjectDepth - 1 THEN Tail(q) ELSE q, n)

\* A parsed command pushes a record (inject_link_push).
PushInject ==
    /\ bpc = "cmd"
    /\ pushed < MaxInject
    /\ pushed' = pushed + 1
    /\ inject' = Enqueue(inject, pushed')
    /\ UNCHANGED <<bpc, device, bseq, job, ring, lostRun, boardA, captured, forwarded,
                   applied, resets>>

StartDrain ==
    /\ bpc = "cmd"
    /\ bpc' = "drain"
    /\ UNCHANGED <<device, bseq, job, inject, ring, lostRun, boardA, history>>

\* inject_link_drain: the record is gone whether or not its slot arrived.
SendInject ==
    /\ bpc = "drain"
    /\ inject # <<>>
    /\ Exchange(Body("INJECT", Head(inject), 0, 1, 0))
    /\ inject' = Tail(inject)
    /\ UNCHANGED <<bpc, device, job, boardA, history>>

\* The pass ends, with a telemetry poll when 250 ms are over.
EndPass ==
    /\ bpc = "drain"
    /\ inject = <<>>
    /\ bpc' = "top"
    /\ \/ Exchange(Body("TELEM_REQ", 0, 0, 1, 0))
       \/ UNCHANGED <<bseq, ring, lostRun>>
    /\ UNCHANGED <<device, job, inject, boardA, history>>

\* Board B restarts, perhaps with another device, and ships its blob at once.
ResetB ==
    /\ resets < MaxResets
    /\ resets' = resets + 1
    /\ device' \in Device
    /\ bseq' = 0 /\ inject' = <<>> /\ bpc' = "blob"
    /\ job' = BlobChunks(device')
    /\ UNCHANGED <<ring, lostRun, boardA, captured, pushed, forwarded, applied>>

-----------------------------------------------------------------------------
\* Board A

Slot == Head(ring)

Begin(b) ==
    [active |-> b.total > 1, total |-> b.total, ep |-> b.ep, next |-> 1,
     parts |-> <<b.item>>]

Extend(ctx, b) ==
    [ctx EXCEPT !.active = b.idx + 1 < b.total, !.next = b.idx + 1,
                !.parts = Append(@, b.item)]

\* Mutant: a fragment of another length continues the transfer.
FitsAnyTotal(ctx, b) == ctx.active /\ b.idx = ctx.next /\ b.ep = ctx.ep

Fits(ctx, b) == ctx.active /\ b.idx = ctx.next /\ b.total = ctx.total /\ b.ep = ctx.ep

\* Mutant: an active transfer is waited for, whatever comes instead.
AcceptPatient(ctx, b) ==
    IF b.idx = 0 /\ ~ctx.active THEN Begin(b)
    ELSE IF Fits(ctx, b) THEN Extend(ctx, b) ELSE ctx

\* What report_xfer_accept and desc_xfer_accept share: index 0 begins a transfer,
\* any other must continue the active one, and anything else abandons it.
Accept(ctx, b) ==
    IF b.idx = 0 THEN Begin(b) ELSE IF Fits(ctx, b) THEN Extend(ctx, b) ELSE Idle

\* Mutant: done one fragment early.
CompleteEarly(ctx) == ctx.total > 0 /\ ctx.next + 1 >= ctx.total

Complete(ctx) == ctx.total > 0 /\ ctx.next = ctx.total

\* The chunks all come from one device's blob.
OneBlob(parts) == \A i \in DOMAIN parts : parts[i] = parts[1]

\* Phase 1 takes DESC slots only and checks no sequence number.  A blob that
\* mixes two devices may or may not pass desc_deserialize.
TakeDesc ==
    /\ phase = "desc"
    /\ ring # <<>>
    /\ ring' = Tail(ring)
    /\ LET b == Slot.body
           ctx == IF b.type = "DESC" THEN Accept(desc, b) ELSE desc
       IN  IF b.type = "DESC" /\ Complete(ctx)
           THEN \E ok \in BOOLEAN :
                  /\ OneBlob(ctx.parts) => ok
                  /\ phase' = IF ok THEN "enum" ELSE phase
                  /\ clone' = IF ok THEN ctx.parts ELSE clone
                  /\ desc' = IF ok THEN ctx ELSE Idle
           ELSE desc' = ctx /\ UNCHANGED <<phase, clone>>
    /\ UNCHANGED <<boardB, lostRun, prev, report, history>>

\* The PC configures the clone: DRDY goes high and Phase 3 begins.
Configured ==
    /\ phase = "enum"
    /\ phase' = "relay"
    /\ prev' = NoSeq /\ report' = Idle
    /\ UNCHANGED <<boardB, ring, lostRun, desc, clone, history>>

\* Phase 3: any sequence gap abandons the report being rebuilt.
TakeRelay ==
    /\ phase = "relay"
    /\ ring # <<>>
    /\ ring' = Tail(ring)
    /\ prev' = Slot.seq
    /\ LET b == Slot.body
           kept == IF NoGap(prev, Slot.seq) THEN report ELSE Idle
           ctx == IF b.type = "REPORT" THEN Accept(kept, b) ELSE kept
       IN  /\ report' = ctx
           /\ forwarded' = IF b.type = "REPORT" /\ Complete(ctx)
                           THEN Append(forwarded, ctx.parts) ELSE forwarded
           /\ applied' = IF b.type = "INJECT" THEN Append(applied, b.item) ELSE applied
    /\ UNCHANGED <<boardB, lostRun, phase, desc, clone, captured, pushed, resets>>

\* Board A restarts: its RAM is gone and DRDY falls.
ResetA ==
    /\ resets < MaxResets
    /\ resets' = resets + 1
    /\ phase' = "desc" /\ desc' = Idle /\ clone' = <<>> /\ prev' = NoSeq /\ report' = Idle
    /\ ring' = <<>>
    /\ UNCHANGED <<boardB, lostRun, captured, pushed, forwarded, applied>>

-----------------------------------------------------------------------------
StepB == StartBlob \/ SkipBlob \/ (\E s \in Shape : CaptureReport(s)) \/ SendNext
           \/ EndPolls \/ PushInject \/ StartDrain \/ SendInject \/ EndPass
StepA == TakeDesc \/ Configured \/ TakeRelay

Next == StepB \/ StepA \/ ResetB \/ ResetA

Spec == Init /\ [][Next]_vars

\* Both loops run, the re-send timer fires again and again while DRDY is low, the
\* PC configures an attached device, and from some point on no slot is lost.
FairSpec ==
    /\ Spec
    /\ WF_vars(StepB) /\ SF_vars(StartBlob) /\ WF_vars(StepA)
    /\ <>[][lostRun' <= lostRun]_vars

-----------------------------------------------------------------------------
TypeOK ==
    /\ bpc \in {"top", "eps", "report", "blob", "cmd", "drain"}
    /\ device \in Device /\ bseq \in 0 .. SeqMod - 1
    /\ Len(inject) < InjectDepth /\ Len(ring) <= RingFrames /\ lostRun \in 0 .. MaxBurst
    /\ phase \in {"desc", "enum", "relay"} /\ prev \in 0 .. SeqMod
    /\ job # <<>> <=> bpc \in {"report", "blob"}
    /\ \A i \in DOMAIN ring : ring[i].seq \in 0 .. SeqMod - 1
    /\ report.active => report.next = Len(report.parts) /\ report.next < report.total

\* No report the PC sees is pieced together from two: every fragment of a completed
\* report belongs to the same captured report, whatever slots were lost between.
NoSplice == \A i \in DOMAIN forwarded : OneBlob(forwarded[i])

\* Reports come out in the order they were captured and none comes out twice, across
\* losses, partial reports and restarts of either board.
ReportsInOrder ==
    \A i, j \in DOMAIN forwarded : i < j => forwarded[i][1] < forwarded[j][1]

\* Commands are applied in the order they were pushed and none twice, across evictions,
\* losses and restarts.
InjectInOrder == \A i, j \in DOMAIN applied : i < j => applied[i] < applied[j]

\* spi_link.c:355-357, of an aborted exchange: "The dropped slot is harmless - the blob
\* is re-sent periodically": a command that leaves the FIFO while Board A relays is on
\* its way to it.
NoCommandDropped ==
    [][bpc = "drain" /\ phase = "relay" /\ Len(inject') < Len(inject) /\ resets' = resets
         => \E i \in DOMAIN ring' : ring'[i].body = Body("INJECT", Head(inject), 0, 1, 0)]_vars

\* Board A never enumerates a clone that mixes the descriptors of two devices.
CloneIsOneDevice == clone # <<>> => OneBlob(clone) /\ Len(clone) = Chunks[clone[1]]

\* Once slots stop being lost Board A gets its blob and enumerates: the re-sends
\* under low DRDY repair every loss, a late start and a restart of either board.
EventuallyRelays == <>[](phase = "relay")
=============================================================================
