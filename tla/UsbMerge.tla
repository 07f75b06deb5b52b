------------------------------ MODULE UsbMerge ------------------------------
(***************************************************************************)
(* The merge of injected mouse input into the reports of the real mouse    *)
(* (usb_merge.c, humanize.c), as the V5F relay loop drives it              *)
(* (main_v5f.c): drain the records, forward the physical reports with      *)
(* injection merged in, then emit a report of its own when the mouse is    *)
(* silent.  One axis, the wheel and the buttons; KbMerge has the keyboard.  *)
(*                                                                         *)
(* The PC empties the IN endpoint, or resets the bus, between any two      *)
(* steps of the loop; every place where the code looks at the endpoint is  *)
(* a step of its own.  Sub-pixel residues are zero because every delta     *)
(* that reaches the filter is a whole number of counts.                    *)
(***************************************************************************)
EXTENDS Integers

CONSTANTS
    Layouts,      \* the layouts a mouse may have: TRUE for a wheel with a report ID of its own
    FrameCap,     \* HZ_MAX_PER_FRAME (127 in the code)
    FieldMax,     \* x_max of the cloned layout
    WheelMax,     \* w_max, also the cap of the wheel accumulator
    AccumCap,     \* INJECT_ACCUM_CAP (4096 in the code)
    Button,       \* the mouse buttons
    Delta,        \* motion of a record or of a physical report
    Scroll,       \* wheel steps of a record or of a physical report
    MaxRecords,   \* bound: records injected
    MaxReports,   \* bound: physical reports
    MaxResets     \* bound: bus resets

ASSUME LayoutAssumption ==
    /\ Layouts \subseteq BOOLEAN
    /\ FrameCap \in Nat \ {0} /\ FieldMax \in Nat /\ FieldMax >= FrameCap
    /\ WheelMax \in Nat \ {0} /\ AccumCap \in Nat \ {0}
ASSUME InputAssumption ==
    /\ Delta \subseteq -(FieldMax + 1) .. FieldMax
    /\ Scroll \subseteq -WheelMax .. WheelMax
    /\ {MaxRecords, MaxReports, MaxResets} \subseteq Nat

VARIABLES
    pc,         \* where the relay loop is
    splitWheel, \* mouse_layout: the wheel has a report ID of its own
    \* inject and the filter
    dx,         \* inject.mouse_dx
    owed,       \* S.owed_x: injected motion not delivered yet
    wheel,      \* inject.mouse_wheel
    buttons,    \* inject.mouse_buttons
    dirty,      \* inject.mouse_dirty
    merged,     \* merged_this_cycle
    silent,     \* millis() - last_merge_ms >= SYNTH_SILENCE_MS
    \* the physical report, the report to send, and what a failed send restores
    raw, out, saved,
    \* the device endpoint, and the PC's idea of the buttons
    configured, ep, pcButtons,
    \* history: motion and wheel steps the accumulators took, those of the physical
    \* reports the endpoint took and those of all reports it took; the buttons of the
    \* last physical report it took
    injected, physical, handed, physButtons,
    held,       \* the buttons the mouse holds, by its last report, taken or dropped
    lapsed,     \* the PC was last shown something else
    records, reports, resets

motion == <<dx, owed, wheel, dirty>>
cycle == <<merged, silent>>
tx == <<raw, out, saved>>
usb == <<configured, ep, pcButtons>>
taken == <<physical, handed, physButtons>>
mouse == <<held, lapsed>>
sums == <<injected, taken, mouse>>
bounds == <<records, reports, resets>>
vars == <<pc, splitWheel, motion, buttons, cycle, tx, usb, sums, bounds>>

None == [id |-> "none", x |-> 0, w |-> 0, btn |-> {}]
Report(id, x, w, btn) == [id |-> id, x |-> x, w |-> w, btn |-> btn]
Nothing == [x |-> 0, w |-> 0]
Add(s, r) == [x |-> s.x + r.x, w |-> s.w + r.w]
\* Mutant: only the lower end is clamped.
ClampLow(n, m) == IF n < -m THEN -m ELSE n
Clamp(n, m) == IF n > m THEN m ELSE IF n < -m THEN -m ELSE n

\* What the mouse may report: one with its own wheel report ID sends the wheel alone.
PhysicalReports ==
    IF splitWheel
    THEN [id : {"xy"}, x : Delta, w : {0}, btn : SUBSET Button]
           \cup [id : {"wheel"}, x : {0}, w : Scroll, btn : {{}}]
    ELSE [id : {"xy"}, x : Delta, w : Scroll, btn : SUBSET Button]

HasWheel(r) == (r.id = "wheel") = splitWheel

Init ==
    /\ pc = "drain" /\ splitWheel \in Layouts
    /\ dx = 0 /\ owed = 0 /\ wheel = 0 /\ buttons = {} /\ dirty = FALSE
    /\ merged = FALSE /\ silent = TRUE
    /\ raw = None /\ out = None /\ saved = <<>>
    /\ configured = TRUE /\ ep = None /\ pcButtons = {}
    /\ injected = Nothing /\ physical = Nothing /\ handed = Nothing /\ physButtons = {}
    /\ held = {} /\ lapsed = FALSE
    /\ records = 0 /\ reports = 0 /\ resets = 0

EpFree == configured /\ ep = None

\* What a rejected send rolls back (mouse_tx_checkpoint_t, merged_this_cycle and
\* last_merge_ms).
Checkpoint == <<dx, owed, wheel, dirty, merged, silent>>

-----------------------------------------------------------------------------
\* usb_merge_drain_icc: a record goes into the accumulators (merge_apply_mouse).
ApplyRecord(d, w, b) ==
    /\ pc = "drain"
    /\ records < MaxRecords
    /\ records' = records + 1
    /\ dx' = Clamp(dx + d, AccumCap)
    /\ wheel' = Clamp(wheel + w, WheelMax)
    /\ buttons' = b
    /\ dirty' = TRUE
    /\ injected' = Add(injected, [x |-> dx' - dx, w |-> wheel' - wheel])
    /\ UNCHANGED <<pc, splitWheel, owed, cycle, tx, usb, taken, mouse, reports, resets>>

\* The mailbox is empty; merged_this_cycle was cleared when the drain began.
EndDrain ==
    /\ pc = "drain"
    /\ merged' = FALSE
    /\ pc' = "eps"
    /\ UNCHANGED <<splitWheel, motion, buttons, silent, tx, usb, sums, bounds>>

-----------------------------------------------------------------------------
\* The poll of the mouse's endpoint returns a report.
PhysicalReport(r) ==
    /\ pc = "eps"
    /\ reports < MaxReports
    /\ reports' = reports + 1
    /\ raw' = r
    /\ held' = IF r.id = "xy" THEN r.btn ELSE held
    /\ pc' = "forward"
    /\ UNCHANGED <<splitWheel, motion, buttons, cycle, out, saved, usb, injected, taken,
                   lapsed, records, resets>>

NoReport ==
    /\ pc = "eps"
    /\ pc' = "wheel"
    /\ UNCHANGED <<splitWheel, motion, buttons, cycle, tx, usb, sums, bounds>>

\* Mutant: the injection counts as sent though the report was dropped.
DropCommitted ==
    /\ pc = "forward"
    /\ ~EpFree
    /\ raw' = None
    /\ dirty' = (buttons # {} \/ dx # 0 \/ owed # 0 \/ wheel # 0)
    /\ lapsed' = (lapsed \/ raw.id = "xy")
    /\ pc' = "wheel"
    /\ UNCHANGED <<splitWheel, dx, owed, wheel, buttons, cycle, out, saved, usb, injected,
                   taken, held, bounds>>

\* A busy endpoint drops the physical report.
DropReport ==
    /\ pc = "forward"
    /\ ~EpFree
    /\ raw' = None
    /\ lapsed' = (lapsed \/ raw.id = "xy")
    /\ pc' = "wheel"
    /\ UNCHANGED <<splitWheel, motion, buttons, cycle, out, saved, usb, injected, taken,
                   held, bounds>>

\* usb_merge_take_injection: everything injected and owed, up to the frame cap.
Emit == Clamp(dx + owed, FrameCap)

\* Mutant: the injected buttons take the place of the mouse's.
Injected(b) == IF dirty THEN buttons ELSE b
Pressed(b) == b \cup buttons

\* The report with injection merged in (usb_merge_report, its fast and its slow path).
Merged(r) ==
    [r EXCEPT !.x = IF r.id = "xy" THEN Clamp(@ + Emit, FieldMax) ELSE @,
              !.w = IF HasWheel(r) THEN Clamp(@ + wheel, WheelMax) ELSE @,
              !.btn = IF r.id = "xy" THEN Pressed(@) ELSE @]

\* usb_merge_forward_report up to the send.  Motion that did not fit goes back to owed.
Merge ==
    /\ pc = "forward"
    /\ EpFree
    /\ saved' = Checkpoint
    /\ merged' = TRUE
    /\ silent' = FALSE
    /\ IF dirty
       THEN /\ out' = Merged(raw)
            /\ dx' = 0
            /\ owed' = owed + dx - (out'.x - raw.x)
            /\ wheel' = wheel - (out'.w - raw.w)
            /\ dirty' = (buttons # {} \/ wheel' # 0 \/ owed' # 0)
       ELSE out' = raw /\ UNCHANGED motion
    /\ pc' = "send"
    /\ UNCHANGED <<splitWheel, buttons, raw, usb, sums, bounds>>

\* Mutants: nothing is rolled back; the wheel is not; the dirty flag is not.
RestoreNothing == UNCHANGED <<motion, cycle>>
RestoreNoWheel ==
    /\ dx' = saved[1] /\ owed' = saved[2] /\ wheel' = wheel
    /\ dirty' = saved[4] /\ merged' = saved[5] /\ silent' = saved[6]
RestoreNotDirty ==
    /\ dx' = saved[1] /\ owed' = saved[2] /\ wheel' = saved[3]
    /\ UNCHANGED dirty /\ merged' = saved[5] /\ silent' = saved[6]

Restore ==
    /\ dx' = saved[1] /\ owed' = saved[2] /\ wheel' = saved[3]
    /\ dirty' = saved[4] /\ merged' = saved[5] /\ silent' = saved[6]

\* usb_device_send_report refuses when the bus was reset since the check above.
SendMerged ==
    /\ pc = "send"
    /\ IF EpFree
       THEN /\ ep' = out
            /\ handed' = Add(handed, out)
            /\ physical' = Add(physical, raw)
            /\ physButtons' = IF raw.id = "xy" THEN raw.btn ELSE physButtons
            /\ lapsed' = (lapsed /\ raw.id # "xy")
            /\ UNCHANGED <<motion, cycle>>
       ELSE /\ Restore
            /\ lapsed' = (lapsed \/ raw.id = "xy")
            /\ UNCHANGED <<ep, taken>>
    /\ raw' = None /\ out' = None /\ saved' = <<>>
    /\ pc' = "wheel"
    /\ UNCHANGED <<splitWheel, buttons, configured, pcButtons, injected, held, bounds>>

-----------------------------------------------------------------------------
\* usb_merge_send_pending

\* Mutant: only a held button keeps the mouse dirty.
ButtonsLeft == buttons # {}
MotionLeft == buttons # {} \/ dx # 0 \/ owed # 0

\* First a wheel that has a report of its own (usb_merge_send_wheel_report).
FlushWheel ==
    /\ pc = "wheel"
    /\ IF splitWheel /\ wheel # 0 /\ EpFree
       THEN /\ ep' = Report("wheel", 0, wheel, {})
            /\ handed' = Add(handed, ep')
            /\ wheel' = 0
            /\ dirty' = MotionLeft
       ELSE UNCHANGED <<ep, handed, wheel, dirty>>
    /\ pc' = "synth"
    /\ UNCHANGED <<splitWheel, dx, owed, buttons, cycle, tx, configured, pcButtons, injected, physical,
                   physButtons, mouse, bounds>>

\* Mutant: the silence test the wrong way round.
MaySynthesizeBusy == ~merged /\ dirty /\ ~silent /\ EpFree
MaySynthesize == ~merged /\ dirty /\ silent /\ EpFree

SkipSynth ==
    /\ pc = "synth"
    /\ ~MaySynthesize
    /\ pc' = "drain"
    /\ UNCHANGED <<splitWheel, motion, buttons, cycle, tx, usb, sums, bounds>>

\* Then, with a silent mouse and a free endpoint, a report of injected input only.
BuildSynth ==
    /\ pc = "synth"
    /\ MaySynthesize
    /\ saved' = Checkpoint
    /\ out' = Report("xy", Emit, IF splitWheel THEN 0 ELSE wheel, buttons)
    /\ dx' = 0
    /\ owed' = owed + dx - Emit
    /\ pc' = "synthsend"
    /\ UNCHANGED <<splitWheel, wheel, dirty, buttons, cycle, raw, usb, sums, bounds>>

SendSynth ==
    /\ pc = "synthsend"
    /\ IF EpFree
       THEN /\ ep' = out
            /\ handed' = Add(handed, out)
            /\ wheel' = 0
            /\ dirty' = (buttons # {} \/ owed # 0)
            /\ lapsed' = (lapsed \/ ~(held \subseteq out.btn))
            /\ UNCHANGED <<dx, owed, cycle>>
       ELSE Restore /\ UNCHANGED <<ep, handed, lapsed>>
    /\ out' = None /\ saved' = <<>>
    /\ pc' = "drain"
    /\ UNCHANGED <<splitWheel, buttons, raw, configured, pcButtons, injected, physical,
                   physButtons, held, bounds>>

-----------------------------------------------------------------------------
\* Time and the PC

\* Two milliseconds pass since the last merged report.
Silence ==
    /\ ~silent
    /\ silent' = TRUE
    /\ UNCHANGED <<pc, splitWheel, motion, buttons, merged, tx, usb, sums, bounds>>

\* An IN token takes the armed report; the interrupt frees the endpoint.
PcPolls ==
    /\ ep # None
    /\ ep' = None
    /\ pcButtons' = IF ep.id = "xy" THEN ep.btn ELSE pcButtons
    /\ UNCHANGED <<pc, splitWheel, motion, buttons, cycle, tx, configured, sums, bounds>>

\* A bus reset takes the armed report and the configuration away, and the PC starts
\* over with no button down.
BusReset ==
    /\ resets < MaxResets
    /\ resets' = resets + 1
    /\ configured' = FALSE
    /\ ep' = None /\ pcButtons' = {} /\ physButtons' = {}
    /\ lapsed' = (lapsed \/ held # {})
    /\ UNCHANGED <<pc, splitWheel, motion, buttons, cycle, tx, injected, physical, handed,
                   held, records, reports>>

SetConfiguration ==
    /\ ~configured
    /\ configured' = TRUE
    /\ UNCHANGED <<pc, splitWheel, motion, buttons, cycle, tx, ep, pcButtons, sums, bounds>>

-----------------------------------------------------------------------------
Loop ==
    \/ EndDrain \/ NoReport \/ DropReport \/ Merge \/ SendMerged
    \/ FlushWheel \/ SkipSynth \/ BuildSynth \/ SendSynth

Next ==
    \/ \E d \in Delta, w \in Scroll, b \in SUBSET Button : ApplyRecord(d, w, b)
    \/ \E r \in PhysicalReports : PhysicalReport(r)
    \/ Loop
    \/ Silence \/ PcPolls \/ BusReset \/ SetConfiguration

Spec == Init /\ [][Next]_vars

\* The relay loop runs, time passes, the PC polls and configures the device.
FairSpec ==
    /\ Spec
    /\ WF_vars(Loop) /\ WF_vars(Silence) /\ WF_vars(PcPolls) /\ WF_vars(SetConfiguration)

-----------------------------------------------------------------------------
TypeOK ==
    /\ pc \in {"drain", "eps", "forward", "send", "wheel", "synth", "synthsend"}
    /\ dx \in -AccumCap .. AccumCap /\ wheel \in -WheelMax .. WheelMax
    /\ buttons \subseteq Button /\ pcButtons \subseteq Button
    /\ ep.x \in -(FieldMax + 1) .. FieldMax /\ ep.w \in -WheelMax .. WheelMax
    /\ out # None => pc \in {"send", "synthsend"}
    /\ {dirty, merged, silent, configured} \subseteq BOOLEAN /\ splitWheel \in Layouts

\* No send is half-way.
Settled == saved = <<>>

\* Injected motion is neither lost nor doubled: what the endpoint took is the physical
\* motion it took plus all injected motion but what still waits, across frame caps,
\* clamped fields, dropped reports, refused sends and bus resets.
MotionConserved ==
    Settled => handed.x + dx + owed = physical.x + injected.x

\* The same of the wheel, when the wheel is part of the X/Y report.
WheelConserved ==
    Settled /\ ~splitWheel => handed.w + wheel = physical.w + injected.w

\* Nothing is stranded: whatever still has to reach the PC keeps the mouse dirty, so the
\* next merged or synthesized report carries it.
NothingStranded ==
    Settled /\ (dx # 0 \/ owed # 0 \/ wheel # 0 \/ buttons # {}) => dirty

\* What was injected waits or is with the endpoint, and what waits is on its way.
InjectionConserved == MotionConserved /\ WheelConserved /\ NothingStranded

\* test/inject_apply_test.c:179-181: "After release the button bit in the synth report must
\* be clear": once the merge has nothing left to say and the endpoint is empty, the PC holds
\* down no button but those the mouse itself reported last.
ReleasesReachPC ==
    Settled /\ ~dirty /\ EpFree => pcButtons \subseteq physButtons

\* No injected button sticks, when the wheel is part of the X/Y report.
NoStuckButton == ~splitWheel => ReleasesReachPC

\* The PC sees down exactly the buttons the mouse holds, once injection has nothing left
\* to say; but for a report that was dropped or taken by a bus reset (main_v5f.c:436-478
\* sends nothing again), and a synthesized report, which shows the injected buttons alone
\* (usb_merge.c:744-773): then only the mouse's next report puts it right.
HeldButtonsShown ==
    Settled /\ raw = None /\ ~dirty /\ EpFree /\ ~lapsed /\ ~splitWheel
        => pcButtons = held

\* All injected motion and scrolling is handed over in the end.
InjectionDelivered == <>[](dx = 0 /\ owed = 0 /\ wheel = 0)
=============================================================================
