--------------------------- MODULE UsbMergeProofs ---------------------------
(***************************************************************************)
(* Proofs about the merge, for every frame cap, field and accumulator      *)
(* width, set of deltas, buttons and keys, and number of records.          *)
(*                                                                         *)
(* InjectionConserved speaks of the states between two sends.  To carry it *)
(* across one, Books says what the sums say while a report has left the    *)
(* accumulators and is not yet with the endpoint, and that the checkpoint  *)
(* would balance them if it were restored.  ButtonsTold does the same for  *)
(* what the PC holds down or is about to, and KeysTold for the keyboard.   *)
(***************************************************************************)
EXTENDS MCUsbMerge, FiniteSetTheorems, TLAPS

Motion == [x : Int, w : Int]
Reports ==
    [id : {"none", "xy", "wheel"}, x : -(FieldMax + 1) .. FieldMax,
     w : -WheelMax .. WheelMax, btn : SUBSET Button]
Checkpoints ==
    (-AccumCap .. AccumCap) \X Int \X (-WheelMax .. WheelMax)
        \X BOOLEAN \X BOOLEAN \X BOOLEAN

Sending == pc \in {"send", "synthsend"}

Types ==
    /\ pc \in {"drain", "eps", "forward", "send", "wheel", "synth", "synthsend"}
    /\ dx \in -AccumCap .. AccumCap /\ owed \in Int /\ wheel \in -WheelMax .. WheelMax
    /\ buttons \subseteq Button /\ pcButtons \subseteq Button
    /\ dirty \in BOOLEAN /\ merged \in BOOLEAN /\ silent \in BOOLEAN
    /\ configured \in BOOLEAN /\ splitWheel \in Layouts
    /\ raw \in Reports /\ out \in Reports /\ ep \in Reports
    /\ injected \in Motion /\ physical \in Motion /\ handed \in Motion
    /\ physButtons \subseteq Button

\* A checkpoint, and a report to send, exist exactly while a send is under way.
Checkpointed ==
    /\ Sending => saved \in Checkpoints
    /\ saved # <<>> <=> Sending
    /\ out # None => Sending

\* With d, o and w waiting, the sums add up, and the dirty flag tells of what waits.
Balanced(d, o, w, flag) ==
    /\ handed.x + d + o = physical.x + injected.x
    /\ ~splitWheel => handed.w + w = physical.w + injected.w
    /\ d # 0 \/ o # 0 \/ w # 0 \/ buttons # {} => flag

Books ==
    /\ ~Sending => Balanced(dx, owed, wheel, dirty)
    /\ Sending => Balanced(saved[1], saved[2], saved[3], saved[4])
    /\ pc = "send" =>
         /\ handed.x + out.x + dx + owed = physical.x + raw.x + injected.x
         /\ ~splitWheel => handed.w + out.w + wheel = physical.w + raw.w + injected.w
         /\ dx # 0 \/ owed # 0 \/ wheel # 0 \/ buttons # {} => dirty
    /\ pc = "synthsend" =>
         /\ handed.x + out.x + owed = physical.x + injected.x
         /\ ~splitWheel => out.w = wheel /\ handed.w + wheel = physical.w + injected.w
         /\ dx = 0

IInv == Types /\ Checkpointed /\ Books

-----------------------------------------------------------------------------
\* A clamped number is in range, and what is cut off a sum of two numbers in range is.
LEMMA ClampType ==
    ASSUME NEW n \in Int, NEW m \in Nat
    PROVE  Clamp(n, m) \in -m .. m
  BY DEF Clamp

LEMMA CutOffType ==
    ASSUME NEW m \in Nat, NEW i \in -m .. m, NEW j \in -m .. m
    PROVE  j - (Clamp(i + j, m) - i) \in -m .. m
  BY DEF Clamp

\* Sums of motion stay sums of motion.
LEMMA AddType ==
    ASSUME NEW s \in Motion, NEW r, r.x \in Int, r.w \in Int
    PROVE  /\ Add(s, r) \in Motion
           /\ Add(s, r).x = s.x + r.x /\ Add(s, r).w = s.w + r.w
  BY DEF Add, Motion

\* No report is one, and the mouse's are.
LEMMA ReportTypes == None \in Reports /\ PhysicalReports \subseteq Reports
<1> USE LayoutAssumption, InputAssumption
<1>1. None \in Reports
  BY DEF None, Reports
<1>2. ASSUME NEW r \in PhysicalReports PROVE r \in Reports
  <2> 0 \in -WheelMax .. WheelMax /\ 0 \in -(FieldMax + 1) .. FieldMax
    OBVIOUS
  <2>1. CASE r \in [id : {"xy"}, x : Delta, w : {0}, btn : SUBSET Button]
    <3>1. PICK x \in Delta, btns \in SUBSET Button :
             r = [id |-> "xy", x |-> x, w |-> 0, btn |-> btns]
      BY <2>1
    <3> QED
      BY <3>1 DEF Reports
  <2>2. CASE r \in [id : {"wheel"}, x : {0}, w : Scroll, btn : {{}}]
    <3>1. PICK w \in Scroll : r = [id |-> "wheel", x |-> 0, w |-> w, btn |-> {}]
      BY <2>2
    <3> QED
      BY <3>1 DEF Reports
  <2>3. CASE r \in [id : {"xy"}, x : Delta, w : Scroll, btn : SUBSET Button]
    BY <2>3 DEF Reports
  <2> QED
    BY <2>1, <2>2, <2>3 DEF PhysicalReports
<1> QED
  BY <1>1, <1>2

\* The state usb_merge_init leaves satisfies the invariant.
LEMMA InitInv == Init => IInv
<1> SUFFICES ASSUME Init PROVE IInv
  OBVIOUS
<1> USE LayoutAssumption, InputAssumption DEF Init
<1>1. 0 \in -AccumCap .. AccumCap /\ 0 \in -WheelMax .. WheelMax /\ Nothing \in Motion
  BY DEF Motion, Nothing
<1>2. Types
  <2>1. dx \in -AccumCap .. AccumCap /\ owed \in Int /\ wheel \in -WheelMax .. WheelMax
    BY <1>1
  <2>2. dirty \in BOOLEAN /\ merged \in BOOLEAN /\ silent \in BOOLEAN /\ configured \in BOOLEAN
    OBVIOUS
  <2>3. raw \in Reports /\ out \in Reports /\ ep \in Reports
    BY ReportTypes
  <2> QED
    BY <1>1, <2>1, <2>2, <2>3 DEF Types
<1>3. Checkpointed /\ Books
  BY DEF Checkpointed, Books, Sending, Balanced, Nothing
<1> QED
  BY <1>2, <1>3 DEF IInv

-----------------------------------------------------------------------------
\* A record: what the accumulators take of it is what waits more.
LEMMA ApplyRecordInv ==
    ASSUME IInv, NEW d \in Int, NEW w \in Int, NEW btns \in SUBSET Button,
           ApplyRecord(d, w, btns)
    PROVE  IInv'
<1> USE LayoutAssumption DEF IInv, ApplyRecord
<1>1. dx' \in -AccumCap .. AccumCap /\ wheel' \in -WheelMax .. WheelMax
  BY ClampType DEF Types
<1>2. injected' \in Motion /\ injected'.x = injected.x + dx' - dx
        /\ injected'.w = injected.w + wheel' - wheel
  <2>1. dx' - dx \in Int /\ wheel' - wheel \in Int
    BY <1>1 DEF Types
  <2> QED
    BY <1>1, <2>1, AddType DEF Types, Motion
<1>3. Types'
  BY <1>1, <1>2 DEF Types, taken, cycle, tx, usb
<1>4. Checkpointed'
  BY DEF Checkpointed, Sending, tx
<1>5. Books'
  <2>1. /\ ~Sending /\ ~Sending' /\ dirty'
        /\ UNCHANGED <<owed, handed, physical, splitWheel>>
    BY DEF Sending, taken
  <2>2. Balanced(dx, owed, wheel, dirty)
    BY <2>1 DEF Books
  <2>3. /\ handed.x \in Int /\ physical.x \in Int /\ injected.x \in Int
        /\ handed.w \in Int /\ physical.w \in Int /\ injected.w \in Int
    BY DEF Types, Motion
  <2> HIDE DEF ApplyRecord
  <2>4. Balanced(dx, owed, wheel, dirty)'
    BY <1>1, <1>2, <2>1, <2>2, <2>3 DEF Balanced, Types
  <2> QED
    BY <2>1, <2>4 DEF Books, Sending
<1> QED
  BY <1>3, <1>4, <1>5

\* Steps that leave the sums, the accumulators and the checkpoint alone.
LEMMA QuietInv ==
    ASSUME IInv, pc' \in {"drain", "eps", "forward", "wheel", "synth"}, ~Sending,
           raw' \in Reports, merged' \in BOOLEAN,
           UNCHANGED <<splitWheel, motion, buttons, silent, out, saved, usb, injected,
                       taken>>
    PROVE  IInv'
<1> USE DEF IInv
<1>1. Types'
  BY DEF Types, motion, usb, taken
<1>2. Checkpointed' /\ Books'
  BY DEF Checkpointed, Books, Balanced, Sending, motion, taken
<1> QED
  BY <1>1, <1>2

LEMMA LoopQuiet ==
    ASSUME IInv, EndDrain \/ NoReport \/ DropReport \/ SkipSynth
    PROVE  IInv'
<1>1. /\ pc' \in {"drain", "eps", "forward", "wheel", "synth"} /\ ~Sending
      /\ UNCHANGED <<splitWheel, motion, buttons, silent, out, saved, usb, injected, taken>>
  BY DEF EndDrain, NoReport, DropReport, SkipSynth, Sending, motion, cycle, tx, usb, sums,
         taken
<1>2. raw' \in Reports /\ merged' \in BOOLEAN
  BY ReportTypes
  DEF EndDrain, NoReport, DropReport, SkipSynth, IInv, Types, cycle, tx
<1> QED
  BY <1>1, <1>2, QuietInv

LEMMA PhysicalReportInv ==
    ASSUME IInv, NEW r \in Reports, PhysicalReport(r) \/ Clicks!PhysicalReport(r)
    PROVE  IInv'
<1>1. /\ pc' \in {"drain", "eps", "forward", "wheel", "synth"} /\ ~Sending
      /\ UNCHANGED <<splitWheel, motion, buttons, silent, out, saved, usb, injected, taken>>
  BY DEF PhysicalReport, Clicks!PhysicalReport, Sending, motion, cycle, usb, taken,
         Clicks!motion, Clicks!cycle, Clicks!usb, Clicks!taken
<1>2. raw' \in Reports /\ merged' \in BOOLEAN
  BY DEF PhysicalReport, Clicks!PhysicalReport, IInv, Types, cycle, Clicks!cycle
<1> QED
  BY <1>1, <1>2, QuietInv

-----------------------------------------------------------------------------
\* What a merged report holds: a field in range, whatever was added to it.
LEMMA MergedType ==
    ASSUME Types, NEW r \in Reports
    PROVE  /\ Merged(r) \in Reports
           /\ wheel - (Merged(r).w - r.w) \in -WheelMax .. WheelMax
           /\ Merged(r).btn = IF r.id = "xy" THEN Pressed(r.btn) ELSE r.btn
<1> USE LayoutAssumption
<1>1. /\ r.x \in -(FieldMax + 1) .. FieldMax /\ r.w \in -WheelMax .. WheelMax
      /\ r.btn \subseteq Button /\ r.id \in {"none", "xy", "wheel"}
      /\ r = [id |-> r.id, x |-> r.x, w |-> r.w, btn |-> r.btn]
  BY DEF Reports
<1>2. Emit \in Int
  <2>1. dx + owed \in Int
    BY DEF Types
  <2> QED
    BY <2>1, ClampType DEF Emit
<1>3. Clamp(r.x + Emit, FieldMax) \in -(FieldMax + 1) .. FieldMax
  <2>1. r.x + Emit \in Int
    BY <1>1, <1>2
  <2>2. Clamp(r.x + Emit, FieldMax) \in -FieldMax .. FieldMax
    BY <2>1, ClampType
  <2> QED
    BY <2>2
<1>4. /\ Clamp(r.w + wheel, WheelMax) \in -WheelMax .. WheelMax
      /\ wheel - (Clamp(r.w + wheel, WheelMax) - r.w) \in -WheelMax .. WheelMax
  <2>1. r.w + wheel \in Int
    BY <1>1 DEF Types
  <2> QED
    BY <1>1, <2>1, ClampType, CutOffType DEF Types
<1>5. Pressed(r.btn) \subseteq Button
  BY <1>1 DEF Pressed, Types
<1>6. /\ Merged(r).id = r.id
      /\ Merged(r).x = IF r.id = "xy" THEN Clamp(r.x + Emit, FieldMax) ELSE r.x
      /\ Merged(r).w = IF HasWheel(r) THEN Clamp(r.w + wheel, WheelMax) ELSE r.w
      /\ Merged(r).btn = IF r.id = "xy" THEN Pressed(r.btn) ELSE r.btn
      /\ Merged(r) = [id |-> Merged(r).id, x |-> Merged(r).x, w |-> Merged(r).w,
                      btn |-> Merged(r).btn]
  <2> DEFINE X == IF r.id = "xy" THEN Clamp(r.x + Emit, FieldMax) ELSE r.x
             W == IF HasWheel(r) THEN Clamp(r.w + wheel, WheelMax) ELSE r.w
             B == IF r.id = "xy" THEN Pressed(r.btn) ELSE r.btn
  <2>1. Merged(r) = [r EXCEPT !.x = X, !.w = W, !.btn = B]
    BY DEF Merged
  <2>2. Merged(r) = [id |-> r.id, x |-> X, w |-> W, btn |-> B]
    <3> HIDE DEF X, W, B
    <3> QED
      BY <2>1 DEF Reports
  <2> QED
    BY <2>2
<1>7. Merged(r) \in Reports
  BY <1>1, <1>3, <1>4, <1>5, <1>6 DEF Reports
<1>8. wheel - (Merged(r).w - r.w) \in -WheelMax .. WheelMax
  BY <1>1, <1>4, <1>6 DEF Types
<1> QED
  BY <1>6, <1>7, <1>8

\* The report leaves the accumulators: what it does not carry is owed.
LEMMA MergeInv ==
    ASSUME IInv, Merge
    PROVE  IInv'
<1> USE LayoutAssumption DEF IInv, Merge
<1>1. /\ out' \in Reports /\ dx' \in -AccumCap .. AccumCap /\ owed' \in Int
      /\ wheel' \in -WheelMax .. WheelMax /\ dirty' \in BOOLEAN
  <2>1. CASE dirty
    <3>1. out' = Merged(raw) /\ out' \in Reports /\ raw \in Reports
      BY <2>1, MergedType DEF Types
    <3>2. out'.x \in Int /\ raw.x \in Int
      BY <3>1 DEF Reports
    <3>3. wheel' \in -WheelMax .. WheelMax
      BY <2>1, <3>1, MergedType DEF Types
    <3>4. dx' = 0 /\ owed' = owed + dx - (out'.x - raw.x)
      BY <2>1
    <3>5. dirty' \in BOOLEAN
      BY <2>1
    <3> QED
      BY <3>1, <3>2, <3>3, <3>4, <3>5 DEF Types
  <2>2. CASE ~dirty
    BY <2>2 DEF Types, motion
  <2> QED
    BY <2>1, <2>2 DEF Types
<1>2. Types'
  BY <1>1 DEF Types, usb, sums, taken
<1>3. saved' = Checkpoint /\ saved' \in Checkpoints /\ pc' = "send"
  BY DEF Checkpoint, Checkpoints, Types
<1>4. Checkpointed'
  BY <1>3 DEF Checkpointed, Sending, Checkpoint
<1>5. /\ handed'.x + out'.x + dx' + owed' = physical'.x + raw'.x + injected'.x
      /\ ~splitWheel' => handed'.w + out'.w + wheel' = physical'.w + raw'.w + injected'.w
      /\ dx' # 0 \/ owed' # 0 \/ wheel' # 0 \/ buttons' # {} => dirty'
  <2>1. Balanced(dx, owed, wheel, dirty)
    BY DEF Books, Sending
  <2>2. UNCHANGED <<handed, physical, injected, raw, splitWheel, buttons>>
    BY DEF sums, taken
  <2>3. /\ handed.x \in Int /\ physical.x \in Int /\ injected.x \in Int /\ raw.x \in Int
        /\ handed.w \in Int /\ physical.w \in Int /\ injected.w \in Int /\ raw.w \in Int
        /\ out'.x \in Int /\ out'.w \in Int
    BY <1>1 DEF Types, Motion, Reports
  <2>4. CASE dirty
    <3>1. /\ dx' = 0 /\ owed' = owed + dx - (out'.x - raw.x)
          /\ wheel' = wheel - (out'.w - raw.w)
          /\ dirty' = (buttons # {} \/ wheel' # 0 \/ owed' # 0)
      BY <2>4
    <3>2. handed'.x + out'.x + dx' + owed' = physical'.x + raw'.x + injected'.x
      BY <2>1, <2>2, <2>3, <3>1 DEF Balanced, Types
    <3>3. ~splitWheel'
            => handed'.w + out'.w + wheel' = physical'.w + raw'.w + injected'.w
      BY <2>1, <2>2, <2>3, <3>1 DEF Balanced, Types
    <3>4. dx' # 0 \/ owed' # 0 \/ wheel' # 0 \/ buttons' # {} => dirty'
      BY <2>2, <3>1
    <3> QED
      BY <3>2, <3>3, <3>4
  <2>5. CASE ~dirty
    BY <2>1, <2>2, <2>3, <2>5 DEF Balanced, Types, motion
  <2> QED
    BY <2>4, <2>5 DEF Types
<1>6. Balanced(saved[1], saved[2], saved[3], saved[4])'
  BY <1>3 DEF Books, Balanced, Sending, Checkpoint, sums, taken
<1>7. Books'
  BY <1>3, <1>5, <1>6 DEF Books, Sending
<1> QED
  BY <1>2, <1>4, <1>7

-----------------------------------------------------------------------------
\* The endpoint takes the report and the sums move with it, or the checkpoint returns.
LEMMA SendMergedInv ==
    ASSUME IInv, SendMerged
    PROVE  IInv'
<1> USE DEF IInv, SendMerged
<1>1. /\ saved \in Checkpoints /\ pc' = "wheel" /\ saved' = <<>> /\ out' = None /\ raw' = None
      /\ UNCHANGED <<splitWheel, buttons, configured, pcButtons, injected>>
      /\ None \in Reports
  BY ReportTypes DEF Checkpointed, Sending
<1>2. Checkpointed'
  BY <1>1 DEF Checkpointed, Sending
<1>3. CASE EpFree
  <2>1. /\ ep' = out /\ handed' = Add(handed, out) /\ physical' = Add(physical, raw)
        /\ physButtons' \subseteq Button /\ UNCHANGED <<dx, owed, wheel, dirty, merged, silent>>
    BY <1>3 DEF Types, Reports, motion, cycle
  <2>2. /\ out.x \in Int /\ out.w \in Int /\ raw.x \in Int /\ raw.w \in Int
    BY DEF Types, Reports
  <2>3. /\ handed' \in Motion /\ handed'.x = handed.x + out.x /\ handed'.w = handed.w + out.w
        /\ physical' \in Motion /\ physical'.x = physical.x + raw.x
        /\ physical'.w = physical.w + raw.w
    BY <2>1, <2>2, AddType DEF Types
  <2>4. Types'
    BY <1>1, <2>1, <2>3 DEF Types
  <2>5. Balanced(dx, owed, wheel, dirty)'
    BY <1>1, <2>1, <2>2, <2>3 DEF Books, Balanced, Types, Motion
  <2> QED
    BY <1>1, <1>2, <2>4, <2>5 DEF Books, Sending
<1>4. CASE ~EpFree
  <2>1. /\ dx' = saved[1] /\ owed' = saved[2] /\ wheel' = saved[3] /\ dirty' = saved[4]
        /\ merged' = saved[5] /\ silent' = saved[6]
        /\ UNCHANGED <<ep, handed, physical, physButtons>>
    BY <1>4 DEF Restore, taken
  <2>2. Types'
    BY <1>1, <2>1 DEF Types, Checkpoints
  <2>3. Balanced(dx, owed, wheel, dirty)'
    BY <1>1, <2>1 DEF Books, Balanced, Sending
  <2> QED
    BY <1>1, <1>2, <2>2, <2>3 DEF Books, Sending
<1> QED
  BY <1>3, <1>4

\* A wheel with a report of its own leaves in one step; its books are not kept.
LEMMA FlushWheelInv ==
    ASSUME IInv, FlushWheel
    PROVE  IInv'
<1> USE LayoutAssumption DEF IInv, FlushWheel
<1>1. /\ pc' = "synth" /\ ~Sending
      /\ UNCHANGED <<splitWheel, dx, owed, buttons, merged, silent, raw, out, saved,
                     configured, pcButtons, injected, physical, physButtons>>
  BY DEF cycle, tx, Sending
<1>2. Checkpointed'
  BY <1>1 DEF Checkpointed, Sending
<1>3. CASE splitWheel /\ wheel # 0 /\ EpFree
  <2> DEFINE r == Report("wheel", 0, wheel, {})
  <2>1. r \in Reports /\ r.x = 0 /\ r.w = wheel
    BY DEF Report, Reports, Types
  <2>2. ep' = r /\ handed' = Add(handed, r) /\ wheel' = 0 /\ dirty' = MotionLeft
    BY <1>3
  <2> HIDE DEF r
  <2>3. handed' \in Motion /\ handed'.x = handed.x
    BY <2>1, <2>2, AddType DEF Types, Motion
  <2>4. 0 \in -WheelMax .. WheelMax /\ dirty' \in BOOLEAN
    BY <2>2 DEF MotionLeft
  <2>5. Types'
    BY <1>1, <2>1, <2>2, <2>3, <2>4 DEF Types
  <2>6. Balanced(dx, owed, wheel, dirty)'
    <3>1. Balanced(dx, owed, wheel, dirty)
      BY <1>1 DEF Books
    <3>2. handed'.x + dx' + owed' = physical'.x + injected'.x
      BY <1>1, <2>3, <3>1 DEF Balanced
    <3>3. dx' # 0 \/ owed' # 0 \/ wheel' # 0 \/ buttons' # {} => dirty'
      BY <1>1, <2>2 DEF MotionLeft
    <3> QED
      BY <1>1, <1>3, <3>2, <3>3 DEF Balanced
  <2> QED
    BY <1>1, <1>2, <2>5, <2>6 DEF Books, Sending
<1>4. CASE ~(splitWheel /\ wheel # 0 /\ EpFree)
  <2>1. UNCHANGED <<ep, handed, wheel, dirty>>
    BY <1>4
  <2> QED
    BY <1>1, <1>2, <2>1 DEF Types, Books, Balanced, Sending
<1> QED
  BY <1>3, <1>4

\* A report of injected input only: the wheel stays where it is until it is sent.
LEMMA BuildSynthInv ==
    ASSUME IInv, BuildSynth
    PROVE  IInv'
<1> USE LayoutAssumption DEF IInv, BuildSynth
<1>1. Emit \in -FieldMax .. FieldMax
  <2>1. dx + owed \in Int
    BY DEF Types
  <2>2. Emit \in -FrameCap .. FrameCap
    BY <2>1, ClampType DEF Emit
  <2> QED
    BY <2>2
<1> HIDE DEF BuildSynth
<1>2. pc' = "synthsend" /\ ~Sending /\ saved' = Checkpoint
  BY DEF BuildSynth, Sending
<1>3. dx' = 0 /\ owed' = owed + dx - Emit
  BY DEF BuildSynth
<1>4. UNCHANGED <<splitWheel, wheel, dirty, buttons, merged, silent, raw, configured, ep,
                  pcButtons, injected, physical, handed, physButtons>>
  BY DEF BuildSynth, cycle, usb, sums, taken
<1>5. out' = Report("xy", Emit, IF splitWheel THEN 0 ELSE wheel, buttons)
  BY DEF BuildSynth
<1>6. /\ out' \in Reports /\ out'.x = Emit
      /\ ~splitWheel => out'.w = wheel
  BY <1>1, <1>5 DEF Report, Reports, Types
<1>7. Types'
  <2>1. dx' \in -AccumCap .. AccumCap /\ owed' \in Int
    BY <1>1, <1>3 DEF Types
  <2> QED
    BY <1>2, <1>4, <1>6, <2>1 DEF Types
<1>8. Checkpointed'
  BY <1>2 DEF Checkpointed, Sending, Checkpoint, Checkpoints, Types
<1>9. Balanced(saved[1], saved[2], saved[3], saved[4])'
  BY <1>2, <1>4 DEF Books, Balanced, Checkpoint
<1>10. /\ handed'.x + out'.x + owed' = physical'.x + injected'.x
       /\ ~splitWheel'
            => out'.w = wheel' /\ handed'.w + wheel' = physical'.w + injected'.w
  <2>1. Balanced(dx, owed, wheel, dirty)
    BY <1>2 DEF Books
  <2>2. /\ handed.x \in Int /\ physical.x \in Int /\ injected.x \in Int
        /\ dx \in Int /\ owed \in Int /\ Emit \in Int
    BY <1>1 DEF Types, Motion
  <2>3. handed'.x + out'.x + owed' = physical'.x + injected'.x
    BY <1>3, <1>4, <1>6, <2>1, <2>2 DEF Balanced
  <2> QED
    BY <1>4, <1>6, <2>1, <2>3 DEF Balanced
<1> HIDE DEF IInv
<1>11. Books'
  <2>1. Sending' /\ pc' = "synthsend" /\ dx' = 0
    BY <1>2, <1>3 DEF Sending
  <2> HIDE DEF BuildSynth
  <2>2. /\ handed'.x + out'.x + owed' = physical'.x + injected'.x
        /\ ~splitWheel' => out'.w = wheel'
        /\ ~splitWheel' => handed'.w + wheel' = physical'.w + injected'.w
    BY <1>10
  <2> QED BY <1>9, <2>1, <2>2 DEF Books
<1> QED
  BY <1>7, <1>8, <1>11 DEF IInv

LEMMA SendSynthInv ==
    ASSUME IInv, SendSynth
    PROVE  IInv'
<1> USE LayoutAssumption DEF IInv, SendSynth
<1>1. /\ saved \in Checkpoints /\ pc' = "drain" /\ saved' = <<>> /\ out' = None
      /\ UNCHANGED <<splitWheel, buttons, raw, configured, pcButtons, injected, physical,
                     physButtons>>
      /\ None \in Reports
  BY ReportTypes DEF Checkpointed, Sending
<1>2. Checkpointed'
  BY <1>1 DEF Checkpointed, Sending
<1>3. CASE EpFree
  <2>1. /\ ep' = out /\ handed' = Add(handed, out) /\ wheel' = 0
        /\ dirty' = (buttons # {} \/ owed # 0)
        /\ UNCHANGED <<dx, owed, merged, silent>>
    BY <1>3 DEF cycle
  <2>2. out.x \in Int /\ out.w \in Int
    BY DEF Types, Reports
  <2>3. handed' \in Motion /\ handed'.x = handed.x + out.x /\ handed'.w = handed.w + out.w
    BY <2>1, <2>2, AddType DEF Types
  <2>4. 0 \in -WheelMax .. WheelMax /\ dirty' \in BOOLEAN
    BY <2>1
  <2>5. Types'
    BY <1>1, <2>1, <2>3, <2>4 DEF Types
  <2>6. Balanced(dx, owed, wheel, dirty)'
    <3>1. /\ handed.x \in Int /\ physical.x \in Int /\ injected.x \in Int /\ owed \in Int
          /\ handed.w \in Int
      BY DEF Types, Motion
    <3>2. /\ dx = 0 /\ handed.x + out.x + owed = physical.x + injected.x
          /\ ~splitWheel => out.w = wheel /\ handed.w + wheel = physical.w + injected.w
      BY DEF Books
    <3>3. handed'.x + dx' + owed' = physical'.x + injected'.x
      BY <1>1, <2>1, <2>2, <2>3, <3>1, <3>2
    <3>4. ~splitWheel' => handed'.w + wheel' = physical'.w + injected'.w
      BY <1>1, <2>1, <2>2, <2>3, <3>1, <3>2
    <3>5. dx' # 0 \/ owed' # 0 \/ wheel' # 0 \/ buttons' # {} => dirty'
      BY <1>1, <2>1, <3>2
    <3> QED
      BY <3>3, <3>4, <3>5 DEF Balanced
  <2> QED
    BY <1>1, <1>2, <2>5, <2>6 DEF Books, Sending
<1>4. CASE ~EpFree
  <2>1. /\ dx' = saved[1] /\ owed' = saved[2] /\ wheel' = saved[3] /\ dirty' = saved[4]
        /\ merged' = saved[5] /\ silent' = saved[6] /\ UNCHANGED <<ep, handed>>
    BY <1>4 DEF Restore
  <2>2. Types'
    BY <1>1, <2>1 DEF Types, Checkpoints
  <2>3. Balanced(dx, owed, wheel, dirty)'
    BY <1>1, <2>1 DEF Books, Balanced, Sending
  <2> QED
    BY <1>1, <1>2, <2>2, <2>3 DEF Books, Sending
<1> QED
  BY <1>3, <1>4

\* Time passes and the PC polls, resets and configures: no sum moves.
LEMMA SurroundingsInv ==
    ASSUME IInv, Silence \/ PcPolls \/ BusReset \/ SetConfiguration
    PROVE  IInv'
<1> USE DEF IInv
<1>1. /\ UNCHANGED <<pc, splitWheel, dx, owed, wheel, dirty, buttons, merged, raw, out, saved,
                     injected, physical, handed>>
      /\ silent' \in BOOLEAN /\ configured' \in BOOLEAN /\ ep' \in Reports
      /\ pcButtons' \subseteq Button /\ physButtons' \subseteq Button
  BY ReportTypes
  DEF Types, Reports, Silence, PcPolls, BusReset, SetConfiguration, motion, cycle, tx, usb,
      sums, taken
<1>2. Types'
  BY <1>1 DEF Types
<1>3. Checkpointed' /\ Books'
  BY <1>1 DEF Checkpointed, Books, Balanced, Sending
<1> QED
  BY <1>2, <1>3

-----------------------------------------------------------------------------
\* The steps of the mouse half: those of Next, and those of a mouse that only clicks.
Input ==
    \/ \E d \in Int, w \in Int, btns \in SUBSET Button : ApplyRecord(d, w, btns)
    \/ \E r \in Reports :
         /\ PhysicalReport(r) \/ Clicks!PhysicalReport(r)
         /\ r # None /\ (~splitWheel => r.id = "xy")
Surroundings == Silence \/ PcPolls \/ BusReset \/ SetConfiguration

LEMMA NextSteps == Next => Input \/ Loop \/ Surroundings
<1> SUFFICES ASSUME Next PROVE Input \/ Loop \/ Surroundings
  OBVIOUS
<1>1. ASSUME NEW d \in Delta, NEW w \in Scroll, NEW btns \in SUBSET Button,
             ApplyRecord(d, w, btns)
      PROVE  Input
  <2>1. d \in Int /\ w \in Int
    BY LayoutAssumption, InputAssumption
  <2> QED
    BY <1>1, <2>1 DEF Input
<1>2. ASSUME NEW r \in PhysicalReports, PhysicalReport(r)
      PROVE  Input
  <2>1. r # None /\ (~splitWheel => r.id = "xy")
    BY DEF PhysicalReports, None
  <2> QED
    BY <1>2, <2>1, ReportTypes DEF Input
<1> QED
  BY <1>1, <1>2 DEF Next, Surroundings

LEMMA ClickSteps == Clicks!Next => Input \/ Loop \/ Surroundings
<1> SUFFICES ASSUME Clicks!Next PROVE Input \/ Loop \/ Surroundings
  OBVIOUS
<1>1. ASSUME NEW d \in {0}, NEW w \in {0}, NEW btns \in SUBSET Button,
             Clicks!ApplyRecord(d, w, btns)
      PROVE  Input
  <2>1. ApplyRecord(d, w, btns)
    BY <1>1
    DEF ApplyRecord, Clicks!ApplyRecord, Clamp, Clicks!Clamp, Add, Clicks!Add, cycle, tx, usb,
        taken, mouse, Clicks!cycle, Clicks!tx, Clicks!usb, Clicks!taken, Clicks!mouse
  <2> QED
    BY <2>1 DEF Input
<1>2. ASSUME NEW r \in Clicks!PhysicalReports, Clicks!PhysicalReport(r)
      PROVE  Input
  <2>1. r \in Reports
    <3> 0 \in -WheelMax .. WheelMax /\ 0 \in -(FieldMax + 1) .. FieldMax
      BY LayoutAssumption
    <3>1. PICK id \in {"xy", "wheel"}, btns \in SUBSET Button :
             r = [id |-> id, x |-> 0, w |-> 0, btn |-> btns]
      BY DEF Clicks!PhysicalReports
    <3> QED
      BY <3>1 DEF Reports
  <2>2. r # None /\ (~splitWheel => r.id = "xy")
    BY DEF Clicks!PhysicalReports, None
  <2> QED
    BY <1>2, <2>1, <2>2 DEF Input
<1>3. Clicks!Loop => Loop
  <2>1. Clicks!EndDrain => EndDrain
    BY DEF EndDrain, Clicks!EndDrain, motion, Clicks!motion, cycle, Clicks!cycle, tx,
        Clicks!tx, usb, Clicks!usb, taken, Clicks!taken, mouse, Clicks!mouse, sums,
        Clicks!sums, bounds, Clicks!bounds
  <2>2. Clicks!NoReport => NoReport
    BY DEF NoReport, Clicks!NoReport, motion, Clicks!motion, cycle, Clicks!cycle, tx,
        Clicks!tx, usb, Clicks!usb, taken, Clicks!taken, mouse, Clicks!mouse, sums,
        Clicks!sums, bounds, Clicks!bounds
  <2>3. Clicks!DropReport => DropReport
    BY DEF DropReport, Clicks!DropReport, EpFree, Clicks!EpFree, None, Clicks!None, motion,
        Clicks!motion, cycle, Clicks!cycle, tx, Clicks!tx, usb, Clicks!usb, taken,
        Clicks!taken, mouse, Clicks!mouse, sums, Clicks!sums, bounds, Clicks!bounds
  <2>4. Clicks!Merge => Merge
    BY DEF Merge, Clicks!Merge, EpFree, Clicks!EpFree, Checkpoint, Clicks!Checkpoint,
        Merged, Clicks!Merged, Emit, Clicks!Emit, Clamp, Clicks!Clamp, Pressed,
        Clicks!Pressed, HasWheel, Clicks!HasWheel, None, Clicks!None, motion, Clicks!motion,
        cycle, Clicks!cycle, tx, Clicks!tx, usb, Clicks!usb, taken, Clicks!taken, mouse,
        Clicks!mouse, sums, Clicks!sums, bounds, Clicks!bounds
  <2>5. Clicks!SendMerged => SendMerged
    BY DEF SendMerged, Clicks!SendMerged, EpFree, Clicks!EpFree, Add, Clicks!Add, Restore,
        Clicks!Restore, None, Clicks!None, motion, Clicks!motion, cycle, Clicks!cycle, tx,
        Clicks!tx, usb, Clicks!usb, taken, Clicks!taken, mouse, Clicks!mouse, sums,
        Clicks!sums, bounds, Clicks!bounds
  <2>6. Clicks!FlushWheel => FlushWheel
    BY DEF FlushWheel, Clicks!FlushWheel, EpFree, Clicks!EpFree, Report, Clicks!Report, Add,
        Clicks!Add, MotionLeft, Clicks!MotionLeft, None, Clicks!None, motion, Clicks!motion,
        cycle, Clicks!cycle, tx, Clicks!tx, usb, Clicks!usb, taken, Clicks!taken, mouse,
        Clicks!mouse, sums, Clicks!sums, bounds, Clicks!bounds
  <2>7. Clicks!SkipSynth => SkipSynth
    BY DEF SkipSynth, Clicks!SkipSynth, MaySynthesize, Clicks!MaySynthesize, EpFree,
        Clicks!EpFree, None, Clicks!None, motion, Clicks!motion, cycle, Clicks!cycle, tx,
        Clicks!tx, usb, Clicks!usb, taken, Clicks!taken, mouse, Clicks!mouse, sums,
        Clicks!sums, bounds, Clicks!bounds
  <2>8. Clicks!BuildSynth => BuildSynth
    BY DEF BuildSynth, Clicks!BuildSynth, MaySynthesize, Clicks!MaySynthesize, EpFree,
        Clicks!EpFree, Checkpoint, Clicks!Checkpoint, Report, Clicks!Report, Emit,
        Clicks!Emit, Clamp, Clicks!Clamp, None, Clicks!None, motion, Clicks!motion, cycle,
        Clicks!cycle, tx, Clicks!tx, usb, Clicks!usb, taken, Clicks!taken, mouse,
        Clicks!mouse, sums, Clicks!sums, bounds, Clicks!bounds
  <2>9. Clicks!SendSynth => SendSynth
    BY DEF SendSynth, Clicks!SendSynth, EpFree, Clicks!EpFree, Add, Clicks!Add, Restore,
        Clicks!Restore, None, Clicks!None, motion, Clicks!motion, cycle, Clicks!cycle, tx,
        Clicks!tx, usb, Clicks!usb, taken, Clicks!taken, mouse, Clicks!mouse, sums,
        Clicks!sums, bounds, Clicks!bounds
  <2> QED
    BY <2>1, <2>2, <2>3, <2>4, <2>5, <2>6, <2>7, <2>8, <2>9 DEF Loop, Clicks!Loop
<1>4. Clicks!Silence \/ Clicks!PcPolls \/ Clicks!BusReset \/ Clicks!SetConfiguration
        => Surroundings
  <2>1. Clicks!Silence => Silence
    BY DEF Silence, Clicks!Silence, motion, Clicks!motion, cycle, Clicks!cycle, tx,
        Clicks!tx, usb, Clicks!usb, taken, Clicks!taken, mouse, Clicks!mouse, sums,
        Clicks!sums, bounds, Clicks!bounds
  <2>2. Clicks!PcPolls => PcPolls
    BY DEF PcPolls, Clicks!PcPolls, None, Clicks!None, motion, Clicks!motion, cycle,
        Clicks!cycle, tx, Clicks!tx, usb, Clicks!usb, taken, Clicks!taken, mouse,
        Clicks!mouse, sums, Clicks!sums, bounds, Clicks!bounds
  <2>3. Clicks!BusReset => BusReset
    BY DEF BusReset, Clicks!BusReset, None, Clicks!None, motion, Clicks!motion, cycle,
        Clicks!cycle, tx, Clicks!tx, usb, Clicks!usb, taken, Clicks!taken, mouse,
        Clicks!mouse, sums, Clicks!sums, bounds, Clicks!bounds
  <2>4. Clicks!SetConfiguration => SetConfiguration
    BY DEF SetConfiguration, Clicks!SetConfiguration, motion, Clicks!motion, cycle,
        Clicks!cycle, tx, Clicks!tx, usb, Clicks!usb, taken, Clicks!taken, mouse,
        Clicks!mouse, sums, Clicks!sums, bounds, Clicks!bounds
  <2> QED
    BY <2>1, <2>2, <2>3, <2>4 DEF Surroundings
<1> QED
  BY <1>1, <1>2, <1>3, <1>4 DEF Clicks!Next

\* No step breaks the invariant.
LEMMA MouseStepInv == IInv /\ (Input \/ Loop \/ Surroundings) => IInv'
<1> SUFFICES ASSUME IInv, Input \/ Loop \/ Surroundings PROVE IInv'
  OBVIOUS
<1>1. CASE Input
  BY <1>1, ApplyRecordInv, PhysicalReportInv DEF Input
<1>2. CASE Loop
  BY <1>2, LoopQuiet, MergeInv, SendMergedInv, FlushWheelInv, BuildSynthInv, SendSynthInv
  DEF Loop
<1>3. CASE Surroundings
  BY <1>3, SurroundingsInv DEF Surroundings
<1> QED
  BY <1>1, <1>2, <1>3

LEMMA StutterInv == IInv /\ UNCHANGED vars => IInv'
  BY DEF IInv, Types, Checkpointed, Books, Balanced, Sending, vars, motion, cycle, tx, usb,
         sums, taken

LEMMA StepInv == IInv /\ [Next]_vars => IInv'
  BY NextSteps, MouseStepInv, StutterInv

\* The inductive invariant: the types, and the books at every point of the relay loop.
THEOREM Inductive == Spec => []IInv
  BY InitInv, StepInv, PTL DEF Spec

\* Injected motion and scrolling is neither lost nor doubled and never forgotten,
\* whatever the caps, the reports of the mouse, the PC's polls and the bus resets
\* (usb_merge.c:330-480, 738-800).
THEOREM Conserved == Spec => []InjectionConserved
<1>1. IInv => InjectionConserved
  BY DEF IInv, Types, Motion, Checkpointed, Books, Balanced, InjectionConserved,
         MotionConserved, WheelConserved, NothingStranded, Settled
<1> QED
  BY <1>1, Inductive, PTL

\* The accumulators keep to their caps and a report to the fields of the cloned layout.
THEOREM MergeTyped == Spec => []TypeOK
<1>1. IInv => TypeOK
  BY DEF IInv, Types, Reports, Checkpointed, Sending, TypeOK
<1> QED
  BY <1>1, Inductive, PTL

-----------------------------------------------------------------------------
\* What the PC holds down once it has taken the report that is armed.
Shown == IF ep.id = "xy" THEN ep.btn ELSE pcButtons

\* Of a mouse whose wheel is part of the X/Y report: with nothing left to say the PC is
\* shown no button but the mouse's, and all of them unless it was shown something else;
\* a report that is on its way settles the debt it leaves, or the checkpoint returns it.
ButtonsTold ==
    /\ lapsed \in BOOLEAN
    /\ raw # None <=> pc \in {"forward", "send"}
    /\ ~splitWheel =>
         /\ raw # None => raw.id = "xy" /\ raw.btn = held
         /\ ~Sending /\ ~dirty =>
              /\ Shown \subseteq physButtons
              /\ raw = None /\ ~lapsed => Shown = held
         /\ pc = "send" =>
              /\ out.id = "xy"
              /\ ~dirty => out.btn = raw.btn
              /\ ~saved[4] => Shown \subseteq physButtons
    /\ pc = "synthsend" => out.id = "xy" /\ out.btn = buttons /\ dirty /\ saved[4]

\* Nothing is held back once the mouse is clean (from Books).
LEMMA CleanButtons == ASSUME IInv, ~Sending, ~dirty PROVE buttons = {}
  BY DEF IInv, Books, Balanced

LEMMA InitTold == ASSUME Init PROVE ButtonsTold
<1>1. /\ pc = "drain" /\ raw = None /\ lapsed = FALSE /\ ~Sending
      /\ held = {} /\ pcButtons = {} /\ physButtons = {} /\ ep.id # "xy"
  BY DEF Init, Sending, None
<1> QED
  BY <1>1 DEF ButtonsTold, Shown

\* A record makes the mouse dirty; a polled report is the last word on what it holds.
LEMMA InputTold == ASSUME IInv, ButtonsTold, Input PROVE ButtonsTold'
<1>1. ASSUME NEW d \in Int, NEW w \in Int, NEW btns \in SUBSET Button,
             ApplyRecord(d, w, btns)
      PROVE  ButtonsTold'
  <2>1. /\ ~Sending /\ ~Sending' /\ dirty' /\ pc = "drain"
        /\ UNCHANGED <<pc, splitWheel, raw, held, lapsed>>
    BY <1>1 DEF ApplyRecord, Sending, tx, mouse
  <2> QED
    BY <2>1 DEF ButtonsTold
<1>2. ASSUME NEW r \in Reports, PhysicalReport(r) \/ Clicks!PhysicalReport(r),
             r # None, ~splitWheel => r.id = "xy"
      PROVE  ButtonsTold'
  <2>1. /\ ~Sending /\ ~Sending' /\ pc' = "forward" /\ pc = "eps" /\ raw' = r
        /\ held' = IF r.id = "xy" THEN r.btn ELSE held
        /\ UNCHANGED <<splitWheel, dirty, lapsed, ep, pcButtons, physButtons>>
    BY <1>2 DEF PhysicalReport, Clicks!PhysicalReport, Sending, motion, usb, taken,
        Clicks!motion, Clicks!usb, Clicks!taken
  <2> QED
    BY <1>2, <2>1 DEF ButtonsTold, Shown
<1> QED
  BY <1>1, <1>2 DEF Input

\* Steps of the loop that send nothing: only a dropped report changes what is owed.
LEMMA LoopTold ==
    ASSUME IInv, ButtonsTold, EndDrain \/ NoReport \/ DropReport \/ SkipSynth
    PROVE  ButtonsTold'
<1> SUFFICES ASSUME EndDrain \/ NoReport \/ SkipSynth \/ DropReport PROVE ButtonsTold'
  OBVIOUS
<1>1. CASE EndDrain \/ NoReport \/ SkipSynth
  <2>1. /\ ~Sending /\ ~Sending' /\ pc # "forward" /\ pc' \notin {"forward", "send"}
        /\ UNCHANGED <<splitWheel, dirty, raw, held, lapsed, ep, pcButtons, physButtons>>
    BY <1>1 DEF EndDrain, NoReport, SkipSynth, Sending, motion, cycle, tx, usb, sums, taken,
        mouse
  <2> QED
    BY <2>1 DEF ButtonsTold, Shown, Sending
<1>2. CASE DropReport
  <2>1. /\ ~Sending /\ ~Sending' /\ pc = "forward" /\ pc' = "wheel" /\ raw' = None
        /\ lapsed' = (lapsed \/ raw.id = "xy")
        /\ UNCHANGED <<splitWheel, dirty, held, ep, pcButtons, physButtons>>
    BY <1>2 DEF DropReport, Sending, motion, usb, taken
  <2>2. lapsed' \in BOOLEAN
    BY <2>1
  <2> QED
    BY <2>1, <2>2 DEF ButtonsTold, Shown
<1> QED
  BY <1>1, <1>2

\* A merged report that leaves the mouse clean shows the mouse's own buttons.
LEMMA MergeTold == ASSUME IInv, ButtonsTold, Merge PROVE ButtonsTold'
<1>1. /\ ~Sending /\ pc = "forward" /\ pc' = "send" /\ saved' = Checkpoint
      /\ UNCHANGED <<splitWheel, buttons, raw, held, lapsed, ep, pcButtons, physButtons>>
  BY DEF Merge, Sending, usb, sums, taken, mouse
<1>2. saved'[4] = dirty
  BY <1>1 DEF Checkpoint
<1>3. ASSUME ~splitWheel
      PROVE  out'.id = "xy" /\ (~dirty' => out'.btn = raw.btn)
  <2>1. raw.id = "xy" /\ raw \in Reports
    BY <1>1, <1>3 DEF ButtonsTold, IInv, Types
  <2>2. CASE dirty
    <3>1. out' = Merged(raw) /\ (dirty' <=> buttons # {} \/ wheel' # 0 \/ owed' # 0)
      BY <2>2 DEF Merge
    <3>2. out'.id = "xy" /\ out'.btn = raw.btn \cup buttons
      BY <2>1, <3>1 DEF Merged, Pressed, Reports
    <3> QED
      BY <3>1, <3>2
  <2>3. CASE ~dirty
    BY <2>1, <2>3 DEF Merge
  <2> QED
    BY <2>2, <2>3 DEF IInv, Types
<1> QED
  BY <1>1, <1>2, <1>3 DEF ButtonsTold, Shown, Sending

\* The endpoint takes the report and the PC is shown it; or the checkpoint returns, and
\* the mouse was last shown something else.
LEMMA SendMergedTold == ASSUME IInv, ButtonsTold, SendMerged PROVE ButtonsTold'
<1>1. /\ pc = "send" /\ pc' = "wheel" /\ ~Sending' /\ raw' = None /\ raw # None
      /\ UNCHANGED <<splitWheel, pcButtons, held>>
  BY DEF SendMerged, Sending, ButtonsTold
<1>2. CASE EpFree
  <2>1. /\ ep' = out /\ lapsed' = (lapsed /\ raw.id # "xy") /\ dirty' = dirty
        /\ physButtons' = IF raw.id = "xy" THEN raw.btn ELSE physButtons
    BY <1>2 DEF SendMerged, motion
  <2>2. lapsed' \in BOOLEAN
    BY <2>1
  <2> QED
    BY <1>1, <2>1, <2>2 DEF ButtonsTold, Shown
<1>3. CASE ~EpFree
  <2>1. /\ lapsed' = (lapsed \/ raw.id = "xy") /\ dirty' = saved[4]
        /\ UNCHANGED <<ep, physButtons>>
    BY <1>3 DEF SendMerged, Restore, taken
  <2>2. lapsed' \in BOOLEAN
    BY <2>1
  <2> QED
    BY <1>1, <2>1, <2>2 DEF ButtonsTold, Shown
<1> QED
  BY <1>2, <1>3

LEMMA FlushWheelTold == ASSUME IInv, ButtonsTold, FlushWheel PROVE ButtonsTold'
<1>1. /\ pc = "wheel" /\ pc' = "synth" /\ ~Sending /\ ~Sending'
      /\ ~splitWheel => UNCHANGED <<ep, dirty>>
      /\ UNCHANGED <<splitWheel, raw, held, lapsed, pcButtons, physButtons>>
  BY DEF FlushWheel, Sending, tx, mouse
<1> QED
  BY <1>1 DEF ButtonsTold, Shown

\* A synthesized report is built while the mouse is dirty, and shows the injected buttons.
LEMMA BuildSynthTold == ASSUME IInv, ButtonsTold, BuildSynth PROVE ButtonsTold'
<1>1. /\ pc = "synth" /\ pc' = "synthsend" /\ Sending' /\ dirty /\ dirty'
      /\ saved' = Checkpoint
      /\ out' = Report("xy", Emit, IF splitWheel THEN 0 ELSE wheel, buttons)
      /\ UNCHANGED <<splitWheel, buttons, raw, held, lapsed>>
  BY DEF BuildSynth, MaySynthesize, Sending, sums, mouse
<1>2. saved'[4] /\ out'.id = "xy" /\ out'.btn = buttons
  BY <1>1 DEF Checkpoint, Report
<1> QED
  BY <1>1, <1>2 DEF ButtonsTold

LEMMA SendSynthTold == ASSUME IInv, ButtonsTold, SendSynth PROVE ButtonsTold'
<1>1. /\ pc = "synthsend" /\ pc' = "drain" /\ ~Sending' /\ raw = None
      /\ out.id = "xy" /\ out.btn = buttons /\ dirty /\ saved[4]
      /\ UNCHANGED <<splitWheel, raw, held, pcButtons, physButtons>>
  BY DEF SendSynth, Sending, ButtonsTold
<1>2. CASE EpFree
  <2>1. /\ ep' = out /\ (dirty' <=> buttons # {} \/ owed # 0)
        /\ lapsed' = (lapsed \/ ~(held \subseteq out.btn))
    BY <1>2 DEF SendSynth
  <2>2. lapsed' \in BOOLEAN /\ (~dirty' => out.btn = {})
    BY <1>1, <2>1
  <2> QED
    BY <1>1, <2>1, <2>2 DEF ButtonsTold, Shown
<1>3. CASE ~EpFree
  <2>1. dirty' = saved[4] /\ UNCHANGED lapsed
    BY <1>3 DEF SendSynth, Restore
  <2> QED
    BY <1>1, <2>1 DEF ButtonsTold
<1> QED
  BY <1>2, <1>3

\* The PC takes what it was shown; a bus reset takes everything away.
LEMMA SurroundingsTold == ASSUME IInv, ButtonsTold, Surroundings PROVE ButtonsTold'
<1>1. UNCHANGED <<pc, splitWheel, dirty, buttons, raw, out, saved, held>>
  BY DEF Surroundings, Silence, PcPolls, BusReset, SetConfiguration, motion, tx, sums, mouse
<1>2. CASE Silence \/ PcPolls \/ SetConfiguration
  <2>1. Shown' = Shown /\ UNCHANGED <<physButtons, lapsed>>
    BY <1>2 DEF Silence, PcPolls, SetConfiguration, usb, sums, taken, mouse, Shown, None
  <2> QED
    BY <1>1, <2>1 DEF ButtonsTold, Sending
<1>3. CASE BusReset
  <2>1. /\ ep' = None /\ pcButtons' = {} /\ lapsed' = (lapsed \/ held # {})
        /\ physButtons' = {}
    BY <1>3 DEF BusReset
  <2>2. Shown' = {} /\ lapsed' \in BOOLEAN
    BY <2>1 DEF Shown, None
  <2> QED
    BY <1>1, <2>1, <2>2 DEF ButtonsTold, Sending
<1> QED
  BY <1>2, <1>3 DEF Surroundings

LEMMA StepTold ==
    IInv /\ ButtonsTold /\ (Input \/ Loop \/ Surroundings \/ UNCHANGED vars) => ButtonsTold'
<1> SUFFICES ASSUME IInv, ButtonsTold, Input \/ Loop \/ Surroundings \/ UNCHANGED vars
             PROVE  ButtonsTold'
  OBVIOUS
<1>1. CASE Loop
  BY <1>1, LoopTold, MergeTold, SendMergedTold, FlushWheelTold, BuildSynthTold, SendSynthTold
  DEF Loop
<1>2. CASE UNCHANGED vars
  BY <1>2 DEF vars, motion, tx, usb, sums, taken, mouse, ButtonsTold, Sending, Shown
<1> QED
  BY <1>1, <1>2, InputTold, SurroundingsTold

\* What the PC is shown settles the two properties of the buttons.
LEMMA ToldButtons == IInv /\ ButtonsTold => NoStuckButton /\ HeldButtonsShown
<1> SUFFICES ASSUME IInv, ButtonsTold PROVE NoStuckButton /\ HeldButtonsShown
  OBVIOUS
<1>1. Settled => ~Sending
  BY DEF Settled, IInv, Checkpointed
<1>2. EpFree => Shown = pcButtons
  BY DEF EpFree, Shown, None
<1> QED
  BY <1>1, <1>2 DEF ButtonsTold, NoStuckButton, ReleasesReachPC, HeldButtonsShown

-----------------------------------------------------------------------------
\* What the PC takes the keyboard to hold down once it has the report that is armed.
KbShown == IF kbEp.armed THEN Keyboard!Boot(kbEp.mods, kbEp.keys) ELSE pcKeys

\* With nothing left to say the PC is shown no key but the keyboard's, and a report on its
\* way from a clean merge is the keyboard's own.
KeysTold ==
    /\ Keyboard!KbTypeOK
    /\ ~kbDirty => Keyboard!Within(KbShown, physKeys)
    /\ kbPc = "send" /\ ~kbDirty => kbOut = kbRaw

\* The keyboard half counts its keys the way this module does.
LEMMA SameCount == \A S : Keyboard!Cardinality(S) = Cardinality(S)
  BY DEF Keyboard!Cardinality, Cardinality

\* A boot report is a set of modifiers and a set of keys that fits the slots.
LEMMA BootMember ==
    \A r : r \in Keyboard!BootReports <=>
        \E m \in SUBSET Modifiers, k \in SUBSET Keys :
            Cardinality(k) <= KeySlots /\ r = Keyboard!Boot(m, k)
<1> DEFINE Fits == {s \in SUBSET Keys : Keyboard!Cardinality(s) <= KeySlots}
<1>1. Keyboard!BootReports = {Keyboard!Boot(m, k) : m \in SUBSET Modifiers, k \in Fits}
  BY DEF Keyboard!BootReports
<1>2. \A k : k \in Fits <=> k \in SUBSET Keys /\ Cardinality(k) <= KeySlots
  BY SameCount
<1> HIDE DEF Fits
<1> QED
  <2> DEFINE Pairs == {Keyboard!Boot(m, k) : m \in SUBSET Modifiers, k \in Fits}
  <2>1. \A r : r \in Pairs <=>
            \E m \in SUBSET Modifiers, k \in Fits : r = Keyboard!Boot(m, k)
    OBVIOUS
  <2> QED
    BY <1>1, <1>2, <2>1

\* The empty report is among them, and a report is its fields.
LEMMA BootTypes ==
    /\ Keyboard!NoKeys \in Keyboard!BootReports
    /\ \A r \in Keyboard!BootReports :
         /\ r.mods \subseteq Modifiers /\ r.keys \subseteq Keys
         /\ Cardinality(r.keys) <= KeySlots
         /\ r = Keyboard!Boot(r.mods, r.keys)
<1>1. Cardinality({}) <= KeySlots
  BY FS_EmptySet, KeySlotsAssumption
<1>2. Keyboard!NoKeys \in Keyboard!BootReports
  BY <1>1, BootMember DEF Keyboard!NoKeys
<1>3. ASSUME NEW r \in Keyboard!BootReports
      PROVE  /\ r.mods \subseteq Modifiers /\ r.keys \subseteq Keys
             /\ Cardinality(r.keys) <= KeySlots
             /\ r = Keyboard!Boot(r.mods, r.keys)
  BY BootMember DEF Keyboard!Boot
<1> QED
  BY <1>2, <1>3

\* The injected keys that find a slot join those of the report.
LEMMA OverlayTypes ==
    ASSUME kb \in Keyboard!BootReports, NEW r \in Keyboard!BootReports
    PROVE  Keyboard!Overlays(r) \subseteq Keyboard!BootReports
<1> DEFINE Free ==
      {k \in SUBSET (r.keys \cup kb.keys) :
          /\ r.keys \subseteq k /\ Keyboard!Cardinality(k) <= KeySlots
          /\ k # r.keys \cup kb.keys => Keyboard!Cardinality(k) = KeySlots}
<1>1. Keyboard!Overlays(r) = {Keyboard!Boot(r.mods \cup kb.mods, k) : k \in Free}
  BY DEF Keyboard!Overlays
<1>2. r.mods \cup kb.mods \in SUBSET Modifiers
  BY BootTypes
<1>3. \A k \in Free : k \in SUBSET Keys /\ Cardinality(k) <= KeySlots
  BY BootTypes, SameCount
<1> HIDE DEF Free
<1> QED
  BY <1>1, <1>2, <1>3, BootMember

LEMMA InitKeys == Keyboard!KbInit => KeysTold
<1> SUFFICES ASSUME Keyboard!KbInit PROVE KeysTold
  OBVIOUS
<1>1. ~kbEp.armed
  BY DEF Keyboard!KbInit, Keyboard!None
<1>2. Keyboard!KbTypeOK
  BY <1>1, BootTypes DEF Keyboard!KbInit, Keyboard!KbTypeOK
<1> QED
  BY <1>1, <1>2 DEF KeysTold, KbShown, Keyboard!KbInit, Keyboard!Within, Keyboard!NoKeys,
     Keyboard!Boot

\* What is armed is a boot report and reads back as it was.
LEMMA ArmedReads ==
    \A r \in Keyboard!BootReports :
        /\ Keyboard!Armed(r).armed
        /\ Keyboard!Boot(Keyboard!Armed(r).mods, Keyboard!Armed(r).keys) = r
  BY BootTypes DEF Keyboard!Armed

LEMMA KeyStep == KeysTold /\ Keyboard!KbNext => KeysTold'
<1> SUFFICES ASSUME KeysTold, Keyboard!KbNext PROVE KeysTold'
  OBVIOUS
<1> USE DEF Keyboard!inject, Keyboard!tx, Keyboard!pc, Keyboard!kbCounts
<1>0. Keyboard!NoKeys \in Keyboard!BootReports
  BY BootTypes
<1>1. ASSUME NEW r \in Keyboard!BootReports, Keyboard!ApplyKeys(r) PROVE KeysTold'
  <2>1. /\ kb' = r /\ kbDirty' = TRUE
        /\ UNCHANGED <<kbPc, kbMerged, kbRaw, kbOut, kbSaved, kbConfigured, kbEp, pcKeys,
                       physKeys>>
    BY <1>1 DEF Keyboard!ApplyKeys
  <2> QED
    BY <2>1 DEF KeysTold, Keyboard!KbTypeOK
<1>2. ASSUME NEW r \in Keyboard!BootReports, Keyboard!KeyboardReport(r) PROVE KeysTold'
  <2>1. /\ kbRaw' = r /\ kbPc' = "forward"
        /\ UNCHANGED <<kb, kbDirty, kbMerged, kbOut, kbSaved, kbConfigured, kbEp, pcKeys,
                       physKeys>>
    BY <1>2 DEF Keyboard!KeyboardReport
  <2> QED
    BY <2>1 DEF KeysTold, Keyboard!KbTypeOK, KbShown
<1>3. CASE Keyboard!EndKeyDrain \/ Keyboard!MouseMerges \/ Keyboard!NoKeyReport
  <2>1. /\ kbPc' \in {"eps", "pending"} /\ kbMerged' \in BOOLEAN
        /\ UNCHANGED <<kb, kbDirty, kbRaw, kbOut, kbSaved, kbConfigured, kbEp, pcKeys,
                       physKeys>>
    BY <1>3
    DEF Keyboard!EndKeyDrain, Keyboard!MouseMerges, Keyboard!NoKeyReport, KeysTold,
        Keyboard!KbTypeOK
  <2> QED
    BY <2>1 DEF KeysTold, Keyboard!KbTypeOK, KbShown
<1>4. CASE Keyboard!DropKeyReport
  <2>1. /\ kbPc' = "pending" /\ kbRaw' = Keyboard!NoKeys
        /\ UNCHANGED <<kb, kbDirty, kbMerged, kbOut, kbSaved, kbConfigured, kbEp, pcKeys,
                       physKeys>>
    BY <1>4 DEF Keyboard!DropKeyReport
  <2> QED
    BY <2>1, <1>0 DEF KeysTold, Keyboard!KbTypeOK, KbShown
<1>5. CASE Keyboard!MergeKeys
  <2>1. /\ kbPc' = "send" /\ kbDirty' = kbDirty /\ kbSaved' = kbMerged
        /\ kbMerged' = (kbMerged \/ kbDirty)
        /\ kbDirty => kbOut' \in Keyboard!Overlays(kbRaw)
        /\ ~kbDirty => kbOut' = kbRaw
        /\ UNCHANGED <<kb, kbRaw, kbConfigured, kbEp, pcKeys, physKeys>>
    BY <1>5 DEF Keyboard!MergeKeys, Keyboard!StaysDirty
  <2>2. kbOut' \in Keyboard!BootReports /\ kbMerged' \in BOOLEAN
    BY <2>1, OverlayTypes DEF KeysTold, Keyboard!KbTypeOK
  <2> QED
    BY <2>1, <2>2 DEF KeysTold, Keyboard!KbTypeOK, KbShown
<1>6. CASE Keyboard!SendKeys
  <2>1. /\ kbPc = "send" /\ kbPc' = "pending" /\ kbRaw' = Keyboard!NoKeys
        /\ kbOut' = Keyboard!NoKeys /\ kbSaved' = FALSE
        /\ UNCHANGED <<kb, kbDirty, kbConfigured, pcKeys>>
    BY <1>6 DEF Keyboard!SendKeys
  <2>2. CASE Keyboard!KbEpFree
    <3>1. kbEp' = Keyboard!Armed(kbOut) /\ physKeys' = kbRaw /\ UNCHANGED kbMerged
      BY <1>6, <2>2 DEF Keyboard!SendKeys
    <3>2. KbShown' = kbOut /\ kbOut \in Keyboard!BootReports
      BY <3>1, ArmedReads DEF KbShown, KeysTold, Keyboard!KbTypeOK
    <3>3. Keyboard!KbTypeOK'
      BY <1>0, <2>1, <3>1, <3>2 DEF KeysTold, Keyboard!KbTypeOK, KbShown
    <3> QED
      BY <2>1, <3>1, <3>2, <3>3 DEF KeysTold, Keyboard!Within
  <2>3. CASE ~Keyboard!KbEpFree
    <3>1. kbMerged' = kbSaved /\ UNCHANGED <<kbEp, physKeys>>
      BY <1>6, <2>3 DEF Keyboard!SendKeys
    <3> QED
      BY <2>1, <3>1, <1>0 DEF KeysTold, Keyboard!KbTypeOK, KbShown
  <2> QED
    BY <2>2, <2>3
<1>7. CASE Keyboard!SendPending
  <2>1. /\ kbPc' = "drain"
        /\ UNCHANGED <<kb, kbMerged, kbRaw, kbOut, kbSaved, kbConfigured, pcKeys, physKeys>>
    BY <1>7 DEF Keyboard!SendPending
  <2>2. CASE ~kbMerged /\ kbDirty /\ Keyboard!KbEpFree
    <3>1. kbEp' = Keyboard!Armed(kb) /\ (kbDirty' <=> kb # Keyboard!NoKeys)
      BY <1>7, <2>2 DEF Keyboard!SendPending, Keyboard!DirtyAfterSynth
    <3>2. KbShown' = kb /\ kb \in Keyboard!BootReports
      BY <3>1, ArmedReads DEF KbShown, KeysTold, Keyboard!KbTypeOK
    <3>3. kbDirty' \in BOOLEAN
      BY <1>7, <2>2 DEF Keyboard!SendPending, Keyboard!DirtyAfterSynth
    <3>4. Keyboard!KbTypeOK'
      BY <2>1, <3>1, <3>3, ArmedReads DEF KeysTold, Keyboard!KbTypeOK
    <3> QED
      BY <2>1, <3>1, <3>2, <3>4
      DEF KeysTold, Keyboard!Within, Keyboard!NoKeys, Keyboard!Boot
  <2>3. CASE ~(~kbMerged /\ kbDirty /\ Keyboard!KbEpFree)
    <3>1. kbEp' = kbEp /\ kbDirty' = kbDirty
      BY <1>7, <2>3 DEF Keyboard!SendPending, Keyboard!DirtyAfterSynth
    <3> QED
      BY <2>1, <3>1 DEF KeysTold, Keyboard!KbTypeOK, KbShown
  <2> QED
    BY <2>2, <2>3
<1>8. CASE Keyboard!PcTakesKeys
  <2>1. /\ kbEp.armed /\ pcKeys' = Keyboard!Boot(kbEp.mods, kbEp.keys)
        /\ kbEp' = Keyboard!None
        /\ UNCHANGED <<kbPc, kb, kbDirty, kbMerged, kbRaw, kbOut, kbSaved, kbConfigured,
                       physKeys>>
    BY <1>8 DEF Keyboard!PcTakesKeys
  <2>2. ~kbEp'.armed
    BY <2>1 DEF Keyboard!None
  <2> QED
    BY <2>1, <2>2 DEF KeysTold, Keyboard!KbTypeOK, KbShown
<1>9. CASE Keyboard!KbBusReset
  <2>1. /\ kbConfigured' = FALSE /\ kbEp' = Keyboard!None /\ pcKeys' = Keyboard!NoKeys
        /\ physKeys' = Keyboard!NoKeys
        /\ UNCHANGED <<kbPc, kb, kbDirty, kbMerged, kbRaw, kbOut, kbSaved>>
    BY <1>9 DEF Keyboard!KbBusReset
  <2>2. ~kbEp'.armed
    BY <2>1 DEF Keyboard!None
  <2>3. Keyboard!KbTypeOK'
    BY <2>1, <2>2, <1>0 DEF KeysTold, Keyboard!KbTypeOK
  <2> QED
    BY <2>1, <2>2, <2>3 DEF KeysTold, KbShown, Keyboard!Within
<1>10. CASE Keyboard!KbSetConfiguration
  <2>1. /\ kbConfigured' = TRUE
        /\ UNCHANGED <<kbPc, kb, kbDirty, kbMerged, kbRaw, kbOut, kbSaved, kbEp, pcKeys,
                       physKeys>>
    BY <1>10 DEF Keyboard!KbSetConfiguration
  <2> QED
    BY <2>1 DEF KeysTold, Keyboard!KbTypeOK, KbShown
<1> QED
  BY <1>1, <1>2, <1>3, <1>4, <1>5, <1>6, <1>7, <1>8, <1>9, <1>10
  DEF Keyboard!KbNext, Keyboard!KbLoop

LEMMA ToldKeys == KeysTold => Keyboard!NoStuckKey
  BY DEF KeysTold, Keyboard!NoStuckKey, Keyboard!KbEpFree, KbShown, Keyboard!KbTypeOK

-----------------------------------------------------------------------------
\* Both halves, each beside the other: a step of one leaves the other alone.
AllTold == IInv /\ ButtonsTold /\ KeysTold

LEMMA MCStepTold == AllTold /\ [MCNext]_<<vars, kbvars, part>> => AllTold'
<1> SUFFICES ASSUME AllTold, [MCNext]_<<vars, kbvars, part>> PROVE AllTold'
  OBVIOUS
<1>1. UNCHANGED kbvars => KeysTold'
  BY DEF AllTold, KeysTold, kbvars, Keyboard!KbTypeOK, KbShown
<1>2. CASE (Next \/ Clicks!Next) /\ Mouse
  BY <1>1, <1>2, NextSteps, ClickSteps, MouseStepInv, StepTold DEF AllTold, Mouse
<1>3. CASE Keyboard!KbNext /\ Typing
  BY <1>3, KeyStep, StutterInv, StepTold DEF AllTold, Typing
<1>4. CASE UNCHANGED <<vars, kbvars, part>>
  BY <1>1, <1>4, StutterInv, StepTold DEF AllTold
<1> QED
  BY <1>2, <1>3, <1>4 DEF MCNext

\* The invariant of the two halves together.
THEOREM Told == MCSpec => []AllTold
<1>1. MCInit => AllTold
  BY InitInv, InitTold, InitKeys DEF MCInit, AllTold
<1> QED
  BY <1>1, MCStepTold, PTL DEF MCSpec

\* Once the merge has nothing left to say and the endpoint is empty, no injected key or
\* button sticks: the PC holds down none beyond those of the keyboard's or the mouse's last
\* report that the endpoint took, of a mouse whose wheel shares its X/Y report.  Of such a
\* mouse it holds down exactly the buttons that are down, unless a report was dropped or
\* taken by a bus reset, or a synthesized one released them; then only the mouse's next
\* report puts it right (usb_merge.c:330-480, 738-823).
THEOREM ReleasesShown == MCSpec => []NothingSticks
<1>1. AllTold => NothingSticks
  BY ToldButtons, ToldKeys DEF AllTold, NothingSticks
<1> QED
  BY <1>1, Told, PTL

\* Accumulators, reports, key sets and flags stay in their ranges in both halves.
THEOREM BothTyped == MCSpec => []TypesOK
<1>1. AllTold => TypesOK
  BY DEF AllTold, IInv, Types, Reports, Checkpointed, Sending, TypeOK, KeysTold, TypesOK
<1> QED
  BY <1>1, Told, PTL
=============================================================================
