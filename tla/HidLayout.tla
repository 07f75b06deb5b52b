----------------------------- MODULE HidLayout -----------------------------
(***************************************************************************)
(* Where the mouse's X, Y and wheel are in its reports: hid_layout.c reads *)
(* the HID report descriptor item by item and keeps a bit position and the *)
(* usages named since the last main item.  The reference reads the same    *)
(* items as the HID specification does, by looking back from each input.   *)
(***************************************************************************)
EXTENDS Integers, Sequences, FiniteSets, FiniteSetsExt

CONSTANTS
    Pieces,     \* runs of items descriptors are made of, items being [tag, val]
    MaxPieces,  \* bound: pieces of a descriptor
    MaxUsages   \* room in usages (16 in the code)

VARIABLES
    rest,    \* items of the piece not read yet
    pieces,  \* how many there were
    items,   \* history: the items read
    global,  \* usage_page, report_size, report_count
    id,      \* current_rid
    bit,     \* bit_pos
    usages,
    range,   \* usage_min, usage_max
    layout   \* mouse_layout_t: for each axis the bit, size and report ID

Axes == {"X", "Y", "wheel"}
NoField == [bit |-> 0, size |-> 0, id |-> 0]
None == [min |-> 0, max |-> 0]

\* The pages and usages descriptors have: an axis is one of the Generic Desktop page,
\* and a usage is its place in Usage, whose first three are the axes.
Desktop == 1
Usage == <<"X", "Y", "wheel", "other">>
UsageAt(n) == IF n \in DOMAIN Usage THEN Usage[n] ELSE "none"

Init ==
    /\ rest = <<>> /\ pieces = 0 /\ items = <<>>
    /\ global = [page |-> 0, size |-> 0, count |-> 0] /\ id = 0 /\ bit = 0
    /\ usages = <<>> /\ range = None
    /\ layout = [a \in Axes |-> NoField]

-----------------------------------------------------------------------------
Global(i) ==
    /\ i.tag \in {"page", "size", "count"}
    /\ global' = [global EXCEPT ![i.tag] = i.val]
    /\ UNCHANGED <<id, bit, usages, range, layout>>

\* Mutant: the position runs on from one report to the next.
RunOn == bit
StartOfReport == 0

ReportId(i) ==
    /\ i.tag = "id"
    /\ id' = i.val /\ bit' = StartOfReport
    /\ UNCHANGED <<global, usages, range, layout>>

Local(i) ==
    /\ i.tag \in {"usage", "min", "max"}
    /\ usages' = IF i.tag = "usage" /\ Len(usages) < MaxUsages
                 THEN Append(usages, i.val) ELSE usages
    /\ range' = IF i.tag = "usage" THEN range ELSE [range EXCEPT ![i.tag] = i.val]
    /\ UNCHANGED <<global, id, bit, layout>>

\* Mutant: the usages of an input are those of the next one as well.
KeepLocals == UNCHANGED <<usages, range>>
ForgetLocals == usages' = <<>> /\ range' = None

\* The usages of an input: those named, or else those of the range.
Named ==
    IF usages # <<>> \/ range.max < range.min THEN usages
    ELSE [n \in 1 .. Min({range.max - range.min + 1, MaxUsages}) |-> range.min + n - 1]

\* The last usage stands for the fields that are left.
UsageOf(f) ==
    IF Named = <<>> THEN 0 ELSE Named[IF f <= Len(Named) THEN f ELSE Len(Named)]

\* Of two fields of an axis the later counts.
Input(i) ==
    /\ i.tag = "input"
    /\ layout' = [a \in Axes |->
         LET found == {f \in 1 .. global.count :
                         global.page = Desktop /\ UsageAt(UsageOf(f)) = a}
         IN  IF found = {} THEN layout[a]
             ELSE [bit |-> bit + (Max(found) - 1) * global.size,
                   size |-> global.size, id |-> id]]
    /\ bit' = bit + global.count * global.size
    /\ ForgetLocals
    /\ UNCHANGED <<global, id>>

Collection(i) ==
    /\ i.tag \in {"collection", "end"}
    /\ usages' = <<>> /\ range' = IF i.tag = "end" THEN range ELSE None
    /\ UNCHANGED <<global, id, bit, layout>>

\* Outputs, features and all items the switch does not name, long ones included.
Skipped(i) ==
    /\ i.tag \in {"output", "feature", "logical", "long"}
    /\ UNCHANGED <<global, id, bit, usages, range, layout>>

Read ==
    /\ rest # <<>>
    /\ rest' = Tail(rest) /\ items' = Append(items, Head(rest))
    /\ LET i == Head(rest) IN
       Global(i) \/ ReportId(i) \/ Local(i) \/ Input(i) \/ Collection(i) \/ Skipped(i)
    /\ UNCHANGED pieces

\* The descriptor goes on; it may also end here, or be cut.
GoesOn(p) ==
    /\ rest = <<>> /\ pieces < MaxPieces
    /\ rest' = p /\ pieces' = pieces + 1
    /\ UNCHANGED <<items, global, id, bit, usages, range, layout>>

vars == <<rest, pieces, items, global, id, bit, usages, range, layout>>

\* At the end of the descriptor the parser is done.
Done == rest = <<>> /\ UNCHANGED vars

Next == Read \/ Done \/ \E p \in Pieces : GoesOn(p)

-----------------------------------------------------------------------------
\* The reading of a descriptor d by the HID specification (1.11, 5.4 to 6.2.2)

Main == {"input", "output", "feature", "collection", "end"}
Before(d, k, tags) == {j \in 1 .. k - 1 : d[j].tag \in tags}
LastOf(d, k, tag) ==
    LET js == Before(d, k, {tag}) IN IF js = {} THEN 0 ELSE d[Max(js)].val

\* The items that count for main item k alone.
Own(d, k, tag) == {j \in Before(d, k, {tag}) : \A m \in Before(d, k, Main) : m < j}

\* The n-th of a set of places.
Nth(js, n) == CHOOSE j \in js : Cardinality({i \in js : i <= j}) = n

\* The usages of main item k: those it names, in their order, or else those of its range.
Usages(d, k) ==
    LET own == Own(d, k, "usage")
        first == d[Max(Own(d, k, "min"))].val
        last == d[Max(Own(d, k, "max"))].val
    IN  IF own # {} THEN [n \in 1 .. Cardinality(own) |-> d[Nth(own, n)].val]
        ELSE IF Own(d, k, "min") = {} THEN <<>>
        ELSE [n \in 1 .. last - first + 1 |-> first + n - 1]

\* A report's inputs follow one another, whatever comes between them.
SameReport(d, k) ==
    {j \in Before(d, k, {"input"}) : LastOf(d, j, "id") = LastOf(d, k, "id")}
Start(d, k) ==
    LET bits == [j \in SameReport(d, k) |-> LastOf(d, j, "size") * LastOf(d, j, "count")]
    IN  MapThenFoldSet(LAMBDA n, sum : sum + n, 0, LAMBDA j : bits[j], Max, DOMAIN bits)

\* The fields of input k that are the axis a, and all fields that are.
FieldsOf(d, k, a) ==
    LET u == Usages(d, k)
    IN  {f \in 1 .. LastOf(d, k, "count") :
           /\ LastOf(d, k, "page") = Desktop /\ u # <<>>
           /\ UsageAt(u[IF f <= Len(u) THEN f ELSE Len(u)]) = a}
Fields(d, a) ==
    UNION {{k} \X FieldsOf(d, k, a) : k \in Before(d, Len(d) + 1, {"input"})}

Reference(d, a) ==
    IF Fields(d, a) = {} THEN NoField
    ELSE LET l == CHOOSE l \in Fields(d, a) :
                    \A o \in Fields(d, a) : o[1] < l[1] \/ (o[1] = l[1] /\ o[2] <= l[2])
         IN  [bit |-> Start(d, l[1]) + (l[2] - 1) * LastOf(d, l[1], "size"),
              size |-> LastOf(d, l[1], "size"), id |-> LastOf(d, l[1], "id")]

\* A main item has usages or one range, of a minimum and a maximum.
Plain(d, k) ==
    /\ \A tag \in {"min", "max"} : \A i, j \in Own(d, k, tag) : i = j
    /\ Own(d, k, "min") = {} <=> Own(d, k, "max") = {}
    /\ Own(d, k, "usage") = {} \/ Own(d, k, "min") = {}

\* What the parser does not follow: usages of an output or a feature stay with it until
\* the next input or collection (a Resolution Multiplier hides the wheel behind it), and
\* so does a range at the end of a collection; a report ID that comes again starts its
\* report over; usages beyond its room are lost, and so are all but the last of several
\* ranges and a range beside usages.
Followed(d) ==
    \A k \in 1 .. Len(d) :
        /\ d[k].tag \in Main => Plain(d, k)
        /\ d[k].tag \in {"output", "feature"} => Usages(d, k) = <<>>
        /\ d[k].tag = "end" => Own(d, k, "min") = {}
        /\ d[k].tag = "id" =>
             d[k].val # 0 /\ \A j \in Before(d, k, {"id"}) : d[j].val # d[k].val
        /\ d[k].tag = "input" => Len(Usages(d, k)) <= MaxUsages

TypeOK ==
    /\ pieces \in 0 .. MaxPieces /\ bit \in Nat
    /\ Len(usages) <= MaxUsages /\ DOMAIN layout = Axes

\* The layout the merge writes injected motion by is the one the PC reads the report by,
\* wherever the descriptor ends, whatever paddings, pages, collections and report IDs it
\* has, but for the forms above (hid_layout.c:10-102).
LayoutFound ==
    rest = <<>> /\ Followed(items) => \A a \in Axes : layout[a] = Reference(items, a)
=============================================================================
