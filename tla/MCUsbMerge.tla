----------------------------- MODULE MCUsbMerge -----------------------------
(***************************************************************************)
(* The merge of injected input: the mouse half (UsbMerge) and the keyboard *)
(* half (KbMerge).  They share only a flag, which each takes from its      *)
(* surroundings, so each is explored alone: `part` picks one at the start. *)
(* The mouse half is explored twice, with motion and with clicks alone.    *)
(***************************************************************************)
EXTENDS UsbMerge, FiniteSets

CONSTANTS a, b, ctrl, Explored, Keys, Modifiers, KeySlots,
          MaxKbRecords, MaxKbReports, MaxKbResets

ASSUME KeySlotsAssumption == KeySlots \in Nat

MCKeys == {a, b}
MCModifiers == {ctrl}

\* Moves both ways, and records that only scroll or press.  Each move exceeds the frame
\* cap, a physical one next to a capped injected one exceeds the field, and the field can
\* carry one more to the left than the merge itself ever writes.
MCDelta == {-4, 0, 3}
MCScroll == {0, 1}

VARIABLES
    part,
    kbPc, kb, kbDirty, kbMerged, kbRaw, kbOut, kbSaved, kbConfigured, kbEp, pcKeys,
    physKeys, kbRecords, kbReports, kbResets

Keyboard == INSTANCE KbMerge

kbvars == <<kbPc, kb, kbDirty, kbMerged, kbRaw, kbOut, kbSaved, kbConfigured, kbEp,
            pcKeys, physKeys, kbRecords, kbReports, kbResets>>

\* A mouse that lies still reports its clicks, often enough to press and to release.
Clicks == INSTANCE UsbMerge WITH Delta <- {0}, Scroll <- {0}, MaxReports <- 3

\* Bound: a mouse that moves reports only then.
Moving == raw'.id = "xy" => raw'.x # 0
Mouse == part \in {"mouse", "clicks"} /\ UNCHANGED <<part, kbvars>>
Typing == part = "keyboard" /\ UNCHANGED <<part, vars>>

\* The keyboard half does not depend on the mouse's layout.
MCInit ==
    /\ part \in Explored /\ Init /\ Keyboard!KbInit
    /\ part = "keyboard" => ~splitWheel

MCNext ==
    \/ part = "mouse" /\ Next /\ Moving /\ Mouse
    \/ part = "clicks" /\ Clicks!Next /\ Mouse
    \/ Keyboard!KbNext /\ Typing

\* The relay loop runs, time passes, the PC polls and configures the device.
MCSpec ==
    /\ MCInit /\ [][MCNext]_<<vars, kbvars, part>>
    /\ WF_vars(Loop /\ Mouse) /\ WF_vars(Silence /\ Mouse)
    /\ WF_vars(PcPolls /\ Mouse) /\ WF_vars(SetConfiguration /\ Mouse)
    /\ WF_kbvars(Keyboard!KbLoop /\ Typing) /\ WF_kbvars(Keyboard!PcTakesKeys /\ Typing)
    /\ WF_kbvars(Keyboard!KbSetConfiguration /\ Typing)

\* The accumulators, reports and flags stay in their ranges (usb_merge.c).
TypesOK == TypeOK /\ Keyboard!KbTypeOK
\* The properties of the halves, stated and explained in their modules.
NothingSticks ==
    NoStuckButton /\ HeldButtonsShown /\ Keyboard!NoStuckKey
AllDelivered == InjectionDelivered /\ Keyboard!KeysDelivered
=============================================================================
