------------------------------ MODULE KbMerge ------------------------------
(***************************************************************************)
(* The keyboard half of the merge (usb_merge.c): injected keys overlay the *)
(* boot reports of the real keyboard while there are any, and go out in    *)
(* reports of their own in every pass that merged nothing.  The mouse half *)
(* is UsbMerge; all it shares with this half is merged_this_cycle.  As     *)
(* there, the PC acts between any two steps of the loop.                   *)
(*                                                                         *)
(* A report is the set of its modifiers and the set of its keys: which of  *)
(* the injected keys find a free slot is left open.  The release timers    *)
(* and the masks are left out: no part of the program sends their records. *)
(***************************************************************************)
EXTENDS FiniteSets, Naturals

CONSTANTS
    Keys, Modifiers,
    KeySlots,       \* 6, the keys of a boot report
    MaxKbRecords,   \* bound: records injected
    MaxKbReports,   \* bound: reports of the keyboard, and reports the mouse merges
    MaxKbResets     \* bound: bus resets

VARIABLES
    kbPc,        \* where the relay loop is
    kb,          \* inject.kb_modifier, inject.kb_keys
    kbDirty,     \* inject.kb_dirty
    kbMerged,    \* merged_this_cycle
    \* the keyboard's report, what is sent of it, and the flag a failed send restores
    kbRaw, kbOut, kbSaved,
    \* the device endpoint, and what the PC holds down
    kbConfigured, kbEp, pcKeys,
    \* history: the keyboard's last report that the endpoint took
    physKeys,
    kbRecords, kbReports, kbResets

inject == <<kb, kbDirty>>
tx == <<kbRaw, kbOut, kbSaved>>
pc == <<kbConfigured, kbEp, pcKeys, physKeys>>
kbCounts == <<kbRecords, kbReports, kbResets>>
kbVars == <<kbPc, inject, kbMerged, tx, pc, kbCounts>>

Boot(mods, keys) == [mods |-> mods, keys |-> keys]
NoKeys == Boot({}, {})
BootReports ==
    {Boot(m, k) : m \in SUBSET Modifiers, k \in {s \in SUBSET Keys : Cardinality(s) <= KeySlots}}
None == [mods |-> {}, keys |-> {}, armed |-> FALSE]
Armed(r) == [mods |-> r.mods, keys |-> r.keys, armed |-> TRUE]
Within(r, s) == r.mods \subseteq s.mods /\ r.keys \subseteq s.keys

KbInit ==
    /\ kbPc = "drain"
    /\ kb = NoKeys /\ kbDirty = FALSE /\ kbMerged = FALSE
    /\ kbRaw = NoKeys /\ kbOut = NoKeys /\ kbSaved = FALSE
    /\ kbConfigured = TRUE /\ kbEp = None /\ pcKeys = NoKeys /\ physKeys = NoKeys
    /\ kbRecords = 0 /\ kbReports = 0 /\ kbResets = 0

KbEpFree == kbConfigured /\ ~kbEp.armed

-----------------------------------------------------------------------------
\* merge_apply_keyboard: a record says all keys that are down.
ApplyKeys(r) ==
    /\ kbPc = "drain" /\ kbRecords < MaxKbRecords
    /\ kbRecords' = kbRecords + 1
    /\ kb' = r /\ kbDirty' = TRUE
    /\ UNCHANGED <<kbPc, kbMerged, tx, pc, kbReports, kbResets>>

EndKeyDrain ==
    /\ kbPc = "drain"
    /\ kbMerged' = FALSE
    /\ kbPc' = "eps"
    /\ UNCHANGED <<inject, tx, pc, kbCounts>>

\* A report of the mouse went through the same pass.
MouseMerges ==
    /\ kbPc = "eps" /\ kbReports < MaxKbReports
    /\ kbReports' = kbReports + 1
    /\ kbMerged' = TRUE
    /\ UNCHANGED <<kbPc, inject, tx, pc, kbRecords, kbResets>>

KeyboardReport(r) ==
    /\ kbPc = "eps" /\ kbReports < MaxKbReports
    /\ kbReports' = kbReports + 1
    /\ kbRaw' = r
    /\ kbPc' = "forward"
    /\ UNCHANGED <<inject, kbMerged, kbOut, kbSaved, pc, kbRecords, kbResets>>

NoKeyReport ==
    /\ kbPc = "eps"
    /\ kbPc' = "pending"
    /\ UNCHANGED <<inject, kbMerged, tx, pc, kbCounts>>

\* A busy endpoint drops the report.
DropKeyReport ==
    /\ kbPc = "forward" /\ ~KbEpFree
    /\ kbRaw' = NoKeys
    /\ kbPc' = "pending"
    /\ UNCHANGED <<inject, kbMerged, kbOut, kbSaved, pc, kbCounts>>

\* usb_merge_keyboard: the injected keys join those of the report while slots are free.
Overlays(r) ==
    {Boot(r.mods \cup kb.mods, k) : k \in
        {k \in SUBSET (r.keys \cup kb.keys) :
            /\ r.keys \subseteq k /\ Cardinality(k) <= KeySlots
            /\ k # r.keys \cup kb.keys => Cardinality(k) = KeySlots}}

\* Mutant: a report that carried the injection settles it.
CleanOnceMerged == FALSE
StaysDirty == kbDirty

\* usb_merge_forward_report up to the send.
MergeKeys ==
    /\ kbPc = "forward" /\ KbEpFree
    /\ IF kbDirty THEN kbOut' \in Overlays(kbRaw) ELSE kbOut' = kbRaw
    /\ kbSaved' = kbMerged
    /\ kbMerged' = (kbMerged \/ kbDirty)
    /\ kbDirty' = StaysDirty
    /\ kbPc' = "send"
    /\ UNCHANGED <<kb, kbRaw, pc, kbCounts>>

\* usb_device_send_report refuses when the bus was reset since the check above.
SendKeys ==
    /\ kbPc = "send"
    /\ IF KbEpFree
       THEN kbEp' = Armed(kbOut) /\ physKeys' = kbRaw /\ UNCHANGED kbMerged
       ELSE kbMerged' = kbSaved /\ UNCHANGED <<kbEp, physKeys>>
    /\ kbRaw' = NoKeys /\ kbOut' = NoKeys /\ kbSaved' = FALSE
    /\ kbPc' = "pending"
    /\ UNCHANGED <<inject, kbConfigured, pcKeys, kbCounts>>

\* Mutant: the flag is cleared whether or not the report was taken.
DirtyIfHeld == kb # NoKeys
DirtyAfterSynth == IF KbEpFree THEN kb # NoKeys ELSE kbDirty

\* usb_merge_send_keyboard_report, in a pass that merged nothing.
SendPending ==
    /\ kbPc = "pending"
    /\ IF ~kbMerged /\ kbDirty
       THEN /\ kbEp' = IF KbEpFree THEN Armed(kb) ELSE kbEp
            /\ kbDirty' = DirtyAfterSynth
       ELSE UNCHANGED <<kbEp, kbDirty>>
    /\ kbPc' = "drain"
    /\ UNCHANGED <<kb, kbMerged, tx, kbConfigured, pcKeys, physKeys, kbCounts>>

-----------------------------------------------------------------------------
\* The PC

PcTakesKeys ==
    /\ kbEp.armed
    /\ pcKeys' = Boot(kbEp.mods, kbEp.keys)
    /\ kbEp' = None
    /\ UNCHANGED <<kbPc, inject, kbMerged, tx, kbConfigured, physKeys, kbCounts>>

KbBusReset ==
    /\ kbResets < MaxKbResets
    /\ kbResets' = kbResets + 1
    /\ kbConfigured' = FALSE /\ kbEp' = None /\ pcKeys' = NoKeys /\ physKeys' = NoKeys
    /\ UNCHANGED <<kbPc, inject, kbMerged, tx, kbRecords, kbReports>>

KbSetConfiguration ==
    /\ ~kbConfigured
    /\ kbConfigured' = TRUE
    /\ UNCHANGED <<kbPc, inject, kbMerged, tx, kbEp, pcKeys, physKeys, kbCounts>>

-----------------------------------------------------------------------------
KbLoop ==
    EndKeyDrain \/ NoKeyReport \/ DropKeyReport \/ MergeKeys \/ SendKeys \/ SendPending

KbNext ==
    \/ \E r \in BootReports : ApplyKeys(r) \/ KeyboardReport(r)
    \/ MouseMerges \/ KbLoop
    \/ PcTakesKeys \/ KbBusReset \/ KbSetConfiguration

KbSpec == KbInit /\ [][KbNext]_kbVars

KbTypeOK ==
    /\ kbPc \in {"drain", "eps", "forward", "send", "pending"}
    /\ {kb, kbRaw, kbOut, pcKeys, physKeys} \subseteq BootReports
    /\ kbEp.armed => Boot(kbEp.mods, kbEp.keys) \in BootReports
    /\ {kbDirty, kbMerged, kbSaved, kbConfigured} \subseteq BOOLEAN

\* No injected key sticks: once the merge has nothing left to say and the endpoint is
\* empty, the PC holds down no key but those of the keyboard's last report, whatever was
\* dropped, refused or reset in between (usb_merge.c:811-823).
NoStuckKey == ~kbDirty /\ KbEpFree /\ kbPc # "send" => Within(pcKeys, physKeys)

\* In the end the PC holds down every injected key that is down, although a report whose
\* slots are taken carries only some of them.
KeysDelivered == <>[]Within(kb, pcKeys)
=============================================================================
