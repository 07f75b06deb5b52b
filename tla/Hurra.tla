------------------------------- MODULE Hurra -------------------------------
(***************************************************************************)
(* hurra.c: what whole frames of the binary protocol do besides the calls  *)
(* into actions.c (Actions): the catch_xy window, the callbacks that tell  *)
(* the host of the mouse, the change of rate and the reboot that wait for  *)
(* their acknowledgement to leave, and the replies.  Framing finds the     *)
(* frames.  A reply carries the frame id of its request: the id of a       *)
(* catch_xy is its number here.  The key and physical-input callbacks have *)
(* no caller in either home; the skip of tlm_send never happens, since     *)
(* Board B reports 256 bytes of room whatever its ring holds.              *)
(***************************************************************************)
EXTENDS CommandHost

VARIABLES
    newBaud,   \* s_baud_pending, s_baud_apply_at, s_baud_scheduled
    reboot,    \* s_reboot_at, s_reboot_scheduled
    baud,      \* the rate of the line
    \* history
    baudAcked, baudLeft, \* the rate last acknowledged, milliseconds until it is due
    rebootLeft           \* milliseconds until the acknowledged reboot is due

deferred == <<newBaud, reboot, baud, baudAcked, baudLeft, rebootLeft>>
vars == <<hostvars, deferred>>

Idle == [scheduled |-> FALSE, at |-> 0]
NoBaud == [scheduled |-> FALSE, at |-> 0, rate |-> 0]

DeferredInit ==
    /\ newBaud = NoBaud /\ reboot = Idle /\ baud = DefaultRate
    /\ baudAcked = DefaultRate /\ baudLeft = 0 /\ rebootLeft = 0

\* hurra_init
Init == HostInit /\ DeferredInit

-----------------------------------------------------------------------------
\* Listeners

\* send_reply
Reply == used' = After(used, ReplyBytes)

\* A command that is answered at once, or a write that is not.
Query ==
    /\ Request /\ Reply
    /\ UNCHANGED <<home, time, window, callbacks, world, deferred>>

\* Mutants: a window open already is dropped; its motion runs on into the next; its
\* answer goes to whoever asked last.
NoPrior == <<>>
RunsOn == catch.moved
OnlyPrior == [catch EXCEPT !.id = Len(asked) + 1]
Emitted == catch
Fresh == 0
Prior == IF catch.active THEN <<[id |-> Emitted.id, moved |-> Emitted.moved]>> ELSE <<>>

\* l_catch_xy: a window that is open is answered before the next one opens.
CatchXy(dur) ==
    /\ Request
    /\ answers' = answers \o Prior
    /\ used' = IF catch.active THEN After(used, CatchBytes) ELSE used
    /\ catch' = [active |-> TRUE, deadline |-> (now + Clamped(dur)) % ClockRange,
                 moved |-> Fresh, id |-> Len(asked) + 1]
    /\ asked' = Asked(dur)
    /\ UNCHANGED <<home, time, callbacks, world, deferred>>

\* cb_toggle_listener: the button callback forgets what it told, whether it is switched
\* on or off.  Mutant: it remembers.
Remembered(cb) == lastTold
Forgotten(cb) == IF cb = "buttons" THEN Resend ELSE lastTold

Toggle(cb, on) ==
    /\ Request
    /\ Switch(cb, on)
    /\ lastTold' = Forgotten(cb)
    /\ lost' = (lost /\ cb # "buttons")
    /\ UNCHANGED <<home, time, used, window, told, world, deferred>>

\* l_baud with a rate: acknowledged at the old rate, applied later; a newer request
\* takes the place of one that waits.  Mutant: the first one stays.
FirstStays(rate) == IF newBaud.scheduled THEN newBaud.rate ELSE rate
Newest(rate) == rate

SetBaud(rate) ==
    /\ Request /\ Reply
    /\ newBaud' = [scheduled |-> TRUE, at |-> (now + DeferDelay) % ClockRange,
                   rate |-> Newest(rate)]
    /\ baudAcked' = rate /\ baudLeft' = DeferDelay
    /\ UNCHANGED <<home, time, window, callbacks, world, reboot, baud, rebootLeft>>

\* l_reboot
AskReboot ==
    /\ Request /\ Reply
    /\ reboot' = [scheduled |-> TRUE, at |-> (now + DeferDelay) % ClockRange]
    /\ rebootLeft' = DeferDelay
    /\ UNCHANGED <<home, time, window, callbacks, world, newBaud, baud, baudAcked,
                   baudLeft>>

-----------------------------------------------------------------------------
\* hurra_tick

CatchDue == catch.active /\ Reached(catch.deadline)
BaudDue == newBaud.scheduled /\ Reached(newBaud.at)
RebootDue == reboot.scheduled /\ Reached(reboot.at)

TickCatch ==
    IF CatchDue
    THEN /\ answers' = Append(answers, [id |-> catch.id, moved |-> catch.moved])
         /\ used' = After(used, CatchBytes)
         /\ catch' = [catch EXCEPT !.active = FALSE]
    ELSE UNCHANGED <<answers, used, catch>>

\* kmbox_set_baud does nothing on Board B.
TickBaud ==
    IF BaudDue
    THEN /\ baud' = IF home = "uart" THEN newBaud.rate ELSE baud
         /\ newBaud' = [newBaud EXCEPT !.scheduled = FALSE, !.at = 0]
    ELSE UNCHANGED <<baud, newBaud>>

Tick ==
    /\ ~RebootDue
    /\ lag' = 0
    /\ TickCatch /\ TickBaud
    /\ UNCHANGED <<home, now, asked, callbacks, world, requests, reboot, baudAcked,
                   baudLeft, rebootLeft>>

\* NVIC_SystemReset: the board starts over, and so does its clock.
Reboot ==
    /\ RebootDue
    /\ now' = 0 /\ lag' = 0 /\ used' = 0
    /\ catch' = NoCatch /\ asked' = <<>> /\ answers' = <<>>
    /\ enabled' = {} /\ lastTold' = 0
    /\ told' = Unknown /\ noticed' = FALSE /\ subscribed' = FALSE /\ lost' = FALSE
    /\ newBaud' = NoBaud /\ reboot' = Idle /\ baud' = DefaultRate
    /\ baudAcked' = DefaultRate /\ baudLeft' = 0 /\ rebootLeft' = 0
    /\ UNCHANGED <<home, world, requests>>

-----------------------------------------------------------------------------
\* A report of the mouse, which Board B's relay shows the parser

\* hurra_notify_buttons
TellsButtons(b) == "buttons" \in enabled /\ b # lastTold

\* hurra_notify_axes, after the buttons: the window sees motion with the callback off.
NotifyAxes(u, d) ==
    /\ catch' = IF catch.active THEN [catch EXCEPT !.moved = @ + d] ELSE catch
    /\ used' = IF "axes" \in enabled THEN After(u, TellBytes) ELSE u

Report(b, d) ==
    /\ home = "cdc" /\ notices < MaxNotices
    /\ notices' = notices + 1 /\ held' = b
    /\ NotifyAxes(IF TellsButtons(b) THEN After(used, TellBytes) ELSE used, d)
    /\ IF TellsButtons(b)
       THEN /\ lastTold' = b
            /\ lost' = ~TakenWhole(used, TellBytes)
            /\ told' = IF TakenWhole(used, TellBytes) THEN b ELSE told
       ELSE UNCHANGED <<lastTold, lost, told>>
    /\ noticed' = TRUE
    /\ asked' = SeenMoving(d)
    /\ UNCHANGED <<home, time, answers, enabled, subscribed, requests, deferred>>

Millisecond ==
    /\ HostMillisecond
    /\ baudLeft' = IF newBaud.scheduled THEN baudLeft - 1 ELSE baudLeft
    /\ rebootLeft' = IF reboot.scheduled THEN rebootLeft - 1 ELSE rebootLeft
    /\ UNCHANGED <<newBaud, reboot, baud, baudAcked>>

Listener ==
    \/ Query \/ AskReboot
    \/ \E dur \in Durations : CatchXy(dur)
    \/ \E cb \in {"buttons", "axes"}, on \in BOOLEAN : Toggle(cb, on)
    \/ \E rate \in Rates : SetBaud(rate)

Environment ==
    \/ (Drain \/ HostRestart) /\ UNCHANGED deferred
    \/ Millisecond
    \/ \E b \in Bitmaps, d \in Moves : Report(b, d)

Next == Listener \/ Tick \/ Reboot \/ Environment

Spec == Init /\ [][Next]_vars

-----------------------------------------------------------------------------
TypeOK ==
    /\ HostTypeOK
    /\ newBaud \in [scheduled : BOOLEAN, at : 0 .. ClockRange - 1, rate : Rates \cup {0}]
    /\ reboot \in [scheduled : BOOLEAN, at : 0 .. ClockRange - 1]
    /\ {baud, baudAcked} \subseteq Rates \cup {DefaultRate}
    /\ {baudLeft, rebootLeft} \subseteq Int

\* Once a report has come, a host that switched the button callback on knows the mouse's
\* buttons, although only changes are told: switching forgets what another host was
\* told, or what never arrived.  A line cut short by a full CDC ring is the exception:
\* the callback takes it for told until the next change (hurra.c:782-788).
HostKnowsButtons ==
    subscribed /\ noticed /\ ~lost => told = held

\* A window closes, a rate changes and a reboot happens with the first tick at or after
\* their time and never before, across the wrap of the clock (hurra.c:758-779): so the
\* acknowledgement has DeferDelay to leave, and the line ends at the rate that was
\* acknowledged last.
OnDeadline ==
    /\ Tick => /\ Open => (Latest.left <= 0 <=> Len(answers') > Len(answers))
               /\ newBaud.scheduled => (baudLeft <= 0 <=> ~newBaud'.scheduled)
               /\ reboot.scheduled => rebootLeft > 0
    /\ Reboot => rebootLeft <= 0
    /\ Len(asked') = Len(asked) /\ answers' # answers => Latest.left <= 0
    /\ newBaud.scheduled /\ ~newBaud'.scheduled /\ home = "uart" /\ ~Reboot
          => baud' = baudAcked
=============================================================================
