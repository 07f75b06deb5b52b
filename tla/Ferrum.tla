------------------------------- MODULE Ferrum -------------------------------
(***************************************************************************)
(* ferrum.c: what whole lines of the text protocol do besides the calls    *)
(* into actions.c (Actions).  Framing finds the lines; ParseInt reads      *)
(* their numbers.  An answer has no id: the host matches answers to its    *)
(* catch_xy requests by their order.  Unlike Hurra, the parser closes a    *)
(* window also when a byte arrives, changes the rate at once and without   *)
(* an acknowledgement, and remembers what it told of the buttons when the  *)
(* callback is switched.                                                   *)
(***************************************************************************)
EXTENDS CommandHost

VARIABLE baud   \* the rate of the line

vars == <<hostvars, baud>>

\* ferrum_init
Init == HostInit /\ baud = DefaultRate

-----------------------------------------------------------------------------
\* ferrum_tick, ferrum_feed_byte: a window that is over is answered.
CatchDue == catch.active /\ Reached(catch.deadline)

\* emit_catch_result: the answer, and an accumulator to start over with.
Result == [id |-> Len(answers) + 1, moved |-> catch.moved]
Emit ==
    /\ answers' = Append(answers, Result)
    /\ used' = After(used, CatchBytes)

Tick ==
    /\ lag' = 0
    /\ IF CatchDue
       THEN Emit /\ catch' = [catch EXCEPT !.active = FALSE, !.moved = 0]
       ELSE UNCHANGED <<answers, used, catch>>
    /\ UNCHANGED <<home, now, asked, callbacks, world, requests, baud>>

\* Any byte that arrives, ahead of what it may complete.
FeedByte ==
    /\ CatchDue
    /\ Emit /\ catch' = [catch EXCEPT !.active = FALSE, !.moved = 0]
    /\ UNCHANGED <<home, time, asked, callbacks, world, requests, baud>>

Line == Request /\ ~CatchDue

-----------------------------------------------------------------------------
\* Commands

\* cmd_version, cmd_button, cmd_lock and the others that are answered at once.
Query ==
    /\ Line
    /\ used' = After(used, ReplyBytes)
    /\ UNCHANGED <<home, time, window, callbacks, world, baud>>

\* Mutant: the window that is open already is dropped.
Never == FALSE
Reentrant == catch.active

\* cmd_catch_xy
CatchXy(dur) ==
    /\ Line
    /\ IF Reentrant THEN Emit ELSE UNCHANGED <<answers, used>>
    /\ catch' = [active |-> TRUE, deadline |-> (now + Clamped(dur)) % ClockRange,
                 moved |-> 0, id |-> 0]
    /\ asked' = Asked(dur)
    /\ UNCHANGED <<home, time, callbacks, world, baud>>

\* cmd_cb_toggle: the button callback is not told to forget.
Toggle(cb, on) ==
    /\ Line
    /\ Switch(cb, on)
    /\ UNCHANGED <<home, time, used, window, lastTold, told, lost, world, baud>>

\* cmd_baud; kmbox_set_baud does nothing on Board B.
SetBaud(rate) ==
    /\ Line /\ rate > 0
    /\ baud' = IF home = "uart" THEN rate ELSE baud
    /\ UNCHANGED <<home, time, used, window, callbacks, world>>

-----------------------------------------------------------------------------
\* A report of the mouse

\* Mutants: the callback remembers a state it did not tell; motion counts only while
\* the axes callback is on.
AlwaysRemembered(b) == b
OnlyWhenTold == catch.active /\ "axes" \in enabled

\* ferrum_notify_buttons
TellsButtons(b) == "buttons" \in enabled /\ b # lastTold
Remembers(b) == IF TellsButtons(b) THEN b ELSE lastTold

\* ferrum_notify_axes, after the buttons
Accumulates == catch.active
NotifyAxes(u, d) ==
    /\ catch' = IF Accumulates THEN [catch EXCEPT !.moved = @ + d] ELSE catch
    /\ used' = IF "axes" \in enabled THEN After(u, TellBytes) ELSE u

Report(b, d) ==
    /\ home = "cdc" /\ notices < MaxNotices
    /\ notices' = notices + 1 /\ held' = b
    /\ NotifyAxes(IF TellsButtons(b) THEN After(used, TellBytes) ELSE used, d)
    /\ lastTold' = Remembers(b)
    /\ IF TellsButtons(b)
       THEN /\ lost' = ~TakenWhole(used, TellBytes)
            /\ told' = IF TakenWhole(used, TellBytes) THEN b ELSE told
       ELSE UNCHANGED <<lost, told>>
    /\ noticed' = TRUE
    /\ asked' = SeenMoving(d)
    /\ UNCHANGED <<home, time, answers, enabled, subscribed, requests, baud>>

Command ==
    \/ Query
    \/ \E dur \in Durations : CatchXy(dur)
    \/ \E cb \in {"buttons", "axes"}, on \in BOOLEAN : Toggle(cb, on)
    \/ \E rate \in Rates : SetBaud(rate)

Environment ==
    \/ (Drain \/ HostRestart \/ HostMillisecond) /\ UNCHANGED baud
    \/ \E b \in Bitmaps, d \in Moves : Report(b, d)

Next == FeedByte \/ Command \/ Tick \/ Environment

Spec == Init /\ [][Next]_vars

-----------------------------------------------------------------------------
TypeOK == HostTypeOK /\ baud \in Rates \cup {DefaultRate}

\* As Hurra's, but a host that took another's place is told nothing as long as the
\* buttons are those its predecessor was told last, and nor is one whose last line was
\* cut short: switching the callback off and on does not help (ferrum.c:389-403,
\* 594-609; cf. hurra.c:639).
HostKnowsButtons ==
    subscribed /\ noticed /\ ~lost =>
        told = held \/ (told = Unknown /\ lastTold = held)

\* A window is answered by the first tick or byte at or after its end, never before
\* unless the next request cuts it short (ferrum.c:546-567).
OnDeadline ==
    /\ Tick \/ FeedByte => (Open => (Latest.left <= 0 <=> answers' # answers))
    /\ Len(asked') = Len(asked) /\ answers' # answers => Latest.left <= 0
=============================================================================
