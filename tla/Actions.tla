------------------------------ MODULE Actions ------------------------------
(***************************************************************************)
(* actions.c: the state the command parsers drive (keys, buttons, click    *)
(* sequences, motion programs) and act_tick, which the poll loop calls to  *)
(* let timed presses, clicks and motion go on.  millis() is a wrapping     *)
(* counter; every deadline is a value of that counter.                     *)
(***************************************************************************)
EXTENDS Integers, FiniteSets, FiniteSetsExt

CONSTANTS Keys,          \* key codes that live in g_kb_keys
          Modifiers,     \* key codes 0xE0..0xE7, bits of g_kb_modifier
          KeySlots,      \* 6
          ReleaseSlots,  \* 14, entries of g_kb_release
          Buttons,
          Counts,        \* click counts commands ask for
          Delays,        \* delays commands ask for, clamped to INT32_MAX
          Programs,      \* motion programs commands start
          Half,          \* 2^31, half the range of millis()
          MaxLag,        \* most milliseconds between two calls of act_tick
          One,           \* 65536, the fixed-point 1 of the curve parameter
          StepMax        \* INT16_MAX, the largest delta a record carries

None == "none"
Key == Keys \cup Modifiers
Wrap == 2 * Half

ASSUME ActionsAssumption ==
    /\ None \notin Key \cup Buttons
    /\ KeySlots \in Nat \ {0} /\ ReleaseSlots \in Nat
    /\ Counts \subseteq Nat \ {0}
    /\ Half \in Nat \ {0} /\ Delays \subseteq 0 .. Half - 1
    /\ MaxLag \in 1 .. Half - 1
    /\ One \in Nat \ {0} /\ One % 2 = 0 /\ StepMax \in Nat \ {0}
    /\ \A p \in Programs : /\ p.kind \in {"linear", "bezier"}
                           /\ p.dur \in 1 .. Half - 1
                           /\ {p.e, p.c1, p.c2} \subseteq Int

\* The release table has room for every slot and every modifier bit (actions.c:30).
ASSUME RoomAssumption ==
    IsFiniteSet(Modifiers) /\ KeySlots + Cardinality(Modifiers) <= ReleaseSlots

VARIABLES
    clock,      \* millis()
    lag,        \* milliseconds since act_tick last ran
    keys,       \* g_kb_keys
    modifiers,  \* g_kb_modifier
    releases,   \* g_kb_release: a table with one entry per key, as a set
    shownKeys,  \* keys and modifiers of the last keyboard record injected
    buttons,    \* g_buttons
    click,      \* g_click_sched
    shownButtons, \* the buttons of the last mouse record injected
    motion,     \* g_motion, one axis
    \* history
    explicit,   \* keys whose last command was a plain down
    left,       \* true milliseconds left until a key's release is due
    holds,      \* buttons a plain down still holds
    clickLeft,  \* true milliseconds left until the click's next edge
    forgotten,  \* buttons that were down when INIT cleared g_buttons
    moved       \* sum of the deltas the program has injected

time == <<clock, lag>>
keyVars == <<keys, modifiers, releases, shownKeys, explicit, left>>
buttonVars == <<buttons, click, shownButtons, holds, clickLeft, forgotten>>
motionVars == <<motion, moved>>
vars == <<time, keyVars, buttonVars, motionVars>>

Slot == 1 .. KeySlots
NoClick == [button |-> None, remaining |-> 0, delay |-> 0, at |-> 0,
            pressed |-> FALSE]
NoMotion == [kind |-> None, e |-> 0, c1 |-> 0, c2 |-> 0, dur |-> 1,
             start |-> 0, emit |-> 0]

\* Mutants: a plain comparison of counter values; a key stored in the first
\* hole without looking for it; the whole step counted as emitted; a click that
\* forgets the one it interrupts.
NowPastDeadline(now, at) == now >= at
IntoFirstHole(k) ==
    LET free == {i \in Slot : keys[i] = None}
    IN  IF free = {} THEN keys ELSE [keys EXCEPT ![Min(free)] = k]
NotClamped(step) == step
NoInterruptedButton(b) == {}

\* time_deadline_reached: (int32_t)(now - deadline) >= 0
Reached(now, at) == (now - at) % Wrap < Half

-----------------------------------------------------------------------------
\* Keyboard

\* act_kb_isdown
DownKeys(ks, ms) == ({ks[i] : i \in Slot} \ {None}) \cup ms

\* kb_insert: look for the key in every slot before filling the first hole.
Insert(k) ==
    LET free == {i \in Slot : keys[i] = None}
    IN  IF \/ \E i \in Slot : keys[i] = k
           \/ free = {}
        THEN keys
        ELSE [keys EXCEPT ![Min(free)] = k]

\* The key finds its bit or a slot.
Fits(k) == k \in Modifiers \/ \E i \in Slot : Insert(k)[i] = k

\* act_kb_up: the bit, or the first slot that holds the key.
WithoutKeys(S) ==
    [i \in Slot |-> IF /\ keys[i] \in S
                       /\ \A j \in 1 .. i - 1 : keys[j] # keys[i]
                    THEN None ELSE keys[i]]

\* kb_cancel_release
Cancelled(k) == {r \in releases : r.key # k}

Press(k) ==
    /\ keys' = IF k \in Keys THEN Insert(k) ELSE keys
    /\ modifiers' = modifiers \cup ({k} \cap Modifiers)

\* kmbox_inject_keyboard: a snapshot of all that is down.
Publish == shownKeys' = DownKeys(keys', modifiers')

\* act_kb_down
KbDown(k) ==
    /\ IF Fits(k)
       THEN /\ Press(k) /\ Publish
            /\ explicit' = explicit \cup {k}
       ELSE UNCHANGED <<keys, modifiers, shownKeys, explicit>>
    /\ releases' = Cancelled(k)
    /\ left' = [left EXCEPT ![k] = 0]
    /\ UNCHANGED <<time, buttonVars, motionVars>>

\* act_kb_up
KbUp(k) ==
    /\ keys' = WithoutKeys({k})
    /\ modifiers' = modifiers \ {k}
    /\ Publish
    /\ releases' = Cancelled(k)
    /\ explicit' = explicit \ {k}
    /\ left' = [left EXCEPT ![k] = 0]
    /\ UNCHANGED <<time, buttonVars, motionVars>>

\* act_kb_press: a key with no slot is given up; the release goes in the table
\* if there is room.
KbPress(k, delay) ==
    /\ Fits(k)
    /\ Press(k) /\ Publish
    /\ IF Cardinality(Cancelled(k)) < ReleaseSlots
       THEN /\ releases' = Cancelled(k)
                   \cup {[key |-> k, at |-> (clock + delay) % Wrap]}
            /\ left' = [left EXCEPT ![k] = delay]
       ELSE releases' = Cancelled(k) /\ UNCHANGED left
    /\ explicit' = explicit \ {k}
    /\ UNCHANGED <<time, buttonVars, motionVars>>

\* act_kb_release_tick: act_kb_up for every entry that is due.
DueReleases == {r \in releases : Reached(clock, r.at)}
KeysTick ==
    LET due == {r.key : r \in DueReleases}
    IN  /\ keys' = WithoutKeys(due)
        /\ modifiers' = modifiers \ due
        /\ IF due = {} THEN UNCHANGED shownKeys ELSE Publish
        /\ releases' = releases \ DueReleases
        /\ left' = [k \in Key |-> IF k \in due THEN 0 ELSE left[k]]
        /\ UNCHANGED explicit

-----------------------------------------------------------------------------
\* Motion programs

\* ease_smoothstep: 3t^2 - 2t^3 held to 0 .. One
Ease(t) ==
    LET t2 == (t * t) \div One
        s  == 3 * t2 - 2 * ((t2 * t) \div One)
    IN  Max({0, Min({s, One})})

\* bezier_axis: the sign of the accumulator picks the rounding offset, then an
\* arithmetic shift rounds down.
Bezier(c1, c2, e, t) ==
    LET u   == One - t
        t2  == (t * t) \div One
        u2  == (u * u) \div One
        acc == 3 * ((u2 * t) \div One) * c1
                 + 3 * ((t2 * u) \div One) * c2 + ((t2 * t) \div One) * e
    IN  (acc + (IF acc >= 0 THEN One \div 2 ELSE -(One \div 2))) \div One

\* Where the program should be at parameter t.
Curve(m, t) == IF m.kind = "bezier" THEN Bezier(m.c1, m.c2, m.e, t)
                                    ELSE (m.e * Ease(t)) \div One

Elapsed == (clock - motion.start) % Wrap
LastTick == Elapsed >= motion.dur
Parameter == IF LastTick THEN One ELSE (Elapsed * One) \div motion.dur
Clamped(step) == Max({-StepMax - 1, Min({StepMax, step})})

\* What the program counts as emitted of the step towards its target.
Counted(step) == Clamped(step)

\* act_motion_move_dur and act_motion_bezier with a duration
StartProgram(p) ==
    /\ motion' = [kind |-> p.kind, e |-> p.e, c1 |-> p.c1, c2 |-> p.c2,
                  dur |-> p.dur, start |-> clock, emit |-> 0]
    /\ moved' = 0
    /\ UNCHANGED <<time, keyVars, buttonVars>>

\* act_motion_tick
Step == Curve(motion, Parameter) - motion.emit
MotionInjects == motion.kind # None /\ Step # 0
MotionTick ==
    IF motion.kind = None THEN UNCHANGED motionVars ELSE
    LET emit == motion.emit + Counted(Step)
    IN  /\ moved' = moved + Clamped(Step)
        /\ motion' = [motion EXCEPT
              !.emit = emit,
              !.kind = IF LastTick /\ emit = motion.e THEN None ELSE @]

-----------------------------------------------------------------------------
\* Buttons and click sequences

\* kmbox_inject_mouse: whatever the record is for, it carries g_buttons.
ShowButtons == shownButtons' = buttons' /\ forgotten' = {}

\* act_button_set, action 0 and 1: the parsers pass no other.
ButtonSet(b, down) ==
    /\ buttons' = IF down THEN buttons \cup {b} ELSE buttons \ {b}
    /\ ShowButtons
    /\ holds' = IF down THEN holds \cup {b} ELSE holds \ {b}
    /\ UNCHANGED <<time, keyVars, click, clickLeft, motionVars>>

\* The button a click in flight holds down, released before another's click.
Interrupted(b) ==
    IF click.button # None /\ click.pressed THEN {click.button} \ {b} ELSE {}

\* act_click
Click(b, count, delay) ==
    /\ buttons' = (buttons \ Interrupted(b)) \cup {b}
    /\ ShowButtons
    /\ click' = [button |-> b, remaining |-> count - 1, delay |-> delay,
                 at |-> (clock + delay) % Wrap, pressed |-> TRUE]
    /\ clickLeft' = delay
    /\ UNCHANGED <<time, keyVars, holds, motionVars>>

\* Mutant: off by one in the clicks that remain.
OnePressLeft == click.pressed /\ click.remaining = 1
LastPress == click.pressed /\ click.remaining = 0

\* act_click_tick
ClickDue == click.button # None /\ Reached(clock, click.at)
ClickTick ==
    IF ~ClickDue
    THEN /\ UNCHANGED <<buttons, click, holds, clickLeft>>
         /\ IF MotionInjects THEN ShowButtons
                             ELSE UNCHANGED <<shownButtons, forgotten>>
    ELSE
    /\ buttons' = IF click.pressed THEN buttons \ {click.button}
                                   ELSE buttons \cup {click.button}
    /\ ShowButtons
    /\ holds' = holds \ {click.button}
    /\ IF LastPress
       THEN click' = NoClick /\ clickLeft' = 0
       ELSE /\ click' = [click EXCEPT
                !.pressed = ~click.pressed,
                !.remaining = IF click.pressed THEN @ - 1 ELSE @,
                !.at = (clock + click.delay) % Wrap]
            /\ clickLeft' = click.delay

\* act_wheel: the record moves no state here but the buttons it carries.
Wheel ==
    /\ UNCHANGED buttons /\ ShowButtons
    /\ UNCHANGED <<time, keyVars, click, holds, clickLeft, motionVars>>

\* act_move overrides a program in flight; so does a program without duration.
Move ==
    /\ motion' = [motion EXCEPT !.kind = None]
    /\ UNCHANGED buttons /\ ShowButtons
    /\ UNCHANGED <<time, keyVars, click, holds, clickLeft, moved>>

-----------------------------------------------------------------------------
\* act_tick, once per iteration of the poll loop
ActTick ==
    /\ lag' = 0
    /\ UNCHANGED clock
    /\ MotionTick /\ ClickTick /\ KeysTick

\* A millisecond passes.  The loop runs act_tick at least every MaxLag of them.
Millisecond ==
    /\ lag < MaxLag
    /\ lag' = lag + 1
    /\ clock' = (clock + 1) % Wrap
    /\ left' = [k \in Key |-> IF \E r \in releases : r.key = k
                              THEN left[k] - 1 ELSE left[k]]
    /\ clickLeft' = IF click.button = None THEN clickLeft ELSE clickLeft - 1
    /\ UNCHANGED <<keys, modifiers, releases, shownKeys, explicit, buttons,
                   click, shownButtons, holds, forgotten, motionVars>>

\* INIT: act_init clears everything, act_kb_init publishes the empty keyboard;
\* no mouse record goes out.
Reset ==
    /\ keys' = [i \in Slot |-> None] /\ modifiers' = {} /\ releases' = {}
    /\ Publish
    /\ buttons' = {} /\ click' = NoClick
    /\ motion' = NoMotion
    /\ explicit' = {} /\ left' = [k \in Key |-> 0]
    /\ holds' = {} /\ clickLeft' = 0 /\ moved' = 0
    /\ forgotten' = shownButtons
    /\ UNCHANGED <<time, shownButtons>>

Init ==
    /\ clock \in 0 .. Wrap - 1 /\ lag = 0
    /\ keys = [i \in Slot |-> None] /\ modifiers = {} /\ releases = {}
    /\ shownKeys = {} /\ explicit = {} /\ left = [k \in Key |-> 0]
    /\ buttons = {} /\ click = NoClick /\ shownButtons = {}
    /\ holds = {} /\ clickLeft = 0 /\ forgotten = {}
    /\ motion = NoMotion /\ moved = 0

KeyCommand ==
    \E k \in Key : \/ KbDown(k) \/ KbUp(k)
                   \/ \E delay \in Delays : KbPress(k, delay)
ButtonCommand ==
    \E b \in Buttons :
        \/ \E down \in BOOLEAN : ButtonSet(b, down)
        \/ \E count \in Counts, delay \in Delays : Click(b, count, delay)
MotionCommand == Move \/ Wheel \/ \E p \in Programs : StartProgram(p)

Next ==
    \/ KeyCommand \/ ButtonCommand \/ MotionCommand
    \/ Reset \/ ActTick \/ Millisecond

Spec == Init /\ [][Next]_vars

-----------------------------------------------------------------------------
Time == 0 .. Wrap - 1

TypeOK ==
    /\ clock \in Time /\ lag \in 0 .. MaxLag
    /\ keys \in [Slot -> Keys \cup {None}]
    /\ modifiers \subseteq Modifiers
    /\ releases \subseteq [key : Key, at : Time]
    /\ shownKeys \subseteq Key /\ explicit \subseteq Key
    /\ left \in [Key -> Int]
    /\ buttons \subseteq Buttons /\ shownButtons \subseteq Buttons
    /\ holds \subseteq Buttons /\ forgotten \subseteq Buttons
    /\ click \in [button : Buttons \cup {None}, remaining : Nat,
                  delay : 0 .. Half - 1, at : Time, pressed : BOOLEAN]
    /\ clickLeft \in Int /\ moved \in Int
    /\ motion \in [kind : {None, "linear", "bezier"}, e : Int, c1 : Int,
                   c2 : Int, dur : 1 .. Half - 1, start : Time, emit : Int]

NoStuckKey ==
    \A k \in shownKeys : k \in explicit \/ \E r \in releases : r.key = k

NoStuckButton ==
    shownButtons \subseteq
        holds \cup forgotten \cup (IF click.pressed THEN {click.button} ELSE {})

\* A key the other side was last told is down is held by a plain down, or has its
\* release in the table: the comment at kb_insert fears a duplicate that key-up leaves
\* held, the one at g_kb_release a key resurrected.  A button it was told is down is
\* held by a plain down or by the click in flight; INIT alone leaves the buttons it
\* forgets as they were.
NothingStuck == NoStuckKey /\ NoStuckButton

\* act_tick acts on exactly the deadlines that have truly passed, across the
\* wrap of the millisecond counter: no release or click edge early, none left.
OnDeadline ==
    ActTick => /\ \A r \in releases : left[r.key] <= 0 <=> r \notin releases'
               /\ click.button # None => (clickLeft <= 0 <=> click' # click)

\* A program ends with exactly its displacement injected, never short of it, and
\* ends with the first tick past its time that finds the rest to fit one record.
LandsOnEndpoint ==
    [][ActTick /\ motion.kind # None =>
          /\ motion'.kind = None => moved' = motion.e
          /\ (LastTick /\ motion.e - moved \in -StepMax - 1 .. StepMax)
                => motion'.kind = None]_vars
=============================================================================
