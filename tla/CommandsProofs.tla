--------------------------- MODULE CommandsProofs ---------------------------
(***************************************************************************)
(* Proofs about the command path, whose parts MCCommands explores each     *)
(* beside the others: what actions.c holds down and where its motion       *)
(* programs end (Actions), for any keys, slots, buttons, delays and        *)
(* distances; what the two parsers defer, answer and tell the host (Hurra, *)
(* by HurraProofs, and Ferrum), for any clock, ring and commands; and      *)
(* which messages they find in the bytes (Framing), for any lengths,       *)
(* timeouts and line buffer, and what numbers Ferrum reads (ParseInt), for *)
(* any word.  Last, the types of all of it.                                *)
(***************************************************************************)
EXTENDS MCCommands, FiniteSetTheorems, SequenceTheorems, NaturalsInduction,
        WellFoundedInduction, TLAPS

Host == INSTANCE HurraProofs WITH lag <- hostLag

-----------------------------------------------------------------------------
(***************************************************************************)
(* Keys and buttons.  A key is shown down exactly when it has a slot or a  *)
(* bit, and no key has two slots; so a release, which empties one slot,    *)
(* lifts the key.  The table of releases has an entry at most for each key *)
(* shown down, and so is never full when a timed press comes (Room).       *)
(***************************************************************************)

Held(ks) == {ks[i] : i \in Slot} \ {None}
SlotsOf == [Slot -> Keys \cup {None}]
OneSlotEach(ks) == \A i, j \in Slot : ks[i] = ks[j] /\ ks[i] # None => i = j

KeysInv ==
    /\ keys \in SlotsOf /\ OneSlotEach(keys)
    /\ modifiers \subseteq Modifiers
    /\ shownKeys = DownKeys(keys, modifiers)
    /\ \A r \in releases : r.key \in shownKeys
    /\ \A r, q \in releases : r.key = q.key => r = q
    /\ NoStuckKey

Sequence == [button : Buttons \cup {None}, remaining : Nat, delay : 0 .. Half - 1,
             at : Time, pressed : BOOLEAN]

ButtonsInv ==
    /\ click \in Sequence
    /\ click.pressed => click.button # None
    /\ buttons \subseteq holds \cup (IF click.pressed THEN {click.button} ELSE {})
    /\ NoStuckButton

\* What is due at `at` is l milliseconds away: at most half the counter's range ahead, at
\* most one tick behind.
Due(at, l) == l \in Int /\ - lag <= l /\ l < Half /\ at = (clock + l) % Wrap

TimesInv ==
    /\ clock \in Time /\ lag \in 0 .. MaxLag
    /\ left \in [Key -> Int] /\ clickLeft \in Int
    /\ releases \subseteq [key : Key, at : Time]
    /\ \A r \in releases : Due(r.at, left[r.key])
    /\ click.button # None => Due(click.at, clickLeft)

-----------------------------------------------------------------------------
\* The least of some naturals, which CHOOSE picks
LEMMA MinIn ==
    ASSUME NEW T, T \subseteq Nat, T # {}
    PROVE  Min(T) \in T
<1>1. \A x, y \in Nat : y < x => <<y, x>> \in OpToRel(<, Nat)
  BY DEF OpToRel
<1>2. PICK R : IsWellFoundedOn(R, Nat) /\ \A x, y \in Nat : y < x => <<y, x>> \in R
  BY <1>1, NatLessThanWellFounded, Zenon
<1>3. PICK x \in T : \A y \in T : <<y, x>> \notin R
  BY <1>2, WFMin
<1>4. ASSUME NEW y \in T PROVE x <= y
  <2>1. x \in Nat /\ y \in Nat /\ ~(y < x)
    BY <1>2, <1>3
  <2> QED BY <2>1
<1> QED BY <1>3, <1>4 DEF Min

\* kb_insert gives a key at most one slot and takes no other key's.
LEMMA InsertKeeps ==
    ASSUME keys \in SlotsOf, OneSlotEach(keys), NEW k \in Keys
    PROVE  /\ Insert(k) \in SlotsOf /\ OneSlotEach(Insert(k))
           /\ Held(keys) \subseteq Held(Insert(k))
           /\ Held(Insert(k)) \subseteq Held(keys) \cup {k}
<1> DEFINE free == {i \in Slot : keys[i] = None}
<1>1. k # None
  BY ActionsAssumption DEF Key
<1>2. CASE Insert(k) = keys
  BY <1>2
<1>3. CASE Insert(k) # keys
  <2>1. free # {} /\ (\A i \in Slot : keys[i] # k)
    BY <1>3 DEF Insert
  <2>2. Insert(k) = [keys EXCEPT ![Min(free)] = k]
    BY <2>1 DEF Insert
  <2>3. Min(free) \in free
    BY <2>1, MinIn, ActionsAssumption DEF Slot
  <2>4. PICK f \in Slot : keys[f] = None /\ Insert(k) = [keys EXCEPT ![f] = k]
    BY <2>2, <2>3
  <2> HIDE DEF free
  <2>5. /\ Insert(k) \in SlotsOf
        /\ \A i \in Slot : Insert(k)[i] = IF i = f THEN k ELSE keys[i]
    BY <2>4 DEF SlotsOf
  <2>6. OneSlotEach(Insert(k))
    BY <2>1, <2>5 DEF OneSlotEach
  <2>7. Held(keys) \subseteq Held(Insert(k))
    BY <2>4, <2>5 DEF Held
  <2>8. Held(Insert(k)) \subseteq Held(keys) \cup {k}
    BY <2>5 DEF Held
  <2> QED BY <2>5, <2>6, <2>7, <2>8
<1> QED BY <1>2, <1>3

\* act_kb_up takes away the one slot of each key.
LEMMA WithoutKeeps ==
    ASSUME keys \in SlotsOf, OneSlotEach(keys), NEW S, None \notin S
    PROVE  /\ WithoutKeys(S) \in SlotsOf /\ OneSlotEach(WithoutKeys(S))
           /\ Held(WithoutKeys(S)) = Held(keys) \ S
<1>1. \A i \in Slot : keys[i] # None => \A j \in 1 .. i - 1 : keys[j] # keys[i]
  <2> SUFFICES ASSUME NEW i \in Slot, keys[i] # None, NEW j \in 1 .. i - 1,
                      keys[j] = keys[i]
               PROVE  FALSE
    OBVIOUS
  <2>1. j \in Slot /\ j # i
    BY ActionsAssumption DEF Slot
  <2> QED BY <2>1 DEF OneSlotEach
<1>2. \A i \in Slot : WithoutKeys(S)[i] = IF keys[i] \in S THEN None ELSE keys[i]
  BY <1>1 DEF WithoutKeys
<1>3. WithoutKeys(S) \in SlotsOf
  BY <1>2 DEF WithoutKeys, SlotsOf
<1>4. OneSlotEach(WithoutKeys(S))
  BY <1>2 DEF OneSlotEach
<1>5. Held(WithoutKeys(S)) = Held(keys) \ S
  BY <1>2 DEF Held
<1> QED BY <1>3, <1>4, <1>5

\* A press shows the key down, when it fits, and lifts none.
LEMMA PressShows ==
    ASSUME KeysInv, NEW k \in Key, Fits(k), Press(k)
    PROVE  /\ keys' \in SlotsOf /\ OneSlotEach(keys') /\ modifiers' \subseteq Modifiers
           /\ DownKeys(keys', modifiers') = DownKeys(keys, modifiers) \cup {k}
<1>1. keys \in SlotsOf /\ OneSlotEach(keys) /\ modifiers \subseteq Modifiers
  BY DEF KeysInv
<1>2. /\ keys' = (IF k \in Keys THEN Insert(k) ELSE keys)
      /\ modifiers' = modifiers \cup ({k} \cap Modifiers)
  BY DEF Press
<1>3. /\ keys' \in SlotsOf /\ OneSlotEach(keys')
      /\ Held(keys) \subseteq Held(keys') /\ Held(keys') \subseteq Held(keys) \cup {k}
  BY <1>1, <1>2, InsertKeeps
<1>4. k \in Held(keys') \cup modifiers'
  <2>1. k # None
    BY ActionsAssumption
  <2>2. CASE k \in Modifiers
    BY <1>2, <2>2
  <2>3. CASE k \notin Modifiers
    <3>1. k \in Keys /\ \E i \in Slot : Insert(k)[i] = k
      BY <2>3 DEF Fits, Key
    <3> QED BY <1>2, <2>1, <3>1 DEF Held
  <2> QED BY <2>2, <2>3
<1> QED BY <1>1, <1>2, <1>3, <1>4 DEF DownKeys, Held

\* A timed press finds room in the table: every other entry is another key's that is down.
LEMMA Room ==
    ASSUME KeysInv, NEW k \in Key, Fits(k), Press(k)
    PROVE  Cardinality(Cancelled(k)) < ReleaseSlots
<1> DEFINE Down == DownKeys(keys', modifiers')
           Others == Down \ {k}
           f == [r \in Cancelled(k) |-> r.key]
           at == [i \in Slot |-> keys'[i]]
           Image == {at[i] : i \in Slot}
<1>1. /\ keys' \in SlotsOf /\ modifiers' \subseteq Modifiers
      /\ Down = DownKeys(keys, modifiers) \cup {k}
  BY PressShows
<1>2. KeySlots \in Nat /\ IsFiniteSet(Modifiers)
      /\ KeySlots + Cardinality(Modifiers) <= ReleaseSlots /\ ReleaseSlots \in Nat
  BY ActionsAssumption, RoomAssumption
<1>3. IsFiniteSet(Slot) /\ Cardinality(Slot) = KeySlots
  BY <1>2, FS_Interval DEF Slot
<1>4. IsFiniteSet(Image) /\ Cardinality(Image) <= KeySlots
  <2>1. at \in Surjection(Slot, Image)
    BY DEF Surjection
  <2> QED BY <1>3, <2>1, FS_Surjection
<1>5. IsFiniteSet(modifiers') /\ Cardinality(modifiers') <= Cardinality(Modifiers)
  BY <1>1, <1>2, FS_Subset
<1>6. /\ IsFiniteSet(Image \cup modifiers')
      /\ Cardinality(Image \cup modifiers') <= ReleaseSlots
  <2>1. /\ IsFiniteSet(Image \cup modifiers')
        /\ Cardinality(Image \cup modifiers') =
              Cardinality(Image) + Cardinality(modifiers')
                - Cardinality(Image \cap modifiers')
    BY <1>4, <1>5, FS_Union
  <2>2. IsFiniteSet(Image \cap modifiers')
    BY <1>4, FS_Intersection
  <2>3. /\ Cardinality(Image) \in Nat /\ Cardinality(modifiers') \in Nat
        /\ Cardinality(Image \cap modifiers') \in Nat /\ Cardinality(Modifiers) \in Nat
    BY <1>2, <1>4, <1>5, <2>2, FS_CardinalityType
  <2> QED BY <1>2, <1>4, <1>5, <2>1, <2>3
<1>7. Down \subseteq Image \cup modifiers'
  BY DEF DownKeys
<1>8. IsFiniteSet(Down) /\ Cardinality(Down) <= ReleaseSlots
  <2>1. IsFiniteSet(Down) /\ Cardinality(Down) <= Cardinality(Image \cup modifiers')
    BY <1>6, <1>7, FS_Subset
  <2>2. Cardinality(Down) \in Nat /\ Cardinality(Image \cup modifiers') \in Nat
    BY <1>6, <2>1, FS_CardinalityType
  <2> QED BY <1>2, <1>6, <2>1, <2>2
<1>9. IsFiniteSet(Others) /\ Cardinality(Others) = Cardinality(Down) - 1
  BY <1>1, <1>8, FS_RemoveElement
<1>10. f \in Injection(Cancelled(k), Others)
  <2>1. \A r \in Cancelled(k) : r.key \in Others
    BY <1>1 DEF Cancelled, KeysInv
  <2>2. \A r, q \in Cancelled(k) : r.key = q.key => r = q
    BY DEF Cancelled, KeysInv
  <2> QED BY <2>1, <2>2 DEF Injection, IsInjective
<1>11. IsFiniteSet(Cancelled(k)) /\ Cardinality(Cancelled(k)) <= Cardinality(Others)
  BY <1>9, <1>10, FS_Injection
<1>12. Cardinality(Cancelled(k)) \in Nat /\ Cardinality(Down) \in Nat
  BY <1>8, <1>11, FS_CardinalityType
<1> QED BY <1>2, <1>8, <1>9, <1>11, <1>12

-----------------------------------------------------------------------------
LEMMA InitKeys == Init => KeysInv /\ ButtonsInv
<1> SUFFICES ASSUME Init PROVE KeysInv /\ ButtonsInv
  OBVIOUS
<1>1. KeysInv
  BY ActionsAssumption
  DEF Init, KeysInv, SlotsOf, OneSlotEach, DownKeys, NoStuckKey
<1>2. ButtonsInv
  <2>1. 0 \in 0 .. Half - 1 /\ 0 \in Time
    BY ActionsAssumption DEF Time, Wrap
  <2>2. NoClick \in Sequence /\ ~NoClick.pressed
    BY <2>1 DEF NoClick, Sequence
  <2> QED BY <2>2 DEF Init, ButtonsInv, NoStuckButton
<1> QED BY <1>1, <1>2

LEMMA KbDownKeeps == ASSUME KeysInv, NEW k \in Key, KbDown(k) PROVE KeysInv'
<1>1. releases' = Cancelled(k)
  BY DEF KbDown
<1>2. CASE Fits(k)
  <2>1. Press(k) /\ Publish /\ explicit' = explicit \cup {k}
    BY <1>2 DEF KbDown
  <2>2. /\ keys' \in SlotsOf /\ OneSlotEach(keys') /\ modifiers' \subseteq Modifiers
        /\ shownKeys' = shownKeys \cup {k} /\ shownKeys' = DownKeys(keys', modifiers')
    BY <1>2, <2>1, PressShows DEF Publish, KeysInv
  <2> QED BY <1>1, <2>1, <2>2 DEF KeysInv, NoStuckKey, Cancelled
<1>3. CASE ~Fits(k)
  <2>1. UNCHANGED <<keys, modifiers, shownKeys, explicit>>
    BY <1>3 DEF KbDown
  <2>2. k \notin shownKeys
    <3>1. k \notin Modifiers /\ k \in Keys /\ \A i \in Slot : Insert(k)[i] # k
      BY <1>3 DEF Fits, Key
    <3>2. k \notin Held(Insert(k)) /\ Held(keys) \subseteq Held(Insert(k))
      BY <3>1, InsertKeeps DEF Held, KeysInv
    <3> QED BY <3>1, <3>2 DEF KeysInv, DownKeys, Held
  <2> QED BY <1>1, <2>1, <2>2 DEF KeysInv, NoStuckKey, Cancelled
<1> QED BY <1>2, <1>3

\* Keys go up and their releases with them.
LEMMA UpKeeps ==
    ASSUME KeysInv, NEW S, None \notin S, keys' = WithoutKeys(S),
           modifiers' = modifiers \ S, shownKeys' = DownKeys(keys', modifiers'),
           explicit' = explicit \/ (explicit' = explicit \ S),
           releases' \subseteq releases,
           \A r \in releases : r \in releases' <=> r.key \notin S
    PROVE  KeysInv'
<1>1. /\ keys' \in SlotsOf /\ OneSlotEach(keys')
      /\ Held(keys') = Held(keys) \ S
  BY WithoutKeeps DEF KeysInv
<1>2. shownKeys' = shownKeys \ S
  BY <1>1 DEF DownKeys, Held, KeysInv
<1> QED BY <1>1, <1>2 DEF KeysInv, NoStuckKey

LEMMA KbUpKeeps == ASSUME KeysInv, NEW k \in Key, KbUp(k) PROVE KeysInv'
<1>1. /\ keys' = WithoutKeys({k}) /\ modifiers' = modifiers \ {k}
      /\ shownKeys' = DownKeys(keys', modifiers')
      /\ releases' = Cancelled(k) /\ explicit' = explicit \ {k} /\ None \notin {k}
  BY ActionsAssumption DEF KbUp, Publish
<1>2. releases' \subseteq releases /\ \A r \in releases : r \in releases' <=> r.key \notin {k}
  BY <1>1 DEF Cancelled
<1> QED BY <1>1, <1>2, UpKeeps

LEMMA KbPressKeeps ==
    ASSUME KeysInv, NEW k \in Key, NEW delay \in Delays, KbPress(k, delay)
    PROVE  KeysInv'
<1> DEFINE new == [key |-> k, at |-> (clock + delay) % Wrap]
<1>1. Fits(k) /\ Press(k) /\ Publish /\ explicit' = explicit \ {k}
  BY DEF KbPress
<1>2. /\ keys' \in SlotsOf /\ OneSlotEach(keys') /\ modifiers' \subseteq Modifiers
      /\ shownKeys' = shownKeys \cup {k} /\ shownKeys' = DownKeys(keys', modifiers')
  BY <1>1, PressShows DEF Publish, KeysInv
<1>3. releases' = Cancelled(k) \cup {new}
  BY <1>1, Room DEF KbPress
<1>4. new.key = k
  OBVIOUS
<1> HIDE DEF new
<1>5. /\ \A r \in releases' : r.key \in shownKeys'
      /\ \A r, q \in releases' : r.key = q.key => r = q
  BY <1>2, <1>3, <1>4 DEF KeysInv, Cancelled
<1>6. NoStuckKey'
  <2> SUFFICES ASSUME NEW x \in shownKeys', x \notin explicit'
               PROVE  \E r \in releases' : r.key = x
    BY DEF NoStuckKey
  <2>1. CASE x = k
    BY <1>3, <1>4, <2>1
  <2>2. CASE x # k
    <3>1. x \in shownKeys /\ x \notin explicit
      BY <1>1, <1>2, <2>2
    <3>2. PICK r \in releases : r.key = x
      BY <3>1 DEF KeysInv, NoStuckKey
    <3> QED BY <1>3, <2>2, <3>2 DEF Cancelled
  <2> QED BY <2>1, <2>2
<1> QED BY <1>2, <1>5, <1>6 DEF KeysInv

LEMMA KeysTickKeeps == ASSUME KeysInv, KeysTick PROVE KeysInv'
<1> DEFINE lifted == {r.key : r \in DueReleases}
<1>1. /\ keys' = WithoutKeys(lifted) /\ modifiers' = modifiers \ lifted
      /\ IF lifted = {} THEN UNCHANGED shownKeys ELSE Publish
      /\ releases' = releases \ DueReleases /\ explicit' = explicit
  BY DEF KeysTick
<1>2. DueReleases \subseteq releases
  BY DEF DueReleases
<1>3. \A r \in releases : r.key \in lifted <=> r \in DueReleases
  BY <1>2 DEF KeysInv
<1>4. None \notin lifted
  <2>1. None \notin shownKeys
    BY ActionsAssumption DEF KeysInv, DownKeys, Key
  <2> QED BY <1>2, <2>1 DEF KeysInv
<1>5. lifted = {} => WithoutKeys(lifted) = keys
  BY DEF WithoutKeys, KeysInv, SlotsOf
<1> HIDE DEF lifted
<1>6. shownKeys' = DownKeys(keys', modifiers')
  <2>1. CASE lifted = {}
    BY <1>1, <1>5, <2>1 DEF KeysInv
  <2>2. CASE lifted # {}
    BY <1>1, <2>2 DEF Publish
  <2> QED BY <2>1, <2>2
<1> QED BY <1>1, <1>3, <1>4, <1>6, UpKeeps

\* A deadline in the clock's range
LEMMA InRange == \A x \in Int : x % Wrap \in Time
BY ActionsAssumption DEF Wrap, Time

LEMMA ClickKeeps ==
    ASSUME ButtonsInv, clock \in Time, NEW b \in Buttons, NEW count \in Counts,
           NEW delay \in Delays, Click(b, count, delay)
    PROVE  ButtonsInv'
<1>1. /\ buttons' = (buttons \ Interrupted(b)) \cup {b} /\ shownButtons' = buttons'
      /\ click' = [button |-> b, remaining |-> count - 1, delay |-> delay,
                   at |-> (clock + delay) % Wrap, pressed |-> TRUE]
      /\ holds' = holds /\ forgotten' = {}
  BY DEF Click, ShowButtons
<1>2. count - 1 \in Nat /\ delay \in 0 .. Half - 1 /\ b # None
  BY ActionsAssumption
<1>3. (clock + delay) % Wrap \in Time
  <2>1. clock + delay \in Int
    BY <1>2, ActionsAssumption DEF Time, Wrap
  <2> QED BY <2>1, InRange
<1>4. click' \in Sequence /\ click'.button = b /\ click'.pressed
  BY <1>1, <1>2, <1>3 DEF Sequence
<1>5. buttons \subseteq holds \cup {b} \cup Interrupted(b)
  BY DEF Interrupted, ButtonsInv
<1> QED BY <1>1, <1>2, <1>4, <1>5 DEF ButtonsInv, NoStuckButton

LEMMA ClickTickKeeps ==
    ASSUME ButtonsInv, clock \in Time, ClickTick
    PROVE  ButtonsInv'
<1>1. CASE ~ClickDue
  <2>1. UNCHANGED <<buttons, click, holds>>
    BY <1>1 DEF ClickTick
  <2>2. UNCHANGED <<shownButtons, forgotten>> \/ (shownButtons' = buttons' /\ forgotten' = {})
    BY <1>1 DEF ClickTick, ShowButtons
  <2> QED BY <2>1, <2>2 DEF ButtonsInv, NoStuckButton
<1>2. CASE ClickDue
  <2>1. /\ buttons' = IF click.pressed THEN buttons \ {click.button}
                                       ELSE buttons \cup {click.button}
        /\ shownButtons' = buttons' /\ forgotten' = {}
        /\ holds' = holds \ {click.button} /\ click.button # None
    BY <1>2 DEF ClickTick, ShowButtons, ClickDue
  <2>2. CASE LastPress
    <3>1. click' = NoClick /\ click.pressed
      BY <1>2, <2>2 DEF ClickTick, LastPress
    <3>2. 0 \in 0 .. Half - 1 /\ 0 \in Time
      BY ActionsAssumption DEF Time, Wrap
    <3>3. click' \in Sequence /\ ~click'.pressed
      BY <3>1, <3>2 DEF NoClick, Sequence
    <3> QED BY <2>1, <3>1, <3>3 DEF ButtonsInv, NoStuckButton
  <2>3. CASE ~LastPress
    <3> DEFINE more == IF click.pressed THEN click.remaining - 1 ELSE click.remaining
               then == (clock + click.delay) % Wrap
    <3>1. click' = [click EXCEPT !.pressed = ~click.pressed, !.remaining = more,
                                 !.at = then]
      BY <1>2, <2>3 DEF ClickTick
    <3>2. more \in Nat
      BY <2>3 DEF LastPress, ButtonsInv, Sequence
    <3>3. then \in Time
      <4>1. clock + click.delay \in Int
        BY ActionsAssumption DEF ButtonsInv, Sequence, Time, Wrap
      <4> QED BY <4>1, InRange
    <3> HIDE DEF more, then
    <3>4. click' = [button |-> click.button, remaining |-> more, delay |-> click.delay,
                    at |-> then, pressed |-> ~click.pressed]
      BY <3>1 DEF ButtonsInv, Sequence
    <3>5. click' \in Sequence /\ click'.button = click.button
      BY <3>2, <3>3, <3>4 DEF ButtonsInv, Sequence
    <3>6. click'.pressed <=> ~click.pressed
      BY <3>4
    <3> QED BY <2>1, <3>5, <3>6 DEF ButtonsInv, NoStuckButton
  <2> QED BY <2>2, <2>3
<1> QED BY <1>1, <1>2

-----------------------------------------------------------------------------
\* What is deferred

LEMMA Ranges == Wrap = 2 * Half /\ Half \in Nat \ {0} /\ MaxLag \in 1 .. Half - 1
BY ActionsAssumption DEF Wrap

LEMMA DueIsReached ==
    ASSUME clock \in Time, lag \in 0 .. MaxLag, NEW at, NEW l, Due(at, l)
    PROVE  Reached(clock, at) <=> l <= 0
<1>1. clock \in 0 .. 2 * Half - 1 /\ l \in Int /\ - Half < l /\ l < Half
  BY Ranges DEF Time, Due
<1>2. at = (clock + l) % (2 * Half)
  BY Ranges DEF Due
<1> QED BY <1>1, <1>2, Ranges, Host!ReachedWhenDue DEF Reached, Wrap

LEMMA NewIsDue ==
    ASSUME clock \in Time, lag \in 0 .. MaxLag, NEW d \in Delays
    PROVE  /\ Due((clock + d) % Wrap, d) /\ (clock + d) % Wrap \in Time
           /\ d \in 0 .. Half - 1
<1>1. d \in 0 .. Half - 1 /\ clock + d \in Int /\ - lag <= d
  BY ActionsAssumption, Ranges DEF Time
<1> QED BY <1>1, InRange, Ranges DEF Due

LEMMA InitTimes == Init => TimesInv
BY Ranges DEF Init, TimesInv, NoClick, Time

\* A command cancels the release of its key, or replaces it.
LEMMA KeyTimes ==
    ASSUME TimesInv, KeysInv, NEW k \in Key,
           \/ KbDown(k) \/ KbUp(k) \/ \E delay \in Delays : KbPress(k, delay)
    PROVE  TimesInv'
<1>1. UNCHANGED <<clock, lag, click, clickLeft>>
  BY DEF KbDown, KbUp, KbPress, time, buttonVars
<1>2. \A r \in Cancelled(k) : r \in releases /\ r.key # k
  BY DEF Cancelled
<1>3. CASE KbDown(k) \/ KbUp(k)
  <2>1. releases' = Cancelled(k) /\ left' = [left EXCEPT ![k] = 0]
    BY <1>3 DEF KbDown, KbUp
  <2>2. left' \in [Key -> Int] /\ \A x \in Key : x # k => left'[x] = left[x]
    BY <2>1 DEF TimesInv
  <2>3. \A r \in releases' : r \in releases /\ left'[r.key] = left[r.key]
    BY <1>2, <2>1, <2>2 DEF TimesInv
  <2>4. \A r \in releases' : Due(r.at, left[r.key])'
    BY <1>1, <2>3 DEF TimesInv, Due
  <2> QED BY <1>1, <2>2, <2>3, <2>4 DEF TimesInv, Due
<1>4. ASSUME NEW delay \in Delays, KbPress(k, delay) PROVE TimesInv'
  <2> DEFINE new == [key |-> k, at |-> (clock + delay) % Wrap]
  <2>1. Fits(k) /\ Press(k)
    BY <1>4 DEF KbPress
  <2>2. releases' = Cancelled(k) \cup {new} /\ left' = [left EXCEPT ![k] = delay]
    BY <1>4, <2>1, Room DEF KbPress
  <2>3. /\ Due((clock + delay) % Wrap, delay) /\ (clock + delay) % Wrap \in Time
        /\ delay \in Int
    BY NewIsDue, Ranges DEF TimesInv
  <2>4. /\ left' \in [Key -> Int] /\ left'[k] = delay
        /\ \A x \in Key : x # k => left'[x] = left[x]
    BY <2>2, <2>3 DEF TimesInv
  <2>5. new \in [key : Key, at : Time] /\ new.key = k /\ Due(new.at, left'[k])
    BY <2>3, <2>4
  <2> HIDE DEF new
  <2>6. \A r \in Cancelled(k) : r \in releases /\ left'[r.key] = left[r.key]
    BY <1>2, <2>4 DEF TimesInv
  <2>7. \A r \in releases' : Due(r.at, left'[r.key])
    BY <2>2, <2>5, <2>6 DEF TimesInv
  <2>8. \A r \in releases' : Due(r.at, left[r.key])'
    BY <1>1, <2>7 DEF Due
  <2> QED BY <1>1, <2>2, <2>4, <2>5, <2>6, <2>8 DEF TimesInv, Due
<1> QED BY <1>3, <1>4

LEMMA ButtonTimes ==
    ASSUME TimesInv, NEW b \in Buttons,
           \/ \E down \in BOOLEAN : ButtonSet(b, down)
           \/ \E count \in Counts, delay \in Delays : Click(b, count, delay)
    PROVE  TimesInv'
<1>1. UNCHANGED <<clock, lag, releases, left>>
  BY DEF ButtonSet, Click, time, keyVars
<1>2. CASE \E down \in BOOLEAN : ButtonSet(b, down)
  BY <1>1, <1>2 DEF ButtonSet, TimesInv, Due
<1>3. ASSUME NEW count \in Counts, NEW delay \in Delays, Click(b, count, delay)
      PROVE  TimesInv'
  <2>1. click'.at = (clock + delay) % Wrap /\ clickLeft' = delay
    BY <1>3 DEF Click
  <2>2. Due((clock + delay) % Wrap, delay) /\ delay \in Int
    BY NewIsDue DEF TimesInv
  <2>3. Due(click.at, clickLeft)'
    BY <1>1, <2>1, <2>2 DEF Due
  <2> QED BY <1>1, <2>1, <2>2, <2>3 DEF TimesInv, Due
<1> QED BY <1>2, <1>3

\* A tick leaves what is still to come.
LEMMA TickTimes ==
    ASSUME TimesInv, KeysInv, ButtonsInv, ActTick
    PROVE  TimesInv'
<1> DEFINE lifted == {r.key : r \in DueReleases}
<1>1. clock' = clock /\ lag' = 0
  BY DEF ActTick
<1>2. /\ releases' = releases \ DueReleases
      /\ left' = [k \in Key |-> IF k \in lifted THEN 0 ELSE left[k]]
  BY DEF ActTick, KeysTick
<1>3. /\ clock \in Time /\ lag \in 0 .. MaxLag
      /\ left \in [Key -> Int] /\ releases \subseteq [key : Key, at : Time]
  BY DEF TimesInv
<1>4. ASSUME NEW r \in releases'
      PROVE  /\ r \in releases /\ left'[r.key] = left[r.key] /\ Due(r.at, left[r.key])
             /\ ~Reached(clock, r.at) /\ r.key \in Key
  <2>1. r \in releases /\ ~Reached(clock, r.at) /\ r \notin DueReleases /\ r.key \in Key
    BY <1>2, <1>3 DEF DueReleases
  <2>2. r.key \notin lifted
    BY <2>1 DEF DueReleases, KeysInv
  <2> QED BY <1>2, <2>1, <2>2 DEF TimesInv
<1>5. \A r \in releases' : Due(r.at, left[r.key])'
  <2> SUFFICES ASSUME NEW r \in releases' PROVE Due(r.at, left[r.key])'
    OBVIOUS
  <2>1. ~(left[r.key] <= 0) /\ Due(r.at, left[r.key])
    BY <1>3, <1>4, DueIsReached
  <2> QED BY <1>1, <1>4, <2>1, Ranges DEF Due
<1>6. left' \in [Key -> Int]
  BY <1>2, <1>3
<1>7. clickLeft' \in Int /\ (click'.button # None => Due(click.at, clickLeft)')
  <2>1. CASE ~ClickDue
    <3>1. UNCHANGED <<click, clickLeft>>
      BY <2>1 DEF ActTick, ClickTick
    <3>2. click.button # None => Due(click.at, clickLeft) /\ ~(clickLeft <= 0)
      BY <1>3, <2>1, DueIsReached DEF TimesInv, ClickDue
    <3> QED BY <1>1, <3>1, <3>2, Ranges DEF Due, TimesInv
  <2>2. CASE ClickDue /\ LastPress
    BY <2>2 DEF ActTick, ClickTick, NoClick
  <2>3. CASE ClickDue /\ ~LastPress
    <3> DEFINE more == IF click.pressed THEN click.remaining - 1 ELSE click.remaining
               at1 == (clock + click.delay) % Wrap
    <3>1. /\ click' = [click EXCEPT !.pressed = ~click.pressed, !.remaining = more,
                                    !.at = at1]
          /\ clickLeft' = click.delay
      BY <2>3 DEF ActTick, ClickTick
    <3>2. click.delay \in 0 .. Half - 1
      BY DEF ButtonsInv, Sequence
    <3>3. click'.at = at1
      BY <3>1 DEF ButtonsInv, Sequence
    <3> QED BY <1>1, <3>1, <3>2, <3>3, Ranges DEF Due
  <2> QED BY <2>1, <2>2, <2>3
<1> QED BY <1>1, <1>3, <1>4, <1>5, <1>6, <1>7, Ranges DEF TimesInv, Due

LEMMA MillisecondTimes == ASSUME TimesInv, Millisecond PROVE TimesInv'
<1>1. /\ clock' = (clock + 1) % Wrap /\ lag' = lag + 1 /\ lag < MaxLag
      /\ left' = [k \in Key |-> IF \E r \in releases : r.key = k
                                THEN left[k] - 1 ELSE left[k]]
      /\ clickLeft' = (IF click.button = None THEN clickLeft ELSE clickLeft - 1)
      /\ UNCHANGED <<releases, click>>
  BY DEF Millisecond
<1>2. /\ clock \in Time /\ lag \in 0 .. MaxLag
      /\ left \in [Key -> Int] /\ releases \subseteq [key : Key, at : Time]
  BY DEF TimesInv
<1>3. ASSUME NEW at, NEW l, Due(at, l)
      PROVE  /\ l - 1 \in Int /\ - (lag + 1) <= l - 1 /\ l - 1 < Half
             /\ at = (((clock + 1) % Wrap) + (l - 1)) % Wrap
  <2>1. clock \in 0 .. 2 * Half - 1 /\ l \in Int /\ - Half < l /\ l < Half
    BY <1>2, <1>3, Ranges DEF Time, Due
  <2>2. (((clock + 1) % (2 * Half)) + (l - 1)) % (2 * Half) = (clock + l) % (2 * Half)
    BY <2>1, Ranges, Host!ComesCloser
  <2> QED BY <1>2, <1>3, <2>1, <2>2, Ranges DEF Due
<1>4. ASSUME NEW at, NEW l, Due(at, l), NEW m, m = l - 1 PROVE Due(at, m)'
  BY <1>1, <1>3, <1>4 DEF Due
<1>5. clock' \in Time
  <2>1. clock + 1 \in Int
    BY <1>2, Ranges DEF Time
  <2> QED BY <1>1, <2>1, InRange
<1>6. \A r \in releases : r.key \in Key /\ left'[r.key] = left[r.key] - 1
  BY <1>1, <1>2
<1>7. left' \in [Key -> Int]
  BY <1>1, <1>2
<1> QED BY <1>1, <1>2, <1>4, <1>5, <1>6, <1>7, Ranges DEF TimesInv

-----------------------------------------------------------------------------
\* Keys, buttons and deadlines together

HoldsInv == KeysInv /\ ButtonsInv /\ TimesInv

LEMMA ActTickKeeps == ASSUME HoldsInv, ActTick PROVE HoldsInv'
<1>1. KeysInv' /\ ButtonsInv'
  BY KeysTickKeeps, ClickTickKeeps DEF HoldsInv, ActTick, TimesInv
<1> QED BY <1>1, TickTimes DEF HoldsInv

LEMMA ResetKeeps == ASSUME HoldsInv, Reset PROVE HoldsInv'
<1>1. /\ keys' = [i \in Slot |-> None] /\ modifiers' = {} /\ releases' = {}
      /\ shownKeys' = DownKeys(keys', modifiers') /\ explicit' = {}
      /\ buttons' = {} /\ click' = NoClick /\ holds' = {} /\ forgotten' = shownButtons
      /\ left' = [k \in Key |-> 0] /\ clickLeft' = 0
      /\ UNCHANGED <<clock, lag, shownButtons>>
  BY DEF Reset, Publish, time
<1>2. shownKeys' = {}
  BY <1>1 DEF DownKeys
<1>3. KeysInv'
  BY <1>1, <1>2 DEF KeysInv, SlotsOf, OneSlotEach, NoStuckKey
<1>4. NoClick \in Sequence /\ ~NoClick.pressed
  <2>1. 0 \in 0 .. Half - 1 /\ 0 \in Time
    BY ActionsAssumption DEF Time, Wrap
  <2> QED BY <2>1 DEF NoClick, Sequence
<1>5. ButtonsInv'
  BY <1>1, <1>4 DEF ButtonsInv, NoStuckButton
<1>6. TimesInv'
  BY <1>1 DEF HoldsInv, TimesInv, NoClick
<1> QED BY <1>3, <1>5, <1>6 DEF HoldsInv

LEMMA StepKeepsHolds == HoldsInv /\ [Next]_vars => HoldsInv'
<1> SUFFICES ASSUME HoldsInv, [Next]_vars PROVE HoldsInv'
  OBVIOUS
<1>1. KeysInv /\ ButtonsInv /\ TimesInv /\ clock \in Time
  BY DEF HoldsInv, TimesInv
<1>2. ASSUME UNCHANGED <<keys, modifiers, releases, shownKeys, explicit>> PROVE KeysInv'
  BY <1>1, <1>2 DEF KeysInv, NoStuckKey
<1>3. ASSUME UNCHANGED <<buttons, click, holds>>,
             \/ UNCHANGED <<shownButtons, forgotten>>
             \/ shownButtons' = buttons' /\ forgotten' = {}
      PROVE  ButtonsInv'
  BY <1>1, <1>3 DEF ButtonsInv, NoStuckButton
<1>4. ASSUME UNCHANGED <<clock, lag, releases, left, click, clickLeft>> PROVE TimesInv'
  BY <1>1, <1>4 DEF TimesInv, Due
<1>5. ASSUME NEW k \in Key,
             \/ KbDown(k) \/ KbUp(k) \/ \E delay \in Delays : KbPress(k, delay)
      PROVE  HoldsInv'
  <2>1. KeysInv'
    BY <1>1, <1>5, KbDownKeeps, KbUpKeeps, KbPressKeeps
  <2>2. UNCHANGED buttonVars
    BY <1>5 DEF KbDown, KbUp, KbPress
  <2>3. ButtonsInv'
    BY <1>3, <2>2 DEF buttonVars
  <2>4. TimesInv'
    BY <1>1, <1>5, KeyTimes
  <2> QED BY <2>1, <2>3, <2>4 DEF HoldsInv
<1>6. ASSUME NEW b \in Buttons,
             \/ \E down \in BOOLEAN : ButtonSet(b, down)
             \/ \E count \in Counts, delay \in Delays : Click(b, count, delay)
      PROVE  HoldsInv'
  <2>1. UNCHANGED keyVars
    BY <1>6 DEF ButtonSet, Click
  <2>2. KeysInv'
    BY <1>2, <2>1 DEF keyVars
  <2>3. ASSUME NEW down \in BOOLEAN, ButtonSet(b, down) PROVE ButtonsInv'
    BY <1>1, <2>3 DEF ButtonSet, ShowButtons, ButtonsInv, NoStuckButton
  <2>4. ButtonsInv'
    BY <1>1, <1>6, <2>3, ClickKeeps
  <2>5. TimesInv'
    BY <1>1, <1>6, ButtonTimes
  <2> QED BY <2>2, <2>4, <2>5 DEF HoldsInv
<1>7. CASE MotionCommand \/ UNCHANGED vars
  <2>1. /\ UNCHANGED <<time, keyVars, buttons, click, holds, clickLeft>>
        /\ \/ UNCHANGED <<shownButtons, forgotten>>
           \/ shownButtons' = buttons' /\ forgotten' = {}
    BY <1>7 DEF MotionCommand, Move, Wheel, StartProgram, ShowButtons, vars, buttonVars
  <2> QED BY <1>2, <1>3, <1>4, <2>1 DEF HoldsInv, time, keyVars
<1>8. CASE Millisecond
  <2>1. UNCHANGED <<keys, modifiers, releases, shownKeys, explicit, buttons, click,
                    shownButtons, holds, forgotten>>
    BY <1>8 DEF Millisecond
  <2> QED BY <1>1, <1>2, <1>3, <1>8, <2>1, MillisecondTimes DEF HoldsInv
<1> QED BY <1>5, <1>6, <1>7, <1>8, ActTickKeeps, ResetKeeps
        DEF Next, KeyCommand, ButtonCommand

\* A step of MCCommands is one of Actions or leaves its variables alone.
LEMMA CommandStep == [MCNext]_<<vars, parsers, part>> => [Next]_vars
BY DEF MCNext, Commands, Next, MotionCommand

\* The inductive invariant of actions.c.
THEOREM HoldsInductive == MCSpec => []HoldsInv
<1>1. MCInit => HoldsInv
  BY InitKeys, InitTimes DEF MCInit, HoldsInv
<1> QED BY <1>1, StepKeepsHolds, CommandStep, PTL DEF MCSpec

\* What the other side was last told is down is held by a plain down, has its release in
\* the table or is the click's in flight; INIT alone leaves buttons it forgets
\* (actions.c, kb_insert, act_kb_press, act_click).
THEOREM NothingSticks == MCSpec => []NothingStuck
<1>1. HoldsInv => NothingStuck
  BY DEF HoldsInv, KeysInv, ButtonsInv, NothingStuck
<1> QED BY <1>1, HoldsInductive, PTL

\* act_tick acts on the deadlines that have passed and on no other, for any width of the
\* counter and across its wrap (actions.c, time_deadline_reached).
LEMMA ActsOnDeadline == ASSUME HoldsInv PROVE OnDeadline
<1> SUFFICES ASSUME ActTick
             PROVE  /\ \A r \in releases : left[r.key] <= 0 <=> r \notin releases'
                    /\ click.button # None => (clickLeft <= 0 <=> click' # click)
  BY DEF OnDeadline
<1>1. clock \in Time /\ lag \in 0 .. MaxLag
  BY DEF HoldsInv, TimesInv
<1>2. ASSUME NEW r \in releases PROVE left[r.key] <= 0 <=> r \notin releases'
  <2>1. Reached(clock, r.at) <=> left[r.key] <= 0
    BY <1>1, DueIsReached DEF HoldsInv, TimesInv
  <2>2. releases' = releases \ DueReleases
    BY DEF ActTick, KeysTick
  <2> QED BY <2>1, <2>2 DEF DueReleases
<1>3. ASSUME click.button # None PROVE clickLeft <= 0 <=> click' # click
  <2>1. ClickDue <=> clickLeft <= 0
    BY <1>1, <1>3, DueIsReached DEF ClickDue, HoldsInv, TimesInv
  <2>2. ClickTick /\ click \in Sequence
    BY DEF ActTick, HoldsInv, ButtonsInv
  <2>3. CASE ~ClickDue
    BY <2>1, <2>2, <2>3 DEF ClickTick
  <2>4. CASE ClickDue /\ LastPress
    <3>1. click' = NoClick /\ NoClick.button = None
      BY <2>2, <2>4 DEF ClickTick, NoClick
    <3> QED BY <1>3, <2>1, <2>4, <3>1
  <2>5. CASE ClickDue /\ ~LastPress
    <3> DEFINE more == IF click.pressed THEN click.remaining - 1 ELSE click.remaining
               at1 == (clock + click.delay) % Wrap
    <3>1. click' = [click EXCEPT !.pressed = ~click.pressed, !.remaining = more,
                                 !.at = at1]
      BY <2>2, <2>5 DEF ClickTick
    <3>2. click'.pressed <=> ~click.pressed
      BY <2>2, <3>1 DEF Sequence
    <3> QED BY <2>1, <2>5, <3>2
  <2> QED BY <2>3, <2>4, <2>5
<1> QED BY <1>2, <1>3

-----------------------------------------------------------------------------
(***************************************************************************)
(* Motion programs.  What a program counts as emitted is what it injected; *)
(* so it ends where it should, if its curve does, and that is so but for   *)
(* the rounding of a Bezier curve that ends to the left.                   *)
(***************************************************************************)

Program ==
    [kind : {None, "linear", "bezier"}, e : Int, c1 : Int, c2 : Int,
     dur : 1 .. Half - 1, start : Time, emit : Int]

MotionInv ==
    /\ motion \in Program /\ moved \in Int
    /\ motion.kind # None => moved = motion.emit

\* No Bezier program ends to the left.
NoneEndsLeft == motion.kind = "bezier" => motion.e >= 0

LEMMA Larger == ASSUME NEW a \in Int, NEW b \in Int
                PROVE  Max({a, b}) = IF a >= b THEN a ELSE b
<1> DEFINE big == IF a >= b THEN a ELSE b
<1>1. big \in {a, b} /\ \A y \in {a, b} : big >= y
  OBVIOUS
<1>2. \A x \in {a, b} : (\A y \in {a, b} : x >= y) => x = big
  OBVIOUS
<1> QED BY <1>1, <1>2 DEF Max

LEMMA Smaller == ASSUME NEW a \in Int, NEW b \in Int
                 PROVE  Min({a, b}) = IF a <= b THEN a ELSE b
<1> DEFINE small == IF a <= b THEN a ELSE b
<1>1. small \in {a, b} /\ \A y \in {a, b} : small <= y
  OBVIOUS
<1>2. \A x \in {a, b} : (\A y \in {a, b} : x <= y) => x = small
  OBVIOUS
<1> QED BY <1>1, <1>2 DEF Min

LEMMA ClampedIs ==
    ASSUME NEW step \in Int
    PROVE  /\ Clamped(step) \in Int
           /\ step \in -StepMax - 1 .. StepMax => Clamped(step) = step
<1>1. StepMax \in Nat /\ -StepMax - 1 \in Int /\ StepMax \in Int
  BY ActionsAssumption
<1>2. Min({StepMax, step}) = IF StepMax <= step THEN StepMax ELSE step
  BY <1>1, Smaller
<1> DEFINE low == Min({StepMax, step})
<1>3. low \in Int
  BY <1>1, <1>2
<1>4. Max({-StepMax - 1, low}) = IF -StepMax - 1 >= low THEN -StepMax - 1 ELSE low
  BY <1>1, <1>3, Larger
<1> QED BY <1>1, <1>2, <1>3, <1>4 DEF Clamped

\* Fixed-point products
LEMMA Quotient ==
    ASSUME NEW n \in Nat \ {0}, NEW a \in Int
    PROVE  /\ a \div n \in Int
           /\ (a * n) \div n = a /\ (n * a) \div n = a
           /\ \A h \in 0 .. n - 1 : (n * a + h) \div n = a
OBVIOUS

LEMMA EaseInt == ASSUME NEW t \in Int PROVE Ease(t) \in Int
<1> DEFINE t2 == (t * t) \div One
           s == 3 * t2 - 2 * ((t2 * t) \div One)
<1>1. One \in Nat \ {0} /\ t * t \in Int
  BY ActionsAssumption
<1>2. t2 \in Int
  BY <1>1, Quotient
<1> HIDE DEF t2
<1>3. t2 * t \in Int
  BY <1>2
<1>4. (t2 * t) \div One \in Int
  BY <1>1, <1>3, Quotient
<1>5. s \in Int
  BY <1>2, <1>4
<1> HIDE DEF s
<1>6. Ease(t) = Max({0, Min({s, One})})
  BY DEF Ease, s, t2
<1> DEFINE low == Min({s, One})
<1>7. low \in Int
  BY <1>1, <1>5, Smaller
<1> HIDE DEF low
<1>8. Max({0, low}) = IF 0 >= low THEN 0 ELSE low
  BY <1>7, Larger
<1>9. Ease(t) = Max({0, low})
  BY <1>6 DEF low
<1> QED BY <1>7, <1>8, <1>9

LEMMA CurveInt == ASSUME NEW m \in Program, NEW t \in Int PROVE Curve(m, t) \in Int
<1> USE DEF Program
<1>1. One \in Nat \ {0} /\ One \div 2 \in Int
  BY ActionsAssumption
<1>2. CASE m.kind # "bezier"
  <2>1. m.e * Ease(t) \in Int
    BY EaseInt
  <2> QED BY <1>1, <1>2, <2>1, Quotient DEF Curve
<1>3. CASE m.kind = "bezier"
  <2> DEFINE u == One - t
             t2 == (t * t) \div One
             u2 == (u * u) \div One
             b1 == (u2 * t) \div One
             b2 == (t2 * u) \div One
             b3 == (t2 * t) \div One
             acc == 3 * b1 * m.c1 + 3 * b2 * m.c2 + b3 * m.e
             half == IF acc >= 0 THEN One \div 2 ELSE -(One \div 2)
  <2>1. u \in Int /\ t * t \in Int /\ u * u \in Int
    BY <1>1
  <2>2. t2 \in Int /\ u2 \in Int
    BY <1>1, <2>1, Quotient
  <2> HIDE DEF u, t2, u2
  <2>3. u2 * t \in Int /\ t2 * u \in Int /\ t2 * t \in Int
    BY <2>1, <2>2
  <2>4. b1 \in Int /\ b2 \in Int /\ b3 \in Int
    BY <1>1, <2>3, Quotient
  <2> HIDE DEF b1, b2, b3
  <2>5. acc \in Int
    BY <2>4
  <2> HIDE DEF acc
  <2>6. acc + half \in Int
    BY <1>1, <2>5
  <2>7. Curve(m, t) = (acc + half) \div One
    BY <1>3 DEF Curve, Bezier, acc, b1, b2, b3, t2, u2, u
  <2> QED BY <1>1, <2>6, <2>7, Quotient
<1> QED BY <1>2, <1>3

\* Every curve ends at its endpoint, but for the rounding of one that ends to the left.
LEMMA CurveEnds ==
    ASSUME NEW m \in Program, m.kind # None, m.kind = "bezier" => m.e >= 0
    PROVE  Curve(m, One) = m.e
<1> USE DEF Program
<1>1. One \in Nat \ {0} /\ m.e \in Int
  BY ActionsAssumption
<1>2. (One * One) \div One = One
  BY <1>1, Quotient
<1>3. CASE m.kind # "bezier"
  <2>1. Min({One, One}) = One
    BY <1>1, Smaller
  <2>2. Max({0, One}) = One
    BY <1>1, Larger
  <2>3. 3 * One - 2 * One = One
    BY <1>1
  <2>4. Ease(One) = One
    BY <1>2, <2>1, <2>2, <2>3 DEF Ease
  <2> QED BY <1>1, <1>3, <2>4, Quotient DEF Curve
<1>4. CASE m.kind = "bezier"
  <2>1. One - One = 0 /\ (0 * 0) \div One = 0 /\ (0 * One) \div One = 0
        /\ (One * 0) \div One = 0
    BY <1>1, Quotient
  <2>2. Curve(m, One) =
          LET acc == 3 * 0 * m.c1 + 3 * 0 * m.c2 + One * m.e
          IN  (acc + (IF acc >= 0 THEN One \div 2 ELSE -(One \div 2))) \div One
    BY <1>2, <1>4, <2>1 DEF Curve, Bezier
  <2>3. 3 * 0 * m.c1 + 3 * 0 * m.c2 + One * m.e = One * m.e
    BY <1>1
  <2>4. One * m.e >= 0
    BY <1>1, <1>4
  <2>5. Curve(m, One) = (One * m.e + One \div 2) \div One
    BY <2>2, <2>3, <2>4
  <2>6. One \div 2 \in 0 .. One - 1
    BY <1>1
  <2>7. (One * m.e + One \div 2) \div One = m.e
    BY <1>1, <2>6, Quotient
  <2> QED BY <2>5, <2>7
<1> QED BY <1>3, <1>4

LEMMA StepInt ==
    ASSUME clock \in Time, motion \in Program
    PROVE  Parameter \in Int /\ Step \in Int
<1>1. One \in Nat \ {0} /\ Half \in Nat \ {0} /\ clock \in Int /\ motion.start \in Int
      /\ motion.dur \in Nat \ {0} /\ motion.emit \in Int
  BY ActionsAssumption DEF Time, Wrap, Program
<1>2. Elapsed \in Int
  BY <1>1 DEF Elapsed, Wrap
<1>3. Elapsed * One \in Int
  BY <1>1, <1>2
<1>4. (Elapsed * One) \div motion.dur \in Int
  BY <1>1, <1>3, Quotient
<1>5. Parameter \in Int
  BY <1>1, <1>4 DEF Parameter
<1>6. Curve(motion, Parameter) \in Int
  BY <1>5, CurveInt
<1> QED BY <1>1, <1>5, <1>6 DEF Step

\* A tick takes the step the curve asks for, as far as one record carries it.
LEMMA MotionTicks ==
    ASSUME clock \in Time, MotionInv, MotionTick
    PROVE  /\ MotionInv'
           /\ motion.kind # None =>
                 /\ moved' = moved + Clamped(Step)
                 /\ motion'.kind \in {None, motion.kind} /\ motion'.e = motion.e
                 /\ motion'.kind = None <=> LastTick /\ moved' = motion.e
<1>1. CASE motion.kind = None
  BY <1>1 DEF MotionTick, motionVars, MotionInv
<1>2. CASE motion.kind # None
  <2> DEFINE emit == motion.emit + Clamped(Step)
             kind == IF LastTick /\ emit = motion.e THEN None ELSE motion.kind
  <2>1. motion \in Program /\ moved = motion.emit /\ moved \in Int
    BY <1>2 DEF MotionInv
  <2>2. Clamped(Step) \in Int
    BY <2>1, StepInt, ClampedIs
  <2>3. emit \in Int
    BY <2>1, <2>2
  <2>4. motion' = [motion EXCEPT !.emit = emit, !.kind = kind]
    BY <1>2 DEF MotionTick, Counted
  <2>5. motion' = [kind |-> kind, e |-> motion.e, c1 |-> motion.c1, c2 |-> motion.c2,
                   dur |-> motion.dur, start |-> motion.start, emit |-> emit]
    BY <2>1, <2>4 DEF Program
  <2>6. kind \in {None, motion.kind}
    OBVIOUS
  <2>7. moved' = emit
    BY <1>2, <2>1 DEF MotionTick
  <2> HIDE DEF emit
  <2>8. motion' \in Program
    BY <2>1, <2>3, <2>5, <2>6 DEF Program
  <2>9. motion'.emit = emit /\ motion'.kind = kind /\ motion'.e = motion.e
    BY <2>5
  <2>10. moved' = moved + Clamped(Step)
    BY <2>1, <2>7 DEF emit
  <2>11. MotionInv'
    BY <2>3, <2>7, <2>8, <2>9 DEF MotionInv
  <2> QED BY <1>2, <2>6, <2>7, <2>9, <2>10, <2>11
<1> QED BY <1>1, <1>2

LEMMA StepKeepsMotion ==
    ASSUME HoldsInv, MotionInv, [Next]_vars
    PROVE  MotionInv'
<1>1. clock \in Time /\ Half \in Nat /\ Half >= 2
  BY ActionsAssumption DEF HoldsInv, TimesInv
<1>2. CASE KeyCommand \/ ButtonCommand \/ Wheel \/ Millisecond \/ UNCHANGED vars
  <2>1. UNCHANGED motionVars
    BY <1>2 DEF KeyCommand, ButtonCommand, KbDown, KbUp, KbPress, ButtonSet, Click,
                Wheel, Millisecond, vars
  <2> QED BY <2>1 DEF MotionInv, motionVars
<1>3. CASE Reset
  <2>1. motion' = NoMotion /\ moved' = 0
    BY <1>3 DEF Reset
  <2> QED BY <1>1, <2>1 DEF MotionInv, Program, NoMotion, Time, Wrap
<1>4. CASE ActTick
  BY <1>1, <1>4, MotionTicks DEF ActTick
<1>5. CASE Move
  <2>1. motion' = [motion EXCEPT !.kind = None] /\ moved' = moved
    BY <1>5 DEF Move
  <2>2. motion' \in Program /\ motion'.kind = None
    BY <2>1 DEF MotionInv, Program
  <2> QED BY <2>1, <2>2 DEF MotionInv
<1>6. ASSUME NEW p \in Programs, StartProgram(p) PROVE MotionInv'
  <2>1. motion' = [kind |-> p.kind, e |-> p.e, c1 |-> p.c1, c2 |-> p.c2,
                   dur |-> p.dur, start |-> clock, emit |-> 0] /\ moved' = 0
    BY <1>6 DEF StartProgram
  <2>2. /\ p.kind \in {"linear", "bezier"} /\ p.dur \in 1 .. Half - 1
        /\ p.e \in Int /\ p.c1 \in Int /\ p.c2 \in Int
    BY ActionsAssumption
  <2>3. motion' \in Program /\ motion'.emit = 0
    BY <1>1, <2>1, <2>2 DEF Program
  <2> QED BY <2>1, <2>3 DEF MotionInv
<1> QED BY <1>2, <1>3, <1>4, <1>5, <1>6 DEF Next, MotionCommand

LEMMA StepKeepsEnds ==
    ASSUME \A p \in Programs : p.kind = "bezier" => p.e >= 0,
           HoldsInv, MotionInv, NoneEndsLeft, [Next]_vars
    PROVE  NoneEndsLeft'
<1>1. CASE KeyCommand \/ ButtonCommand \/ Wheel \/ Millisecond \/ UNCHANGED vars
  <2>1. UNCHANGED motion
    BY <1>1 DEF KeyCommand, ButtonCommand, KbDown, KbUp, KbPress, ButtonSet, Click,
                Wheel, Millisecond, motionVars, vars
  <2> QED BY <2>1 DEF NoneEndsLeft
<1>2. CASE Reset
  BY <1>2 DEF Reset, NoMotion, None, NoneEndsLeft
<1>3. CASE ActTick
  <2>1. motion.kind = None => motion' = motion
    BY <1>3 DEF ActTick, MotionTick, motionVars
  <2>2. motion.kind # None => motion'.kind \in {None, motion.kind} /\ motion'.e = motion.e
    BY <1>3, MotionTicks DEF ActTick, HoldsInv, TimesInv
  <2> QED BY <2>1, <2>2 DEF None, NoneEndsLeft
<1>4. CASE Move
  <2>1. motion' = [motion EXCEPT !.kind = None]
    BY <1>4 DEF Move
  <2>2. motion'.kind = None
    BY <2>1 DEF MotionInv, Program
  <2> QED BY <2>2 DEF None, NoneEndsLeft
<1>5. ASSUME NEW p \in Programs, StartProgram(p) PROVE NoneEndsLeft'
  <2>1. motion'.kind = p.kind /\ motion'.e = p.e
    BY <1>5 DEF StartProgram
  <2> QED BY <2>1 DEF NoneEndsLeft
<1> QED BY <1>1, <1>2, <1>3, <1>4, <1>5 DEF Next, MotionCommand

\* The tick of a program past its time asks for exactly the rest.
LEMMA LandsNow ==
    ASSUME HoldsInv, MotionInv, NoneEndsLeft, ActTick, motion.kind # None
    PROVE  /\ motion'.kind = None => moved' = motion.e
           /\ (LastTick /\ motion.e - moved \in -StepMax - 1 .. StepMax)
                 => motion'.kind = None
<1>1. clock \in Time /\ MotionTick /\ moved = motion.emit
  BY DEF HoldsInv, TimesInv, MotionInv, ActTick
<1>2. /\ moved' = moved + Clamped(Step)
      /\ motion'.kind = None <=> LastTick /\ moved' = motion.e
  BY <1>1, MotionTicks
<1>3. ASSUME LastTick, motion.e - moved \in -StepMax - 1 .. StepMax
      PROVE  moved' = motion.e
  <2>1. Step = motion.e - moved
    BY <1>1, <1>3, CurveEnds DEF Step, Parameter, MotionInv, NoneEndsLeft
  <2>2. Clamped(Step) = motion.e - moved
    BY <1>3, <2>1, ClampedIs
  <2> QED BY <1>2, <2>2 DEF MotionInv, Program
<1> QED BY <1>2, <1>3

\* A motion program ends with exactly its displacement injected, and with the first tick
\* past its time that finds the rest to fit one record, whatever its curve - so long as
\* no Bezier program ends to the left, where bezier_axis rounds past the end
\* (actions.c, act_motion_tick).
THEOREM ProgramsLand ==
    ASSUME \A p \in Programs : p.kind = "bezier" => p.e >= 0
    PROVE  MCSpec => LandsOnEndpoint
<1> DEFINE Good == HoldsInv /\ MotionInv /\ NoneEndsLeft
<1>1. MCInit => Good
  <2>1. Half \in Nat /\ Half >= 2
    BY ActionsAssumption
  <2>2. Init => MotionInv /\ NoneEndsLeft
    BY <2>1 DEF Init, MotionInv, NoneEndsLeft, NoMotion, Program, Time, Wrap, None
  <2> QED BY <2>2, InitKeys, InitTimes DEF MCInit, HoldsInv
<1>2. Good /\ [MCNext]_<<vars, parsers, part>> => Good'
  BY CommandStep, StepKeepsHolds, StepKeepsMotion, StepKeepsEnds
<1>3. Good /\ [MCNext]_<<vars, parsers, part>> =>
        [ActTick /\ motion.kind # None =>
            /\ motion'.kind = None => moved' = motion.e
            /\ (LastTick /\ motion.e - moved \in -StepMax - 1 .. StepMax)
                  => motion'.kind = None]_vars
  BY LandsNow
<1> QED BY <1>1, <1>2, <1>3, PTL DEF MCSpec, LandsOnEndpoint

-----------------------------------------------------------------------------
(***************************************************************************)
(* The parsers.  The binary one keeps what HurraProofs shows of it; the    *)
(* text one, whose windows have no id, keeps an invariant of its own that  *)
(* rests on the same facts about requests, answers and deadlines.          *)
(***************************************************************************)

\* As Hurra's invariant, but a window has no id and the callback, never made to forget,
\* is behind the mouse until a report comes.
FerrumInv ==
    /\ Host!Clocked /\ Host!Shape /\ Host!LatestOpen
    /\ catch.active => Host!Due(now, hostLag, catch.deadline, Host!Latest.left)
    /\ subscribed => "buttons" \in enabled
    /\ subscribed /\ noticed => lastTold = held
    /\ ~lost /\ told # Unknown => told = lastTold

ParsersInv ==
    /\ part = "ferrum" => FerrumInv
    /\ part # "ferrum" => Host!Inv

LEMMA HostAssumed == Host!CommandAssumption
BY CommandAssumption DEF Host!CommandAssumption, ClockRange, Resend, Host!Resend

\* The actions of the binary parser in MCCommands are those the proofs are about.
LEMMA FrameTicks == (Frame!Tick => Host!Tick) /\ (Frame!Reboot <=> Host!Reboot)
<1> USE DEF Frame!time, Frame!window, Frame!callbacks, Frame!world, Frame!hostvars,
        Frame!deferred, Frame!vars, Frame!Request, Frame!Reply, Frame!After,
        Frame!TakenWhole, Frame!Open, Frame!Clamped, Frame!Reached,
        Host!time, Host!window, Host!callbacks, Host!world, Host!hostvars,
        Host!deferred, Host!vars, Host!Request, Host!Reply, Host!After,
        Host!TakenWhole, Host!Open, Host!Clamped, Host!Reached,
        Frame!ClockRange, Host!ClockRange, Frame!Resend, Host!Resend, Frame!Unknown,
        Host!Unknown
<1>1. Frame!Tick => Host!Tick
  BY DEF Frame!Tick, Host!Tick, Frame!TickCatch, Host!TickCatch, Frame!TickBaud,
         Host!TickBaud, Frame!CatchDue, Host!CatchDue, Frame!BaudDue, Host!BaudDue,
         Frame!RebootDue, Host!RebootDue
<1>2. Frame!Reboot <=> Host!Reboot
  BY DEF Frame!Reboot, Host!Reboot, Frame!RebootDue, Host!RebootDue, Frame!NoCatch,
         Host!NoCatch, Frame!NoBaud, Host!NoBaud, Frame!Idle, Host!Idle
<1> QED BY <1>1, <1>2

LEMMA FrameStep == Frame!Next => Host!Next
<1> USE DEF Frame!time, Frame!window, Frame!callbacks, Frame!world, Frame!hostvars,
        Frame!deferred, Frame!vars, Frame!Request, Frame!Reply, Frame!After,
        Frame!TakenWhole, Frame!Open, Frame!Clamped, Frame!Reached,
        Host!time, Host!window, Host!callbacks, Host!world, Host!hostvars,
        Host!deferred, Host!vars, Host!Request, Host!Reply, Host!After,
        Host!TakenWhole, Host!Open, Host!Clamped, Host!Reached,
        Frame!ClockRange, Host!ClockRange, Frame!Resend, Host!Resend, Frame!Unknown,
        Host!Unknown
<1>1. Frame!Query => Host!Query
  BY DEF Frame!Query, Host!Query
<1>2. Frame!AskReboot => Host!AskReboot
  BY DEF Frame!AskReboot, Host!AskReboot
<1>3. ASSUME NEW dur \in Durations, Frame!CatchXy(dur) PROVE Host!CatchXy(dur)
  BY <1>3 DEF Frame!CatchXy, Host!CatchXy, Frame!Prior, Host!Prior, Frame!Emitted,
              Host!Emitted, Frame!Fresh, Host!Fresh, Frame!Asked, Host!Asked
<1>4. ASSUME NEW cb \in {"buttons", "axes"}, NEW on \in BOOLEAN, Frame!Toggle(cb, on)
      PROVE  Host!Toggle(cb, on)
  BY <1>4 DEF Frame!Toggle, Host!Toggle, Frame!Switch, Host!Switch, Frame!Forgotten,
              Host!Forgotten
<1>5. ASSUME NEW rate \in Rates, Frame!SetBaud(rate) PROVE Host!SetBaud(rate)
  BY <1>5 DEF Frame!SetBaud, Host!SetBaud, Frame!Newest, Host!Newest
<1>6. Frame!Tick => Host!Tick
  BY FrameTicks
<1>7. Frame!Reboot => Host!Reboot
  BY FrameTicks
<1>8. ASSUME NEW b \in Bitmaps, NEW d \in Moves, Frame!Report(b, d)
      PROVE  Host!Report(b, d)
  BY <1>8 DEF Frame!Report, Host!Report, Frame!NotifyAxes, Host!NotifyAxes,
              Frame!TellsButtons, Host!TellsButtons, Frame!SeenMoving, Host!SeenMoving
<1>9. Frame!Millisecond => Host!Millisecond
  BY DEF Frame!Millisecond, Host!Millisecond, Frame!HostMillisecond,
         Host!HostMillisecond, Frame!TimePasses, Host!TimePasses
<1>10. Frame!Drain => Host!Drain
  BY DEF Frame!Drain, Host!Drain
<1>11. Frame!HostRestart => Host!HostRestart
  BY DEF Frame!HostRestart, Host!HostRestart
<1>12. Frame!Listener => Host!Listener
  BY <1>1, <1>2, <1>3, <1>4, <1>5 DEF Frame!Listener, Host!Listener
<1>13. Frame!Environment => Host!Environment
  BY <1>8, <1>9, <1>10, <1>11 DEF Frame!Environment, Host!Environment
<1> QED BY <1>6, <1>7, <1>12, <1>13 DEF Frame!Next, Host!Next

LEMMA HurraKept == ASSUME Host!Inv, Host!Next \/ UNCHANGED Host!vars PROVE Host!Inv'
BY HostAssumed, Host!StepKeeps

\* The text parser's view of requests and time is the binary one's.
LEMMA TextReads ==
    /\ Text!ClockRange = Host!ClockRange
    /\ Text!Open <=> Host!Open
    /\ Text!Latest = Host!Latest
    /\ Text!TimePasses = Host!TimePasses
    /\ Text!CatchDue <=> catch.active /\ Host!Reached(catch.deadline)
    /\ \A d : Text!SeenMoving(d) = Host!SeenMoving(d)
    /\ \A dur : Text!Asked(dur) = Host!Asked(dur) /\ Text!Clamped(dur) = Host!Clamped(dur)
BY DEF Text!ClockRange, Host!ClockRange, Text!Open, Host!Open, Text!Latest, Host!Latest,
       Text!TimePasses, Host!TimePasses, Text!CatchDue, Text!Reached, Host!Reached,
       Text!SeenMoving, Host!SeenMoving, Text!Asked, Host!Asked, Text!Clamped,
       Host!Clamped

\* The answer that closes a window.
LEMMA EmitAnswers ==
    ASSUME FerrumInv, catch.active, Text!Emit
    PROVE  /\ answers' \in Seq([id : Nat, moved : Int])
           /\ Len(answers') = Len(asked) /\ Len(answers') = Len(answers) + 1
           /\ \A i \in 1 .. Len(answers') : answers'[i] = [id |-> i, moved |-> asked[i].moved]
<1>1. Host!Shape /\ Host!LatestOpen
  BY DEF FerrumInv
<1>2. Len(answers) + 1 = Len(asked)
  BY <1>1, HostAssumed, Host!AskedAnswered DEF Host!LatestOpen
<1>3. answers' = Append(answers, [id |-> Len(asked), moved |-> catch.moved])
  BY <1>2 DEF Text!Emit, Text!Result
<1> QED BY <1>1, <1>3, HostAssumed, Host!AnswerIsOwed

\* A window that closes, at a tick or when a byte arrives.
LEMMA ClosingKeeps ==
    ASSUME FerrumInv, catch.active, Text!Emit,
           catch' = [catch EXCEPT !.active = FALSE, !.moved = 0],
           UNCHANGED <<now, asked, held, enabled, lastTold, told, noticed, subscribed,
                       lost, newBaud, reboot>>,
           hostLag' \in {0, hostLag}
    PROVE  FerrumInv'
<1>1. Host!Clocked /\ Host!Shape /\ Host!LatestOpen
  BY DEF FerrumInv
<1>2. Host!Clocked'
  BY <1>1, HostAssumed, Host!Wraps DEF Host!Clocked
<1>3. /\ catch' \in [active : BOOLEAN, deadline : Int, moved : Int, id : Nat]
      /\ ~catch'.active
  <2> DEFINE off == [catch EXCEPT !.active = FALSE]
  <2>1. off \in [active : BOOLEAN, deadline : Int, moved : Int, id : Nat] /\ ~off.active
    BY <1>1 DEF Host!Shape
  <2>2. catch' = [off EXCEPT !.moved = 0]
    OBVIOUS
  <2> HIDE DEF off
  <2> QED BY <2>1, <2>2
<1>4. Host!Shape'
  BY <1>1, <1>3, EmitAnswers DEF Host!Shape
<1>5. Host!LatestOpen'
  BY <1>1, <1>3, EmitAnswers DEF Host!LatestOpen
<1> QED BY <1>2, <1>3, <1>4, <1>5 DEF FerrumInv

\* What disturbs neither a window nor the callback.
LEMMA FerrumRests ==
    ASSUME FerrumInv,
           UNCHANGED <<now, hostLag, catch, asked, answers, held, enabled, lastTold, told,
                       noticed, subscribed, lost, newBaud, reboot>>
    PROVE  FerrumInv'
BY DEF FerrumInv, Host!Clocked, Host!Shape, Host!LatestOpen, Host!Latest

LEMMA TextTickKeeps ==
    ASSUME FerrumInv, Text!Tick, UNCHANGED <<newBaud, reboot>>
    PROVE  FerrumInv'
<1>1. /\ hostLag' = 0
      /\ UNCHANGED <<now, asked, held, enabled, lastTold, told, noticed, subscribed, lost>>
  BY DEF Text!Tick, Text!callbacks, Text!world
<1>2. CASE Text!CatchDue
  BY <1>1, <1>2, ClosingKeeps DEF Text!Tick, Text!CatchDue
<1>3. CASE ~Text!CatchDue
  <2>1. UNCHANGED <<answers, catch>>
    BY <1>3 DEF Text!Tick
  <2>2. Host!Clocked /\ Host!Shape /\ Host!LatestOpen
    BY DEF FerrumInv
  <2>3. Host!Clocked' /\ Host!Shape' /\ Host!LatestOpen'
    BY <1>1, <2>1, <2>2, HostAssumed, Host!Wraps
       DEF Host!Clocked, Host!Shape, Host!LatestOpen, Host!Latest
  <2>4. catch.active => Host!Due(now, 0, catch.deadline, Host!Latest.left)
    BY <1>3, <2>2, TextReads, HostAssumed, Host!TickLeavesDue DEF FerrumInv
  <2> QED BY <1>1, <2>1, <2>3, <2>4 DEF FerrumInv, Host!Latest
<1> QED BY <1>2, <1>3

LEMMA FeedByteKeeps ==
    ASSUME FerrumInv, Text!FeedByte, UNCHANGED <<newBaud, reboot>>
    PROVE  FerrumInv'
BY ClosingKeeps DEF Text!FeedByte, Text!CatchDue, Text!time, Text!callbacks, Text!world

\* A request cuts an open window short, with its answer, and opens the next.
LEMMA TextCatchXyKeeps ==
    ASSUME FerrumInv, NEW dur \in Durations, Text!CatchXy(dur), UNCHANGED <<newBaud, reboot>>
    PROVE  FerrumInv'
<1>1. /\ IF catch.active THEN Text!Emit ELSE UNCHANGED answers
      /\ catch' = [active |-> TRUE,
                   deadline |-> (now + Host!Clamped(dur)) % Host!ClockRange,
                   moved |-> 0, id |-> 0]
      /\ asked' = Host!Asked(dur)
      /\ UNCHANGED <<now, hostLag, held, enabled, lastTold, told, noticed, subscribed, lost>>
  BY TextReads DEF Text!CatchXy, Text!Reentrant, Text!time, Text!callbacks, Text!world
<1>2. Host!Clocked /\ Host!Shape /\ Host!LatestOpen
  BY DEF FerrumInv
<1>3. dur \in Nat
  BY CommandAssumption
<1>4. /\ Host!Clamped(dur) \in 0 .. ClockHalf - 1
      /\ asked' \in Seq([moved : Int, left : Int]) /\ Len(asked') = Len(asked) + 1
      /\ \A i \in 1 .. Len(asked) : asked'[i] = asked[i]
      /\ asked'[Len(asked) + 1] = [moved |-> 0, left |-> Host!Clamped(dur)]
  BY <1>1, <1>2, <1>3, HostAssumed, Host!AskedGrows
<1>5. /\ Len(asked) \in Nat
      /\ answers' \in Seq([id : Nat, moved : Int]) /\ Len(answers') = Len(asked)
      /\ \A i \in 1 .. Len(asked) : answers'[i] = [id |-> i, moved |-> asked[i].moved]
  <2>1. Len(asked) \in Nat
    BY <1>2, HostAssumed, Host!AskedAnswered
  <2>2. CASE catch.active
    BY <1>1, <2>1, <2>2, EmitAnswers
  <2>3. CASE ~catch.active
    BY <1>1, <1>2, <2>1, <2>3 DEF Host!Shape, Host!LatestOpen
  <2> QED BY <2>2, <2>3
<1>6. /\ Host!Due(now, hostLag, catch'.deadline, Host!Clamped(dur))
      /\ catch'.deadline \in Int
  BY <1>1, <1>2, <1>4, HostAssumed, Host!NewIsDue
<1>7. Host!Latest'.left = Host!Clamped(dur) /\ Host!Latest'.moved = 0
  BY <1>4 DEF Host!Latest
<1>8. Host!Clocked'
  BY <1>1, <1>2 DEF Host!Clocked
<1>9. Host!Shape'
  BY <1>1, <1>2, <1>4, <1>5, <1>6 DEF Host!Shape
<1>10. Host!LatestOpen'
  <2>1. catch'.active /\ catch'.moved = 0
    BY <1>1
  <2>2. Len(answers') = Len(asked') - 1
    BY <1>4, <1>5
  <2>3. \A i \in 1 .. Len(answers') : answers'[i] = [id |-> i, moved |-> asked'[i].moved]
    BY <1>4, <1>5
  <2> QED BY <1>7, <2>1, <2>2, <2>3 DEF Host!LatestOpen
<1> QED BY <1>1, <1>6, <1>7, <1>8, <1>9, <1>10 DEF FerrumInv

\* A report adds to the window and tells a subscriber what changed.
LEMMA TextReportKeeps ==
    ASSUME FerrumInv, NEW b \in Bitmaps, NEW d \in Moves, Text!Report(b, d),
           UNCHANGED <<newBaud, reboot>>
    PROVE  FerrumInv'
<1>1. Host!Clocked /\ Host!Shape /\ Host!LatestOpen
  BY DEF FerrumInv
<1>2. /\ asked' = Host!SeenMoving(d) /\ held' = b /\ noticed' = TRUE
      /\ catch' = IF catch.active THEN [catch EXCEPT !.moved = @ + d] ELSE catch
      /\ UNCHANGED <<now, hostLag, answers, enabled, subscribed>>
  BY TextReads DEF Text!Report, Text!NotifyAxes, Text!Accumulates, Text!time
<1>3. d \in Int
  BY CommandAssumption
<1>4. /\ asked' \in Seq([moved : Int, left : Int]) /\ Len(asked') = Len(asked)
      /\ \A i \in 1 .. Len(answers) : asked'[i].moved = asked[i].moved
      /\ catch.active => asked'[Len(asked)].moved = Host!Latest.moved + d
      /\ catch.active => asked'[Len(asked)].left = Host!Latest.left
  BY <1>1, <1>2, <1>3, HostAssumed, Host!MotionCounts
<1>5. /\ catch' \in [active : BOOLEAN, deadline : Int, moved : Int, id : Nat]
      /\ catch'.active = catch.active /\ catch'.deadline = catch.deadline
      /\ catch.active => catch'.moved = catch.moved + d
  <2>1. catch \in [active : BOOLEAN, deadline : Int, moved : Int, id : Nat]
    BY <1>1 DEF Host!Shape
  <2>2. CASE catch.active
    <3>1. catch' = [catch EXCEPT !.moved = @ + d]
      BY <1>2, <2>2
    <3>2. catch' \in [active : BOOLEAN, deadline : Int, moved : Int, id : Nat]
      BY <1>3, <2>1, <3>1
    <3>3. catch'.active = catch.active /\ catch'.moved = catch.moved + d
      BY <2>1, <3>1
    <3>4. catch'.deadline = catch.deadline
      BY <2>1, <3>1
    <3> QED BY <3>2, <3>3, <3>4
  <2>3. CASE ~catch.active
    BY <1>2, <2>1, <2>3
  <2> QED BY <2>2, <2>3
<1>6. Host!Clocked' /\ Host!Shape'
  BY <1>1, <1>2, <1>4, <1>5 DEF Host!Clocked, Host!Shape
<1>7. Host!LatestOpen'
  <2>1. Len(answers') = IF catch'.active THEN Len(asked') - 1 ELSE Len(asked')
    BY <1>1, <1>2, <1>4, <1>5 DEF Host!LatestOpen
  <2>2. catch'.active => catch'.moved = Host!Latest'.moved
    BY <1>1, <1>4, <1>5 DEF Host!LatestOpen, Host!Latest
  <2>3. \A i \in 1 .. Len(answers') : answers'[i] = [id |-> i, moved |-> asked'[i].moved]
    BY <1>1, <1>2, <1>4 DEF Host!LatestOpen
  <2> QED BY <2>1, <2>2, <2>3 DEF Host!LatestOpen
<1>8. catch'.active => Host!Due(now', hostLag', catch'.deadline, Host!Latest'.left)
  BY <1>2, <1>4, <1>5 DEF FerrumInv, Host!Latest
<1>9. /\ subscribed' => "buttons" \in enabled'
      /\ subscribed' /\ noticed' => lastTold' = held'
      /\ ~lost' /\ told' # Unknown => told' = lastTold'
  <2>1. CASE Text!TellsButtons(b)
    <3>1. lastTold' = b /\ (~lost' => told' = b)
      BY <2>1 DEF Text!Report, Text!Remembers
    <3> QED BY <1>2, <3>1 DEF FerrumInv
  <2>2. CASE ~Text!TellsButtons(b)
    <3>1. UNCHANGED <<lastTold, lost, told>> /\ ("buttons" \in enabled => b = lastTold)
      BY <2>2 DEF Text!Report, Text!Remembers, Text!TellsButtons
    <3> QED BY <1>2, <3>1 DEF FerrumInv
  <2> QED BY <2>1, <2>2
<1> QED BY <1>6, <1>7, <1>8, <1>9 DEF FerrumInv

LEMMA TextMillisecondKeeps ==
    ASSUME FerrumInv, Text!HostMillisecond, UNCHANGED <<newBaud, reboot>>
    PROVE  FerrumInv'
<1>1. Host!Clocked /\ Host!Shape /\ Host!LatestOpen
  BY DEF FerrumInv
<1>2. /\ now' = (now + 1) % Host!ClockRange /\ hostLag' = hostLag + 1
      /\ hostLag < LoopLag /\ asked' = Host!TimePasses
      /\ UNCHANGED <<catch, answers, held, enabled, lastTold, told, noticed, subscribed, lost>>
  BY TextReads DEF Text!HostMillisecond, Text!callbacks, Text!world
<1>3. now' \in 0 .. Host!ClockRange - 1
  BY <1>1, <1>2, HostAssumed, Host!Wraps DEF Host!Clocked
<1>4. Host!Clocked'
  BY <1>1, <1>2, <1>3, HostAssumed, Host!Wraps DEF Host!Clocked
<1>5. /\ asked' \in Seq([moved : Int, left : Int]) /\ Len(asked') = Len(asked)
      /\ \A i \in 1 .. Len(asked) : asked'[i].moved = asked[i].moved
      /\ catch.active => asked'[Len(asked)].left = Host!Latest.left - 1
  BY <1>1, <1>2, HostAssumed, Host!TimeCounts
<1>6. Host!Shape'
  BY <1>1, <1>2, <1>5 DEF Host!Shape
<1>7. /\ Len(answers) \in Nat /\ Len(answers) <= Len(asked) /\ Len(asked) \in Nat
      /\ catch.active => Len(asked) \in 1 .. Len(asked)
  BY <1>1, HostAssumed, Host!AskedAnswered
<1>8. Host!LatestOpen'
  <2>1. \A i \in 1 .. Len(answers) : i \in 1 .. Len(asked)
    BY <1>7
  <2>2. \A i \in 1 .. Len(answers') : answers'[i] = [id |-> i, moved |-> asked'[i].moved]
    BY <1>1, <1>2, <1>5, <2>1 DEF Host!LatestOpen
  <2>3. catch.active => Host!Latest'.moved = Host!Latest.moved
    BY <1>5, <1>7 DEF Host!Latest
  <2> QED BY <1>1, <1>2, <1>5, <2>2, <2>3 DEF Host!LatestOpen
<1>9. catch.active => Host!Due(now', hostLag', catch.deadline, Host!Latest.left - 1)
  BY <1>1, <1>2, HostAssumed, Host!DueComesCloser DEF FerrumInv
<1>10. catch.active => Host!Latest'.left = Host!Latest.left - 1
  BY <1>5 DEF Host!Latest
<1> QED BY <1>2, <1>4, <1>6, <1>8, <1>9, <1>10 DEF FerrumInv

\* The text parser's steps
LEMMA FerrumKept ==
    ASSUME FerrumInv, Text!Next, UNCHANGED <<newBaud, reboot>>
    PROVE  FerrumInv'
<1>1. CASE Text!Query \/ Text!Drain \/ \E rate \in Rates : Text!SetBaud(rate)
  <2>1. UNCHANGED <<now, hostLag, catch, asked, answers, held, enabled, lastTold, told,
                    noticed, subscribed, lost>>
    BY <1>1 DEF Text!Query, Text!Drain, Text!SetBaud, Text!time, Text!window,
                Text!callbacks, Text!world
  <2> QED BY <2>1, FerrumRests
<1>2. ASSUME NEW cb \in {"buttons", "axes"}, NEW on \in BOOLEAN, Text!Toggle(cb, on)
      PROVE  FerrumInv'
  <2>1. /\ enabled' = IF on THEN enabled \cup {cb} ELSE enabled \ {cb}
        /\ noticed' = (noticed /\ cb # "buttons")
        /\ subscribed' = IF cb = "buttons" THEN on ELSE subscribed
        /\ UNCHANGED <<now, hostLag, catch, asked, answers, held, lastTold, told, lost>>
    BY <1>2 DEF Text!Toggle, Text!Switch, Text!time, Text!window, Text!world
  <2>2. Host!Clocked' /\ Host!Shape' /\ Host!LatestOpen'
    BY <2>1 DEF FerrumInv, Host!Clocked, Host!Shape, Host!LatestOpen, Host!Latest
  <2>3. catch'.active => Host!Due(now', hostLag', catch'.deadline, Host!Latest'.left)
    BY <2>1 DEF FerrumInv, Host!Latest
  <2>4. subscribed' => "buttons" \in enabled'
    BY <2>1 DEF FerrumInv
  <2>5. subscribed' /\ noticed' => lastTold' = held'
    BY <2>1 DEF FerrumInv
  <2>6. ~lost' /\ told' # Unknown => told' = lastTold'
    BY <2>1 DEF FerrumInv
  <2> QED BY <2>2, <2>3, <2>4, <2>5, <2>6 DEF FerrumInv
<1>3. CASE Text!HostRestart
  <2>1. /\ told' = Unknown /\ subscribed' = FALSE
        /\ UNCHANGED <<now, hostLag, catch, asked, answers, held, enabled, lastTold,
                       noticed, lost>>
    BY <1>3 DEF Text!HostRestart, Text!Unknown, Unknown, Text!time, Text!window,
                Text!world
  <2>2. Host!Clocked' /\ Host!Shape' /\ Host!LatestOpen'
    BY <2>1 DEF FerrumInv, Host!Clocked, Host!Shape, Host!LatestOpen, Host!Latest
  <2> QED BY <2>1, <2>2 DEF FerrumInv, Host!Latest
<1> QED BY <1>1, <1>2, <1>3, TextTickKeeps, FeedByteKeeps, TextCatchXyKeeps,
           TextReportKeeps, TextMillisecondKeeps
           DEF Text!Next, Text!Command, Text!Environment

\* The parser that runs moves, the others rest.
LEMMA ParsersKept ==
    ASSUME ParsersInv, [MCNext]_<<vars, parsers, part>>
    PROVE  ParsersInv'
<1> USE DEF ParsersInv
<1>1. CASE part = "hurra" /\ Frame!Next /\ UNCHANGED part
  BY <1>1, FrameStep, HurraKept
<1>2. CASE part = "ferrum" /\ Text!Next /\ UNCHANGED <<part, deferred>>
  BY <1>2, FerrumKept DEF deferred
<1>3. CASE UNCHANGED <<hostvars, deferred, part>>
  <2>1. UNCHANGED Host!vars
    BY <1>3 DEF hostvars, deferred, Host!vars, Host!hostvars, Host!deferred, Host!time,
                Host!window, Host!callbacks, Host!world
  <2>2. FerrumInv => FerrumInv'
    BY <1>3, FerrumRests DEF hostvars, deferred
  <2> QED BY <1>3, <2>1, <2>2, HurraKept
<1> QED BY <1>1, <1>2, <1>3 DEF MCNext, Parse, parsers

\* The inductive invariant of both parsers: the open window is the request asked last,
\* what the button callback takes for told is what the mouse holds, and each deadline is
\* due in its time (hurra.c:511-528, 758-788, ferrum.c:297-307, 546-567).
THEOREM ParsersInductive == MCSpec => []ParsersInv
<1>1. MCInit => ParsersInv
  <2> SUFFICES ASSUME MCInit PROVE ParsersInv
    OBVIOUS
  <2>1. Host!Inv
    <3>1. Host!Init
      BY DEF MCInit, Frame!Init, Host!Init, Frame!HostInit, Host!HostInit,
             Frame!DeferredInit, Host!DeferredInit, Frame!NoCatch, Host!NoCatch,
             Frame!NoBaud, Host!NoBaud, Frame!Idle, Host!Idle
    <3> QED BY <3>1, HostAssumed, Host!InitInv
  <2>2. /\ ~catch.active /\ ~subscribed /\ told = 0 /\ lastTold = 0
    BY DEF MCInit, Frame!Init, Frame!HostInit, Frame!NoCatch
  <2>3. FerrumInv
    BY <2>1, <2>2 DEF FerrumInv, Host!Inv, Host!WindowIsLatest
  <2> QED BY <2>1, <2>3 DEF ParsersInv
<1> QED BY <1>1, ParsersKept, PTL DEF MCSpec

\* Whichever parser runs, every catch_xy request gets one answer, in the order of the
\* requests and with exactly the motion of its window (hurra.c:511-528, ferrum.c:297-307).
THEOREM OneAnswerEach == MCSpec => []CatchAnswered
<1>1. ASSUME ParsersInv PROVE CatchAnswered
  <2>1. Host!Shape /\ Host!LatestOpen
    BY <1>1 DEF ParsersInv, FerrumInv, Host!Inv, Host!WindowIsLatest
  <2>2. DOMAIN answers = 1 .. Len(answers)
    BY <2>1, LenProperties DEF Host!Shape
  <2> QED BY <2>1, <2>2 DEF CatchAnswered, Frame!CatchAnswered, Host!LatestOpen
<1> QED BY <1>1, ParsersInductive, PTL

\* A host that switched the button callback on knows the mouse's buttons from the first
\* report on, unless a full ring cut the last line about them short.  With the text parser
\* a host that took another's place knows them once they differ from what that one was told
\* last, and is told nothing before (hurra.c:782-788, ferrum.c:389-403, 594-609).
THEOREM SubscribersKnow == MCSpec => []HostKnowsButtons
<1>1. ASSUME ParsersInv PROVE HostKnowsButtons
  <2>1. part = "hurra" => Frame!HostKnowsButtons
    BY <1>1 DEF ParsersInv, Host!Inv, Host!ToldIsHeld, Host!HostKnowsButtons,
                Frame!HostKnowsButtons
  <2>2. part = "ferrum" => Text!HostKnowsButtons
    BY <1>1 DEF ParsersInv, FerrumInv, Text!HostKnowsButtons, Text!Unknown, Unknown
  <2> QED BY <2>1, <2>2 DEF HostKnowsButtons
<1> QED BY <1>1, ParsersInductive, PTL

\* The binary parser acts on what is due, and on that alone.
LEMMA FramesOnTime == ASSUME Host!Inv, Frame!Next PROVE Frame!OnDeadline
<1>1. Host!Next /\ (Frame!Tick => Host!Tick) /\ (Frame!Reboot <=> Host!Reboot)
  BY FrameStep, FrameTicks
<1>2. (Frame!Open <=> Host!Open) /\ Frame!Latest = Host!Latest
  BY DEF Frame!Open, Host!Open, Frame!Latest, Host!Latest
<1>3. Frame!Tick => /\ Host!Open => (Host!Latest.left <= 0 <=> Len(answers') > Len(answers))
                    /\ newBaud.scheduled => (baudLeft <= 0 <=> ~newBaud'.scheduled)
                    /\ reboot.scheduled => rebootLeft > 0
  BY <1>1, HostAssumed, Host!TickOnTime
<1>4. /\ Host!Reboot => rebootLeft <= 0
      /\ Len(asked') = Len(asked) /\ answers' # answers => Host!Latest.left <= 0
      /\ newBaud.scheduled /\ ~newBaud'.scheduled /\ home = "uart" /\ ~Host!Reboot
           => baud' = baudAcked
  BY <1>1, HostAssumed, Host!NothingEarly
<1> QED BY <1>1, <1>2, <1>3, <1>4 DEF Frame!OnDeadline

\* So does the text parser, which looks at the clock when a byte arrives as well.
LEMMA LinesOnTime == ASSUME FerrumInv, Text!Next PROVE Text!OnDeadline
<1>1. /\ Host!Clocked /\ Host!Shape /\ Host!LatestOpen
      /\ catch.active => Host!Due(now, hostLag, catch.deadline, Host!Latest.left)
  BY DEF FerrumInv
<1>2. Len(asked) \in Nat /\ Len(answers) \in Nat /\ (Host!Open <=> catch.active)
  BY <1>1, HostAssumed, Host!AskedAnswered
<1>3. catch.active => (Text!CatchDue <=> Host!Latest.left <= 0)
  BY <1>1, TextReads, HostAssumed, Host!DueIsReached
<1>4. Text!CatchDue => catch.active
  BY TextReads
<1>5. catch.active /\ Text!Emit => answers' # answers
  BY <1>2, EmitAnswers
<1>6. ASSUME Text!Tick \/ Text!FeedByte, Host!Open
      PROVE  Host!Latest.left <= 0 <=> answers' # answers
  BY <1>2, <1>3, <1>4, <1>5, <1>6 DEF Text!Tick, Text!FeedByte
<1>7. ASSUME Len(asked') = Len(asked), answers' # answers PROVE Host!Latest.left <= 0
  <2>1. ASSUME NEW dur \in Durations, Text!CatchXy(dur) PROVE FALSE
    <3>1. asked' = Host!Asked(dur) /\ dur \in Nat
      BY <2>1, CommandAssumption, TextReads DEF Text!CatchXy
    <3>2. Len(asked') = Len(asked) + 1
      BY <1>1, <3>1, HostAssumed, Host!AskedGrows
    <3> QED BY <1>2, <1>7, <3>2
  <2>2. CASE Text!Tick \/ Text!FeedByte
    BY <1>3, <1>4, <1>7, <2>2 DEF Text!Tick, Text!FeedByte
  <2>3. CASE \/ Text!Query \/ (\E rate \in Rates : Text!SetBaud(rate))
             \/ \E cb \in {"buttons", "axes"}, on \in BOOLEAN : Text!Toggle(cb, on)
    BY <1>7, <2>3 DEF Text!Query, Text!SetBaud, Text!Toggle, Text!window
  <2>4. CASE Text!Environment
    BY <1>7, <2>4 DEF Text!Environment, Text!Drain, Text!HostRestart,
                      Text!HostMillisecond, Text!Report, Text!window
  <2> QED BY <2>1, <2>2, <2>3, <2>4 DEF Text!Next, Text!Command
<1> QED BY <1>6, <1>7, TextReads DEF Text!OnDeadline

\* act_tick and either parser act on every deadline with the first look at the clock at
\* or after it and never before, for any width of the clocks and across their wraps
\* (actions.c, time_deadline_reached; hurra.c:758-779; ferrum.c:546-567).
THEOREM NothingEarlyOrLate == MCSpec => DeadlinesKept
<1> DEFINE InTime == /\ part \in {"keys", "buttons", "motion"} => OnDeadline
                     /\ part = "hurra" => Frame!OnDeadline
                     /\ part = "ferrum" => Text!OnDeadline
<1>1. ASSUME HoldsInv, ParsersInv, [MCNext]_<<vars, parsers, part>>
      PROVE  [InTime]_<<vars, parsers>>
  <2>1. CASE UNCHANGED <<vars, parsers>>
    BY <2>1
  <2>2. CASE MCNext
    <3>1. part \in {"keys", "buttons", "motion"} => OnDeadline
      BY <1>1, ActsOnDeadline
    <3>2. part = "hurra" /\ Frame!Next => Frame!OnDeadline
      BY <1>1, FramesOnTime DEF ParsersInv
    <3>3. part = "ferrum" /\ Text!Next => Text!OnDeadline
      BY <1>1, LinesOnTime DEF ParsersInv
    <3> QED BY <2>2, <3>1, <3>2, <3>3 DEF MCNext, Commands, Parse
  <2> QED BY <1>1, <2>1, <2>2
<1> QED BY <1>1, HoldsInductive, ParsersInductive, PTL DEF MCSpec, DeadlinesKept

-----------------------------------------------------------------------------
(***************************************************************************)
(* Framing.  A piece is good when its message must be obeyed or still may  *)
(* have to be.  In the ring a good piece follows the one before it of its  *)
(* message, or the end of a message the parser is done with; at the head   *)
(* of the ring it finds the parser with just what precedes it, and a       *)
(* silence the parser takes for what it was.  The silence a parser         *)
(* measures is that on the line to within the time a pass may be late.     *)
(***************************************************************************)

\* A piece on the line, and the first k pieces of the message p is of
Sent == {p \in [m : Nat, i : Nat, n : Lengths] : 1 <= p.i /\ p.i <= p.n}
Begun(p, k) == [i \in 1 .. k |-> Frames!Piece(p.m, i, p.n)]

\* The milliseconds a parser takes to have passed since it was last fed
Silence == IF parser = "hurra" THEN Frames!TfTicks ELSE (frNow - lastByte) % ClockRange

Good(p) == p.m \in due \/ (p.m = message.m /\ sound /\ Frames!Fits(message.n))

\* The parser has the first k pieces of p's message, or nothing.
NotOverlong == parser = "ferrum" => ~overflow
Collected(p, k) ==
    /\ fragment = Begun(p, k) /\ NotOverlong
    /\ parser = "hurra" => need = p.n
Clear == fragment = <<>> /\ NotOverlong

Follows(q, p) ==
    \/ p.i > 1 /\ q = [p EXCEPT !.i = @ - 1] /\ LoopLag <= Frames!Tolerated
    \/ p.i = 1 /\ q.i = q.n /\ (parser = "ferrum" \/ q.m \in due)

Ready(p) ==
    \/ /\ p.i > 1 /\ Collected(p, p.i - 1)
       /\ LoopLag <= Frames!Tolerated
       /\ Silence <= Frames!Tolerated - LoopLag + frLag
    \/ p.i = 1 /\ (Clear \/ (fragment # <<>> /\ Silence > Frames!Tolerated))

FrameTypes ==
    /\ parser \in {"hurra", "ferrum"}
    /\ frNow \in 0 .. ClockRange - 1 /\ frLag \in 0 .. LoopLag
    /\ rx \in Seq(Sent) /\ Len(rx) <= RxMax /\ fragment \in Seq(Sent)
    /\ message \in Sent \cup {Frames!Piece(0, 0, 0)}
    /\ quiet \in 0 .. Frames!Cap /\ clean \in BOOLEAN /\ sound \in BOOLEAN
    /\ due \subseteq 0 .. message.m /\ (message.m \in due => Frames!Between)

HurraTypes ==
    /\ need \in Lengths \cup {0} /\ ticks \in 0 .. TfTimeout
    /\ tfTick \in 0 .. ClockRange - 1
    /\ parser = "hurra" => (frNow - tfTick) % ClockRange <= frLag
    /\ parser = "hurra" /\ fragment # <<>> => Len(fragment) < need

LineTypes ==
    /\ overflow \in BOOLEAN /\ lastByte \in 0 .. ClockRange - 1
    /\ parser = "ferrum" =>
         /\ Len(fragment) <= LineMax /\ (overflow => fragment # <<>>)
         /\ fragment # <<>> /\ rx # <<>> => Silence <= Frames!Cap + frLag

QueueInv ==
    /\ \A j \in 1 .. Len(rx) :
         rx[j].m <= message.m /\ (Good(rx[j]) => Frames!Fits(rx[j].n))
    /\ \A j \in 2 .. Len(rx) : Good(rx[j]) => Follows(rx[j - 1], rx[j])
    /\ rx # <<>> =>
         /\ rx[Len(rx)] = message /\ quiet <= frLag
         /\ clean => Frames!Between /\ (parser = "ferrum" \/ message.m \in due)
         /\ Good(rx[1]) => Ready(rx[1])

RestInv ==
    rx = <<>> =>
        /\ sound /\ Frames!Fits(message.n) /\ ~Frames!Between => Collected(message, message.i)
        /\ clean => Frames!Between /\ Clear
        /\ fragment # <<>> =>
             /\ Silence <= quiet \/ (parser = "hurra" /\ quiet = Frames!Cap)
             /\ quiet - LoopLag <= Silence \/ Frames!Tolerated < Silence

FrameInv ==
    FrameTypes /\ HurraTypes /\ LineTypes /\ QueueInv /\ RestInv /\ Frames!MessagesObeyed

\* The parameters, as numbers
LEMMA FrameNumbers ==
    /\ ClockRange \in Nat \ {0} /\ LoopLag \in Nat \ {0} /\ Frames!ClockRange = ClockRange
    /\ Frames!Tolerated \in Nat /\ Frames!Cap \in Nat
    /\ Frames!Cap + LoopLag = ClockRange - 1 /\ LoopLag <= Frames!Cap
    /\ parser = "hurra" => Frames!Tolerated = TfTimeout - 1
    /\ TfTimeout \in Nat \ {0} /\ TfTimeout < ClockRange
BY CommandAssumption, FrameAssumption
   DEF ClockRange, Frames!ClockRange, Frames!Tolerated, Frames!Cap

\* Time since t on a clock of range r
LEMMA Since ==
    ASSUME NEW r \in Nat \ {0}, NEW n \in 0 .. r - 1, NEW t \in 0 .. r - 1
    PROVE  /\ (n - n) % r = 0 /\ (n - t) % r \in 0 .. r - 1
           /\ (n + 1) % r \in 0 .. r - 1
           /\ (n - t) % r < r - 1 => (((n + 1) % r) - t) % r = ((n - t) % r) + 1
<1>1. /\ \A x \in 0 .. r - 1 : x % r = x
      /\ \A x \in r .. 2 * r - 1 : x % r = x - r
      /\ \A x \in -r .. -1 : x % r = x + r
  BY Host!Modulo
<1>2. (n - t) % r = IF t <= n THEN n - t ELSE n - t + r
  <2>1. CASE t <= n
    <3>1. n - t \in 0 .. r - 1
      BY <2>1
    <3> QED BY <1>1, <2>1, <3>1
  <2>2. CASE ~(t <= n)
    <3>1. n - t \in -r .. -1
      BY <2>2
    <3> QED BY <1>1, <2>2, <3>1
  <2> QED BY <2>1, <2>2
<1>3. (n - n) % r = 0
  <2>1. n - n = 0 /\ 0 \in 0 .. r - 1
    OBVIOUS
  <2> QED BY <1>1, <2>1
<1>4. (n + 1) % r = IF n = r - 1 THEN 0 ELSE n + 1
  <2>1. CASE n = r - 1
    <3>1. n + 1 = r /\ r \in r .. 2 * r - 1
      BY <2>1
    <3> QED BY <1>1, <2>1, <3>1
  <2>2. CASE n # r - 1
    <3>1. n + 1 \in 0 .. r - 1
      BY <2>2
    <3> QED BY <1>1, <2>2, <3>1
  <2> QED BY <2>1, <2>2
<1>5. ASSUME (n - t) % r < r - 1
      PROVE  (((n + 1) % r) - t) % r = ((n - t) % r) + 1
  <2>1. CASE n = r - 1
    <3>1. 0 < t
      BY <1>2, <1>5, <2>1
    <3>2. 0 - t \in -r .. -1
      BY <3>1
    <3>3. (0 - t) % r = 0 - t + r
      BY <1>1, <3>2
    <3> QED BY <1>2, <1>4, <2>1, <3>1, <3>3
  <2>2. CASE n # r - 1 /\ t <= n + 1
    <3>1. (n + 1) - t \in 0 .. r - 1
      <4>1. (n + 1) - t # r
        BY <2>2
      <4> QED BY <2>2, <4>1
    <3>2. ((n + 1) - t) % r = (n + 1) - t
      BY <1>1, <3>1
    <3>3. t <= n
      BY <1>2, <1>5, <2>2
    <3> QED BY <1>2, <1>4, <2>2, <3>2, <3>3
  <2>3. CASE n # r - 1 /\ ~(t <= n + 1)
    <3>1. (n + 1) - t \in -r .. -1
      BY <2>3
    <3>2. ((n + 1) - t) % r = (n + 1) - t + r
      BY <1>1, <3>1
    <3> QED BY <1>2, <1>4, <2>3, <3>2
  <2> QED BY <2>1, <2>2, <2>3
<1>6. (n + 1) % r \in 0 .. r - 1 /\ (n - t) % r \in 0 .. r - 1
  BY <1>2, <1>4
<1> QED BY <1>3, <1>5, <1>6

\* What a parser measures, as a number
LEMMA SilenceType ==
    ASSUME FrameTypes, HurraTypes, LineTypes
    PROVE  /\ Silence \in Nat
           /\ parser = "hurra" => Silence <= TfTimeout
<1>1. ClockRange \in Nat \ {0} /\ Frames!ClockRange = ClockRange /\ TfTimeout \in Nat
  BY FrameNumbers
<1>2. /\ (frNow - tfTick) % ClockRange \in 0 .. ClockRange - 1
      /\ (frNow - lastByte) % ClockRange \in 0 .. ClockRange - 1
  BY <1>1, Since DEF FrameTypes, HurraTypes, LineTypes
<1>3. Frames!TfTicks \in Nat /\ Frames!TfTicks <= TfTimeout
  BY <1>1, <1>2 DEF HurraTypes, Frames!TfTicks, Frames!Elapsed, Frames!Smaller
<1> QED BY <1>2, <1>3 DEF Silence

\* It starts again with a piece, goes on over a tick, and grows by one in a millisecond.
LEMMA SilenceFed ==
    ASSUME FrameTypes, HurraTypes, LineTypes, Frames!Feed
    PROVE  Silence' = 0
<1>1. ClockRange \in Nat \ {0} /\ Frames!ClockRange = ClockRange /\ TfTimeout \in Nat
  BY FrameNumbers
<1>2. (frNow - frNow) % ClockRange = 0
  BY <1>1, Since DEF FrameTypes
<1>3. parser' = parser /\ frNow' = frNow
  BY DEF Frames!Feed
<1>4. CASE parser = "hurra"
  <2>1. ticks' = 0 /\ tfTick' = frNow
    BY <1>4 DEF Frames!Feed, Frames!HurraFeed
  <2> QED BY <1>1, <1>2, <1>3, <1>4, <2>1
          DEF Silence, Frames!TfTicks, Frames!Elapsed, Frames!Smaller
<1>5. CASE parser # "hurra"
  <2>1. lastByte' = frNow
    BY <1>5 DEF Frames!Feed, Frames!FerrumFeed
  <2> QED BY <1>2, <1>3, <1>5, <2>1 DEF Silence
<1> QED BY <1>4, <1>5

LEMMA SilenceTicked ==
    ASSUME FrameTypes, HurraTypes, LineTypes, Frames!Tick
    PROVE  /\ Silence' = Silence /\ HurraTypes' /\ LineTypes'
<1>1. ClockRange \in Nat \ {0} /\ Frames!ClockRange = ClockRange /\ TfTimeout \in Nat
  BY FrameNumbers
<1>2. (frNow - frNow) % ClockRange = 0
  BY <1>1, Since DEF FrameTypes
<1>3. /\ rx = <<>> /\ rx' = rx /\ frLag' = 0
      /\ UNCHANGED <<parser, frNow, fragment, need, overflow, lastByte>>
  BY DEF Frames!Tick, Frames!line
<1>4. CASE parser = "hurra"
  <2>1. ticks' = Frames!TfTicks /\ tfTick' = frNow
    BY <1>4 DEF Frames!Tick, Frames!HurraTick
  <2>2. Frames!TfTicks \in Nat /\ Frames!TfTicks <= TfTimeout
    BY <1>4, SilenceType DEF Silence
  <2>3. Silence' = Silence
    BY <1>1, <1>2, <1>3, <1>4, <2>1, <2>2
       DEF Silence, Frames!TfTicks, Frames!Elapsed, Frames!Smaller
  <2>4. HurraTypes'
    BY <1>1, <1>2, <1>3, <2>1, <2>2 DEF HurraTypes, FrameTypes
  <2>5. LineTypes'
    BY <1>3, <1>4 DEF LineTypes
  <2> QED BY <2>3, <2>4, <2>5
<1>5. CASE parser # "hurra"
  <2>1. UNCHANGED <<ticks, tfTick>>
    BY <1>5 DEF Frames!Tick
  <2>2. Silence' = Silence
    BY <1>3, <1>5 DEF Silence
  <2>3. HurraTypes'
    BY <1>3, <1>5, <2>1 DEF HurraTypes
  <2>4. LineTypes'
    BY <1>3, <1>5 DEF LineTypes
  <2> QED BY <2>2, <2>3, <2>4
<1> QED BY <1>4, <1>5

LEMMA SilenceGrows ==
    ASSUME FrameTypes, HurraTypes, LineTypes, RestInv, Frames!Millisecond
    PROVE  /\ HurraTypes' /\ LineTypes' /\ frNow' \in 0 .. ClockRange - 1
           /\ parser = "hurra" => Silence' = Frames!Smaller(Silence + 1, TfTimeout)
           /\ parser = "ferrum" /\ fragment # <<>> => Silence' = Silence + 1
<1>1. /\ ClockRange \in Nat \ {0} /\ Frames!ClockRange = ClockRange /\ TfTimeout \in Nat
      /\ Frames!Cap + LoopLag = ClockRange - 1 /\ Frames!Cap \in Nat /\ LoopLag \in Nat \ {0}
      /\ LoopLag <= Frames!Cap
  BY FrameNumbers
<1>2. /\ frLag < LoopLag /\ frLag' = frLag + 1 /\ frNow' = (frNow + 1) % ClockRange
      /\ parser = "ferrum" /\ fragment # <<>> => quiet < Frames!Cap
      /\ UNCHANGED <<parser, rx, fragment, need, ticks, tfTick, overflow, lastByte>>
  BY <1>1 DEF Frames!Millisecond, Frames!tinyframe, Frames!line
<1>3. frNow' \in 0 .. ClockRange - 1
  BY <1>1, <1>2, Since DEF FrameTypes
<1>4. frLag \in Nat /\ quiet \in Nat
  BY DEF FrameTypes, Frames!Cap
<1>5. CASE parser = "hurra"
  <2> DEFINE d == (frNow - tfTick) % ClockRange
  <2>1. d \in 0 .. ClockRange - 1 /\ d <= frLag
    BY <1>1, <1>5, Since DEF FrameTypes, HurraTypes
  <2>2. (frNow' - tfTick') % ClockRange = d + 1
    <3>1. d < ClockRange - 1
      BY <1>1, <1>2, <1>4, <2>1
    <3> QED BY <1>1, <1>2, <3>1, Since DEF FrameTypes, HurraTypes
  <2> HIDE DEF d
  <2>3. Silence' = Frames!Smaller(Silence + 1, TfTimeout)
    <3>1. ticks \in Nat /\ ticks <= TfTimeout /\ ticks' = ticks
      BY <1>1, <1>2 DEF HurraTypes
    <3>2. Silence = Frames!Smaller(ticks + Frames!Smaller(d, TfTimeout), TfTimeout)
      BY <1>1, <1>5 DEF Silence, Frames!TfTicks, Frames!Elapsed, d
    <3>3. Silence' = Frames!Smaller(ticks + Frames!Smaller(d + 1, TfTimeout), TfTimeout)
      BY <1>1, <1>2, <1>5, <2>2, <3>1 DEF Silence, Frames!TfTicks, Frames!Elapsed
    <3> QED BY <1>1, <2>1, <3>1, <3>2, <3>3 DEF Frames!Smaller
  <2>4. HurraTypes'
    BY <1>2, <1>4, <2>1, <2>2 DEF HurraTypes
  <2>5. LineTypes'
    BY <1>2, <1>5 DEF LineTypes
  <2> QED BY <1>3, <1>5, <2>3, <2>4, <2>5
<1>6. CASE parser = "ferrum"
  <2>1. HurraTypes'
    BY <1>2, <1>6 DEF HurraTypes
  <2>2. ASSUME fragment # <<>> PROVE Silence' = Silence + 1
    <3>1. Silence = (frNow - lastByte) % ClockRange /\ Silence \in Nat
      BY <1>6, SilenceType DEF Silence
    <3>2. Silence < ClockRange - 1
      <4>1. CASE rx = <<>>
        BY <1>1, <1>2, <1>4, <1>6, <2>2, <3>1, <4>1 DEF RestInv
      <4>2. CASE rx # <<>>
        BY <1>1, <1>2, <1>4, <1>6, <2>2, <3>1, <4>2 DEF LineTypes
      <4> QED BY <4>1, <4>2
    <3>3. Silence' = (((frNow + 1) % ClockRange) - lastByte) % ClockRange
      BY <1>2, <1>6 DEF Silence
    <3> QED BY <1>1, <3>1, <3>2, <3>3, Since DEF FrameTypes, LineTypes
  <2>3. LineTypes'
    <3>1. fragment # <<>> /\ rx # <<>> => Silence' <= Frames!Cap' + frLag'
      <4> SUFFICES ASSUME fragment # <<>>, rx # <<>> PROVE Silence' <= Frames!Cap' + frLag'
        OBVIOUS
      <4>1. Silence <= Frames!Cap + frLag /\ Silence \in Nat /\ Frames!Cap' = Frames!Cap
        BY <1>6, SilenceType DEF LineTypes, Frames!Cap
      <4> QED BY <1>1, <1>2, <1>4, <2>2, <4>1
    <3> QED BY <1>2, <1>6, <3>1 DEF LineTypes
  <2> QED BY <1>3, <1>6, <2>1, <2>2, <2>3
<1> QED BY <1>5, <1>6 DEF FrameTypes

\* The beginning of a message, piece by piece
LEMMA BegunGrows ==
    ASSUME NEW p \in [m : Nat, i : Nat, n : Lengths], NEW k \in Nat, k < p.n
    PROVE  /\ Begun(p, k) \in Seq(Sent) /\ Len(Begun(p, k)) = k
           /\ Append(Begun(p, k), Frames!Piece(p.m, k + 1, p.n)) = Begun(p, k + 1)
           /\ Begun(p, k) = <<>> <=> k = 0
<1>1. p.m \in Nat /\ p.n \in Lengths /\ p.n \in Nat
  BY FrameAssumption
<1>2. \A i \in 1 .. k + 1 : Frames!Piece(p.m, i, p.n) \in Sent
  BY <1>1 DEF Sent, Frames!Piece
<1>3. /\ Begun(p, k) \in Seq(Sent) /\ Len(Begun(p, k)) = k
      /\ \A i \in 1 .. k : Begun(p, k)[i] = Frames!Piece(p.m, i, p.n)
  <2>1. \A i \in 1 .. k : Frames!Piece(p.m, i, p.n) \in Sent
    BY <1>2
  <2> QED BY <2>1, IsASeq DEF Begun
<1>4. /\ Begun(p, k + 1) \in Seq(Sent) /\ Len(Begun(p, k + 1)) = k + 1
      /\ \A i \in 1 .. k + 1 : Begun(p, k + 1)[i] = Frames!Piece(p.m, i, p.n)
  BY <1>2, IsASeq DEF Begun
<1> DEFINE more == Append(Begun(p, k), Frames!Piece(p.m, k + 1, p.n))
<1>5. /\ more \in Seq(Sent) /\ Len(more) = k + 1
      /\ \A i \in 1 .. k + 1 : more[i] = Frames!Piece(p.m, i, p.n)
  <2>1. Frames!Piece(p.m, k + 1, p.n) \in Sent
    BY <1>2
  <2>2. /\ more \in Seq(Sent) /\ Len(more) = k + 1
        /\ \A i \in 1 .. k : more[i] = Begun(p, k)[i]
        /\ more[k + 1] = Frames!Piece(p.m, k + 1, p.n)
    BY <1>3, <2>1, AppendProperties
  <2>3. \A i \in 1 .. k + 1 : i \in 1 .. k \/ i = k + 1
    OBVIOUS
  <2> QED BY <1>3, <2>2, <2>3
<1> HIDE DEF more
<1>6. more = Begun(p, k + 1)
  BY <1>4, <1>5, SeqEqual
<1>7. Begun(p, k) = <<>> <=> k = 0
  <2>1. Begun(p, k) = <<>> => Len(Begun(p, k)) = 0
    BY EmptySeq
  <2>2. Begun(p, k) # <<>> => Len(Begun(p, k)) # 0
    BY <1>3, EmptySeq
  <2> QED BY <1>3, <2>1, <2>2
<1> QED BY <1>3, <1>6, <1>7 DEF more

\* A good piece that is not the first of its message finds others of it collected.
LEMMA ReadyToGoOn ==
    ASSUME NEW p \in Sent, Ready(p), p.i > 1
    PROVE  fragment # <<>>
<1>0. p \in [m : Nat, i : Nat, n : Lengths] /\ p.i <= p.n /\ p.i \in Nat /\ p.n \in Nat
  BY FrameAssumption DEF Sent
<1>1. p.i - 1 \in Nat /\ p.i - 1 < p.n /\ p.i - 1 # 0
  BY <1>0
<1>2. fragment = Begun(p, p.i - 1)
  BY DEF Ready, Collected
<1> QED BY <1>0, <1>1, <1>2, BegunGrows

\* Time alone changes nothing in what is good.
LEMMA MillisecondFrames == ASSUME FrameInv, Frames!Millisecond PROVE FrameInv'
<1>1. FrameTypes /\ HurraTypes /\ LineTypes /\ QueueInv /\ RestInv
  BY DEF FrameInv
<1>2. /\ ClockRange \in Nat \ {0} /\ TfTimeout \in Nat \ {0} /\ Frames!Cap \in Nat
      /\ LoopLag \in Nat \ {0} /\ Frames!Tolerated \in Nat
      /\ parser = "hurra" => Frames!Tolerated = TfTimeout - 1
  BY FrameNumbers
<1>3. /\ frLag < LoopLag /\ frLag' = frLag + 1 /\ quiet' = Frames!Smaller(quiet + 1, Frames!Cap)
      /\ parser = "ferrum" /\ fragment # <<>> => quiet < Frames!Cap
      /\ UNCHANGED <<parser, rx, fragment, need, overflow, message, clean, sound, due, obeyed>>
  BY DEF Frames!Millisecond, Frames!tinyframe, Frames!line
<1>4. /\ HurraTypes' /\ LineTypes' /\ frNow' \in 0 .. ClockRange - 1
      /\ parser = "hurra" => Silence' = Frames!Smaller(Silence + 1, TfTimeout)
      /\ parser = "ferrum" /\ fragment # <<>> => Silence' = Silence + 1
  BY <1>1, SilenceGrows
<1>5. /\ frLag \in Nat /\ quiet \in Nat /\ quiet <= Frames!Cap /\ parser \in {"hurra", "ferrum"}
      /\ Silence \in Nat /\ (parser = "hurra" => Silence <= TfTimeout)
  BY <1>1, <1>2, SilenceType DEF FrameTypes
<1>6. /\ quiet' \in Nat /\ quiet' <= Frames!Cap /\ quiet' <= quiet + 1
      /\ quiet < Frames!Cap => quiet' = quiet + 1
      /\ quiet = Frames!Cap => quiet' = Frames!Cap
  BY <1>2, <1>3, <1>5 DEF Frames!Smaller
<1>7. /\ Frames!Cap' = Frames!Cap /\ Frames!Tolerated' = Frames!Tolerated
      /\ (Frames!Between)' = Frames!Between
  BY <1>3 DEF Frames!Cap, Frames!Tolerated, Frames!Between
<1>8. FrameTypes'
  BY <1>1, <1>2, <1>3, <1>4, <1>5, <1>6, <1>7 DEF FrameTypes
<1>9. \A q \in Sent : Good(q)' <=> Good(q)
  BY <1>3 DEF Good, Frames!Fits
<1>10. fragment # <<>> =>
         /\ Silence' <= Silence + 1
         /\ Silence' = Silence + 1 \/ (parser = "hurra" /\ Silence' = TfTimeout)
  BY <1>2, <1>4, <1>5 DEF Frames!Smaller
<1>11. ASSUME NEW q \in Sent, Ready(q) PROVE Ready(q)'
  <2>1. CASE q.i > 1
    <3>1. Silence' <= Silence + 1
      BY <1>10, <1>11, <2>1, ReadyToGoOn
    <3>2. Collected(q, q.i - 1)'
      BY <1>3, <1>11, <2>1 DEF Ready, Collected, NotOverlong, Begun
    <3>3. LoopLag <= Frames!Tolerated /\ Silence <= Frames!Tolerated - LoopLag + frLag
      BY <1>11, <2>1 DEF Ready
    <3>4. Silence' \in Nat
      BY <1>2, <1>4, <1>5, <1>11, <2>1, ReadyToGoOn DEF Frames!Smaller
    <3>5. Silence' <= Frames!Tolerated' - LoopLag + frLag'
      BY <1>2, <1>3, <1>5, <1>7, <3>1, <3>3, <3>4
    <3> QED BY <1>7, <2>1, <3>2, <3>3, <3>5 DEF Ready
  <2>2. CASE q.i = 1 /\ Clear
    BY <1>3, <2>2 DEF Ready, Clear, NotOverlong
  <2>3. CASE q.i = 1 /\ fragment # <<>> /\ Silence > Frames!Tolerated
    <3>1. Silence' > Frames!Tolerated
      BY <1>2, <1>5, <1>10, <2>3
    <3> QED BY <1>3, <1>7, <2>3, <3>1 DEF Ready
  <2> QED BY <1>11, <2>1, <2>2, <2>3 DEF Ready
<1>12. QueueInv'
  <2>1. \A j \in 1 .. Len(rx) : rx[j] \in Sent
    BY <1>1, ElementOfSeq DEF FrameTypes
  <2>2. \A j \in 2 .. Len(rx) : Follows(rx[j - 1], rx[j]) => Follows(rx[j - 1], rx[j])'
    BY <1>3, <1>7 DEF Follows, Good, Frames!Fits
  <2>3. \A j \in 2 .. Len(rx') : Good(rx[j])' => Follows(rx[j - 1], rx[j])'
    <3>1. Len(rx) \in Nat /\ \A j \in 2 .. Len(rx) : j \in 1 .. Len(rx)
      BY <1>1, LenProperties DEF FrameTypes
    <3> QED BY <1>1, <1>3, <1>9, <2>1, <2>2, <3>1 DEF QueueInv
  <2>4. rx # <<>> /\ Good(rx[1])' => Ready(rx[1])'
    <3> SUFFICES ASSUME rx # <<>>, Good(rx[1])' PROVE Ready(rx[1])'
      OBVIOUS
    <3>1. 1 \in 1 .. Len(rx)
      BY <1>1, EmptySeq, LenProperties DEF FrameTypes
    <3> DEFINE q == rx[1]
    <3>2. q \in Sent /\ rx'[1] = q
      BY <1>3, <2>1, <3>1
    <3>3. Good(q)' /\ (Good(q) => Ready(q))
      BY <1>1, <3>2 DEF QueueInv
    <3>4. Ready(q)'
      BY <1>9, <1>11, <3>2, <3>3
    <3> QED BY <3>2, <3>4
  <2>5. rx # <<>> => quiet' <= frLag'
    BY <1>1, <1>3, <1>5, <1>6 DEF QueueInv
  <2>6. \A j \in 1 .. Len(rx') :
          rx'[j].m <= message'.m /\ (Good(rx[j])' => Frames!Fits(rx[j].n)')
    BY <1>1, <1>3, <1>9, <2>1 DEF QueueInv, Frames!Fits
  <2>7. rx # <<>> =>
          /\ rx[Len(rx)] = message
          /\ clean => Frames!Between /\ (parser = "ferrum" \/ message.m \in due)
    BY <1>1 DEF QueueInv
  <2> QED BY <1>3, <1>7, <2>3, <2>4, <2>5, <2>6, <2>7 DEF QueueInv
<1>13. RestInv'
  <2> SUFFICES ASSUME rx = <<>> PROVE RestInv'
    BY <1>3 DEF RestInv
  <2>1. sound /\ Frames!Fits(message.n) /\ ~Frames!Between => Collected(message, message.i)'
    BY <1>1, <1>3 DEF RestInv, Collected, NotOverlong, Begun
  <2>2. clean => Frames!Between /\ Clear'
    BY <1>1, <1>3 DEF RestInv, Clear, NotOverlong
  <2>3. ASSUME fragment # <<>>
        PROVE  /\ Silence' <= quiet' \/ (parser = "hurra" /\ quiet' = Frames!Cap)
               /\ quiet' - LoopLag <= Silence' \/ Frames!Tolerated < Silence'
    <3>1. /\ Silence <= quiet \/ (parser = "hurra" /\ quiet = Frames!Cap)
          /\ quiet - LoopLag <= Silence \/ Frames!Tolerated < Silence
      BY <1>1, <2>3 DEF RestInv
    <3>2. quiet' = quiet + 1 \/ (parser = "hurra" /\ quiet = Frames!Cap /\ quiet' = Frames!Cap)
      <4>1. parser = "hurra" \/ quiet < Frames!Cap
        BY <1>3, <1>5, <2>3
      <4>2. quiet < Frames!Cap \/ quiet = Frames!Cap
        BY <1>2, <1>5
      <4> QED BY <1>6, <4>1, <4>2
    <3>3. Silence' \in Nat
      BY <1>2, <1>5, <1>10, <2>3
    <3>4. Silence' <= quiet' \/ (parser = "hurra" /\ quiet' = Frames!Cap)
      <4>1. Silence' <= Silence + 1
        BY <1>10, <2>3
      <4>2. CASE quiet' = quiet + 1
        <5>1. CASE Silence <= quiet
          BY <1>5, <3>3, <4>1, <4>2, <5>1
        <5>2. CASE quiet = Frames!Cap
          BY <1>5, <1>6, <4>2, <5>2
        <5> QED BY <3>1, <5>1, <5>2
      <4> QED BY <3>2, <4>2
    <3>5. quiet' - LoopLag <= Silence' \/ Frames!Tolerated < Silence'
      <4>1. CASE Silence' = Silence + 1
        <5>0. quiet' \in Nat /\ quiet' <= quiet + 1
          BY <1>6
        <5>3. quiet \in Nat /\ Silence \in Nat /\ LoopLag \in Nat
          BY <1>2, <1>5
        <5>1. CASE quiet - LoopLag <= Silence
          <6>1. ASSUME NEW a \in Nat, NEW b \in Nat, NEW c \in Nat, NEW d \in Nat,
                       NEW l \in Nat, a - l <= b, c <= a + 1, d = b + 1
                PROVE  c - l <= d
            BY <6>1
          <6> QED BY <3>3, <4>1, <5>0, <5>1, <5>3, <6>1
        <5>2. CASE Frames!Tolerated < Silence
          BY <1>2, <1>5, <4>1, <5>2
        <5> QED BY <3>1, <5>1, <5>2
      <4>2. CASE parser = "hurra" /\ Silence' = TfTimeout
        BY <1>2, <4>2
      <4> QED BY <1>10, <2>3, <4>1, <4>2
    <3> QED BY <3>4, <3>5
  <2> QED BY <1>3, <1>7, <2>1, <2>2, <2>3 DEF RestInv, Frames!Fits
<1>14. Frames!MessagesObeyed'
  BY <1>1, <1>3 DEF FrameInv, Frames!MessagesObeyed
<1> QED BY <1>4, <1>8, <1>12, <1>13, <1>14 DEF FrameInv

\* A pass through an empty ring leaves what was collected, and the silence, as they are.
LEMMA TickFrames == ASSUME FrameInv, Frames!Tick PROVE FrameInv'
<1>1. FrameTypes /\ HurraTypes /\ LineTypes /\ QueueInv /\ RestInv
  BY DEF FrameInv
<1>2. /\ rx = <<>> /\ rx' = rx /\ frLag' = 0
      /\ UNCHANGED <<parser, frNow, fragment, need, overflow, message, quiet, clean, sound,
                     due, obeyed>>
  BY DEF Frames!Tick, Frames!line, Frames!host
<1>3. Silence' = Silence /\ HurraTypes' /\ LineTypes'
  BY <1>1, SilenceTicked
<1>4. /\ Frames!Cap' = Frames!Cap /\ Frames!Tolerated' = Frames!Tolerated
      /\ (Frames!Between)' = Frames!Between
  BY <1>2 DEF Frames!Cap, Frames!Tolerated, Frames!Between
<1>5. FrameTypes'
  <2>1. 0 \in 0 .. LoopLag
    BY FrameNumbers
  <2> QED BY <1>1, <1>2, <1>4, <2>1 DEF FrameTypes
<1>6. QueueInv'
  BY <1>2 DEF QueueInv
<1>7. RestInv'
  <2>1. sound /\ Frames!Fits(message.n) /\ ~Frames!Between => Collected(message, message.i)'
    BY <1>1, <1>2 DEF RestInv, Collected, NotOverlong, Begun
  <2>2. clean => Frames!Between /\ Clear'
    BY <1>1, <1>2 DEF RestInv, Clear, NotOverlong
  <2> QED BY <1>1, <1>2, <1>3, <1>4, <2>1, <2>2 DEF RestInv, Frames!Fits
<1>8. Frames!MessagesObeyed'
  BY <1>2 DEF FrameInv, Frames!MessagesObeyed
<1> QED BY <1>3, <1>5, <1>6, <1>7, <1>8 DEF FrameInv

\* A loss costs the messages under way and nothing else: the parser starts afresh.
LEMMA LossFrames == ASSUME FrameInv, Frames!Loss PROVE FrameInv'
<1>1. FrameTypes /\ HurraTypes /\ LineTypes /\ QueueInv /\ RestInv
  BY DEF FrameInv
<1>2. /\ rx' = <<>> /\ fragment' = <<>> /\ clean' = Frames!Between /\ sound' = FALSE
      /\ due' = due \cap obeyed
      /\ UNCHANGED <<parser, frNow, frLag, need, ticks, message, quiet, obeyed>>
      /\ parser = "hurra" => tfTick' = frNow /\ UNCHANGED <<overflow, lastByte>>
      /\ parser # "hurra" => overflow' = FALSE /\ UNCHANGED <<lastByte, tfTick>>
  BY DEF Frames!Loss, Frames!HurraReset, Frames!FerrumReset
<1>3. /\ Frames!Cap' = Frames!Cap /\ (Frames!Between)' = Frames!Between
  BY <1>2 DEF Frames!Cap, Frames!Between
<1>4. FrameTypes'
  <2>1. <<>> \in Seq(Sent) /\ Len(<<>>) = 0 /\ 0 <= RxMax /\ Frames!Between \in BOOLEAN
    BY FrameAssumption DEF Frames!Between
  <2> QED BY <1>1, <1>2, <1>3, <2>1 DEF FrameTypes
<1>5. HurraTypes'
  <2>1. (frNow - frNow) % ClockRange = 0 /\ frLag \in Nat
    BY <1>1, FrameNumbers, Since DEF FrameTypes
  <2> QED BY <1>1, <1>2, <2>1 DEF HurraTypes, FrameTypes
<1>6. LineTypes'
  <2>1. Len(<<>>) <= LineMax
    BY FrameAssumption
  <2> QED BY <1>1, <1>2, <2>1 DEF LineTypes
<1>7. QueueInv'
  BY <1>2 DEF QueueInv
<1>8. RestInv'
  BY <1>1, <1>2, <1>3 DEF RestInv, Clear, NotOverlong, FrameTypes
<1>9. Frames!MessagesObeyed'
  BY <1>2 DEF Frames!MessagesObeyed
<1> QED BY <1>4, <1>5, <1>6, <1>7, <1>8, <1>9 DEF FrameInv

\* What a pass feeds: a piece that was sent, and what the parser keeps of the fragment.
LEMMA FeedTypes ==
    ASSUME FrameTypes, HurraTypes, LineTypes, Frames!Feed
    PROVE  /\ rx[1] \in Sent /\ Head(rx) = rx[1] /\ rx' = Tail(rx)
           /\ rx' \in Seq(Sent) /\ Len(rx) \in Nat \ {0} /\ Len(rx') = Len(rx) - 1
           /\ \A j \in 1 .. Len(rx') : rx'[j] = rx[j + 1]
           /\ FrameTypes' /\ HurraTypes' /\ LineTypes'
<1>1. /\ rx # <<>> /\ rx' = Tail(rx)
      /\ UNCHANGED <<parser, frNow, frLag, message, quiet, clean, sound, due>>
      /\ parser = "hurra" => Frames!HurraFeed(Head(rx))
      /\ parser = "ferrum" => Frames!FerrumFeed(Head(rx))
  BY DEF Frames!Feed, Frames!host
<1>2. /\ rx[1] \in Sent /\ Head(rx) = rx[1] /\ rx' \in Seq(Sent)
      /\ Len(rx) \in Nat \ {0} /\ Len(rx') = Len(rx) - 1
      /\ \A j \in 1 .. Len(rx') : rx'[j] = rx[j + 1]
  <2>1. rx \in Seq(Sent) /\ Len(rx) \in Nat \ {0}
    BY <1>1, EmptySeq, LenProperties DEF FrameTypes
  <2>2. 1 \in 1 .. Len(rx)
    BY <2>1
  <2> QED BY <1>1, <2>1, <2>2, ElementOfSeq, HeadTailProperties
<1> DEFINE p == Head(rx)
<1>3. p \in Sent /\ p.n \in Lengths /\ p.n \in Nat \ {0}
  BY <1>2, FrameAssumption DEF Sent
<1>4. /\ fragment \in Seq(Sent) /\ <<>> \in Seq(Sent) /\ Len(<<>>) = 0
      /\ Append(<<>>, p) \in Seq(Sent) /\ Len(Append(<<>>, p)) = 1
      /\ Append(fragment, p) \in Seq(Sent) /\ Len(Append(fragment, p)) = Len(fragment) + 1
      /\ Append(<<>>, p) # <<>> /\ Append(fragment, p) # <<>> /\ Len(fragment) \in Nat
  <2>1. fragment \in Seq(Sent) /\ <<>> \in Seq(Sent) /\ Len(<<>>) = 0
    BY DEF FrameTypes
  <2>2. /\ Append(<<>>, p) \in Seq(Sent) /\ Len(Append(<<>>, p)) = 1
        /\ Append(fragment, p) \in Seq(Sent) /\ Len(Append(fragment, p)) = Len(fragment) + 1
        /\ Len(fragment) \in Nat
    BY <1>3, <2>1, AppendProperties, LenProperties
  <2> QED BY <2>1, <2>2, EmptySeq
<1>5. (frNow - frNow) % ClockRange = 0 /\ frLag \in Nat /\ frNow \in 0 .. ClockRange - 1
  BY FrameNumbers, Since DEF FrameTypes
<1> HIDE DEF p
<1>6. ASSUME fragment' \in Seq(Sent) PROVE FrameTypes'
  <2>1. Len(rx') <= RxMax
    BY <1>2, FrameAssumption DEF FrameTypes
  <2> QED BY <1>1, <1>2, <1>6, <2>1 DEF FrameTypes, Frames!Cap, Frames!Between
<1>7. CASE parser = "hurra"
  <2> DEFINE kept == IF Frames!TicksBeforeFeed >= TfTimeout THEN <<>> ELSE fragment
             whole == Append(kept, p)
  <2>1. /\ \/ kept = <<>> /\ p.i = 1 /\ need' = p.n
           \/ kept = <<>> /\ p.i # 1 /\ need' \in Lengths \cup {0}
           \/ kept # <<>> /\ need' = need
        /\ fragment' = IF need' = 0 \/ Len(whole) = need' THEN <<>> ELSE whole
        /\ ticks' = 0 /\ tfTick' = frNow /\ overflow' = overflow /\ lastByte' = lastByte
    BY <1>1, <1>7 DEF Frames!HurraFeed, Frames!line, p
  <2>2. /\ need' \in Lengths \cup {0} /\ need' \in Nat
        /\ kept # <<>> => kept = fragment /\ need' = need
    <3>1. need \in Lengths \cup {0} /\ Lengths \subseteq Nat
      BY FrameAssumption DEF HurraTypes
    <3>2. kept # <<>> => kept = fragment
      OBVIOUS
    <3> HIDE DEF kept
    <3>3. need' = p.n \/ need' \in Lengths \cup {0} \/ need' = need
      BY <2>1
    <3>4. need' \in Lengths \cup {0}
      BY <1>3, <3>1, <3>3
    <3>5. kept # <<>> => need' = need
      BY <2>1
    <3> QED BY <3>1, <3>2, <3>4, <3>5
  <2>3. whole \in Seq(Sent) /\ whole # <<>>
    BY <1>4
  <2>4. need' # 0 => Len(whole) <= need'
    <3>1. CASE kept = <<>>
      BY <1>4, <2>2, <3>1
    <3>2. CASE kept # <<>>
      <4>1. Len(fragment) < need /\ need' = need /\ kept = fragment
        BY <1>7, <2>2, <3>2 DEF HurraTypes
      <4> QED BY <1>4, <2>2, <4>1
    <3> QED BY <3>1, <3>2
  <2> HIDE DEF kept
  <2>5. fragment' \in Seq(Sent) /\ (fragment' # <<>> => Len(fragment') < need')
    <3>1. Len(whole) \in Nat
      BY <2>3, LenProperties
    <3> QED BY <1>4, <2>1, <2>2, <2>3, <2>4, <3>1
  <2>6. FrameTypes'
    BY <1>6, <2>5
  <2>7. HurraTypes'
    <3>1. 0 \in 0 .. TfTimeout
      BY FrameNumbers
    <3> QED BY <1>1, <1>5, <2>1, <2>2, <2>5, <3>1 DEF HurraTypes
  <2>8. LineTypes'
    BY <1>1, <1>7, <2>1 DEF LineTypes
  <2> QED BY <1>1, <1>2, <2>6, <2>7, <2>8
<1>8. CASE parser = "ferrum"
  <2> DEFINE kept == IF Frames!IdleGap THEN <<>> ELSE fragment
             tooLong == overflow /\ ~Frames!IdleGap
  <2>1. /\ p.i = p.n => fragment' = <<>> /\ overflow' = FALSE
        /\ p.i # p.n =>
             /\ fragment' = IF Frames!Overlong(kept) THEN kept ELSE Append(kept, p)
             /\ overflow' = (tooLong \/ Frames!Overlong(kept))
        /\ lastByte' = frNow /\ UNCHANGED <<need, ticks, tfTick>>
    BY <1>1, <1>8 DEF Frames!FerrumFeed, Frames!tinyframe, p
  <2>2. /\ kept \in Seq(Sent) /\ Len(kept) \in Nat /\ Len(kept) <= LineMax
        /\ Append(kept, p) \in Seq(Sent) /\ Len(Append(kept, p)) = Len(kept) + 1
        /\ Append(kept, p) # <<>>
    BY <1>4, <1>8, FrameAssumption DEF LineTypes
  <2>3. LineMax \in Nat \ {0} /\ (Len(kept) >= LineMax => kept # <<>>)
    BY <1>4, FrameAssumption
  <2> HIDE DEF kept
  <2>4. fragment' \in Seq(Sent) /\ Len(fragment') <= LineMax
    <3>1. CASE p.i = p.n
      BY <1>4, <2>1, <2>3, <3>1
    <3>2. CASE p.i # p.n /\ Frames!Overlong(kept)
      BY <2>1, <2>2, <3>2
    <3>3. CASE p.i # p.n /\ ~Frames!Overlong(kept)
      <4>1. Len(kept) + 1 <= LineMax
        BY <2>2, <2>3, <3>3 DEF Frames!Overlong
      <4> QED BY <2>1, <2>2, <3>3, <4>1
    <3> QED BY <3>1, <3>2, <3>3
  <2>5. overflow' => fragment' # <<>>
    BY <2>1, <2>2, <2>3 DEF Frames!Overlong
  <2>6. overflow' \in BOOLEAN
    BY <2>1 DEF Frames!Overlong, LineTypes
  <2>7. FrameTypes'
    BY <1>6, <2>4
  <2>8. HurraTypes'
    BY <1>1, <1>8, <2>1 DEF HurraTypes
  <2>9. LineTypes'
    <3>1. Silence' = 0
      BY SilenceFed
    <3>2. Frames!Cap' = Frames!Cap /\ Frames!Cap \in Nat
      BY FrameNumbers DEF Frames!Cap
    <3>3. 0 <= Frames!Cap' + frLag'
      BY <1>1, <1>5, <3>2
    <3> QED BY <1>5, <2>1, <2>4, <2>5, <2>6, <3>1, <3>3 DEF LineTypes
  <2> QED BY <1>1, <1>2, <2>7, <2>8, <2>9
<1> QED BY <1>7, <1>8 DEF FrameTypes

\* A good piece goes to its message, and the last of it has the message obeyed.
LEMMA GoodFed ==
    ASSUME FrameTypes, HurraTypes, LineTypes, Frames!Feed,
           NEW p \in Sent, p = rx[1], Ready(p), Frames!Fits(p.n)
    PROVE  /\ p.i < p.n => Collected(p, p.i)'
           /\ p.i = p.n => Clear' /\ p.m \in obeyed'
<1>1. Head(rx) = p
  BY FeedTypes
<1>2. /\ p \in [m : Nat, i : Nat, n : Lengths] /\ p.i \in Nat \ {0} /\ p.n \in Nat \ {0}
      /\ p.i <= p.n /\ p = Frames!Piece(p.m, p.i, p.n)
  <2>1. p \in [m : Nat, i : Nat, n : Lengths] /\ 1 <= p.i /\ p.i <= p.n
    BY DEF Sent
  <2>2. p.i \in Nat /\ p.n \in Nat \ {0}
    BY <2>1, FrameAssumption
  <2>3. p = Frames!Piece(p.m, p.i, p.n)
    BY <2>1 DEF Frames!Piece
  <2> QED BY <2>1, <2>2, <2>3
<1>3. /\ parser' = parser
      /\ parser = "hurra" => Frames!HurraFeed(p)
      /\ parser = "ferrum" => Frames!FerrumFeed(p)
  BY <1>1 DEF Frames!Feed
<1>4. /\ Append(Begun(p, p.i - 1), p) = Begun(p, p.i)
      /\ Begun(p, p.i - 1) = <<>> <=> p.i = 1
      /\ Len(Begun(p, p.i - 1)) = p.i - 1
  <2>1. p.i - 1 \in Nat /\ p.i - 1 < p.n /\ (p.i - 1) + 1 = p.i /\ (p.i - 1 = 0 <=> p.i = 1)
    BY <1>2
  <2> QED BY <1>2, <2>1, BegunGrows
<1>5. Len(Begun(p, p.i)) = p.i /\ Begun(p, p.n) = Frames!Pieces(p.m, p.n)
  BY <1>2 DEF Begun, Frames!Pieces
<1>6. Begun(p, p.i)' = Begun(p, p.i)
  BY DEF Begun
<1>7. /\ Silence \in Nat /\ Frames!Tolerated \in Nat /\ LoopLag \in Nat /\ frLag \in Nat
      /\ frLag <= LoopLag /\ LineMax \in Nat \ {0} /\ TfTimeout \in Nat \ {0}
      /\ parser = "hurra" => Frames!Tolerated = TfTimeout - 1
      /\ parser = "ferrum" => Frames!Tolerated = FerrumIdle
  BY SilenceType, FrameNumbers, FrameAssumption DEF FrameTypes, Frames!Tolerated
\* What is kept of the fragment is what precedes the piece.
<1>8. \/ fragment = Begun(p, p.i - 1) /\ NotOverlong /\ (p.i > 1 => Silence <= Frames!Tolerated)
      \/ p.i = 1 /\ fragment # <<>> /\ Silence > Frames!Tolerated
  <2>1. CASE p.i > 1
    <3>1. Silence <= Frames!Tolerated
      BY <1>7, <2>1 DEF Ready
    <3> QED BY <2>1, <3>1 DEF Ready, Collected
  <2>2. CASE p.i = 1
    BY <1>4, <2>2 DEF Ready, Clear
  <2> QED BY <1>2, <2>1, <2>2
<1>9. CASE parser = "hurra"
  <2> DEFINE kept == IF Frames!TicksBeforeFeed >= TfTimeout THEN <<>> ELSE fragment
             whole == Append(kept, p)
  <2>1. /\ \/ kept = <<>> /\ p.i = 1 /\ need' = p.n
           \/ kept = <<>> /\ p.i # 1 /\ need' \in Lengths \cup {0}
           \/ kept # <<>> /\ need' = need
        /\ fragment' = IF need' = 0 \/ Len(whole) = need' THEN <<>> ELSE whole
        /\ obeyed' = IF need' # 0 /\ whole = Frames!Pieces(p.m, need')
                     THEN obeyed \cup {p.m} ELSE obeyed
    BY <1>3, <1>9 DEF Frames!HurraFeed
  <2>2. kept = Begun(p, p.i - 1)
    <3>1. Silence = Frames!TicksBeforeFeed
      BY <1>9 DEF Silence, Frames!TicksBeforeFeed
    <3>2. CASE p.i = 1
      BY <1>4, <1>7, <1>8, <1>9, <3>1, <3>2
    <3>3. CASE p.i # 1
      <4>1. Silence <= Frames!Tolerated /\ fragment = Begun(p, p.i - 1)
        BY <1>2, <1>8, <3>3
      <4>2. ~(Frames!TicksBeforeFeed >= TfTimeout)
        BY <1>7, <1>9, <3>1, <4>1
      <4> QED BY <4>1, <4>2
    <3> QED BY <3>2, <3>3
  <2>3. need' = p.n
    <3>1. CASE p.i = 1
      BY <1>4, <2>1, <2>2, <3>1
    <3>2. CASE p.i # 1
      <4>1. need = p.n
        BY <1>2, <1>9, <3>2 DEF Ready, Collected
      <4> QED BY <1>4, <2>1, <2>2, <3>2, <4>1
    <3> QED BY <3>1, <3>2
  <2> HIDE DEF kept
  <2>4. whole = Begun(p, p.i)
    BY <1>4, <2>2
  <2> HIDE DEF whole
  <2>5. p.i < p.n => Collected(p, p.i)'
    BY <1>2, <1>3, <1>5, <1>6, <1>9, <2>1, <2>3, <2>4 DEF Collected, NotOverlong
  <2>6. p.i = p.n => Clear' /\ p.m \in obeyed'
    BY <1>2, <1>3, <1>5, <1>9, <2>1, <2>3, <2>4 DEF Clear, NotOverlong
  <2> QED BY <2>5, <2>6
<1>10. CASE parser = "ferrum"
  <2> DEFINE kept == IF Frames!IdleGap THEN <<>> ELSE fragment
             tooLong == overflow /\ ~Frames!IdleGap
  <2>1. /\ p.i = p.n =>
             /\ fragment' = <<>> /\ overflow' = FALSE
             /\ obeyed' = IF ~tooLong /\ Append(kept, p) = Frames!Pieces(p.m, p.n)
                          THEN obeyed \cup {p.m} ELSE obeyed
        /\ p.i # p.n =>
             /\ fragment' = IF Frames!Overlong(kept) THEN kept ELSE Append(kept, p)
             /\ overflow' = (tooLong \/ Frames!Overlong(kept))
    BY <1>3, <1>10 DEF Frames!FerrumFeed
  <2>2. kept = Begun(p, p.i - 1) /\ ~tooLong
    <3>1. Frames!IdleGap <=> fragment # <<>> /\ Silence > Frames!Tolerated
      BY <1>7, <1>10, FrameNumbers DEF Silence, Frames!IdleGap
    <3>2. CASE p.i = 1
      BY <1>4, <1>7, <1>8, <1>10, <3>1, <3>2 DEF NotOverlong
    <3>3. CASE p.i # 1
      <4>1. Silence <= Frames!Tolerated /\ fragment = Begun(p, p.i - 1) /\ NotOverlong
        BY <1>2, <1>8, <3>3
      <4>2. ~Frames!IdleGap
        BY <1>7, <3>1, <4>1
      <4> QED BY <1>10, <4>1, <4>2 DEF NotOverlong
    <3> QED BY <3>2, <3>3
  <2>3. p.i # p.n => ~Frames!Overlong(kept)
    <3>1. p.n - 1 <= LineMax
      BY <1>10 DEF Frames!Fits
    <3> QED BY <1>2, <1>4, <1>7, <2>2, <3>1 DEF Frames!Overlong
  <2> HIDE DEF kept, tooLong
  <2>4. Append(kept, p) = Begun(p, p.i)
    BY <1>4, <2>2
  <2>5. p.i < p.n => Collected(p, p.i)'
    <3>1. p.i < p.n => p.i # p.n
      BY <1>2
    <3> QED BY <1>3, <1>6, <1>10, <2>1, <2>2, <2>3, <2>4, <3>1 DEF Collected, NotOverlong
  <2>6. p.i = p.n => Clear' /\ p.m \in obeyed'
    BY <1>5, <2>1, <2>2, <2>4 DEF Clear, NotOverlong
  <2> QED BY <2>5, <2>6
<1> QED BY <1>9, <1>10 DEF FrameTypes

\* The ring's next piece, if good, followed the one the parser is fed.
LEMMA FeedFrames == ASSUME FrameInv, Frames!Feed PROVE FrameInv'
<1>1. FrameTypes /\ HurraTypes /\ LineTypes /\ QueueInv
  BY DEF FrameInv
<1>2. /\ rx # <<>>
      /\ UNCHANGED <<parser, frNow, frLag, message, quiet, clean, sound, due>>
  BY DEF Frames!Feed, Frames!host
<1>3. /\ rx[1] \in Sent /\ Head(rx) = rx[1] /\ rx' \in Seq(Sent)
      /\ Len(rx) \in Nat \ {0} /\ Len(rx') = Len(rx) - 1
      /\ \A j \in 1 .. Len(rx') : rx'[j] = rx[j + 1]
      /\ FrameTypes' /\ HurraTypes' /\ LineTypes'
  BY <1>1, FeedTypes
<1>4. PICK p \in Sent : p = rx[1]
  BY <1>3
<1>5. p.i \in Nat /\ p.n \in Nat /\ p.i <= p.n /\ p.m \in Nat /\ p.n \in Lengths
  BY FrameAssumption DEF Sent
<1>6. Good(p) => /\ p.i < p.n => Collected(p, p.i)'
                 /\ p.i = p.n => Clear' /\ p.m \in obeyed'
  <2> SUFFICES ASSUME Good(p) PROVE /\ p.i < p.n => Collected(p, p.i)'
                                    /\ p.i = p.n => Clear' /\ p.m \in obeyed'
    OBVIOUS
  <2>1. 1 \in 1 .. Len(rx)
    BY <1>3
  <2>2. Ready(p) /\ Frames!Fits(p.n)
    BY <1>1, <1>2, <1>4, <2>1 DEF QueueInv
  <2> QED BY <1>1, <1>4, <2>2, GoodFed
<1>7. Silence' = 0
  BY <1>1, SilenceFed
<1>8. /\ frLag \in Nat /\ LoopLag \in Nat /\ quiet \in Nat /\ frLag <= LoopLag
      /\ Frames!Tolerated' = Frames!Tolerated /\ Frames!Tolerated \in Nat
      /\ (Frames!Between)' = Frames!Between
      /\ \A n : Frames!Fits(n)' <=> Frames!Fits(n)
  BY <1>1, <1>2, FrameNumbers
     DEF FrameTypes, Frames!Tolerated, Frames!Between, Frames!Fits, Frames!Cap
\* The end of a line is the end of what was collected.
<1>9. parser = "ferrum" /\ p.i = p.n => Clear'
  <2> SUFFICES ASSUME parser = "ferrum", p.i = p.n PROVE Clear'
    OBVIOUS
  <2>1. fragment' = <<>> /\ overflow' = FALSE
    BY <1>3, <1>4 DEF Frames!Feed, Frames!FerrumFeed
  <2> QED BY <2>1 DEF Clear, NotOverlong
<1>10. QueueInv'
  <2>1. \A j \in 1 .. Len(rx') :
          rx'[j].m <= message'.m /\ (Good(rx[j])' => Frames!Fits(rx[j].n)')
    <3> SUFFICES ASSUME NEW j \in 1 .. Len(rx')
                 PROVE  rx'[j].m <= message'.m /\ (Good(rx[j])' => Frames!Fits(rx[j].n)')
      OBVIOUS
    <3>1. j + 1 \in 1 .. Len(rx) /\ rx'[j] = rx[j + 1]
      BY <1>3
    <3>2. /\ rx[j + 1].m <= message.m
          /\ Good(rx[j + 1]) => Frames!Fits(rx[j + 1].n)
      BY <1>1, <3>1 DEF QueueInv
    <3>3. Good(rx[j])' => Good(rx[j + 1])
      BY <1>2, <3>1 DEF Good, Frames!Fits
    <3> QED BY <1>2, <3>1, <3>2, <3>3 DEF Frames!Fits
  <2>2. \A j \in 2 .. Len(rx') : Good(rx[j])' => Follows(rx[j - 1], rx[j])'
    <3> SUFFICES ASSUME NEW j \in 2 .. Len(rx'), Good(rx[j])'
                 PROVE  Follows(rx[j - 1], rx[j])'
      OBVIOUS
    <3>1. /\ j + 1 \in 2 .. Len(rx) /\ rx'[j] = rx[j + 1]
          /\ j - 1 \in 1 .. Len(rx') /\ rx'[j - 1] = rx[j] /\ (j + 1) - 1 = j
      <4>1. j \in 1 .. Len(rx') /\ j - 1 \in 1 .. Len(rx') /\ (j - 1) + 1 = j
        BY <1>3
      <4> QED BY <1>3, <4>1
    <3>2. Good(rx[j + 1])
      BY <1>2, <3>1 DEF Good, Frames!Fits
    <3>3. Follows(rx[j], rx[j + 1])
      BY <1>1, <3>1, <3>2 DEF QueueInv
    <3> QED BY <1>2, <1>8, <3>1, <3>3 DEF Follows
  <2>3. rx' # <<>> => rx'[Len(rx')] = message'
    <3> SUFFICES ASSUME rx' # <<>> PROVE rx'[Len(rx')] = message'
      OBVIOUS
    <3>1. Len(rx') \in 1 .. Len(rx') /\ Len(rx') + 1 = Len(rx)
      BY <1>3, EmptySeq, LenProperties
    <3> QED BY <1>1, <1>2, <1>3, <3>1 DEF QueueInv
  <2>4. ASSUME rx' # <<>>, Good(rx[1])' PROVE Ready(rx[1])'
    <3>1. 1 \in 1 .. Len(rx') /\ 2 \in 2 .. Len(rx) /\ 1 + 1 = 2 /\ 2 - 1 = 1
      BY <1>3, <2>4, EmptySeq, LenProperties
    <3>2. rx'[1] = rx[2] /\ rx'[1] \in Sent
      BY <1>3, <3>1, ElementOfSeq
    <3>3. PICK q \in Sent : q = rx[2] /\ q = rx'[1]
      BY <3>2
    <3>4. Good(q) /\ Follows(p, q)
      <4>1. Good(q)
        BY <1>2, <2>4, <3>3 DEF Good, Frames!Fits
      <4>2. Good(rx[2]) => Follows(rx[1], rx[2])
        BY <1>1, <3>1 DEF QueueInv
      <4> QED BY <1>4, <3>3, <4>1, <4>2
    <3>5. q.i \in Nat /\ q.n \in Nat /\ 1 <= q.i /\ q.i <= q.n
      BY FrameAssumption DEF Sent
    <3>6. CASE q.i > 1
      <4>1. /\ p = [q EXCEPT !.i = @ - 1] /\ LoopLag <= Frames!Tolerated
        BY <3>4, <3>6 DEF Follows
      <4>2. p.m = q.m /\ p.n = q.n /\ p.i = q.i - 1 /\ p.i < p.n
        BY <3>5, <4>1 DEF Sent
      <4>3. Good(p)
        BY <3>4, <4>2 DEF Good
      <4>4. Collected(q, q.i - 1)'
        BY <1>6, <4>2, <4>3 DEF Collected, Begun
      <4>5. 0 <= Frames!Tolerated - LoopLag + frLag
        BY <1>8, <4>1
      <4> QED BY <1>2, <1>7, <1>8, <3>3, <3>6, <4>1, <4>4, <4>5 DEF Ready
    <3>7. CASE q.i = 1
      <4>1. p.i = p.n /\ (parser = "ferrum" \/ Good(p))
        BY <3>4, <3>7 DEF Follows, Good
      <4>2. Clear'
        BY <1>6, <1>9, <4>1
      <4> QED BY <3>3, <3>7, <4>2 DEF Ready
    <3> QED BY <3>5, <3>6, <3>7
  <2>5. rx # <<>> => /\ quiet <= frLag
                     /\ clean => Frames!Between /\ (parser = "ferrum" \/ message.m \in due)
    BY <1>1 DEF QueueInv
  <2> QED BY <1>2, <1>8, <2>1, <2>2, <2>3, <2>4, <2>5 DEF QueueInv
<1>11. RestInv'
  <2> SUFFICES ASSUME rx' = <<>> PROVE RestInv'
    BY DEF RestInv
  <2>1. p = message
    <3>1. Len(rx) = 1
      BY <1>3
    <3> QED BY <1>1, <1>2, <1>4, <3>1 DEF QueueInv
  <2>2. /\ quiet <= frLag
        /\ clean => Frames!Between /\ (parser = "ferrum" \/ message.m \in due)
    BY <1>1, <1>2 DEF QueueInv
  <2>3. sound /\ Frames!Fits(message.n) /\ ~Frames!Between => Collected(p, p.i)'
    <3> SUFFICES ASSUME sound, Frames!Fits(message.n), ~Frames!Between PROVE Collected(p, p.i)'
      OBVIOUS
    <3>1. Good(p) /\ p.i < p.n
      BY <1>5, <2>1 DEF Good, Frames!Between
    <3> QED BY <1>6, <3>1
  <2>4. clean => Frames!Between /\ Clear'
    <3> SUFFICES ASSUME clean PROVE Frames!Between /\ Clear'
      OBVIOUS
    <3>1. p.i = p.n /\ (parser = "ferrum" \/ Good(p)) /\ Frames!Between
      BY <2>1, <2>2 DEF Good, Frames!Between
    <3> QED BY <1>6, <1>9, <3>1
  <2>5. Silence' <= quiet' /\ quiet' - LoopLag <= Silence'
    BY <1>2, <1>7, <1>8, <2>2
  <2> QED BY <1>2, <1>8, <2>1, <2>3, <2>4, <2>5 DEF RestInv, Collected, Begun
<1>12. Frames!MessagesObeyed'
  <2> SUFFICES ASSUME NEW m \in due', m \notin obeyed'
               PROVE  \E j \in DOMAIN rx' : rx'[j] = Frames!Piece(m, rx'[j].n, rx'[j].n)
    BY DEF Frames!MessagesObeyed
  <2>1. m \in due /\ m \notin obeyed
    BY <1>2 DEF Frames!Feed, Frames!HurraFeed, Frames!FerrumFeed, FrameTypes
  <2>2. PICK j \in DOMAIN rx : rx[j] = Frames!Piece(m, rx[j].n, rx[j].n)
    BY <2>1 DEF FrameInv, Frames!MessagesObeyed
  <2>3. DOMAIN rx = 1 .. Len(rx) /\ DOMAIN rx' = 1 .. Len(rx')
    BY <1>1, <1>3, LenProperties DEF FrameTypes
  <2>4. j # 1
    <3> SUFFICES ASSUME j = 1 PROVE FALSE
      OBVIOUS
    <3>1. p.m = m /\ p.i = p.n
      BY <1>4, <2>2 DEF Frames!Piece
    <3>2. Good(p)
      BY <2>1, <3>1 DEF Good
    <3> QED BY <1>6, <3>1, <3>2
  <2>5. j - 1 \in 1 .. Len(rx') /\ (j - 1) + 1 = j
    BY <1>3, <2>3, <2>4
  <2>6. rx'[j - 1] = rx[j]
    BY <1>3, <2>5
  <2> QED BY <2>2, <2>3, <2>5, <2>6
<1> QED BY <1>3, <1>10, <1>11, <1>12 DEF FrameInv

\* What the next piece must be: good only if nothing before it can spoil it, and then
\* the parser or the ring's last piece is ready for it.
Awaited(p, ok) ==
    /\ p \in Sent /\ message.m <= p.m /\ ok \in BOOLEAN
    /\ p.m \notin due
    /\ p.m = message.m => ~Frames!Between /\ p.n = message.n /\ (ok => sound)
    /\ ok /\ Frames!Fits(p.n) =>
         IF rx = <<>> THEN Ready(p) ELSE Follows(message, p)

LEMMA ArriveFrames ==
    ASSUME FrameInv, NEW p, NEW ok, Awaited(p, ok), Frames!Arrive(p, ok)
    PROVE  FrameInv'
<1>1. FrameTypes /\ HurraTypes /\ LineTypes /\ QueueInv /\ RestInv
  BY DEF FrameInv
<1>2. /\ Len(rx) < RxMax /\ rx' = Append(rx, p) /\ message' = p /\ quiet' = 0 /\ sound' = ok
      /\ due' = IF ok /\ p.i = p.n /\ Frames!Fits(p.n) THEN due \cup {p.m} ELSE due
      /\ clean' = (p.i = p.n /\ (ok \/ parser = "ferrum"))
      /\ UNCHANGED <<parser, frNow, frLag, fragment, need, ticks, tfTick, overflow, lastByte,
                     obeyed>>
  BY DEF Frames!Arrive, Frames!tinyframe, Frames!line
<1>3. /\ p \in Sent /\ p.m \in Nat /\ p.i \in Nat /\ p.n \in Nat /\ p.i <= p.n
      /\ message.m \in Nat /\ message.m <= p.m /\ ok \in BOOLEAN
  <2>1. p \in Sent /\ message.m <= p.m /\ ok \in BOOLEAN
    BY DEF Awaited
  <2>2. p.m \in Nat /\ p.i \in Nat /\ p.n \in Nat /\ p.i <= p.n
    BY <2>1, FrameAssumption DEF Sent
  <2>3. message.m \in Nat
    BY <1>1 DEF FrameTypes, Sent, Frames!Piece
  <2> QED BY <2>1, <2>2, <2>3
<1>4. /\ rx' \in Seq(Sent) /\ Len(rx) \in Nat /\ Len(rx') = Len(rx) + 1
      /\ \A j \in 1 .. Len(rx) : rx'[j] = rx[j] /\ rx[j] \in Sent
      /\ rx'[Len(rx) + 1] = p /\ rx' # <<>>
  <2>1. rx \in Seq(Sent) /\ Len(rx) \in Nat
    BY <1>1, LenProperties DEF FrameTypes
  <2>2. /\ rx' \in Seq(Sent) /\ Len(rx') = Len(rx) + 1 /\ rx'[Len(rx) + 1] = p
        /\ \A j \in 1 .. Len(rx) : rx'[j] = rx[j]
    BY <1>2, <1>3, <2>1, AppendProperties
  <2>3. \A j \in 1 .. Len(rx) : rx[j] \in Sent
    BY <2>1, ElementOfSeq
  <2> QED BY <2>1, <2>2, <2>3, EmptySeq
<1>5. /\ frLag \in Nat /\ Frames!Cap \in Nat
      /\ Frames!Cap' = Frames!Cap /\ Frames!Tolerated' = Frames!Tolerated
      /\ \A n : Frames!Fits(n)' <=> Frames!Fits(n)
  BY <1>1, <1>2, FrameNumbers DEF FrameTypes, Frames!Cap, Frames!Tolerated, Frames!Fits
<1>6. Silence' = Silence
  BY <1>2 DEF Silence, Frames!TfTicks, Frames!Elapsed
\* The new piece, if good, may be; and no other becomes so.
<1>7. p.m \in due' \/ (sound' /\ Frames!Fits(p.n)) => ok /\ Frames!Fits(p.n)
  <2>1. p.m \notin due
    BY <1>3 DEF Awaited
  <2> QED BY <1>2, <2>1
<1>8. \A q \in Sent : q.m <= message.m /\ Good(q)' => Good(q)
  <2> SUFFICES ASSUME NEW q \in Sent, q.m <= message.m, Good(q)' PROVE Good(q)
    OBVIOUS
  <2>1. q.m \in Nat
    BY DEF Sent
  <2>2. CASE q.m = p.m
    <3>1. message.m = p.m
      BY <1>3, <2>2
    <3>2. ok /\ Frames!Fits(p.n)
      BY <1>2, <1>7, <2>2 DEF Good, Frames!Fits
    <3> QED BY <2>2, <3>1, <3>2 DEF Awaited, Good
  <2>3. CASE q.m # p.m
    BY <1>2, <2>3 DEF Good
  <2> QED BY <2>2, <2>3
<1>9. FrameTypes'
  <2>1. Len(rx') <= RxMax
    BY <1>2, <1>4, FrameAssumption
  <2>2. due' \subseteq 0 .. p.m
    <3> SUFFICES ASSUME NEW m \in due' PROVE m \in 0 .. p.m
      OBVIOUS
    <3>1. CASE m \in due
      <4>1. m \in 0 .. message.m
        BY <1>1, <3>1 DEF FrameTypes
      <4> QED BY <1>3, <4>1
    <3>2. CASE m = p.m
      BY <1>3, <3>2
    <3> QED BY <1>2, <3>1, <3>2
  <2>3. p.m \in due' => p.i = p.n
    <3>1. p.m \notin due
      BY <1>3 DEF Awaited
    <3> QED BY <1>2, <3>1
  <2>4. 0 \in 0 .. Frames!Cap
    BY <1>5
  <2>5. clean' \in BOOLEAN /\ sound' \in BOOLEAN
    BY <1>2, <1>3
  <2> QED BY <1>1, <1>2, <1>3, <1>4, <1>5, <2>1, <2>2, <2>3, <2>4, <2>5
          DEF FrameTypes, Frames!Between
<1>10. HurraTypes' /\ LineTypes'
  <2>1. HurraTypes'
    BY <1>1, <1>2 DEF HurraTypes
  <2>2. parser = "ferrum" /\ fragment # <<>> => Silence <= Frames!Cap + frLag
    <3> SUFFICES ASSUME parser = "ferrum", fragment # <<>> PROVE Silence <= Frames!Cap + frLag
      OBVIOUS
    <3>1. CASE rx = <<>>
      <4>1. Silence <= quiet /\ quiet \in Nat /\ quiet <= Frames!Cap /\ Silence \in Nat
        BY <1>1, <1>5, <3>1, SilenceType DEF RestInv, FrameTypes
      <4> QED BY <1>5, <4>1
    <3>2. CASE rx # <<>>
      BY <1>1, <3>2 DEF LineTypes
    <3> QED BY <3>1, <3>2
  <2>3. LineTypes'
    BY <1>1, <1>2, <1>5, <1>6, <2>2 DEF LineTypes
  <2> QED BY <2>1, <2>3
<1>11. QueueInv'
  <2>1. \A j \in 1 .. Len(rx') :
          rx'[j].m <= message'.m /\ (Good(rx[j])' => Frames!Fits(rx[j].n)')
    <3> SUFFICES ASSUME NEW j \in 1 .. Len(rx')
                 PROVE  rx'[j].m <= message'.m /\ (Good(rx[j])' => Frames!Fits(rx[j].n)')
      OBVIOUS
    <3>1. CASE j \in 1 .. Len(rx)
      <4>1. PICK q \in Sent : q = rx[j] /\ q = rx'[j]
        BY <1>4, <3>1
      <4>2. q.m <= message.m /\ (Good(q) => Frames!Fits(q.n)) /\ q.m \in Nat
        BY <1>1, <3>1, <4>1 DEF QueueInv, Sent
      <4>3. Good(rx[j])' => Good(q)
        <5>1. Good(rx[j])' => Good(q)'
          BY <1>2, <4>1 DEF Good
        <5> QED BY <1>8, <4>2, <5>1
      <4>4. q.m <= p.m
        BY <1>3, <4>2
      <4> QED BY <1>2, <4>1, <4>2, <4>3, <4>4 DEF Frames!Fits
    <3>2. CASE j = Len(rx) + 1
      <4>1. rx'[j] = p
        BY <1>4, <3>2
      <4>2. Good(rx[j])' => Frames!Fits(p.n)
        BY <1>2, <1>7, <4>1 DEF Good, Frames!Fits
      <4> QED BY <1>2, <1>3, <4>1, <4>2 DEF Frames!Fits
    <3> QED BY <1>4, <3>1, <3>2
  <2>2. \A j \in 2 .. Len(rx') : Good(rx[j])' => Follows(rx[j - 1], rx[j])'
    <3> SUFFICES ASSUME NEW j \in 2 .. Len(rx'), Good(rx[j])'
                 PROVE  Follows(rx[j - 1], rx[j])'
      OBVIOUS
    <3>0. due \subseteq due'
      BY <1>2
    <3>1. j - 1 \in 1 .. Len(rx) /\ rx'[j - 1] = rx[j - 1]
      BY <1>4
    <3>2. CASE j \in 2 .. Len(rx)
      <4>1. PICK q \in Sent : q = rx[j] /\ q = rx'[j]
        <5>1. j \in 1 .. Len(rx)
          BY <1>4, <3>2
        <5> QED BY <1>4, <5>1
      <4>2. Good(q)'
        BY <1>2, <4>1 DEF Good
      <4>3. q.m <= message.m
        <5>1. j \in 1 .. Len(rx)
          BY <1>4, <3>2
        <5> QED BY <1>1, <4>1, <5>1 DEF QueueInv
      <4>4. Follows(rx[j - 1], q)
        BY <1>1, <1>8, <3>2, <4>1, <4>2, <4>3 DEF QueueInv
      <4> QED BY <1>2, <1>5, <3>0, <3>1, <4>1, <4>4 DEF Follows
    <3>3. CASE j = Len(rx) + 1
      <4>1. rx'[j] = p /\ j - 1 = Len(rx) /\ rx # <<>>
        BY <1>4, <3>1, <3>3, EmptySeq
      <4>2. ok /\ Frames!Fits(p.n)
        BY <1>2, <1>7, <4>1 DEF Good, Frames!Fits
      <4>3. Follows(message, p) /\ rx[Len(rx)] = message
        BY <1>1, <4>1, <4>2 DEF Awaited, QueueInv
      <4> QED BY <1>2, <1>5, <3>0, <3>1, <4>1, <4>3 DEF Follows
    <3> QED BY <1>4, <3>2, <3>3
  <2>3. Good(rx[1])' => Ready(rx[1])'
    <3> SUFFICES ASSUME Good(rx[1])' PROVE Ready(rx[1])'
      OBVIOUS
    <3>1. PICK q \in Sent : q = rx'[1] /\ (rx # <<>> => q = rx[1]) /\ (rx = <<>> => q = p)
      <4>1. CASE rx = <<>>
        <5>1. Len(rx) + 1 = 1
          BY <4>1
        <5> QED BY <1>3, <1>4, <4>1, <5>1
      <4>2. CASE rx # <<>>
        <5>1. 1 \in 1 .. Len(rx)
          BY <1>1, <4>2, EmptySeq, LenProperties DEF FrameTypes
        <5> QED BY <1>4, <4>2, <5>1
      <4> QED BY <4>1, <4>2
    <3>2. Good(q)'
      BY <1>2, <3>1 DEF Good
    <3>3. Ready(q)
      <4>1. CASE rx = <<>>
        <5>1. ok /\ Frames!Fits(p.n)
          BY <1>2, <1>7, <3>1, <3>2, <4>1 DEF Good, Frames!Fits
        <5> QED BY <3>1, <4>1, <5>1 DEF Awaited
      <4>2. CASE rx # <<>>
        <5>1. 1 \in 1 .. Len(rx)
          BY <1>1, <4>2, EmptySeq, LenProperties DEF FrameTypes
        <5>2. q.m <= message.m
          BY <1>1, <3>1, <4>2, <5>1 DEF QueueInv
        <5>3. Good(q)
          BY <1>8, <3>2, <5>2
        <5> QED BY <1>1, <3>1, <4>2, <5>3 DEF QueueInv
      <4> QED BY <4>1, <4>2
    <3>4. Collected(q, q.i - 1) => Collected(q, q.i - 1)'
      BY <1>2 DEF Collected, NotOverlong, Begun
    <3>5. Clear => Clear'
      BY <1>2 DEF Clear, NotOverlong
    <3>6. Ready(q)'
      BY <1>2, <1>5, <1>6, <3>3, <3>4, <3>5 DEF Ready
    <3> QED BY <3>1, <3>6 DEF Ready, Collected, Begun
  <2>4. rx'[Len(rx')] = message' /\ quiet' <= frLag'
    BY <1>2, <1>4, <1>5
  <2>5. clean' => (Frames!Between)' /\ (parser' = "ferrum" \/ message'.m \in due')
    <3> SUFFICES ASSUME p.i = p.n, ok \/ parser = "ferrum"
                 PROVE  parser' = "ferrum" \/ message'.m \in due'
      BY <1>2 DEF Frames!Between
    <3>1. CASE parser = "ferrum"
      BY <1>2, <3>1
    <3>2. CASE parser # "ferrum"
      <4>1. Frames!Fits(p.n)
        BY <1>1, <3>2 DEF FrameTypes, Frames!Fits
      <4> QED BY <1>2, <3>2, <4>1
    <3> QED BY <3>1, <3>2
  <2> QED BY <2>1, <2>2, <2>3, <2>4, <2>5 DEF QueueInv
<1>12. RestInv'
  BY <1>4 DEF RestInv
<1>13. Frames!MessagesObeyed'
  <2> SUFFICES ASSUME NEW m \in due', m \notin obeyed'
               PROVE  \E j \in DOMAIN rx' : rx'[j] = Frames!Piece(m, rx'[j].n, rx'[j].n)
    BY DEF Frames!MessagesObeyed
  <2>1. DOMAIN rx = 1 .. Len(rx) /\ DOMAIN rx' = 1 .. Len(rx) + 1
    BY <1>1, <1>4, LenProperties DEF FrameTypes
  <2>2. CASE m \in due
    <3>1. PICK j \in DOMAIN rx : rx[j] = Frames!Piece(m, rx[j].n, rx[j].n)
      BY <1>2, <2>2 DEF FrameInv, Frames!MessagesObeyed
    <3>2. j \in DOMAIN rx' /\ rx'[j] = rx[j]
      BY <1>4, <2>1
    <3> QED BY <3>1, <3>2
  <2>3. CASE m \notin due
    <3>1. m = p.m /\ p.i = p.n
      BY <1>2, <2>3
    <3>2. p = Frames!Piece(m, p.n, p.n)
      BY <1>3, <3>1 DEF Sent, Frames!Piece
    <3>3. Len(rx) + 1 \in DOMAIN rx'
      BY <1>4, <2>1
    <3> QED BY <1>4, <3>2, <3>3
  <2> QED BY <2>2, <2>3
<1> QED BY <1>9, <1>10, <1>11, <1>12, <1>13 DEF FrameInv

\* The host goes on: a pause too long for the parser spoils its message.
LEMMA ContinueFrames == ASSUME FrameInv, Frames!Continue PROVE FrameInv'
<1>1. FrameTypes /\ HurraTypes /\ LineTypes /\ QueueInv /\ RestInv
  BY DEF FrameInv
<1>2. PICK p, ok : /\ p = [message EXCEPT !.i = @ + 1] /\ ok = (sound /\ Frames!Prompt)
                   /\ Frames!Arrive(p, ok) /\ ~Frames!Between
  BY DEF Frames!Continue
<1>3. /\ message \in Sent /\ p \in Sent /\ message.i < message.n
      /\ message.i \in Nat \ {0} /\ message.n \in Nat /\ message.m \in Nat
      /\ p.m = message.m /\ p.n = message.n /\ p.i = message.i + 1
      /\ message = [p EXCEPT !.i = @ - 1] /\ p.i > 1
  <2>1. message \in Sent
    BY <1>1, <1>2 DEF FrameTypes, Frames!Between, Frames!Piece
  <2>2. /\ message \in [m : Nat, i : Nat, n : Lengths] /\ message.n \in Nat
        /\ 1 <= message.i /\ message.i <= message.n /\ message.i # message.n
    BY <1>2, <2>1, FrameAssumption DEF Sent, Frames!Between
  <2>3. p.m = message.m /\ p.n = message.n /\ p.i = message.i + 1
    BY <1>2, <2>2
  <2>4. p \in [m : Nat, i : Nat, n : Lengths] /\ 1 <= p.i /\ p.i <= p.n
    BY <1>2, <2>2, <2>3
  <2>5. p \in Sent
    BY <2>4 DEF Sent
  <2>6. message = [p EXCEPT !.i = @ - 1]
    <3> DEFINE q == [p EXCEPT !.i = @ - 1]
    <3>1. p.i - 1 = message.i
      BY <2>2, <2>3
    <3>2. q \in [m : Nat, i : Nat, n : Lengths] /\ q.m = p.m /\ q.n = p.n /\ q.i = p.i - 1
      BY <2>2, <2>4, <3>1
    <3> HIDE DEF q
    <3>3. message = q
      BY <2>2, <2>3, <3>1, <3>2
    <3> QED BY <3>3 DEF q
  <2>7. p.i > 1
    BY <2>2, <2>3
  <2> QED BY <2>1, <2>2, <2>3, <2>5, <2>6, <2>7
<1>4. /\ ok \in BOOLEAN /\ (ok => sound) /\ message.m \notin due
      /\ ok => quiet + LoopLag <= Frames!Tolerated
  BY <1>1, <1>2 DEF FrameTypes, Frames!Prompt
<1>5. /\ quiet \in Nat /\ LoopLag \in Nat /\ frLag \in Nat /\ Frames!Tolerated \in Nat
      /\ Silence \in Nat
  BY <1>1, FrameNumbers, SilenceType DEF FrameTypes
<1>6. ok => LoopLag <= Frames!Tolerated
  BY <1>4, <1>5
<1>7. ASSUME ok, Frames!Fits(p.n), rx = <<>> PROVE Ready(p)
  <2>1. Collected(message, message.i)
    BY <1>1, <1>2, <1>3, <1>4, <1>7 DEF RestInv
  <2>2. Collected(p, p.i - 1)
    <3>1. p.i - 1 = message.i
      BY <1>3
    <3> QED BY <1>3, <2>1, <3>1 DEF Collected, Begun
  <2>3. fragment # <<>>
    <3>1. message \in [m : Nat, i : Nat, n : Lengths]
      BY <1>3 DEF Sent
    <3> QED BY <1>3, <2>1, <3>1, BegunGrows DEF Collected
  <2>4. Silence <= quiet
    <3>1. Silence <= quiet \/ (parser = "hurra" /\ quiet = Frames!Cap)
      BY <1>1, <1>7, <2>3 DEF RestInv
    <3>2. ~(parser = "hurra" /\ quiet = Frames!Cap)
      <4> SUFFICES ASSUME parser = "hurra", quiet = Frames!Cap PROVE FALSE
        OBVIOUS
      <4>1. /\ Frames!Cap + LoopLag = ClockRange - 1 /\ Frames!Tolerated = TfTimeout - 1
            /\ TfTimeout < ClockRange /\ TfTimeout \in Nat /\ ClockRange \in Nat
        BY FrameNumbers
      <4>2. quiet + LoopLag <= Frames!Tolerated
        BY <1>4, <1>7
      <4> QED BY <4>1, <4>2
    <3> QED BY <3>1, <3>2
  <2>5. Silence <= Frames!Tolerated - LoopLag + frLag
    BY <1>4, <1>5, <1>7, <2>4
  <2> QED BY <1>3, <1>6, <1>7, <2>2, <2>5 DEF Ready
<1>8. ok => Follows(message, p)
  BY <1>3, <1>6 DEF Follows
<1>9. Awaited(p, ok)
  <2>1. message.m <= p.m
    BY <1>3
  <2> QED BY <1>2, <1>3, <1>4, <1>7, <1>8, <2>1 DEF Awaited
<1> QED BY <1>2, <1>9, ArriveFrames

\* The host starts another: after a silence, or after nothing that spoils it.
LEMMA StartFrames == ASSUME FrameInv, Frames!Start PROVE FrameInv'
<1>1. FrameTypes /\ HurraTypes /\ LineTypes /\ QueueInv /\ RestInv
  BY DEF FrameInv
<1>2. PICK n \in Lengths : Frames!Arrive(Frames!Piece(message.m + 1, 1, n),
                                         clean \/ Frames!Paused)
  BY DEF Frames!Start
<1>3. PICK p, ok : /\ p = Frames!Piece(message.m + 1, 1, n) /\ ok = (clean \/ Frames!Paused)
                   /\ Frames!Arrive(p, ok)
  BY <1>2
<1>4. /\ message.m \in Nat /\ p \in Sent /\ p.m = message.m + 1 /\ p.i = 1
      /\ ok \in BOOLEAN /\ p.m \notin due
  <2>1. message.m \in Nat
    BY <1>1 DEF FrameTypes, Sent, Frames!Piece
  <2>2. p.m = message.m + 1 /\ p.i = 1 /\ p.n = n
    BY <1>3 DEF Frames!Piece
  <2>3. p \in Sent
    BY <1>3, <2>1, <2>2, FrameAssumption DEF Sent, Frames!Piece
  <2>4. p.m \notin due
    BY <1>1, <2>1, <2>2 DEF FrameTypes
  <2>5. ok \in BOOLEAN
    BY <1>1, <1>3 DEF FrameTypes, Frames!Paused
  <2> QED BY <2>1, <2>2, <2>3, <2>4, <2>5
<1>5. /\ quiet \in Nat /\ LoopLag \in Nat /\ frLag \in Nat /\ frLag <= LoopLag
      /\ Frames!Tolerated \in Nat /\ Silence \in Nat
      /\ Frames!Paused => quiet > Frames!Tolerated + LoopLag
  BY <1>1, FrameNumbers, SilenceType DEF FrameTypes, Frames!Paused
<1>6. ASSUME ok, rx = <<>> PROVE Ready(p)
  <2>1. CASE clean
    BY <1>1, <1>4, <1>6, <2>1 DEF RestInv, Ready
  <2>2. CASE Frames!Paused
    <3>1. CASE fragment = <<>>
      BY <1>1, <1>4, <3>1 DEF LineTypes, Ready, Clear, NotOverlong
    <3>2. CASE fragment # <<>>
      <4>1. quiet - LoopLag <= Silence \/ Frames!Tolerated < Silence
        BY <1>1, <1>6, <3>2 DEF RestInv
      <4>2. Silence > Frames!Tolerated
        BY <1>5, <2>2, <4>1
      <4> QED BY <1>4, <3>2, <4>2 DEF Ready
    <3> QED BY <3>1, <3>2
  <2> QED BY <1>3, <1>6, <2>1, <2>2
<1>7. ASSUME ok, rx # <<>> PROVE Follows(message, p)
  <2>1. ~Frames!Paused
    BY <1>1, <1>5, <1>7 DEF QueueInv
  <2>2. clean
    BY <1>3, <1>7, <2>1
  <2> QED BY <1>1, <1>4, <1>7, <2>2 DEF QueueInv, Follows, Frames!Between
<1>8. Awaited(p, ok)
  <2>1. message.m <= p.m /\ p.m # message.m
    BY <1>4
  <2> QED BY <1>4, <1>6, <1>7, <2>1 DEF Awaited
<1> QED BY <1>3, <1>8, ArriveFrames

LEMMA FrameInit == Frames!Init => FrameInv
<1> SUFFICES ASSUME Frames!Init PROVE FrameInv
  OBVIOUS
<1>1. /\ parser \in {"hurra", "ferrum"} /\ frNow = 0 /\ frLag = 0 /\ rx = <<>>
      /\ fragment = <<>> /\ need = 0 /\ ticks = 0 /\ tfTick = 0 /\ overflow = FALSE
      /\ lastByte = 0 /\ message = Frames!Piece(0, 0, 0) /\ quiet = 0
      /\ clean = TRUE /\ sound = TRUE /\ due = {}
  BY DEF Frames!Init
<1>2. Frames!Between
  BY <1>1 DEF Frames!Between, Frames!Piece
<1>3. FrameTypes
  <2>1. 0 \in 0 .. ClockRange - 1 /\ 0 \in 0 .. LoopLag /\ 0 \in 0 .. Frames!Cap
    BY FrameNumbers
  <2>2. <<>> \in Seq(Sent) /\ Len(<<>>) = 0 /\ 0 <= RxMax
    BY FrameAssumption
  <2> QED BY <1>1, <1>2, <2>1, <2>2 DEF FrameTypes
<1>4. HurraTypes
  <2>1. 0 \in 0 .. ClockRange - 1 /\ (0 - 0) % ClockRange = 0
    <3>1. ClockRange \in Nat \ {0} /\ 0 \in 0 .. ClockRange - 1
      BY FrameNumbers
    <3> QED BY <3>1, Since
  <2>2. 0 \in 0 .. TfTimeout
    BY FrameNumbers
  <2> QED BY <1>1, <2>1, <2>2 DEF HurraTypes
<1>5. LineTypes
  <2>1. 0 \in 0 .. ClockRange - 1 /\ Len(<<>>) = 0 /\ 0 <= LineMax
    BY FrameNumbers, FrameAssumption
  <2> QED BY <1>1, <2>1 DEF LineTypes
<1>6. QueueInv
  BY <1>1 DEF QueueInv
<1>7. RestInv
  BY <1>1, <1>2 DEF RestInv, Clear, NotOverlong
<1>8. Frames!MessagesObeyed
  BY <1>1 DEF Frames!MessagesObeyed
<1> QED BY <1>3, <1>4, <1>5, <1>6, <1>7, <1>8 DEF FrameInv

\* Every state of the command path: the framing keeps what it has, the other parts let it be.
THEOREM FramesInductive == MCSpec => []FrameInv
<1>1. MCInit => FrameInv
  BY FrameInit DEF MCInit
<1>2. FrameInv /\ [MCNext]_<<vars, parsers, part>> => FrameInv'
  <2> SUFFICES ASSUME FrameInv, [MCNext]_<<vars, parsers, part>> PROVE FrameInv'
    OBVIOUS
  <2>1. CASE Frames!Next
    BY <2>1, FeedFrames, TickFrames, LossFrames, ContinueFrames, StartFrames,
       MillisecondFrames DEF Frames!Next
  <2>2. CASE UNCHANGED framevars
    <3>1. /\ UNCHANGED <<parser, frNow, frLag, rx, fragment, need, ticks, tfTick, overflow>>
          /\ UNCHANGED <<lastByte, message, quiet, clean, sound, due, obeyed>>
      BY <2>2 DEF framevars
    <3>2. Silence' = Silence
      BY <3>1 DEF Silence, Frames!TfTicks, Frames!Elapsed
    <3>3. FrameTypes' /\ HurraTypes' /\ LineTypes'
      BY <3>1, <3>2 DEF FrameInv, FrameTypes, HurraTypes, LineTypes, Frames!Cap,
                        Frames!Between
    <3>4. QueueInv'
      BY <3>1, <3>2 DEF FrameInv, QueueInv, Good, Follows, Ready, Collected, Clear,
                        NotOverlong, Begun, Frames!Fits, Frames!Between, Frames!Tolerated
    <3>5. RestInv'
      BY <3>1, <3>2 DEF FrameInv, RestInv, Collected, Clear, NotOverlong, Begun,
                        Frames!Fits, Frames!Between, Frames!Tolerated, Frames!Cap
    <3>6. Frames!MessagesObeyed'
      BY <3>1 DEF FrameInv, Frames!MessagesObeyed
    <3> QED BY <3>3, <3>4, <3>5, <3>6 DEF FrameInv
  <2>3. Frames!Next \/ UNCHANGED framevars
    <3>1. UNCHANGED parsers => UNCHANGED framevars
      BY DEF parsers
    <3> QED BY <3>1 DEF MCNext, Parse
  <2> QED BY <2>1, <2>2, <2>3
<1> QED BY <1>1, <1>2, PTL DEF MCSpec

\* A message that comes as it should is obeyed, for any timeouts, lengths and line buffer
\* (Framing's MessagesObeyed).
THEOREM WholeMessagesObeyed == MCSpec => []MessagesObeyed
<1>1. FrameInv => MessagesObeyed
  BY DEF FrameInv, MessagesObeyed
<1> QED BY <1>1, FramesInductive, PTL

-----------------------------------------------------------------------------
(***************************************************************************)
(* Numbers.  Two folds run over a text's digits: what the accumulator of   *)
(* parse_int has read and what the digits mean.  A fold is the choice of a *)
(* function on the parts of a text, so there is first that the empty text  *)
(* has one such function and that a character more makes one of one, with  *)
(* one step further (FoldStarts, FoldGrows); then the two agree on every   *)
(* text that grows by a character a step, as long as its number fits, and  *)
(* past that the reading stays refused (ReadSoFar).                        *)
(***************************************************************************)

\* The start of the fold f, of "read" and "meant", and its step.
Start(f) == IF f = "read" THEN [ok |-> TRUE, value |-> 0] ELSE 0
Further(f, acc, c) == IF f = "read" THEN Number!Accumulate(acc, c) ELSE acc * 10 + c

\* g is the fold f of every part of s, taken from its last character down.
IsFold(f, g, s) ==
    g = [t \in SUBSET DOMAIN s |->
           IF t = {} THEN Start(f)
           ELSE Further(f, g[t \ {Number!Max(t)}], s[Number!Max(t)])]
OneFold(f, s) == \E g : IsFold(f, g, s) /\ \A h : IsFold(f, h, s) => h = g
FoldOf(f, s) == (CHOOSE g : IsFold(f, g, s))[DOMAIN s]

\* What ParseInt folds.
ReadOf(s) == Number!FoldLeft(Number!Accumulate, [ok |-> TRUE, value |-> 0], s)
MeantOf(s) == Number!FoldLeft(LAMBDA acc, c : acc * 10 + c, 0, s)

\* The naturals are well-founded, as facts about a relation the prover can be given.
LEMMA LessWellFounded ==
    \E R : IsWellFoundedOn(R, Nat) /\ \A x, y \in Nat : y < x => <<y, x>> \in R
<1>1. \A x, y \in Nat : y < x => <<y, x>> \in OpToRel(<, Nat)
  BY DEF OpToRel
<1> QED BY <1>1, NatLessThanWellFounded, Zenon

\* A set of naturals with a member has a least one.
LEMMA LeastIn ==
    ASSUME NEW T, T \subseteq Nat, T # {}
    PROVE  \E x \in T : \A y \in T : x <= y
<1>1. PICK R : IsWellFoundedOn(R, Nat) /\ \A x, y \in Nat : y < x => <<y, x>> \in R
  BY LessWellFounded
<1>2. PICK x \in T : \A y \in T : <<y, x>> \notin R
  BY <1>1, WFMin
<1>3. \A y \in T : ~(y < x)
  BY <1>1, <1>2
<1> QED BY <1>3

\* The greatest position of a part of a text.
LEMMA MaxOfPart ==
    ASSUME NEW n \in Nat, NEW t \in SUBSET (1 .. n), t # {}
    PROVE  Number!Max(t) \in t /\ \A y \in t : y <= Number!Max(t)
<1> DEFINE U == {k \in Nat : \A y \in t : y <= k}
<1>1. n \in U
  OBVIOUS
<1>2. PICK k \in U : \A j \in U : k <= j
  BY <1>1, LeastIn
<1>3. k \in t
  <2>1. SUFFICES ASSUME k \notin t PROVE FALSE
    OBVIOUS
  <2>2. \A y \in t : y <= k - 1
    BY <1>2, <2>1
  <2>3. k # 0
    <3>1. PICK y \in t : TRUE
      OBVIOUS
    <3>2. y \in 1 .. n /\ y <= k
      BY <1>2, <3>1
    <3> QED BY <3>2
  <2>4. k - 1 \in U
    BY <1>2, <2>2, <2>3
  <2> QED BY <1>2, <2>4
<1>4. \E x \in t : \A y \in t : x >= y
  BY <1>2, <1>3
<1>5. Number!Max(t) \in t /\ \A y \in t : Number!Max(t) >= y
  BY <1>4 DEF Number!Max
<1> QED BY <1>5

\* A part that has the last position has it as its greatest.
LEMMA MaxIsLast ==
    ASSUME NEW n \in Nat \ {0}, NEW t \in SUBSET (1 .. n), n \in t
    PROVE  Number!Max(t) = n
<1>1. Number!Max(t) \in t /\ \A y \in t : y <= Number!Max(t)
  BY MaxOfPart
<1>2. Number!Max(t) \in 1 .. n /\ n <= Number!Max(t)
  BY <1>1
<1> HIDE DEF Number!Max
<1> QED BY <1>2

\* A character more, and the fold goes one step further.
LEMMA FoldGrows ==
    ASSUME NEW f, NEW S, NEW s \in Seq(S), NEW c \in S, OneFold(f, s)
    PROVE  /\ OneFold(f, Append(s, c))
           /\ FoldOf(f, Append(s, c)) = Further(f, FoldOf(f, s), c)
<1> DEFINE n == Len(s)
           more == Append(s, c)
<1>1. /\ n \in Nat /\ DOMAIN s = 1 .. n /\ DOMAIN more = 1 .. n + 1
      /\ more[n + 1] = c /\ \A i \in 1 .. n : more[i] = s[i]
  BY AppendProperties, LenProperties
<1>2. PICK g : IsFold(f, g, s) /\ \A h : IsFold(f, h, s) => h = g
  BY DEF OneFold
<1> DEFINE h == [t \in SUBSET (1 .. n + 1) |->
                   IF n + 1 \in t THEN Further(f, g[t \ {n + 1}], c) ELSE g[t]]
<1> HIDE DEF n, more
<1>3. \A t \in SUBSET (1 .. n) : /\ n + 1 \notin t /\ t \in SUBSET (1 .. n + 1)
                                 /\ \A x : t \ {x} \in SUBSET (1 .. n)
  <2>1. TAKE t \in SUBSET (1 .. n)
  <2>2. n + 1 \notin t
    <3>1. n + 1 \notin 1 .. n
      BY <1>1
    <3> QED BY <3>1
  <2>3. t \in SUBSET (1 .. n + 1)
    <3>1. 1 .. n \subseteq 1 .. n + 1
      BY <1>1
    <3> QED BY <3>1
  <2>4. \A x : t \ {x} \in SUBSET (1 .. n)
    BY Zenon
  <2> QED BY <2>2, <2>3, <2>4
<1>4. \A t \in SUBSET (1 .. n + 1) :
        /\ n + 1 \in t => t \ {n + 1} \in SUBSET (1 .. n) /\ Number!Max(t) = n + 1 /\ t # {}
        /\ n + 1 \notin t => t \in SUBSET (1 .. n)
  BY <1>1, MaxIsLast
<1>5. \A t \in SUBSET (1 .. n) : t # {} => more[Number!Max(t)] = s[Number!Max(t)]
  BY <1>1, MaxOfPart
<1>6. \A t \in SUBSET (1 .. n) :
        g[t] = IF t = {} THEN Start(f)
               ELSE Further(f, g[t \ {Number!Max(t)}], s[Number!Max(t)])
  BY <1>1, <1>2 DEF IsFold
<1>7. IsFold(f, h, more)
  <2>1. ASSUME NEW t \in SUBSET (1 .. n + 1)
        PROVE  h[t] = IF t = {} THEN Start(f)
                      ELSE Further(f, h[t \ {Number!Max(t)}], more[Number!Max(t)])
    <3>1. CASE n + 1 \in t
      <4>1. h[t] = Further(f, g[t \ {n + 1}], c)
        BY <3>1
      <4>2. h[t \ {n + 1}] = g[t \ {n + 1}]
        BY <1>3, <1>4, <3>1
      <4> QED BY <1>1, <1>4, <3>1, <4>1, <4>2
    <3>2. CASE n + 1 \notin t
      <4>1. t \in SUBSET (1 .. n) /\ h[t] = g[t]
        BY <1>4, <3>2
      <4>2. h[t \ {Number!Max(t)}] = g[t \ {Number!Max(t)}]
        BY <1>3, <4>1
      <4> QED BY <1>5, <1>6, <4>1, <4>2
    <3> QED BY <3>1, <3>2
  <2>2. h = [t \in SUBSET (1 .. n + 1) |-> h[t]]
    OBVIOUS
  <2> HIDE DEF h
  <2> QED BY <1>1, <2>1, <2>2 DEF IsFold
<1>8. ASSUME NEW k, IsFold(f, k, more) PROVE k = h
  <2> DEFINE r == [t \in SUBSET (1 .. n) |-> k[t]]
  <2>1. \A t \in SUBSET (1 .. n + 1) :
          k[t] = IF t = {} THEN Start(f)
                 ELSE Further(f, k[t \ {Number!Max(t)}], more[Number!Max(t)])
    BY <1>1, <1>8 DEF IsFold
  <2>2. k = [t \in SUBSET (1 .. n + 1) |-> k[t]]
    <3>1. k = [t \in SUBSET (1 .. n + 1) |->
                 IF t = {} THEN Start(f)
                 ELSE Further(f, k[t \ {Number!Max(t)}], more[Number!Max(t)])]
      BY <1>1, <1>8 DEF IsFold
    <3> QED BY <3>1, <2>1
  <2>3. ASSUME NEW t \in SUBSET (1 .. n)
        PROVE  r[t] = IF t = {} THEN Start(f)
                      ELSE Further(f, r[t \ {Number!Max(t)}], s[Number!Max(t)])
    <3>1. r[t] = k[t] /\ r[t \ {Number!Max(t)}] = k[t \ {Number!Max(t)}]
      BY <1>3
    <3> HIDE DEF r
    <3> QED BY <1>3, <1>5, <2>1, <3>1
  <2>4. r = [t \in SUBSET (1 .. n) |-> r[t]]
    OBVIOUS
  <2>5. IsFold(f, r, s)
    <3> HIDE DEF r
    <3> QED BY <1>1, <2>3, <2>4 DEF IsFold
  <2>6. r = g
    BY <1>2, <2>5
  <2>7. \A t \in SUBSET (1 .. n) : k[t] = g[t]
    BY <2>6
  <2>8. ASSUME NEW t \in SUBSET (1 .. n + 1) PROVE k[t] = h[t]
    <3>1. CASE n + 1 \in t
      BY <1>1, <1>4, <2>1, <2>7, <3>1
    <3>2. CASE n + 1 \notin t
      BY <1>4, <2>7, <3>2
    <3> QED BY <3>1, <3>2
  <2>9. h = [t \in SUBSET (1 .. n + 1) |-> h[t]]
    OBVIOUS
  <2> HIDE DEF h
  <2> QED BY <2>2, <2>8, <2>9
<1>9. OneFold(f, more)
  BY <1>7, <1>8 DEF OneFold
<1>10. FoldOf(f, s) = g[1 .. n]
  BY <1>1, <1>2 DEF FoldOf
<1>11. FoldOf(f, more) = h[1 .. n + 1]
  BY <1>1, <1>7, <1>8 DEF FoldOf
<1>12. h[1 .. n + 1] = Further(f, g[1 .. n], c)
  <2>1. n + 1 \in 1 .. n + 1 /\ (1 .. n + 1) \ {n + 1} = 1 .. n
    BY <1>1
  <2> QED BY <2>1
<1> QED BY <1>9, <1>10, <1>11, <1>12 DEF more

\* The fold of the empty text.
LEMMA FoldStarts == ASSUME NEW f PROVE OneFold(f, <<>>) /\ FoldOf(f, <<>>) = Start(f)
<1> DEFINE g == [t \in {{}} |-> Start(f)]
<1>1. DOMAIN <<>> = {}
  BY EmptySeq
<1>2. SUBSET {} = {{}}
  OBVIOUS
<1>3. ASSUME NEW k PROVE IsFold(f, k, <<>>) <=> k = g
  <2>1. IsFold(f, k, <<>>) <=>
          k = [t \in {{}} |-> IF t = {} THEN Start(f)
                 ELSE Further(f, k[t \ {Number!Max(t)}], <<>>[Number!Max(t)])]
    BY <1>1, <1>2 DEF IsFold
  <2> QED BY <2>1
<1> HIDE DEF g
<1>4. OneFold(f, <<>>)
  <2>1. IsFold(f, g, <<>>) /\ \A k : IsFold(f, k, <<>>) => k = g
    BY <1>3
  <2> QED BY <2>1, Zenon DEF OneFold
<1>5. (CHOOSE k : IsFold(f, k, <<>>)) = g
  BY <1>3
<1>6. FoldOf(f, <<>>) = g[{}]
  BY <1>1, <1>5 DEF FoldOf
<1> QED BY <1>4, <1>6 DEF g

\* What ParseInt folds are these two.
LEMMA FoldsAreThese ==
    ASSUME NEW s
    PROVE  /\ OneFold("read", s) => ReadOf(s) = FoldOf("read", s)
           /\ OneFold("meant", s) => MeantOf(s) = FoldOf("meant", s)
<1> DEFINE IsRead(g) ==
             g = [t \in SUBSET DOMAIN s |->
                    IF t = {} THEN [ok |-> TRUE, value |-> 0]
                    ELSE Number!Accumulate(g[t \ {Number!Max(t)}], s[Number!Max(t)])]
           IsMeant(g) ==
             g = [t \in SUBSET DOMAIN s |->
                    IF t = {} THEN 0 ELSE g[t \ {Number!Max(t)}] * 10 + s[Number!Max(t)]]
<1>1. ReadOf(s) = (CHOOSE g : IsRead(g))[DOMAIN s]
  BY DEF ReadOf, Number!FoldLeft, Number!MapThenFoldSet
<1>2. MeantOf(s) = (CHOOSE g : IsMeant(g))[DOMAIN s]
  BY DEF MeantOf, Number!FoldLeft, Number!MapThenFoldSet
<1>3. \A g : IsRead(g) <=> IsFold("read", g, s)
  BY DEF IsFold, Start, Further
<1>4. \A g : IsMeant(g) <=> IsFold("meant", g, s)
  BY DEF IsFold, Start, Further
<1> HIDE DEF IsRead, IsMeant
<1>5. ASSUME OneFold("read", s) PROVE ReadOf(s) = FoldOf("read", s)
  <2>1. PICK g : IsFold("read", g, s) /\ \A h : IsFold("read", h, s) => h = g
    BY <1>5 DEF OneFold
  <2>2. (CHOOSE k : IsRead(k)) = g /\ (CHOOSE k : IsFold("read", k, s)) = g
    BY <1>3, <2>1
  <2> QED BY <1>1, <2>2 DEF FoldOf
<1>6. ASSUME OneFold("meant", s) PROVE MeantOf(s) = FoldOf("meant", s)
  <2>1. PICK g : IsFold("meant", g, s) /\ \A h : IsFold("meant", h, s) => h = g
    BY <1>6 DEF OneFold
  <2>2. (CHOOSE k : IsMeant(k)) = g /\ (CHOOSE k : IsFold("meant", k, s)) = g
    BY <1>4, <2>1
  <2> QED BY <1>2, <2>2 DEF FoldOf
<1> QED BY <1>5, <1>6

\* What holds of the digits read so far: as long as they are digits and their number fits,
\* the accumulator has that number; it has refused them otherwise.
AllDigits(s) == \A i \in DOMAIN s : s[i] \in Number!Digits
ReadSoFar(s) ==
    LET u == FoldOf("read", s)
        n == FoldOf("meant", s)
    IN  /\ OneFold("read", s) /\ OneFold("meant", s)
        /\ AllDigits(s) => n \in Nat
        /\ AllDigits(s) /\ n <= Number!Top => u = [ok |-> TRUE, value |-> n]
        /\ ~(AllDigits(s) /\ n <= Number!Top) => u = Number!Refused

\* The test before a digit is added is whether it fits, and nothing wraps (ferrum.c:93-95).
LEMMA RoomForDigit ==
    ASSUME NEW n \in Nat, NEW d \in Number!Digits
    PROVE  /\ Number!NoRoom(n, d) <=> n * 10 + d > Number!Top
           /\ n * 10 + d <= Number!Top => (n * 10 + d) % (Number!Top + 1) = n * 10 + d
<1>1. Number!Top \in Nat /\ d \in 0 .. 9
  BY WordAssumption DEF Number!Top, Number!Digits
<1>2. \A top \in Nat, k \in 0 .. 9 : n > (top - k) \div 10 <=> n * 10 + k > top
  OBVIOUS
<1>3. \A x, top \in Nat : x <= top => x % (top + 1) = x
  OBVIOUS
<1>4. n * 10 + d \in Nat
  BY <1>1
<1> QED BY <1>1, <1>2, <1>3, <1>4 DEF Number!NoRoom

\* A character read (ferrum.c:89-96).
LEMMA ReadsOn ==
    ASSUME NEW S, NEW s \in Seq(S), NEW c \in S, ReadSoFar(s)
    PROVE  ReadSoFar(Append(s, c))
<1> DEFINE more == Append(s, c)
           u == FoldOf("read", s)
           n == FoldOf("meant", s)
<1>1. /\ OneFold("read", s) /\ OneFold("meant", s)
      /\ AllDigits(s) => n \in Nat
      /\ AllDigits(s) /\ n <= Number!Top => u = [ok |-> TRUE, value |-> n]
      /\ ~(AllDigits(s) /\ n <= Number!Top) => u = Number!Refused
  BY DEF ReadSoFar
<1>2. /\ OneFold("read", more) /\ FoldOf("read", more) = Number!Accumulate(u, c)
      /\ OneFold("meant", more) /\ FoldOf("meant", more) = n * 10 + c
  BY <1>1, FoldGrows DEF Further
<1>3. AllDigits(more) <=> AllDigits(s) /\ c \in Number!Digits
  <2>1. /\ DOMAIN s = 1 .. Len(s) /\ Len(s) \in Nat /\ DOMAIN more = 1 .. Len(s) + 1
        /\ more[Len(s) + 1] = c /\ \A i \in 1 .. Len(s) : more[i] = s[i]
    BY AppendProperties, LenProperties
  <2> HIDE DEF more
  <2> QED BY <2>1 DEF AllDigits
<1>a. SUFFICES ReadSoFar(more)
  OBVIOUS
<1> HIDE DEF more, u, n
<1>4. CASE c \notin Number!Digits
  <2>1. Number!Accumulate(u, c) = Number!Refused
    BY <1>4 DEF Number!Accumulate
  <2> QED BY <1>2, <1>3, <1>4, <2>1 DEF ReadSoFar
<1>5. CASE c \in Number!Digits /\ ~AllDigits(s)
  <2>1. ~u.ok
    BY <1>1, <1>5 DEF Number!Refused
  <2>2. Number!Accumulate(u, c) = Number!Refused
    BY <2>1 DEF Number!Accumulate
  <2> QED BY <1>2, <1>3, <1>5, <2>2 DEF ReadSoFar
<1>6. CASE c \in Number!Digits /\ AllDigits(s)
  <2>1. n \in Nat /\ c \in 0 .. 9 /\ n * 10 + c \in Nat /\ n <= n * 10 + c
    BY <1>1, <1>6 DEF Number!Digits
  <2>2. Number!Top \in Nat
    BY WordAssumption DEF Number!Top
  <2>3. CASE n > Number!Top
    <3>1. ~u.ok
      BY <1>1, <2>1, <2>2, <2>3 DEF Number!Refused
    <3>2. Number!Accumulate(u, c) = Number!Refused
      BY <3>1 DEF Number!Accumulate
    <3>3. ~(n * 10 + c <= Number!Top)
      BY <2>1, <2>2, <2>3
    <3> QED BY <1>2, <1>3, <1>6, <2>1, <3>2, <3>3 DEF ReadSoFar
  <2>4. CASE n <= Number!Top /\ n * 10 + c > Number!Top
    <3>1. u.value = n
      BY <1>1, <1>6, <2>4
    <3>2. Number!NoRoom(u.value, c)
      BY <1>6, <2>1, <2>4, <3>1, RoomForDigit
    <3>3. Number!Accumulate(u, c) = Number!Refused
      BY <3>2 DEF Number!Accumulate
    <3>4. ~(n * 10 + c <= Number!Top)
      BY <2>1, <2>2, <2>4
    <3> QED BY <1>2, <1>3, <1>6, <2>1, <3>3, <3>4 DEF ReadSoFar
  <2>5. CASE n <= Number!Top /\ n * 10 + c <= Number!Top
    <3>1. u.ok /\ u.value = n
      BY <1>1, <1>6, <2>5
    <3>2. ~Number!NoRoom(n, c) /\ (n * 10 + c) % (Number!Top + 1) = n * 10 + c
      <4>1. ~(n * 10 + c > Number!Top)
        BY <2>1, <2>2, <2>5
      <4> QED BY <1>6, <2>1, <2>5, <4>1, RoomForDigit
    <3>3. Number!Accumulate(u, c) = [ok |-> TRUE, value |-> n * 10 + c]
      BY <1>6, <3>1, <3>2 DEF Number!Accumulate
    <3> QED BY <1>2, <1>3, <1>6, <2>1, <2>5, <3>3 DEF ReadSoFar
  <2> QED BY <2>1, <2>2, <2>3, <2>4, <2>5
<1> QED BY <1>4, <1>5, <1>6

\* The invariant of the text.
TextRead == text \in Seq(Number!Characters) /\ ReadSoFar(Number!Magnitude(text))

\* No digit is read of the empty text.
LEMMA NothingRead == ReadSoFar(<<>>)
<1>1. /\ OneFold("read", <<>>) /\ FoldOf("read", <<>>) = [ok |-> TRUE, value |-> 0]
      /\ OneFold("meant", <<>>) /\ FoldOf("meant", <<>>) = 0
  BY FoldStarts DEF Start
<1>2. AllDigits(<<>>)
  BY EmptySeq DEF AllDigits
<1>3. 0 \in Nat /\ 0 <= Number!Top
  BY WordAssumption DEF Number!Top
<1> QED BY <1>1, <1>2, <1>3 DEF ReadSoFar

\* It holds at first.
LEMMA TextReadInit == Number!Init => TextRead
<1>1. SUFFICES ASSUME Number!Init PROVE TextRead
  OBVIOUS
<1>2. text = <<>>
  BY <1>1 DEF Number!Init
<1>3. Number!Magnitude(text) = <<>>
  BY <1>2 DEF Number!Magnitude, Number!Signed
<1> QED BY <1>2, <1>3, NothingRead DEF TextRead

\* It holds after another character: a sign first, or one for the accumulator.
LEMMA TextReadStep == TextRead /\ Number!Next => TextRead'
<1>1. SUFFICES ASSUME TextRead, NEW c \in Number!Characters, text' = Append(text, c)
               PROVE  TextRead'
  BY DEF Number!Next
<1> DEFINE C == Number!Characters
<1> HIDE DEF C
<1>2. text \in Seq(C) /\ c \in C /\ text' \in Seq(C)
  BY <1>1 DEF TextRead, C
<1>3. ReadSoFar(Number!Magnitude(text))
  BY <1>1 DEF TextRead
<1>4. ReadSoFar(Number!Magnitude(Append(text, c)))
  <2>1. CASE text = <<>>
    <3>1. Append(text, c) = <<c>> /\ Append(text, c) # <<>> /\ Append(text, c)[1] = c
          /\ Tail(Append(text, c)) = <<>>
      BY <1>2, <2>1
    <3>2. Number!Magnitude(text) = <<>>
      BY <2>1 DEF Number!Magnitude, Number!Signed
    <3>3. CASE c \in {Minus, Plus}
      <4>1. Number!Magnitude(Append(text, c)) = <<>>
        BY <3>1, <3>3 DEF Number!Magnitude, Number!Signed
      <4> QED BY <4>1, NothingRead
    <3>4. CASE c \notin {Minus, Plus}
      <4>1. Number!Magnitude(Append(text, c)) = Append(text, c)
        BY <3>1, <3>4 DEF Number!Magnitude, Number!Signed
      <4>2. ReadSoFar(text)
        BY <1>3, <2>1, <3>2
      <4> QED BY <1>2, <4>1, <4>2, ReadsOn
    <3> QED BY <3>3, <3>4
  <2>2. CASE text # <<>>
    <3>1. /\ Append(text, c) # <<>> /\ Append(text, c)[1] = text[1]
          /\ Tail(text) \in Seq(C) /\ Tail(Append(text, c)) = Append(Tail(text), c)
      BY <1>2, <2>2
    <3>2. Number!Signed(Append(text, c)) <=> Number!Signed(text)
      BY <2>2, <3>1 DEF Number!Signed
    <3>3. /\ Number!Magnitude(text) \in Seq(C)
          /\ Number!Magnitude(Append(text, c)) = Append(Number!Magnitude(text), c)
      BY <1>2, <3>1, <3>2 DEF Number!Magnitude
    <3> QED BY <1>2, <1>3, <3>3, ReadsOn
  <2> QED BY <2>1, <2>2
<1>5. ReadSoFar(Number!Magnitude(text))'
  BY <1>1, <1>4
<1> QED BY <1>2, <1>5 DEF TextRead, C

\* What is accumulated is then held against the range of the sign (ferrum.c:98-104).
LEMMA TextReadExactly == TextRead => Number!ReadExactly
<1> DEFINE m == Number!Magnitude(text)
           n == FoldOf("meant", m)
           u == FoldOf("read", m)
<1>1. SUFFICES ASSUME TextRead PROVE Number!ReadExactly
  OBVIOUS
<1>2. /\ OneFold("read", m) /\ OneFold("meant", m)
      /\ AllDigits(m) => n \in Nat
      /\ AllDigits(m) /\ n <= Number!Top => u = [ok |-> TRUE, value |-> n]
      /\ ~(AllDigits(m) /\ n <= Number!Top) => u = Number!Refused
  BY <1>1 DEF TextRead, ReadSoFar
<1>3. Number!FoldLeft(Number!Accumulate, [ok |-> TRUE, value |-> 0], m) = u
  BY <1>2, FoldsAreThese DEF ReadOf
<1>4. Number!FoldLeft(LAMBDA acc, c : acc * 10 + c, 0, m) = n
  BY <1>2, FoldsAreThese DEF MeantOf
<1> HIDE DEF n, u
<1>5. Number!Meant(text) = IF Number!Negative(text) THEN -n ELSE n
  BY <1>4 DEF Number!Meant
<1>6. Number!Parsed(text) =
        IF m = <<>> \/ ~u.ok THEN Number!Refused
        ELSE IF u.value > (IF Number!Negative(text) THEN HalfTop ELSE HalfTop - 1)
        THEN Number!Refused
        ELSE [ok |-> TRUE, value |-> IF Number!Negative(text) THEN -u.value ELSE u.value]
  BY <1>3 DEF Number!Parsed
<1>7. Number!WellFormed(text) <=> m # <<>> /\ AllDigits(m)
  BY DEF Number!WellFormed, AllDigits
<1> HIDE DEF m
<1>8. /\ ~Number!Refused.ok /\ HalfTop \in Nat \ {0} /\ Number!Top = 2 * HalfTop - 1
  BY WordAssumption DEF Number!Refused, Number!Top
<1>9. CASE m = <<>> \/ ~AllDigits(m)
  <2>1. Number!Parsed(text) = Number!Refused
    BY <1>2, <1>6, <1>8, <1>9
  <2>2. ~Number!WellFormed(text)
    BY <1>7, <1>9
  <2> QED BY <1>8, <2>1, <2>2 DEF Number!ReadExactly
<1>10. CASE m # <<>> /\ AllDigits(m) /\ ~(n <= Number!Top)
  <2>1. Number!Parsed(text) = Number!Refused
    BY <1>2, <1>6, <1>8, <1>10
  <2>2. Number!Meant(text) \notin -HalfTop .. HalfTop - 1
    BY <1>2, <1>5, <1>8, <1>10
  <2> QED BY <1>8, <2>1, <2>2 DEF Number!ReadExactly
<1>11. CASE m # <<>> /\ AllDigits(m) /\ n <= Number!Top
  <2>1. u.ok /\ u.value = n /\ n \in Nat
    BY <1>2, <1>11
  <2>2. Number!WellFormed(text)
    BY <1>7, <1>11
  <2>3. CASE Number!Negative(text)
    <3>1. Number!Meant(text) \in -HalfTop .. HalfTop - 1 <=> ~(n > HalfTop)
      BY <1>5, <1>8, <2>1, <2>3
    <3>2. Number!Parsed(text) = IF n > HalfTop THEN Number!Refused
                                ELSE [ok |-> TRUE, value |-> -n]
      BY <1>6, <1>11, <2>1, <2>3
    <3>3. Number!Meant(text) = -n
      BY <1>5, <2>3
    <3> QED BY <1>8, <2>2, <3>1, <3>2, <3>3 DEF Number!ReadExactly
  <2>4. CASE ~Number!Negative(text)
    <3>1. Number!Meant(text) \in -HalfTop .. HalfTop - 1 <=> ~(n > HalfTop - 1)
      BY <1>5, <1>8, <2>1, <2>4
    <3>2. Number!Parsed(text) = IF n > HalfTop - 1 THEN Number!Refused
                                ELSE [ok |-> TRUE, value |-> n]
      BY <1>6, <1>11, <2>1, <2>4
    <3>3. Number!Meant(text) = n
      BY <1>5, <2>4
    <3> QED BY <1>8, <2>2, <3>1, <3>2, <3>3 DEF Number!ReadExactly
  <2> QED BY <2>3, <2>4
<1> QED BY <1>9, <1>10, <1>11

\* A number is read as what it says, or refused exactly when it is none or does not fit a
\* signed word, for words of any size and texts of any length (ParseInt's ReadExactly).
THEOREM NumbersReadExactly == MCSpec => []ReadExactly
<1>1. MCInit => TextRead
  BY TextReadInit DEF MCInit
<1>2. ASSUME TextRead, [MCNext]_<<vars, parsers, part>> PROVE TextRead'
  <2>1. CASE Number!Next
    BY <1>2, <2>1, TextReadStep
  <2>2. CASE UNCHANGED text
    BY <1>2, <2>2 DEF TextRead
  <2>3. Number!Next \/ UNCHANGED text
    BY <1>2 DEF MCNext, Parse, parsers
  <2> QED BY <2>1, <2>2, <2>3
<1>3. TextRead => ReadExactly
  BY TextReadExactly DEF ReadExactly
<1> QED BY <1>1, <1>2, <1>3, PTL DEF MCSpec

-----------------------------------------------------------------------------
(***************************************************************************)
(* Types: what the invariants above do not say of the tables, registers    *)
(* and counters already.                                                   *)
(***************************************************************************)

ActionTypes ==
    /\ explicit \subseteq Key
    /\ holds \subseteq Buttons /\ shownButtons \subseteq Buttons /\ forgotten \subseteq Buttons

ParserTypes ==
    /\ home \in {"uart", "cdc"} /\ used \in 0 .. TxBytes
    /\ catch.deadline \in 0 .. ClockRange - 1
    /\ enabled \subseteq {"buttons", "axes"}
    /\ lastTold \in Bitmaps \cup {Resend} /\ told \in Bitmaps \cup {Unknown}
    /\ noticed \in BOOLEAN /\ subscribed \in BOOLEAN /\ lost \in BOOLEAN
    /\ baud \in Rates \cup {DefaultRate}

DeferredTypes ==
    /\ newBaud.at \in 0 .. ClockRange - 1 /\ reboot.at \in 0 .. ClockRange - 1
    /\ newBaud.rate \in Rates \cup {0} /\ (newBaud.scheduled => newBaud.rate \in Rates)
    /\ baudAcked \in Rates \cup {DefaultRate}
    /\ baudLeft \in Int /\ rebootLeft \in Int

LEMMA ShownAreButtons == ASSUME HoldsInv, ActionTypes PROVE buttons \subseteq Buttons
<1>1. /\ click.button \in Buttons \cup {None} /\ (click.pressed => click.button # None)
      /\ buttons \subseteq holds \cup (IF click.pressed THEN {click.button} ELSE {})
  BY DEF HoldsInv, ButtonsInv, Sequence
<1> QED BY <1>1 DEF ActionTypes

LEMMA StepKeepsActionTypes ==
    ASSUME HoldsInv, ActionTypes, [Next]_vars
    PROVE  ActionTypes'
<1> USE DEF ActionTypes
<1>1. buttons \subseteq Buttons
  BY ShownAreButtons
<1>2. CASE UNCHANGED vars \/ Millisecond \/ Reset
  BY <1>2 DEF vars, keyVars, buttonVars, Millisecond, Reset
<1>3. CASE KeyCommand
  BY <1>3 DEF KeyCommand, KbDown, KbUp, KbPress, buttonVars
<1>4. CASE ButtonCommand
  <2>1. ASSUME NEW b \in Buttons, NEW down \in BOOLEAN, ButtonSet(b, down)
        PROVE  ActionTypes'
    BY <1>1, <2>1 DEF ButtonSet, ShowButtons, keyVars
  <2>2. ASSUME NEW b \in Buttons, NEW count \in Counts, NEW delay \in Delays,
               Click(b, count, delay)
        PROVE  ActionTypes'
    BY <1>1, <2>2 DEF Click, ShowButtons, keyVars
  <2> QED BY <1>4, <2>1, <2>2 DEF ButtonCommand
<1>5. CASE MotionCommand
  <2>1. ASSUME NEW p \in Programs, StartProgram(p) PROVE ActionTypes'
    BY <2>1 DEF StartProgram, keyVars, buttonVars
  <2>2. CASE Move \/ Wheel
    BY <1>1, <2>2 DEF Move, Wheel, ShowButtons, keyVars
  <2> QED BY <1>5, <2>1, <2>2 DEF MotionCommand
<1>6. CASE ActTick
  <2>1. explicit' = explicit
    BY <1>6 DEF ActTick, KeysTick
  <2>2. CASE ~ClickDue
    <3>1. /\ buttons' = buttons /\ holds' = holds
          /\ \/ shownButtons' = buttons' /\ forgotten' = {}
             \/ shownButtons' = shownButtons /\ forgotten' = forgotten
      BY <1>6, <2>2 DEF ActTick, ClickTick, ShowButtons
    <3> QED BY <1>1, <2>1, <3>1
  <2>3. CASE ClickDue
    <3>1. /\ buttons' = IF click.pressed THEN buttons \ {click.button}
                                         ELSE buttons \cup {click.button}
          /\ shownButtons' = buttons' /\ forgotten' = {} /\ holds' \subseteq holds
      BY <1>6, <2>3 DEF ActTick, ClickTick, ShowButtons
    <3>2. click.button \in Buttons
      BY <2>3 DEF ClickDue, HoldsInv, ButtonsInv, Sequence
    <3> QED BY <1>1, <2>1, <3>1, <3>2
  <2> QED BY <2>2, <2>3
<1> QED BY <1>2, <1>3, <1>4, <1>5, <1>6 DEF Next

LEMMA ActionsTyped == ASSUME HoldsInv, MotionInv, ActionTypes PROVE TypeOK
<1>1. shownKeys \subseteq Key
  BY DEF HoldsInv, KeysInv, SlotsOf, DownKeys, Key
<1>2. buttons \subseteq Buttons
  BY ShownAreButtons
<1>3. /\ keys \in [Slot -> Keys \cup {None}] /\ modifiers \subseteq Modifiers
      /\ click \in [button : Buttons \cup {None}, remaining : Nat,
                    delay : 0 .. Half - 1, at : Time, pressed : BOOLEAN]
      /\ clock \in Time /\ lag \in 0 .. MaxLag
      /\ releases \subseteq [key : Key, at : Time] /\ left \in [Key -> Int]
      /\ clickLeft \in Int
  BY DEF HoldsInv, KeysInv, ButtonsInv, TimesInv, Sequence, SlotsOf
<1> QED BY <1>1, <1>2, <1>3 DEF TypeOK, ActionTypes, MotionInv, Program

LEMMA FramesTyped == FrameInv => Frames!TypeOK
<1>1. Frames!ClockRange = ClockRange
  BY FrameNumbers
<1> QED BY <1>1 DEF FrameInv, FrameTypes, HurraTypes, LineTypes, Frames!TypeOK

\* The transmit ring never holds more than its room, and what is computed modulo the
\* clock's range is a value of the clock.
LEMMA InRoom ==
    ASSUME NEW u \in 0 .. TxBytes, NEW n \in {CatchBytes, TellBytes, ReplyBytes}
    PROVE  Frame!After(u, n) \in 0 .. TxBytes /\ Text!After(u, n) \in 0 .. TxBytes
BY CommandAssumption
   DEF Frame!After, Frame!TakenWhole, Text!After, Text!TakenWhole

LEMMA OnClock ==
    /\ Frame!ClockRange = ClockRange /\ Text!ClockRange = ClockRange
    /\ Frame!Resend = Resend /\ Frame!Unknown = Unknown /\ Text!Unknown = Unknown
    /\ \A x \in Int : x % ClockRange \in 0 .. ClockRange - 1
    /\ 0 \in 0 .. ClockRange - 1
<1>1. ClockRange \in Nat \ {0}
  BY CommandAssumption DEF ClockRange
<1> QED BY <1>1 DEF ClockRange, Frame!ClockRange, Text!ClockRange, Resend, Frame!Resend,
                    Unknown, Frame!Unknown, Text!Unknown

LEMMA DeadlineOnClock ==
    ASSUME now \in 0 .. ClockRange - 1, NEW dur \in Durations
    PROVE  /\ (now + Frame!Clamped(dur)) % ClockRange \in 0 .. ClockRange - 1
           /\ (now + Text!Clamped(dur)) % ClockRange \in 0 .. ClockRange - 1
<1>1. ClockRange \in Nat \ {0} /\ now \in Int
  BY CommandAssumption DEF ClockRange
<1>2. Frame!Clamped(dur) \in Int /\ Text!Clamped(dur) \in Int
  BY CommandAssumption DEF Frame!Clamped, Text!Clamped
<1>3. now + Frame!Clamped(dur) \in Int /\ now + Text!Clamped(dur) \in Int
  BY <1>1, <1>2
<1> QED BY <1>3, OnClock

LEMMA FrameTypesKept ==
    ASSUME Host!Clocked, Host!Shape, ParserTypes, DeferredTypes, Frame!Next
    PROVE  ParserTypes' /\ DeferredTypes'
<1>1. /\ now \in 0 .. ClockRange - 1 /\ now \in Int
      /\ catch \in [active : BOOLEAN, deadline : Int, moved : Int, id : Nat]
      /\ newBaud \in [scheduled : BOOLEAN, at : Int, rate : Nat]
      /\ reboot \in [scheduled : BOOLEAN, at : Int]
      /\ held \in Bitmaps
  <2>1. Host!ClockRange = ClockRange /\ ClockRange \in Nat
    BY CommandAssumption DEF Host!ClockRange, ClockRange
  <2> QED BY <2>1 DEF Host!Clocked, Host!Shape
<1>2. (now + DeferDelay) % ClockRange \in 0 .. ClockRange - 1 /\ DeferDelay \in Int
  <2>1. now + DeferDelay \in Int /\ DeferDelay \in Int
    BY <1>1, CommandAssumption
  <2> QED BY <2>1, OnClock
<1> DEFINE RestKept == UNCHANGED <<newBaud, reboot, baud, baudAcked, baudLeft, rebootLeft>>
<1>3. RestKept => DeferredTypes' /\ baud' = baud
  BY DEF DeferredTypes
<1>4. CASE Frame!Query
  <2>1. /\ UNCHANGED <<home, catch, enabled, lastTold, told, noticed, subscribed, lost>>
        /\ RestKept /\ used' = Frame!After(used, ReplyBytes)
    BY <1>4 DEF Frame!Query, Frame!Reply, Frame!window, Frame!callbacks, Frame!deferred
  <2>2. used' \in 0 .. TxBytes
    BY <2>1, InRoom DEF ParserTypes
  <2> QED BY <1>3, <2>1, <2>2 DEF ParserTypes
<1>5. CASE Frame!AskReboot
  <2>1. /\ UNCHANGED <<home, catch, enabled, lastTold, told, noticed, subscribed, lost>>
        /\ UNCHANGED <<newBaud, baud, baudAcked, baudLeft>>
        /\ used' = Frame!After(used, ReplyBytes)
        /\ reboot'.at = (now + DeferDelay) % ClockRange /\ rebootLeft' = DeferDelay
    BY <1>5, OnClock DEF Frame!AskReboot, Frame!Reply, Frame!window, Frame!callbacks
  <2>2. used' \in 0 .. TxBytes
    BY <2>1, InRoom DEF ParserTypes
  <2> QED BY <1>2, <2>1, <2>2 DEF ParserTypes, DeferredTypes
<1>6. ASSUME NEW dur \in Durations, Frame!CatchXy(dur)
      PROVE  ParserTypes' /\ DeferredTypes'
  <2>1. /\ UNCHANGED <<home, enabled, lastTold, told, noticed, subscribed, lost>>
        /\ RestKept /\ used' \in {used, Frame!After(used, CatchBytes)}
        /\ catch'.deadline = (now + Frame!Clamped(dur)) % ClockRange
    BY <1>6, OnClock DEF Frame!CatchXy, Frame!callbacks, Frame!deferred
  <2>2. used' \in 0 .. TxBytes
    BY <2>1, InRoom DEF ParserTypes
  <2>3. catch'.deadline \in 0 .. ClockRange - 1
    BY <1>1, <2>1, DeadlineOnClock
  <2> QED BY <1>3, <2>1, <2>2, <2>3 DEF ParserTypes
<1>7. ASSUME NEW cb \in {"buttons", "axes"}, NEW on \in BOOLEAN, Frame!Toggle(cb, on)
      PROVE  ParserTypes' /\ DeferredTypes'
  <2>1. /\ UNCHANGED <<home, used, catch, told>> /\ RestKept
        /\ enabled' \in {enabled \cup {cb}, enabled \ {cb}}
        /\ noticed' = (noticed /\ cb # "buttons") /\ lost' = (lost /\ cb # "buttons")
        /\ subscribed' \in {on, subscribed} /\ lastTold' \in {Resend, lastTold}
    BY <1>7, OnClock
       DEF Frame!Toggle, Frame!Switch, Frame!Forgotten, Frame!window, Frame!deferred
  <2>2. enabled' \subseteq {"buttons", "axes"}
    BY <2>1 DEF ParserTypes
  <2>3. noticed' \in BOOLEAN /\ lost' \in BOOLEAN /\ subscribed' \in BOOLEAN
    BY <2>1 DEF ParserTypes
  <2>4. lastTold' \in Bitmaps \cup {Resend}
    BY <2>1 DEF ParserTypes
  <2> QED BY <1>3, <2>1, <2>2, <2>3, <2>4 DEF ParserTypes
<1>8. ASSUME NEW rate \in Rates, Frame!SetBaud(rate) PROVE ParserTypes' /\ DeferredTypes'
  <2>1. /\ UNCHANGED <<home, catch, enabled, lastTold, told, noticed, subscribed, lost>>
        /\ UNCHANGED <<reboot, baud, rebootLeft>>
        /\ used' = Frame!After(used, ReplyBytes)
        /\ newBaud' = [scheduled |-> TRUE, at |-> (now + DeferDelay) % ClockRange,
                       rate |-> rate]
        /\ baudAcked' = rate /\ baudLeft' = DeferDelay
    BY <1>8, OnClock
       DEF Frame!SetBaud, Frame!Reply, Frame!Newest, Frame!window, Frame!callbacks
  <2>2. used' \in 0 .. TxBytes
    BY <2>1, InRoom DEF ParserTypes
  <2>3. newBaud'.at = (now + DeferDelay) % ClockRange /\ newBaud'.rate = rate
    BY <2>1
  <2> QED BY <1>2, <2>1, <2>2, <2>3 DEF ParserTypes, DeferredTypes
<1>9. CASE Frame!Tick
  <2>1. /\ UNCHANGED <<home, enabled, lastTold, told, noticed, subscribed, lost>>
        /\ UNCHANGED <<reboot, baudAcked, baudLeft, rebootLeft>>
        /\ Frame!TickCatch /\ Frame!TickBaud
    BY <1>9 DEF Frame!Tick, Frame!callbacks
  <2>2. used' \in 0 .. TxBytes
    <3>1. used' \in {used, Frame!After(used, CatchBytes)}
      BY <2>1 DEF Frame!TickCatch
    <3> QED BY <3>1, InRoom DEF ParserTypes
  <2>3. catch'.deadline = catch.deadline
    BY <1>1, <2>1 DEF Frame!TickCatch
  <2>4. /\ baud' \in {baud, newBaud.rate} /\ (baud' # baud => newBaud.scheduled)
        /\ newBaud'.at \in {newBaud.at, 0} /\ newBaud'.rate = newBaud.rate
        /\ newBaud'.scheduled => newBaud.scheduled
    <3>1. CASE Frame!BaudDue
      <4>1. /\ baud' \in {baud, newBaud.rate} /\ newBaud.scheduled
            /\ newBaud' = [newBaud EXCEPT !.scheduled = FALSE, !.at = 0]
        BY <2>1, <3>1 DEF Frame!TickBaud, Frame!BaudDue
      <4>2. newBaud'.at = 0 /\ newBaud'.rate = newBaud.rate
        BY <1>1, <4>1
      <4> QED BY <4>1, <4>2
    <3>2. CASE ~Frame!BaudDue
      BY <2>1, <3>2 DEF Frame!TickBaud
    <3> QED BY <3>1, <3>2
  <2>5. newBaud'.at \in 0 .. ClockRange - 1
    BY <2>4, OnClock DEF DeferredTypes
  <2> QED BY <2>1, <2>2, <2>3, <2>4, <2>5 DEF ParserTypes, DeferredTypes
<1>10. CASE Frame!Reboot
  <2>1. /\ home' = home /\ used' = 0 /\ catch' = Frame!NoCatch /\ enabled' = {}
        /\ lastTold' = 0 /\ told' = Unknown
        /\ noticed' = FALSE /\ subscribed' = FALSE /\ lost' = FALSE
        /\ newBaud' = Frame!NoBaud /\ reboot' = Frame!Idle /\ baud' = DefaultRate
        /\ baudAcked' = DefaultRate /\ baudLeft' = 0 /\ rebootLeft' = 0
    BY <1>10, OnClock DEF Frame!Reboot
  <2>2. 0 \in 0 .. TxBytes /\ 0 \in Bitmaps
    BY CommandAssumption
  <2>3. /\ catch'.deadline = 0 /\ newBaud'.at = 0 /\ newBaud'.rate = 0
        /\ ~newBaud'.scheduled /\ reboot'.at = 0
    BY <2>1 DEF Frame!NoCatch, Frame!NoBaud, Frame!Idle
  <2>4. ParserTypes'
    BY <2>1, <2>2, <2>3, OnClock DEF ParserTypes
  <2>5. DeferredTypes'
    <3>1. newBaud'.scheduled => newBaud'.rate \in Rates
      BY <2>3
    <3>2. baudLeft' \in Int /\ rebootLeft' \in Int /\ baudAcked' \in Rates \cup {DefaultRate}
      BY <2>1
    <3> QED BY <2>3, <3>1, <3>2, OnClock DEF DeferredTypes
  <2> QED BY <2>4, <2>5
<1>11. CASE Frame!Drain /\ UNCHANGED Frame!deferred
  <2>1. /\ UNCHANGED <<home, catch, enabled, lastTold, told, noticed, subscribed, lost>>
        /\ RestKept /\ used > 0 /\ used' = used - 1
    BY <1>11 DEF Frame!Drain, Frame!window, Frame!callbacks, Frame!deferred
  <2>2. used' \in 0 .. TxBytes
    BY <2>1, CommandAssumption DEF ParserTypes
  <2> QED BY <1>3, <2>1, <2>2 DEF ParserTypes
<1>12. CASE Frame!HostRestart /\ UNCHANGED Frame!deferred
  <2>1. /\ UNCHANGED <<home, used, catch, enabled, lastTold, noticed, lost>>
        /\ RestKept /\ told' = Unknown /\ subscribed' = FALSE
    BY <1>12, OnClock DEF Frame!HostRestart, Frame!window, Frame!deferred
  <2> QED BY <1>3, <2>1 DEF ParserTypes
<1>13. CASE Frame!Millisecond
  <2>1. /\ UNCHANGED <<home, used, catch, enabled, lastTold, told, noticed, subscribed, lost>>
        /\ UNCHANGED <<newBaud, reboot, baud, baudAcked>>
        /\ baudLeft' \in {baudLeft, baudLeft - 1}
        /\ rebootLeft' \in {rebootLeft, rebootLeft - 1}
    BY <1>13 DEF Frame!Millisecond, Frame!HostMillisecond, Frame!callbacks
  <2>2. baudLeft' \in Int /\ rebootLeft' \in Int
    BY <2>1 DEF DeferredTypes
  <2> QED BY <2>1, <2>2 DEF ParserTypes, DeferredTypes
<1>14. ASSUME NEW b \in Bitmaps, NEW d \in Moves, Frame!Report(b, d)
       PROVE  ParserTypes' /\ DeferredTypes'
  <2> DEFINE u == IF Frame!TellsButtons(b) THEN Frame!After(used, TellBytes) ELSE used
  <2>1. /\ UNCHANGED <<home, enabled, subscribed>> /\ RestKept
        /\ Frame!NotifyAxes(u, d) /\ noticed' = TRUE
        /\ lastTold' \in {b, lastTold} /\ told' \in {b, told}
        /\ lost' \in {lost, ~Frame!TakenWhole(used, TellBytes)}
    BY <1>14 DEF Frame!Report, Frame!deferred
  <2>2. u \in 0 .. TxBytes
    BY InRoom DEF ParserTypes
  <2> HIDE DEF u
  <2>3. used' \in 0 .. TxBytes
    <3>1. used' \in {u, Frame!After(u, TellBytes)}
      BY <2>1 DEF Frame!NotifyAxes
    <3> QED BY <2>2, <3>1, InRoom
  <2>4. catch'.deadline = catch.deadline
    BY <1>1, <2>1 DEF Frame!NotifyAxes
  <2>5. lost' \in BOOLEAN
    BY <2>1 DEF ParserTypes, Frame!TakenWhole
  <2>6. lastTold' \in Bitmaps \cup {Resend} /\ told' \in Bitmaps \cup {Unknown}
    BY <2>1 DEF ParserTypes
  <2> QED BY <1>3, <2>1, <2>3, <2>4, <2>5, <2>6 DEF ParserTypes
<1> QED BY <1>4, <1>5, <1>6, <1>7, <1>8, <1>9, <1>10, <1>11, <1>12, <1>13, <1>14
        DEF Frame!Next, Frame!Listener, Frame!Environment

LEMMA TextTypesKept ==
    ASSUME Host!Clocked, Host!Shape, ParserTypes, Text!Next
    PROVE  ParserTypes'
<1>1. /\ now \in 0 .. ClockRange - 1
      /\ catch \in [active : BOOLEAN, deadline : Int, moved : Int, id : Nat]
      /\ held \in Bitmaps
  <2>1. Host!ClockRange = ClockRange /\ ClockRange \in Nat
    BY CommandAssumption DEF Host!ClockRange, ClockRange
  <2> QED BY <2>1 DEF Host!Clocked, Host!Shape
<1>2. Frame!After(used, CatchBytes) = Text!After(used, CatchBytes)
  BY DEF Frame!After, Frame!TakenWhole, Text!After, Text!TakenWhole
<1>3. CASE Text!Tick \/ Text!FeedByte
  <2>1. /\ UNCHANGED <<home, enabled, lastTold, told, noticed, subscribed, lost, baud>>
        /\ \/ UNCHANGED <<used, catch>>
           \/ /\ used' = Text!After(used, CatchBytes)
              /\ catch' = [catch EXCEPT !.active = FALSE, !.moved = 0]
    BY <1>3 DEF Text!Tick, Text!FeedByte, Text!Emit, Text!callbacks
  <2>2. used' \in 0 .. TxBytes
    BY <2>1, InRoom DEF ParserTypes
  <2>3. catch'.deadline = catch.deadline
    BY <1>1, <2>1
  <2> QED BY <2>1, <2>2, <2>3 DEF ParserTypes
<1>4. CASE Text!Query
  <2>1. /\ UNCHANGED <<home, catch, enabled, lastTold, told, noticed, subscribed, lost, baud>>
        /\ used' = Text!After(used, ReplyBytes)
    BY <1>4 DEF Text!Query, Text!window, Text!callbacks
  <2>2. used' \in 0 .. TxBytes
    BY <2>1, InRoom DEF ParserTypes
  <2> QED BY <2>1, <2>2 DEF ParserTypes
<1>5. ASSUME NEW dur \in Durations, Text!CatchXy(dur) PROVE ParserTypes'
  <2>1. /\ UNCHANGED <<home, enabled, lastTold, told, noticed, subscribed, lost, baud>>
        /\ used' \in {used, Text!After(used, CatchBytes)}
        /\ catch'.deadline = (now + Text!Clamped(dur)) % ClockRange
    BY <1>5, OnClock DEF Text!CatchXy, Text!Emit, Text!callbacks
  <2>2. used' \in 0 .. TxBytes
    BY <2>1, InRoom DEF ParserTypes
  <2>3. catch'.deadline \in 0 .. ClockRange - 1
    BY <1>1, <2>1, DeadlineOnClock
  <2> QED BY <2>1, <2>2, <2>3 DEF ParserTypes
<1>6. ASSUME NEW cb \in {"buttons", "axes"}, NEW on \in BOOLEAN, Text!Toggle(cb, on)
      PROVE  ParserTypes'
  <2>1. /\ UNCHANGED <<home, used, catch, lastTold, told, lost, baud>>
        /\ enabled' \in {enabled \cup {cb}, enabled \ {cb}}
        /\ noticed' = (noticed /\ cb # "buttons") /\ subscribed' \in {on, subscribed}
    BY <1>6 DEF Text!Toggle, Text!Switch, Text!window
  <2>2. enabled' \subseteq {"buttons", "axes"}
    BY <2>1 DEF ParserTypes
  <2>3. noticed' \in BOOLEAN /\ subscribed' \in BOOLEAN
    BY <2>1 DEF ParserTypes
  <2> QED BY <2>1, <2>2, <2>3 DEF ParserTypes
<1>7. ASSUME NEW rate \in Rates, Text!SetBaud(rate) PROVE ParserTypes'
  <2>1. /\ UNCHANGED <<home, used, catch, enabled, lastTold, told, noticed, subscribed, lost>>
        /\ baud' \in {rate, baud}
    BY <1>7 DEF Text!SetBaud, Text!window, Text!callbacks
  <2> QED BY <2>1 DEF ParserTypes
<1>8. CASE (Text!Drain \/ Text!HostRestart \/ Text!HostMillisecond) /\ UNCHANGED baud
  <2>1. /\ UNCHANGED <<home, catch, enabled, lastTold, noticed, lost, baud>>
        /\ used' = used \/ (used > 0 /\ used' = used - 1)
        /\ told' \in {told, Unknown} /\ subscribed' \in {subscribed, FALSE}
    BY <1>8, OnClock
       DEF Text!Drain, Text!HostRestart, Text!HostMillisecond, Text!window, Text!callbacks
  <2>2. used' \in 0 .. TxBytes
    BY <2>1, CommandAssumption DEF ParserTypes
  <2>3. subscribed' \in BOOLEAN /\ told' \in Bitmaps \cup {Unknown}
    BY <2>1 DEF ParserTypes
  <2> QED BY <2>1, <2>2, <2>3 DEF ParserTypes
<1>9. ASSUME NEW b \in Bitmaps, NEW d \in Moves, Text!Report(b, d) PROVE ParserTypes'
  <2> DEFINE u == IF Text!TellsButtons(b) THEN Text!After(used, TellBytes) ELSE used
  <2>1. /\ UNCHANGED <<home, enabled, subscribed, baud>>
        /\ Text!NotifyAxes(u, d) /\ noticed' = TRUE
        /\ lastTold' \in {b, lastTold} /\ told' \in {b, told}
        /\ lost' \in {lost, ~Text!TakenWhole(used, TellBytes)}
    BY <1>9 DEF Text!Report, Text!Remembers
  <2>2. u \in 0 .. TxBytes
    BY InRoom DEF ParserTypes
  <2> HIDE DEF u
  <2>3. used' \in 0 .. TxBytes
    <3>1. used' \in {u, Text!After(u, TellBytes)}
      BY <2>1 DEF Text!NotifyAxes
    <3> QED BY <2>2, <3>1, InRoom
  <2>4. catch'.deadline = catch.deadline
    BY <1>1, <2>1 DEF Text!NotifyAxes
  <2>5. lost' \in BOOLEAN
    BY <2>1 DEF ParserTypes, Text!TakenWhole
  <2>6. lastTold' \in Bitmaps \cup {Resend} /\ told' \in Bitmaps \cup {Unknown}
    BY <2>1 DEF ParserTypes
  <2> QED BY <2>1, <2>3, <2>4, <2>5, <2>6 DEF ParserTypes
<1> QED BY <1>3, <1>4, <1>5, <1>6, <1>7, <1>8, <1>9
        DEF Text!Next, Text!Command, Text!Environment

LEMMA ParsersTyped ==
    ASSUME ParsersInv, ParserTypes, DeferredTypes
    PROVE  Frame!TypeOK /\ Text!TypeOK
<1>1. Host!Clocked /\ Host!Shape
  BY DEF ParsersInv, FerrumInv, Host!Inv
<1>2. Host!ClockRange = ClockRange
  BY DEF Host!ClockRange, ClockRange
<1>3. /\ now \in 0 .. ClockRange - 1 /\ hostLag \in 0 .. LoopLag
      /\ asked \in Seq([moved : Int, left : Int])
      /\ answers \in Seq([id : Nat, moved : Int])
      /\ held \in Bitmaps
      /\ catch \in [active : BOOLEAN, deadline : Int, moved : Int, id : Nat]
      /\ newBaud \in [scheduled : BOOLEAN, at : Int, rate : Nat]
      /\ reboot \in [scheduled : BOOLEAN, at : Int]
  BY <1>1, <1>2 DEF Host!Clocked, Host!Shape
<1>4. /\ catch \in [active : BOOLEAN, deadline : 0 .. ClockRange - 1, moved : Int, id : Nat]
      /\ newBaud \in [scheduled : BOOLEAN, at : 0 .. ClockRange - 1, rate : Rates \cup {0}]
      /\ reboot \in [scheduled : BOOLEAN, at : 0 .. ClockRange - 1]
  BY <1>3 DEF ParserTypes, DeferredTypes
<1>5. {noticed, subscribed, lost} \subseteq BOOLEAN
  BY DEF ParserTypes
<1>6. Text!Resend = Resend
  BY DEF Text!Resend, Resend
<1>7. Frame!HostTypeOK /\ Text!HostTypeOK
  BY <1>3, <1>4, <1>5, <1>6, OnClock DEF ParserTypes, Frame!HostTypeOK, Text!HostTypeOK
<1>8. {baud, baudAcked} \subseteq Rates \cup {DefaultRate} /\ {baudLeft, rebootLeft} \subseteq Int
  BY DEF ParserTypes, DeferredTypes
<1> QED BY <1>4, <1>7, <1>8, OnClock DEF Frame!TypeOK, Text!TypeOK, ParserTypes

\* The tables, registers and counters of the command path stay in their ranges
\* (MCCommands' TypesOK), with the invariants that keep them there.
TypesInv == ActionTypes /\ MotionInv /\ ParserTypes /\ DeferredTypes

LEMMA TypesInit == MCInit => TypesInv
<1> SUFFICES ASSUME MCInit PROVE TypesInv
  OBVIOUS
<1>1. Init /\ Frame!Init
  BY DEF MCInit
<1>2. ActionTypes
  BY <1>1 DEF Init, ActionTypes
<1>3. MotionInv
  <2>1. Half \in Nat /\ Half >= 2
    BY ActionsAssumption
  <2> QED BY <1>1, <2>1 DEF Init, MotionInv, NoMotion, Program, Time, Wrap, None
<1>4. /\ home \in {"uart", "cdc"} /\ used = 0 /\ catch = Frame!NoCatch /\ enabled = {}
      /\ lastTold = 0 /\ told = 0 /\ noticed = FALSE /\ subscribed = FALSE /\ lost = FALSE
      /\ newBaud = Frame!NoBaud /\ reboot = Frame!Idle /\ baud = DefaultRate
      /\ baudAcked = DefaultRate /\ baudLeft = 0 /\ rebootLeft = 0
  BY <1>1 DEF Frame!Init, Frame!HostInit, Frame!DeferredInit
<1>5. /\ catch.deadline = 0 /\ newBaud.at = 0 /\ newBaud.rate = 0 /\ ~newBaud.scheduled
      /\ reboot.at = 0
  BY <1>4 DEF Frame!NoCatch, Frame!NoBaud, Frame!Idle
<1>6. ParserTypes
  <2>1. 0 \in 0 .. TxBytes /\ 0 \in Bitmaps
    BY CommandAssumption
  <2> QED BY <1>4, <1>5, <2>1, OnClock DEF ParserTypes
<1>7. DeferredTypes
  <2>1. newBaud.scheduled => newBaud.rate \in Rates
    BY <1>5
  <2>2. baudLeft \in Int /\ rebootLeft \in Int /\ baudAcked \in Rates \cup {DefaultRate}
    BY <1>4
  <2> QED BY <1>5, <2>1, <2>2, OnClock DEF DeferredTypes
<1> QED BY <1>2, <1>3, <1>6, <1>7 DEF TypesInv

LEMMA TypesKept ==
    ASSUME HoldsInv, ParsersInv, TypesInv, [MCNext]_<<vars, parsers, part>>
    PROVE  TypesInv'
<1>1. ActionTypes' /\ MotionInv'
  BY CommandStep, StepKeepsActionTypes, StepKeepsMotion DEF TypesInv
<1>2. Host!Clocked /\ Host!Shape
  BY DEF ParsersInv, FerrumInv, Host!Inv
<1>3. CASE Frame!Next
  BY <1>1, <1>2, <1>3, FrameTypesKept DEF TypesInv
<1>4. CASE Text!Next /\ UNCHANGED deferred
  <2>1. DeferredTypes'
    BY <1>4 DEF TypesInv, DeferredTypes, deferred
  <2> QED BY <1>1, <1>2, <1>4, <2>1, TextTypesKept DEF TypesInv
<1>5. CASE UNCHANGED <<hostvars, deferred>>
  <2>1. /\ UNCHANGED <<home, used, catch, enabled, lastTold, told, noticed, subscribed, lost>>
        /\ UNCHANGED <<baud, newBaud, reboot, baudAcked, baudLeft, rebootLeft>>
    BY <1>5 DEF hostvars, deferred
  <2> QED BY <1>1, <2>1 DEF TypesInv, ParserTypes, DeferredTypes
<1>6. Frame!Next \/ (Text!Next /\ UNCHANGED deferred) \/ UNCHANGED <<hostvars, deferred>>
  BY DEF MCNext, Parse, parsers
<1> QED BY <1>3, <1>4, <1>5, <1>6

\* Tables, registers, buffers and counters of the command path keep to their types
\* (MCCommands' TypesOK: Actions, Framing, Hurra and Ferrum).
THEOREM CommandsTyped == MCSpec => []TypesOK
<1>1. ASSUME HoldsInv, ParsersInv, FrameInv, TypesInv PROVE TypesOK
  BY <1>1, ActionsTyped, FramesTyped, ParsersTyped DEF TypesOK, TypesInv
<1> QED BY <1>1, HoldsInductive, ParsersInductive, FramesInductive, TypesInit, TypesKept, PTL
        DEF MCSpec
=============================================================================
