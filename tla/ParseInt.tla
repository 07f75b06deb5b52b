------------------------------ MODULE ParseInt ------------------------------
(***************************************************************************)
(* parse_int of ferrum.c, the number in a command's argument, with its     *)
(* accumulator of one word, against what the text means.  The text grows   *)
(* one character at a time.                                                *)
(***************************************************************************)
EXTENDS Integers, Sequences, SequencesExt

CONSTANTS
    HalfTop,  \* 2^31, half the range of the 32-bit accumulator
    Minus, Plus, Junk, \* the signs, and any other character
    TextMax   \* bound: characters of a text

VARIABLE text

Digits == 0 .. 9
Characters == Digits \cup {Minus, Plus, Junk}

Init == text = <<>>
Next == Len(text) < TextMax /\ \E c \in Characters : text' = Append(text, c)
Spec == Init /\ [][Next]_text

-----------------------------------------------------------------------------
Top == 2 * HalfTop - 1

Signed(s) == s # <<>> /\ s[1] \in {Minus, Plus}
Negative(s) == s # <<>> /\ s[1] = Minus
Magnitude(s) == IF Signed(s) THEN Tail(s) ELSE s
Refused == [ok |-> FALSE, value |-> 0]

\* Mutant: the digit that is about to be added is forgotten.
NoRoomForTens(u, d) == u > Top \div 10

\* Another digit would overflow the accumulator.
NoRoom(u, d) == u > (Top - d) \div 10

Accumulate(acc, c) ==
    IF ~acc.ok \/ c \notin Digits THEN Refused
    ELSE IF NoRoom(acc.value, c) THEN Refused
    ELSE [ok |-> TRUE, value |-> (acc.value * 10 + c) % (Top + 1)]

Parsed(s) ==
    LET u == FoldLeft(Accumulate, [ok |-> TRUE, value |-> 0], Magnitude(s))
    IN  IF Magnitude(s) = <<>> \/ ~u.ok THEN Refused
        ELSE IF u.value > (IF Negative(s) THEN HalfTop ELSE HalfTop - 1) THEN Refused
        ELSE [ok |-> TRUE, value |-> IF Negative(s) THEN -u.value ELSE u.value]

-----------------------------------------------------------------------------
\* What the text means: an optional sign and at least one digit.
WellFormed(s) ==
    Magnitude(s) # <<>> /\ \A i \in DOMAIN Magnitude(s) : Magnitude(s)[i] \in Digits
Meant(s) ==
    LET n == FoldLeft(LAMBDA acc, c : acc * 10 + c, 0, Magnitude(s))
    IN  IF Negative(s) THEN -n ELSE n

\* A number is read as what it says, or refused exactly when it is none or does not fit
\* a signed word: no text overflows the accumulator into another number (ferrum.c:92-104).
ReadExactly ==
    LET r == Parsed(text)
    IN  /\ r.ok <=> WellFormed(text) /\ Meant(text) \in -HalfTop .. HalfTop - 1
        /\ r.ok => r.value = Meant(text)
=============================================================================
