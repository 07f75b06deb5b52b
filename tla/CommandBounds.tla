--------------------------- MODULE CommandBounds ---------------------------
(***************************************************************************)
(* The parameters of the command parsers' models (Framing, Hurra, Ferrum)  *)
(* and what is assumed of them.                                            *)
(***************************************************************************)
EXTENDS Integers, Sequences

CONSTANTS
    ClockHalf,    \* 2^31, half the range of millis()
    LoopLag,      \* most milliseconds between two passes of the poll loop
    \* CommandHost
    TxBytes,      \* room in the transmit ring
    CatchBytes, TellBytes, ReplyBytes, \* sizes of what the parsers send
    CatchMax,     \* 1000, the longest catch_xy window in milliseconds
    Durations,    \* windows a host asks for
    Bitmaps,      \* the states of the mouse's buttons
    Moves,        \* deltas a report may bring, one axis
    MaxRequests,  \* bound: commands the host sends
    MaxNotices,   \* bound: reports of the mouse
    \* Hurra
    Rates,        \* baud rates the host asks for
    DefaultRate,  \* CMD_BAUD_DEFAULT
    DeferDelay    \* 20, milliseconds between an acknowledgement and the deed

ClockRange == 2 * ClockHalf
Resend == 255   \* s_last_btn_emitted after the callback was switched
Unknown == -1   \* what a host has not been told

ASSUME CommandAssumption ==
    /\ ClockHalf \in Nat \ {0} /\ LoopLag \in 1 .. ClockHalf - 1
    /\ {TxBytes, CatchBytes, TellBytes, ReplyBytes} \subseteq Nat
    /\ CatchMax \in 0 .. ClockHalf - 1 /\ Durations \subseteq Nat
    /\ 0 \in Bitmaps /\ Bitmaps \subseteq 0 .. Resend - 1
    /\ Moves \subseteq Int
    /\ DefaultRate \in Nat /\ Rates \subseteq Nat /\ DeferDelay \in 0 .. ClockHalf - 1
=============================================================================
