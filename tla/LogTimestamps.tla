--------------------------- MODULE LogTimestamps ---------------------------
(***************************************************************************)
(* The timestamps of request_logs in SQLite (internal/store/sqlite_logs.go *)
(* and sqlite_budgets.go): a column of text that fmtTime writes and that   *)
(* SQL compares as text.                                                   *)
(*                                                                         *)
(* A time is counted in units of the last digit of a fraction of Digits    *)
(* digits, to the base Base (nine and ten in the code).  time.RFC3339Nano  *)
(* writes date and time of day down to the second at a fixed width, here   *)
(* one character; then a point and the fraction without its trailing       *)
(* zeros, or nothing when the fraction is zero; then `Z'.  A character is  *)
(* its rank in ASCII: the point sorts before the digits, Z after them.     *)
(***************************************************************************)
EXTENDS Integers, Sequences, FiniteSets

CONSTANTS Base, Digits,
          MaxRows,       \* bound on the rows of a behaviour
          MaxSeconds     \* end of the modelled time

ASSUME TimestampAssumption == Base \in Nat \ {0, 1} /\ Digits \in Nat

VARIABLES stampClock, \* the time, in units
          stamped     \* the times of the rows that were inserted

timestampVars == <<stampClock, stamped>>

\* A time without its last n digits, by dividing as often; and its seconds.
Cut(t) ==
    LET cut[n \in 0 .. Digits] == IF n = 0 THEN t ELSE cut[n - 1] \div Base
    IN  cut
SecondOf(t) == Cut(t)[Digits]

Point == 0
Digit(d) == d + 1
Zone == Base + 1

\* The digits of the fraction of t, and the last one that is not a zero.
DigitAt(t, n) == Cut(t)[Digits - n] % Base
LastDigit(t) == CHOOSE n \in 0 .. Digits :
                    /\ n = 0 \/ DigitAt(t, n) # 0
                    /\ \A m \in n + 1 .. Digits : DigitAt(t, m) = 0

Fraction(t) == IF LastDigit(t) = 0 THEN <<>>
               ELSE <<Point>> \o [n \in 1 .. LastDigit(t) |-> Digit(DigitAt(t, n))]

\* Mutant of fmtTime: time.RFC3339, without a fraction.
fmtTimeSeconds(t) == <<SecondOf(t), Zone>>

fmtTime(t) == <<SecondOf(t)>> \o Fraction(t) \o <<Zone>>

\* How SQLite compares text.  (No timestamp is a prefix of another one: they
\* end in the only Z they have.)
TextLess(a, b) ==
    \E n \in DOMAIN a \intersect DOMAIN b :
        /\ a[n] < b[n]
        /\ \A m \in 1 .. n - 1 : a[m] = b[m]

-----------------------------------------------------------------------------
TimestampInit == stampClock = 0 /\ stamped = {}

\* InsertRequestLog: the writer inserts a row with the timestamp of its entry.
InsertStamped ==
    /\ Cardinality(stamped) < MaxRows
    /\ stamped' = stamped \union {stampClock}
    /\ UNCHANGED stampClock

\* PruneRequestLogs(before): the rows whose text is less than that of before.
PruneStamped(before) ==
    /\ stamped' = {t \in stamped : ~TextLess(fmtTime(t), fmtTime(before))}
    /\ UNCHANGED stampClock

TimePasses ==
    /\ SecondOf(stampClock + 1) < MaxSeconds
    /\ stampClock' = stampClock + 1
    /\ UNCHANGED stamped

TimestampNext == \/ InsertStamped
                 \/ \E before \in 0 .. stampClock : PruneStamped(before)
                 \/ TimePasses

TimestampSpec == TimestampInit /\ [][TimestampNext]_timestampVars

-----------------------------------------------------------------------------
(* Queries. *)

\* ORDER BY timestamp: a sorts before b.
SortsBefore(a, b) == TextLess(fmtTime(a), fmtTime(b))

\* The rows GetSpendSince adds up: timestamp >= since.
CountedSince(since) == {t \in stamped : ~SortsBefore(t, since)}

-----------------------------------------------------------------------------
(* Properties. *)

\* No query is wrong about a row by a second or more: rows of different times
\* have different texts, and what a query counts from some time on are the rows
\* of later seconds, none of earlier ones, and perhaps some of that second.
OrderedBySecond ==
    /\ \A a, b \in stamped : a # b => fmtTime(a) # fmtTime(b)
    /\ \A since \in 0 .. stampClock :
          /\ {t \in stamped : SecondOf(t) > SecondOf(since)} \subseteq CountedSince(since)
          /\ CountedSince(since) \subseteq {t \in stamped : SecondOf(t) >= SecondOf(since)}
=============================================================================
