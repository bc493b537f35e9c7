----------------------------- MODULE TokenRows ------------------------------
(***************************************************************************)
(* What an Encoding is to the code that holds it: a table with a row for   *)
(* each token. A row is cut off or added at an end and keeps its values;   *)
(* it is the caller who changes a column, and who may tear the table by    *)
(* giving a column another length.                                         *)
(***************************************************************************)
EXTENDS Integers, Sequences

CONSTANTS
    Columns,    \* what a row says
    Padding(_), \* a row that padding adds
    Blank(_)    \* a row of which nothing but its id is said

VARIABLES
    held,      \* there is an Encoding
    whole,     \* each column has a value for each token
    rows,      \* the table, if it is whole
    sequences  \* of how many answers it was merged

IsFirst(s, t) == Len(s) <= Len(t) /\ s = SubSeq(t, 1, Len(s))
IsLast(s, t) == Len(s) <= Len(t) /\ s = SubSeq(t, Len(t) - Len(s) + 1, Len(t))

Init == held = FALSE /\ whole = TRUE /\ rows = <<>> /\ sequences = 1

\* An answer, or an Encoding of the caller's own.
Make == ~held /\ held'
Release == held /\ ~held'

Cut == (IsFirst(rows', rows) \/ IsLast(rows', rows)) /\ UNCHANGED sequences

PadRight == IsFirst(rows, rows') /\ \A i \in DOMAIN rows' : i > Len(rows) => Padding(rows'[i])
PadLeft == IsLast(rows, rows') /\ \A i \in DOMAIN rows' : i <= Len(rows') - Len(rows) => Padding(rows'[i])
Pad == (PadRight \/ PadLeft) /\ UNCHANGED sequences

Merge == IsFirst(rows, rows') /\ sequences' > sequences

SetColumn == /\ Len(rows') = Len(rows) /\ UNCHANGED sequences
             /\ \E c \in Columns : \A i \in DOMAIN rows, d \in Columns \ {c} : rows'[i][d] = rows[i][d]

\* Where nothing else was said, the ids may be any ids.
SetBlankIds == UNCHANGED sequences /\ \A i \in DOMAIN rows : Blank(rows[i])
PostProcess == sequences' = 1
Renew == (SetBlankIds \/ PostProcess) /\ \A i \in DOMAIN rows' : Blank(rows'[i])

SetSequences == UNCHANGED rows
Drain == rows' = <<>>

\* The caller gives a column, or the ids, another length.
Tear == whole /\ ~whole' /\ UNCHANGED sequences

\* What is left of a torn table, or makes it whole again.
Torn == ~whole

Next ==
    \/ Make \/ Release
    \/ held /\ held' /\ (Tear \/ Torn)
    \/ held /\ held' /\ whole /\ whole' /\ (Cut \/ Pad \/ Merge \/ SetColumn \/ Renew \/ SetSequences \/ Drain)

Spec == Init /\ [][Next]_<<held, whole, rows, sequences>>
=============================================================================
