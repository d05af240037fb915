---------------------------- MODULE NestedLoopJoin ----------------------------
(***************************************************************************)
(* NestedLoopJoinExecutor (executors/nested_loop_join_executor.cpp).       *)
(* Init materialises the match flags r_table_ and s_table_ (one per row of *)
(* each child) and the arities r_value_size_ / s_value_size_ taken from    *)
(* each child's first record; Next is the loop over the left child with an *)
(* inner loop over the right child, re-initialised for every left row,     *)
(* and for RIGHT/FULL a tail loop over the right child once the left one   *)
(* is exhausted.                                                           *)
(*                                                                         *)
(* A child is its sequence of rows and a cursor: r and s are the positions *)
(* of r_record_ and s_record_, Len + 1 standing for nullptr.  A row is     *)
(* <<key, position>>; the join condition is equality of the keys.  Each    *)
(* action is one iteration of one of Next's loops; an action that emits a  *)
(* row is the point where Next returns it.                                 *)
(***************************************************************************)
EXTENDS Integers, Sequences, SequencesExt, Functions

CONSTANTS
    Keys,       \* join key values
    MaxRows,    \* bound: rows per child
    MinRows,    \* rows each child has at least
    JoinTypes,  \* JoinType values, a subset of {"INNER", "LEFT", "RIGHT", "FULL"}
    Null        \* Value(): the null value (a model value)

VARIABLES
    L, R,            \* the rows the left and right child return (their keys)
    join_type,       \* plan_->join_type_
    r, s,            \* r_record_, s_record_ as positions
    r_index_, s_index_,
    r_table_, s_table_,             \* matched flags, indexed from 0
    r_value_size_, s_value_size_,
    output,          \* the records Next has returned
    done             \* Next has returned nullptr

vars == <<L, R, join_type, r, s, r_index_, s_index_, r_table_, s_table_,
          r_value_size_, s_value_size_, output, done>>

LRec(i) == <<L[i], i>>
RRec(j) == <<R[j], j>>
Nulls(n) == [k \in 1..n |-> Null]
\* condition->EvaluateJoin(r_record_, s_record_)
Cond(i, j) == L[i] = R[j]

Outer == join_type \in {"LEFT", "FULL"}
Inner == join_type \in {"RIGHT", "FULL"}

-----------------------------------------------------------------------------
(***************************************************************************)
(* Init (11-49): the first record of each child fixes its arity (0 for an  *)
(* empty child), one unmatched flag per row, both children re-initialised *)
(* and their first records fetched.                                        *)
(***************************************************************************)
Init ==
    /\ L \in {q \in BoundedSeq(Keys, MaxRows) : Len(q) >= MinRows}
    /\ R \in {q \in BoundedSeq(Keys, MaxRows) : Len(q) >= MinRows}
    /\ join_type \in JoinTypes
    /\ r = 1 /\ s = 1
    /\ r_index_ = 0 /\ s_index_ = 0
    /\ r_table_ = [i \in 0..(Len(L) - 1) |-> FALSE]
    /\ s_table_ = [j \in 0..(Len(R) - 1) |-> FALSE]
    /\ r_value_size_ = IF Len(L) > 0 THEN Len(LRec(1)) ELSE 0
    /\ s_value_size_ = IF Len(R) > 0 THEN Len(RRec(1)) ELSE 0
    /\ output = <<>>
    /\ done = FALSE

\* Mutant: a match marks the left row only for LEFT joins, not for FULL.
MatchLeftOnly ==
    /\ ~done /\ r <= Len(L) /\ s <= Len(R) /\ Cond(r, s)
    /\ output' = Append(output, LRec(r) \o RRec(s))
    /\ s' = s + 1
    /\ s_index_' = IF join_type = "INNER" THEN s_index_ ELSE s_index_ + 1
    /\ r_table_' = IF join_type = "LEFT" THEN [r_table_ EXCEPT ![r_index_] = TRUE] ELSE r_table_
    /\ s_table_' = IF Inner THEN [s_table_ EXCEPT ![s_index_] = TRUE] ELSE s_table_
    /\ UNCHANGED <<L, R, join_type, r, r_index_, r_value_size_, s_value_size_, done>>

(***************************************************************************)
(* The inner loop finds a match: the joined record is returned, the       *)
(* matched rows are flagged (left for LEFT/FULL, right for RIGHT/FULL) and *)
(* the right child moves on (s_index_ too, except for INNER).             *)
(***************************************************************************)
Match ==
    /\ ~done /\ r <= Len(L) /\ s <= Len(R) /\ Cond(r, s)
    /\ output' = Append(output, LRec(r) \o RRec(s))
    /\ s' = s + 1
    /\ s_index_' = IF join_type = "INNER" THEN s_index_ ELSE s_index_ + 1
    /\ r_table_' = IF Outer THEN [r_table_ EXCEPT ![r_index_] = TRUE] ELSE r_table_
    /\ s_table_' = IF Inner THEN [s_table_ EXCEPT ![s_index_] = TRUE] ELSE s_table_
    /\ UNCHANGED <<L, R, join_type, r, r_index_, r_value_size_, s_value_size_, done>>

\* Mutant: s_index_ is counted for INNER joins too, where nothing resets it.
SkipIndexAlways ==
    /\ ~done /\ r <= Len(L) /\ s <= Len(R) /\ ~Cond(r, s)
    /\ s' = s + 1
    /\ s_index_' = s_index_ + 1
    /\ UNCHANGED <<L, R, join_type, r, r_index_, r_table_, s_table_,
                   r_value_size_, s_value_size_, output, done>>

\* The inner loop passes over a right row that does not match.
Skip ==
    /\ ~done /\ r <= Len(L) /\ s <= Len(R) /\ ~Cond(r, s)
    /\ s' = s + 1
    /\ s_index_' = IF join_type = "INNER" THEN s_index_ ELSE s_index_ + 1
    /\ UNCHANGED <<L, R, join_type, r, r_index_, r_table_, s_table_,
                   r_value_size_, s_value_size_, output, done>>

\* Mutant: the INNER block does not re-initialise the right child.
RowEndNoRewind ==
    /\ ~done /\ r <= Len(L) /\ s > Len(R)
    /\ s' = IF join_type = "INNER" THEN s ELSE 1
    /\ s_index_' = IF join_type = "INNER" THEN s_index_ ELSE 0
    /\ r' = r + 1
    /\ r_index_' = IF join_type = "INNER" THEN r_index_ ELSE r_index_ + 1
    /\ output' = IF Outer /\ ~r_table_[r_index_] /\ s_value_size_ > 0
                 THEN Append(output, LRec(r) \o Nulls(s_value_size_))
                 ELSE output
    /\ UNCHANGED <<L, R, join_type, r_table_, s_table_, r_value_size_, s_value_size_, done>>

(***************************************************************************)
(* The inner loop is exhausted: the right child is re-initialised and the  *)
(* left child moves on; for LEFT/FULL an unflagged left row is first       *)
(* returned with s_value_size_ nulls, but only when s_value_size_ > 0.    *)
(***************************************************************************)
RowEnd ==
    /\ ~done /\ r <= Len(L) /\ s > Len(R)
    /\ s' = 1
    /\ s_index_' = IF join_type = "INNER" THEN s_index_ ELSE 0
    /\ r' = r + 1
    /\ r_index_' = IF join_type = "INNER" THEN r_index_ ELSE r_index_ + 1
    /\ output' = IF Outer /\ ~r_table_[r_index_] /\ s_value_size_ > 0
                 THEN Append(output, LRec(r) \o Nulls(s_value_size_))
                 ELSE output
    /\ UNCHANGED <<L, R, join_type, r_table_, s_table_, r_value_size_, s_value_size_, done>>

(***************************************************************************)
(* RIGHT/FULL, left child exhausted: while r_value_size_ > 0, the right    *)
(* child is walked once more and an unflagged row is returned with         *)
(* r_value_size_ nulls, whose first value is then overwritten by           *)
(* SetValue(0, s_record_->GetValue(0)), and flagged.                       *)
(***************************************************************************)
TailEmit ==
    /\ ~done /\ Inner /\ r > Len(L) /\ s <= Len(R) /\ r_value_size_ > 0
    /\ ~s_table_[s_index_]
    /\ output' = Append(output, [Nulls(r_value_size_) EXCEPT ![1] = R[s]] \o RRec(s))
    /\ s_table_' = [s_table_ EXCEPT ![s_index_] = TRUE]
    /\ s' = s + 1 /\ s_index_' = s_index_ + 1
    /\ UNCHANGED <<L, R, join_type, r, r_index_, r_table_, r_value_size_, s_value_size_, done>>

\* The tail loop passes over a right row that was matched.
TailSkip ==
    /\ ~done /\ Inner /\ r > Len(L) /\ s <= Len(R) /\ r_value_size_ > 0
    /\ s_table_[s_index_]
    /\ s' = s + 1 /\ s_index_' = s_index_ + 1
    /\ UNCHANGED <<L, R, join_type, r, r_index_, r_table_, s_table_,
                   r_value_size_, s_value_size_, output, done>>

\* Next returns nullptr: the left child is exhausted and there is no tail
\* loop left to run (INNER also re-initialises both children).
Finish ==
    /\ ~done /\ r > Len(L)
    /\ ~Inner \/ s > Len(R) \/ r_value_size_ = 0
    /\ done' = TRUE
    /\ UNCHANGED <<L, R, join_type, r, s, r_index_, s_index_, r_table_, s_table_,
                   r_value_size_, s_value_size_, output>>

\* The parent calls Next again after nullptr and gets nullptr again.
Exhausted == done /\ UNCHANGED vars

Next == Match \/ Skip \/ RowEnd \/ TailEmit \/ TailSkip \/ Finish \/ Exhausted

Spec == Init /\ [][Next]_vars

-----------------------------------------------------------------------------
(***************************************************************************)
(* Properties, against the relational definition of each join: the pairs *)
(* of matching rows, the left rows with no match padded with nulls of the *)
(* right arity, the right rows with no match padded with nulls of the left *)
(* arity.                                                                  *)
(***************************************************************************)
TypeOK ==
    /\ r \in 1..(Len(L) + 1) /\ s \in 1..(Len(R) + 1)
    /\ r_index_ \in 0..Len(L) /\ s_index_ \in 0..Len(R)
    /\ r_table_ \in [0..(Len(L) - 1) -> BOOLEAN] /\ s_table_ \in [0..(Len(R) - 1) -> BOOLEAN]
    /\ \A k \in DOMAIN output : output[k] \in [1..4 -> Keys \cup (1..MaxRows) \cup {Null}]
    /\ done \in BOOLEAN

Matches == {<<i, j>> \in (DOMAIN L) \X (DOMAIN R) : Cond(i, j)}
InnerRef == {LRec(m[1]) \o RRec(m[2]) : m \in Matches}
LeftPadded == {LRec(i) \o Nulls(2) : i \in {i \in DOMAIN L : \A j \in DOMAIN R : ~Cond(i, j)}}
RightPadded == {Nulls(2) \o RRec(j) : j \in {j \in DOMAIN R : \A i \in DOMAIN L : ~Cond(i, j)}}
Expected ==
    InnerRef \cup (IF Outer THEN LeftPadded ELSE {}) \cup (IF Inner THEN RightPadded ELSE {})

Full(row) == \A k \in DOMAIN row : row[k] # Null
Joined == SelectSeq(output, Full)
Padded == SelectSeq(output, LAMBDA row : ~Full(row))

(***************************************************************************)
(* MatchedRowsExact: when Next has returned nullptr, the records without   *)
(* nulls are exactly the matching pairs, each once, for every join type;   *)
(* it needs the inner loop to resume after a returned match and the right *)
(* child to be re-initialised for every left row.                         *)
(***************************************************************************)
MatchedRowsExact == done => IsInjective(Joined) /\ Range(Joined) = InnerRef

(***************************************************************************)
(* PaddedRowsUnmatched: at every point, a record with nulls was returned   *)
(* at most once, for a join type that pads that side, and for a row that  *)
(* matches no row of the other side: the flags kept in r_table_ and       *)
(* s_table_ across Next calls and the indices r_index_/s_index_ agree     *)
(* with the rows the cursors stand on.                                     *)
(***************************************************************************)
PaddedRowsUnmatched ==
    /\ IsInjective(Padded)
    /\ \A k \in DOMAIN Padded :
          \/ Outer /\ \E i \in DOMAIN L : Padded[k] = LRec(i) \o Nulls(2) /\ LRec(i) \o Nulls(2) \in LeftPadded
          \/ Inner /\ \E j \in DOMAIN R : SubSeq(Padded[k], 3, 4) = RRec(j) /\ Nulls(2) \o RRec(j) \in RightPadded

(***************************************************************************)
(* JoinResultCorrect: when Next has returned nullptr, the records returned *)
(* are exactly the join's result, each once (the specification's outer    *)
(* joins: unmatched rows extended with nulls of the other side's arity).  *)
(***************************************************************************)
JoinResultCorrect == done => IsInjective(output) /\ Range(output) = Expected
=============================================================================
