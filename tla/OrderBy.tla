------------------------------- MODULE OrderBy -------------------------------
(***************************************************************************)
(* OrderByExecutor (executors/orderby_executor.cpp).  Init collects the    *)
(* child's records, then handles the ORDER BY clauses one after another:   *)
(* the first clause sorts the whole vector, every later clause sorts each  *)
(* partition recorded in indices_, and after each clause indices_ is       *)
(* rebuilt as the positions where the clause's value changes.  Next hands *)
(* the records out in order.                                               *)
(*                                                                         *)
(* A record is a tuple of column values; an ORDER BY expression is a       *)
(* column reference, so its Value is the record's value in that column.    *)
(* std::sort is not stable and the order it leaves equal elements in is   *)
(* not specified: a sort step may produce any sorted arrangement of each   *)
(* range it sorts.                                                         *)
(***************************************************************************)
EXTENDS Integers, Sequences, FiniteSets, TLC

CONSTANTS
    Values,      \* column values (integers)
    NumCols,     \* columns per record
    MaxRecords,  \* bound: records the child returns
    MaxKeys,     \* bound: ORDER BY clauses
    Directions   \* OrderByType values used, a subset of {"ASC", "DESC", "DEFAULT"}

Cols == 1..NumCols
Rec == [Cols -> Values]
SeqsUpTo(S, lo, hi) == UNION {[1..k -> S] : k \in lo..hi}

VARIABLES
    input,          \* the records the child returns, in its order
    order_bys,      \* plan_->order_bys_: sequence of <<direction, column>>
    sorted_records, \* sorted_records_ (the Value half is rec[column])
    indices_,       \* partition starts (0-based positions)
    orderByIdx,     \* 1-based number of the clause handled next
    index_,         \* Next's position
    output          \* the records Next has returned

vars == <<input, order_bys, sorted_records, indices_, orderByIdx, index_, output>>

(***************************************************************************)
(* Less and Greater on the clause's Value; DEFAULT sorts like ASC.         *)
(***************************************************************************)
Before(a, b, dir, col) ==
    IF dir \in {"ASC", "DEFAULT"} THEN a[col] < b[col] ELSE a[col] > b[col]

(***************************************************************************)
(* The ranges a clause sorts, as a partition number per 1-based position.  *)
(* The first clause sorts [0, n).  A later one sorts                       *)
(* [indices_[i-1], indices_[i]) for each i and, when indices_ is not       *)
(* empty, [indices_.back(), n); a position in no range keeps its place     *)
(* (it gets a partition of its own).                                       *)
(***************************************************************************)
\* Mutant: the trailing partition [indices_.back(), n) is not sorted.
RangesNoLast(n, idx, first) ==
    [i \in 1..n |->
        IF first THEN 0
        ELSE IF idx = <<>> \/ i - 1 < idx[1] \/ i - 1 >= idx[Len(idx)] THEN -i
        ELSE Cardinality({j \in 1..Len(idx) : idx[j] <= i - 1})]

Ranges(n, idx, first) ==
    [i \in 1..n |->
        IF first THEN 0
        ELSE IF idx = <<>> \/ i - 1 < idx[1] THEN -i
        ELSE Cardinality({j \in 1..Len(idx) : idx[j] <= i - 1})]

(***************************************************************************)
(* Every result std::sort may leave: the records of each range permuted    *)
(* within the range and ordered by the comparator.                         *)
(***************************************************************************)
SortRanges(s, part, dir, col) ==
    LET n == Len(s)
        moves == {f \in Permutations(1..n) : \A i \in 1..n : part[f[i]] = part[i]}
        results == {[i \in 1..n |-> s[f[i]]] : f \in moves}
    IN  {r \in results :
            \A i, j \in 1..n : (i < j /\ part[i] = part[j]) => ~Before(r[j], r[i], dir, col)}

\* Mutant: indices_ is rebuilt without the leading 0.
BoundariesNoZero(s, col) ==
    SelectSeq([k \in 1..(Len(s) - 1) |-> k], LAMBDA k : s[k + 1][col] # s[k][col])

\* Lines 94-101: position 0, then every i whose Value differs from i - 1's.
Boundaries(s, col) ==
    <<0>> \o SelectSeq([k \in 1..(Len(s) - 1) |-> k], LAMBDA k : s[k + 1][col] # s[k][col])

-----------------------------------------------------------------------------
(***************************************************************************)
(* Init: the child's records are collected in the order it returns them.   *)
(***************************************************************************)
Init ==
    /\ input \in SeqsUpTo(Rec, 0, MaxRecords)
    /\ order_bys \in SeqsUpTo(Directions \X Cols, 1, MaxKeys)
    /\ sorted_records = input
    /\ indices_ = <<>>
    /\ orderByIdx = 1
    /\ index_ = 0
    /\ output = <<>>

\* One iteration of Init's loop over order_bys_.
SortClause ==
    /\ orderByIdx <= Len(order_bys)
    /\ LET dir  == order_bys[orderByIdx][1]
           col  == order_bys[orderByIdx][2]
           part == Ranges(Len(sorted_records), indices_, orderByIdx = 1)
       IN  \E r \in SortRanges(sorted_records, part, dir, col) :
              /\ sorted_records' = r
              /\ indices_' = Boundaries(r, col)
    /\ orderByIdx' = orderByIdx + 1
    /\ UNCHANGED <<input, order_bys, index_, output>>

\* Next: return sorted_records_[index_++] ...
NextRecord ==
    /\ orderByIdx > Len(order_bys)
    /\ index_ < Len(sorted_records)
    /\ output' = Append(output, sorted_records[index_ + 1])
    /\ index_' = index_ + 1
    /\ UNCHANGED <<input, order_bys, sorted_records, indices_, orderByIdx>>

\* ... or nullptr once all are returned; the parent may keep calling.
NextEnd ==
    /\ orderByIdx > Len(order_bys)
    /\ index_ = Len(sorted_records)
    /\ UNCHANGED vars

Next == SortClause \/ NextRecord \/ NextEnd

Spec == Init /\ [][Next]_vars

-----------------------------------------------------------------------------
(***************************************************************************)
(* Properties.                                                             *)
(***************************************************************************)
(***************************************************************************)
(* TypeOK, with the shape the partition loop relies on once a clause has   *)
(* run: indices_ starts at 0 and increases strictly inside the vector.     *)
(***************************************************************************)
TypeOK ==
    /\ input \in SeqsUpTo(Rec, 0, MaxRecords)
    /\ sorted_records \in SeqsUpTo(Rec, 0, MaxRecords)
    /\ indices_ \in Seq(0..MaxRecords)
    /\ orderByIdx > 1 =>
          /\ indices_ # <<>> /\ indices_[1] = 0
          /\ \A i \in 2..Len(indices_) : indices_[i - 1] < indices_[i] /\ indices_[i] < Len(sorted_records)
    /\ orderByIdx \in 1..(MaxKeys + 1)
    /\ index_ \in 0..Len(sorted_records)
    /\ output \in SeqsUpTo(Rec, 0, MaxRecords)

(***************************************************************************)
(* The reference order of ORDER BY k1, k2, ...: a before b when they       *)
(* differ on some clause and agree on every clause before it, and on the  *)
(* first clause they differ on, a comes first in that clause's direction.  *)
(***************************************************************************)
RECURSIVE LexBefore(_, _, _)
LexBefore(a, b, obs) ==
    IF obs = <<>> THEN FALSE
    ELSE LET dir == Head(obs)[1]
             col == Head(obs)[2]
         IN  IF a[col] = b[col] THEN LexBefore(a, b, Tail(obs))
             ELSE Before(a, b, dir, col)

Count(s, r) == Cardinality({i \in 1..Len(s) : s[i] = r})

(***************************************************************************)
(* OutputIsSortedInput: when Next has returned every record, the records   *)
(* returned are exactly the child's records (as a multiset) and no record  *)
(* is returned after one the ORDER BY clauses put after it.  It depends on *)
(* the partitions the executor keeps between clauses: each later clause    *)
(* may only reorder records equal on all earlier clauses.                  *)
(***************************************************************************)
OutputIsSortedInput ==
    (orderByIdx > Len(order_bys) /\ index_ = Len(sorted_records)) =>
        /\ \A r \in Rec : Count(output, r) = Count(input, r)
        /\ \A i, j \in 1..Len(output) : i < j => ~LexBefore(output[j], output[i], order_bys)
=============================================================================
