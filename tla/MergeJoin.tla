------------------------------ MODULE MergeJoin ------------------------------
(***************************************************************************)
(* MergeJoinExecutor (executors/merge_join_executor.cpp) over children     *)
(* sorted on the join keys.  Next first replays last_match_, the run of    *)
(* right rows equal to the current left key, for the current left row and *)
(* for every following left row with the same key; otherwise it advances  *)
(* whichever side has the smaller key, and on equal keys returns the first *)
(* pair and collects the whole run of equal right rows into last_match_.  *)
(*                                                                         *)
(* As in NestedLoopJoin, a child is its sequence of keys and a cursor      *)
(* (Len + 1 for nullptr), a row is <<key, position>>, and each action is   *)
(* one iteration of one of Next's loops.                                   *)
(***************************************************************************)
EXTENDS Integers, Sequences, SequencesExt, Functions

CONSTANTS
    Keys,      \* join key values (integers)
    MaxRows    \* bound: rows per child

VARIABLES
    L, R,          \* the keys the left and right child return, sorted
    r, s,          \* r_record_, s_record_ as positions
    last_match_,   \* positions of the buffered right rows
    index_,        \* next position of last_match_ to replay (0-based)
    output,        \* the records Next has returned
    done           \* Next has returned nullptr

vars == <<L, R, r, s, last_match_, index_, output, done>>

LRec(i) == <<L[i], i>>
RRec(j) == <<R[j], j>>
Sorted(q) == \A i \in 1..(Len(q) - 1) : q[i] <= q[i + 1]

\* lhs_key / rhs_key evaluated on the rows the cursors stand on
LeftKey == L[r]
RightKey == R[s]

\* The first position from p on that is nullptr or has a key other than k:
\* where the loop collecting the run of equal right rows stops.
RunEnd(k, p) ==
    CHOOSE q \in p..(Len(R) + 1) :
        (q > Len(R) \/ R[q] # k) /\ \A m \in p..(q - 1) : R[m] = k

-----------------------------------------------------------------------------
\* Init (15-21): both children initialised and their first records fetched;
\* the constructor sets index_ to 0.
Init ==
    /\ L \in {q \in BoundedSeq(Keys, MaxRows) : Sorted(q)}
    /\ R \in {q \in BoundedSeq(Keys, MaxRows) : Sorted(q)}
    /\ r = 1 /\ s = 1
    /\ last_match_ = <<>>
    /\ index_ = 0
    /\ output = <<>>
    /\ done = FALSE

\* Lines 27-32: the next buffered right row is joined with r_record_.
Replay ==
    /\ ~done /\ last_match_ # <<>> /\ index_ < Len(last_match_)
    /\ output' = Append(output, LRec(r) \o RRec(last_match_[index_ + 1]))
    /\ index_' = index_ + 1
    /\ UNCHANGED <<L, R, r, s, last_match_, done>>

\* Mutant: index_ is reset only when the buffer is kept.
ReplayNextLeftKeepIndex ==
    /\ ~done /\ last_match_ # <<>> /\ index_ >= Len(last_match_)
    /\ r' = r + 1
    /\ last_match_' = IF r + 1 > Len(L) \/ L[r + 1] # L[r] THEN <<>> ELSE last_match_
    /\ index_' = IF r + 1 > Len(L) \/ L[r + 1] # L[r] THEN index_ ELSE 0
    /\ UNCHANGED <<L, R, s, output, done>>

\* Mutant: the buffer is cleared even when the next left key is the same.
ReplayNextLeftAlwaysClear ==
    /\ ~done /\ last_match_ # <<>> /\ index_ >= Len(last_match_)
    /\ r' = r + 1
    /\ last_match_' = <<>>
    /\ index_' = 0
    /\ UNCHANGED <<L, R, s, output, done>>

\* Lines 34-39: the buffer is used up: the left child moves on, and the
\* buffer is cleared when it is exhausted or its key differs from the
\* previous one.
ReplayNextLeft ==
    /\ ~done /\ last_match_ # <<>> /\ index_ >= Len(last_match_)
    /\ r' = r + 1
    /\ last_match_' = IF r + 1 > Len(L) \/ L[r + 1] # L[r] THEN <<>> ELSE last_match_
    /\ index_' = 0
    /\ UNCHANGED <<L, R, s, output, done>>

\* Lines 47-51: left key smaller: the left child moves on; nullptr when it
\* is exhausted.
AdvanceLeft ==
    /\ ~done /\ last_match_ = <<>> /\ r <= Len(L) /\ s <= Len(R)
    /\ LeftKey < RightKey
    /\ r' = r + 1
    /\ done' = (r + 1 > Len(L))
    /\ UNCHANGED <<L, R, s, last_match_, index_, output>>

\* Lines 54-58: right key smaller: the right child moves on.
AdvanceRight ==
    /\ ~done /\ last_match_ = <<>> /\ r <= Len(L) /\ s <= Len(R)
    /\ LeftKey > RightKey
    /\ s' = s + 1
    /\ done' = (s + 1 > Len(R))
    /\ UNCHANGED <<L, R, r, last_match_, index_, output>>

\* Lines 62-77: equal keys: the pair is returned, the run of equal right
\* rows is collected into last_match_ and the right child stands after it.
MatchRun ==
    /\ ~done /\ last_match_ = <<>> /\ r <= Len(L) /\ s <= Len(R)
    /\ LeftKey = RightKey
    /\ LET e == RunEnd(RightKey, s + 1) IN
       /\ output' = Append(output, LRec(r) \o RRec(s))
       /\ last_match_' = [k \in 1..(e - s) |-> s + k - 1]
       /\ s' = e
       /\ index_' = index_ + 1
    /\ UNCHANGED <<L, R, r, done>>

\* Lines 82-85: one child is exhausted: both are re-initialised, nullptr.
Finish ==
    /\ ~done /\ last_match_ = <<>> /\ (r > Len(L) \/ s > Len(R))
    /\ done' = TRUE
    /\ UNCHANGED <<L, R, r, s, last_match_, index_, output>>

\* The parent calls Next again after nullptr and gets nullptr again.
Exhausted == done /\ UNCHANGED vars

Next == Replay \/ ReplayNextLeft \/ AdvanceLeft \/ AdvanceRight \/ MatchRun \/ Finish \/ Exhausted

Spec == Init /\ [][Next]_vars

-----------------------------------------------------------------------------
\* TypeOK, with index_ never past the buffer it indexes.
TypeOK ==
    /\ r \in 1..(Len(L) + 1) /\ s \in 1..(Len(R) + 1)
    /\ last_match_ \in Seq(1..Len(R))
    /\ index_ \in 0..Len(last_match_)
    /\ done \in BOOLEAN

\* The specification's result, in its order: each left row, in order, with
\* each matching right row, in order.
MatchesOf(i) == SelectSeq([j \in 1..Len(R) |-> LRec(i) \o RRec(j)], LAMBDA row : row[1] = row[3])
JoinSeq == FlattenSeq([i \in 1..Len(L) |-> MatchesOf(i)])

(***************************************************************************)
(* MergeJoinResult: the records returned so far are a prefix of the        *)
(* equi-join of the sorted children in left-major order, and when Next     *)
(* has returned nullptr they are all of it,                                *)
(* duplicates on both sides included (each left row of a run of equal     *)
(* keys with every right row of the matching run); it depends on the       *)
(* replay of last_match_ across calls, its reset when the left key        *)
(* changes, and where the right cursor stands after a run.                 *)
(***************************************************************************)
MergeJoinResult == IsPrefix(output, JoinSeq) /\ (done => output = JoinSeq)
=============================================================================
