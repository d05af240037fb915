---------------------------- MODULE LimitMergeJoin ----------------------------
(***************************************************************************)
(* The plan LIMIT over a merge join: a LimitExecutor whose child is a      *)
(* MergeJoinExecutor (executors/limit_executor.cpp over                    *)
(* executors/merge_join_executor.cpp).  Executors are pulled: the join     *)
(* runs only while the Limit's current Next is waiting for a child record, *)
(* and stops for good when the Limit stops calling it.                     *)
(*                                                                         *)
(* The join's returned records are the Limit's child sequence C: a join    *)
(* step runs while the Limit needs more records than the join has returned *)
(* (the offset_ records it skips, and one more unless count_ is 0) and the *)
(* join has not returned nullptr; the Limit's Next then takes its step on  *)
(* what the join returned, which is exactly what the calls it makes to the *)
(* child would return.                                                     *)
(***************************************************************************)
EXTENDS Integers, Sequences, SequencesExt

CONSTANTS Keys, MaxRows, Offsets, Counts, NoValue, CountBits

VARIABLES
    L, R, r, s, last_match_, index_,   \* the merge join (MergeJoin.tla)
    jout,                              \* the records the join has returned
    jdone,                             \* the join has returned nullptr
    c, limit_offset_, limit_count_, offset_, count_,   \* the Limit (Limit.tla)
    output,                            \* the records the Limit has returned
    done                               \* the Limit has returned nullptr

joinVars == <<L, R, r, s, last_match_, index_, jout, jdone>>
limitVars == <<c, limit_offset_, limit_count_, offset_, count_, output, done>>
vars == <<joinVars, limitVars>>

MJ == INSTANCE MergeJoin WITH output <- jout, done <- jdone
LM == INSTANCE Limit WITH C <- jout, Rows <- {}

\* How many child records the Limit's current Next needs: the offset_ it
\* skips, and the record it returns unless count_ is 0 (lines 19-37).
Demand == c + offset_ + (IF count_ = 0 THEN 0 ELSE 1)

Init == MJ!Init /\ LM!LimitInit

\* One iteration of the join's Next, run on behalf of the Limit's call.
JoinStep ==
    /\ ~done /\ ~jdone /\ Len(jout) < Demand
    /\ \/ MJ!Replay \/ MJ!ReplayNextLeft \/ MJ!AdvanceLeft
       \/ MJ!AdvanceRight \/ MJ!MatchRun \/ MJ!Finish
    /\ UNCHANGED limitVars

\* The Limit's Next, once the join has returned what it asks for.
LimitStep ==
    /\ Len(jout) >= Demand \/ jdone
    /\ LM!NextCall
    /\ UNCHANGED <<L, R, r, s, last_match_, index_, jdone>>

\* The parent calls the Limit again after nullptr.
Exhausted == done /\ UNCHANGED vars

Next == JoinStep \/ LimitStep \/ Exhausted

Spec == Init /\ [][Next]_vars

-----------------------------------------------------------------------------
\* The join's type invariant, with index_ never past last_match_.
TypeOK == MJ!TypeOK

(***************************************************************************)
(* MergeJoinResult: what the join has returned is a prefix of the equi-   *)
(* join of its sorted children, all of it once it returned nullptr, also  *)
(* when the Limit stops pulling it half way through a run of equal keys   *)
(* (replay of last_match_ across calls, its reset when the left key       *)
(* changes).                                                               *)
(***************************************************************************)
MergeJoinResult == MJ!MergeJoinResult

(***************************************************************************)
(* PlanResult: what the Limit returns is a prefix of the window (skip      *)
(* offset, then at most count records) of the equi-join, and the whole     *)
(* window once it returned nullptr: the result of                          *)
(* SELECT ... JOIN ... LIMIT count OFFSET offset.  It depends on both      *)
(* executors and on the join being pulled exactly as far as the Limit     *)
(* needs it.                                                               *)
(***************************************************************************)
LW == INSTANCE Limit WITH C <- MJ!JoinSeq, Rows <- {}

PlanResult == LW!LimitResult
=============================================================================
