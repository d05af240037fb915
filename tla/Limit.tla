-------------------------------- MODULE Limit --------------------------------
(***************************************************************************)
(* LimitExecutor (executors/limit_executor.cpp).  The constructor takes    *)
(* offset_ (0 when absent) and count_ (-1 as an unsigned 32-bit value when *)
(* absent, meaning no limit) from the plan.  Each Next first skips offset_ *)
(* records of the child and sets offset_ to 0, then returns nullptr when   *)
(* count_ is 0 and otherwise the child's next record, decrementing a       *)
(* finite count_.                                                          *)
(*                                                                         *)
(* The child is its sequence of rows and a cursor c, the number of records *)
(* it has returned; past the end it keeps returning nullptr.               *)
(***************************************************************************)
EXTENDS Integers, Sequences, SequencesExt

CONSTANTS
    Rows,       \* row values
    MaxRows,    \* bound: rows of the child
    Offsets,    \* limit_offset_ values, NoValue for an absent one
    Counts,     \* limit_count_ values, NoValue for an absent one
    NoValue,    \* std::nullopt (a model value)
    CountBits   \* width of count_ (32 in the code; TLC's integers are 32-bit
                \* signed, so a model uses a width whose maximum is above Counts)

\* static_cast<uint32_t>(-1): the "no limit" value of count_
UINT32_MAX == 2^CountBits - 1

VARIABLES
    C,              \* the records the child returns
    c,              \* how many of them it has returned
    limit_offset_,  \* plan_->limit_offset_
    limit_count_,   \* plan_->limit_count_
    offset_, count_,
    output,         \* the records Next has returned
    done            \* Next has returned nullptr

vars == <<C, c, limit_offset_, limit_count_, offset_, count_, output, done>>

MinOf(a, b) == IF a <= b THEN a ELSE b

\* The constructor (5-11); Init (13) only initialises the child.
LimitInit ==
    /\ c = 0
    /\ limit_offset_ \in Offsets
    /\ limit_count_ \in Counts
    /\ offset_ = IF limit_offset_ = NoValue THEN 0 ELSE limit_offset_
    /\ count_ = IF limit_count_ = NoValue THEN UINT32_MAX ELSE limit_count_
    /\ output = <<>>
    /\ done = FALSE

Init == C \in BoundedSeq(Rows, MaxRows) /\ LimitInit

\* The child after skipping offset_ records (lines 19-22).
Skipped == MinOf(c + offset_, Len(C))

\* Mutant: offset_ is not cleared, so every call skips offset_ records.
NextCallNoReset ==
    /\ ~done
    /\ \/ /\ count_ = 0
          /\ done' = TRUE /\ c' = Skipped
          /\ UNCHANGED <<count_, output>>
       \/ /\ count_ # 0
          /\ c' = MinOf(Skipped + 1, Len(C))
          /\ count_' = IF count_ = UINT32_MAX THEN count_ ELSE count_ - 1
          /\ \/ Skipped < Len(C) /\ output' = Append(output, C[Skipped + 1]) /\ done' = FALSE
             \/ Skipped = Len(C) /\ output' = output /\ done' = TRUE
    /\ UNCHANGED <<C, limit_offset_, limit_count_, offset_>>

(***************************************************************************)
(* Next (14-42): skip offset_ records, clear offset_; nullptr when count_  *)
(* is 0; otherwise the child's next record (nullptr at its end), and a    *)
(* finite count_ is decremented.                                           *)
(***************************************************************************)
NextCall ==
    /\ ~done
    /\ \/ /\ count_ = 0
          /\ done' = TRUE /\ c' = Skipped
          /\ UNCHANGED <<count_, output>>
       \/ /\ count_ # 0
          /\ c' = MinOf(Skipped + 1, Len(C))
          /\ count_' = IF count_ = UINT32_MAX THEN count_ ELSE count_ - 1
          /\ \/ Skipped < Len(C) /\ output' = Append(output, C[Skipped + 1]) /\ done' = FALSE
             \/ Skipped = Len(C) /\ output' = output /\ done' = TRUE
    /\ offset_' = 0
    /\ UNCHANGED <<C, limit_offset_, limit_count_>>

\* The parent calls Next again after nullptr.
Exhausted == done /\ UNCHANGED vars

Next == NextCall \/ Exhausted

Spec == Init /\ [][Next]_vars

-----------------------------------------------------------------------------
(***************************************************************************)
(* LimitResult: what Next has returned is always a prefix of the child's   *)
(* records after the first offset ones, no longer than count, and once    *)
(* Next has returned nullptr it is the whole window (the specification:   *)
(* skip offset records, then return up to count; count 0 returns nullptr  *)
(* at once; no count means no limit).  It depends on the first call's     *)
(* skip, offset_ being cleared, and the unsigned "no limit" value.         *)
(***************************************************************************)
Window ==
    LET off == IF limit_offset_ = NoValue THEN 0 ELSE limit_offset_
        last == IF limit_count_ = NoValue THEN Len(C) ELSE MinOf(off + limit_count_, Len(C))
    IN  SubSeq(C, MinOf(off, Len(C)) + 1, last)

LimitResult ==
    /\ IsPrefix(output, Window)
    /\ done => output = Window
=============================================================================
