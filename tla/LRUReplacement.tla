--------------------------- MODULE LRUReplacement ---------------------------
(***************************************************************************)
(* What a least-recently-used replacement policy promises, independent of  *)
(* how it stores the access history: the frames it tracks, and for every   *)
(* two of them which was used less recently.  Touching a frame makes it    *)
(* the most recent; a victim is a tracked frame that was used less         *)
(* recently than every other tracked frame, and is no longer tracked.      *)
(***************************************************************************)
CONSTANT Frames

VARIABLES
    tracked,   \* the frames the policy can choose a victim from
    older      \* <<f, g>>: f was last used before g

Init == tracked = {} /\ older = {}

\* The pairs that do not mention f.
Without(f) == {pr \in older : pr[1] # f /\ pr[2] # f}

Touch(f) ==
    /\ tracked' = tracked \cup {f}
    /\ older' = Without(f) \cup {<<g, f>> : g \in tracked \ {f}}

Victimize(v) ==
    /\ v \in tracked
    /\ \A g \in tracked \ {v} : <<v, g>> \in older
    /\ tracked' = tracked \ {v}
    /\ older' = Without(v)

Next == \E f \in Frames : Touch(f) \/ Victimize(f)

Spec == Init /\ [][Next]_<<tracked, older>>
=============================================================================
