----------------------------- MODULE BackfillMC -----------------------------
(***************************************************************************)
(* Two instances of Backfill for TLC, one chosen at the start: "worker",   *)
(* with the constants of the cfg, where jobs go through Redis; and         *)
(* "inline", where there is no Redis and one session's process runs them.  *)
(***************************************************************************)
EXTENDS Backfill, TLC

CONSTANTS u1, u2, r1, j1, p1, p2, t1

OneTenant == [u \in Users |-> t1]

StartPause == u1 :> {"start", "pause"}
StartOrPause == (u1 :> {"start"}) @@ (u2 :> {"pause"})

CONSTANT Instances

VARIABLE instance

InlineRuns == INSTANCE Backfill WITH
    Ops <- (u1 :> {"start", "pause"}) @@ (u2 :> {}), Inline <- {r1}, Redis <- FALSE,
    Faults <- {"run error", "page error"}

MCInit == /\ instance \in Instances
          /\ \/ instance = "worker" /\ Init
             \/ instance = "inline" /\ InlineRuns!Init

MCNext == /\ \/ instance = "worker" /\ Next
             \/ instance = "inline" /\ InlineRuns!Next
          /\ instance' = instance

\* The fairness is the worker's: inline it only keeps a session from stopping half way.
MCSpec == MCInit /\ [][MCNext]_<<vars, instance>> /\ Fairness
=============================================================================
