---------------------------- MODULE AuditJobsMC ----------------------------
(***************************************************************************)
(* Instances of AuditJobs for TLC: two sessions of one tenant (or of two), *)
(* with the requests each run is about.                                    *)
(***************************************************************************)
EXTENDS AuditJobs

CONSTANTS u1, u2, j1, j2, j3, t1, t2

JobSymmetry == Permutations(Jobs)

OneTenant == [u \in Users |-> t1]
TwoTenants == (u1 :> t1) @@ (u2 :> t2)

AskAndCancel == (u1 :> {"run"}) @@ (u2 :> {"cancel"})
AskAndPause == (u1 :> {"run"}) @@ (u2 :> {"pause"})
AskAndStop == (u1 :> {"run"}) @@ (u2 :> {"cancel", "force"})
AskAndForce == (u1 :> {"run"}) @@ (u2 :> {"force"})
OnlyAskAndForce == u1 :> {"run", "force"}
OnlyAskAndPoll == u1 :> {"run", "poll"}

=============================================================================
