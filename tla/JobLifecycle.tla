---------------------------- MODULE JobLifecycle ----------------------------
(***************************************************************************)
(* What the rest of the system may assume of an audit row, whoever races   *)
(* with whom: it is created queued, claimed at most once, closed in groups *)
(* by "failed", and, once its run has ended, never active again.  Only a   *)
(* claimed job is ever reported done or paused.                            *)
(***************************************************************************)
EXTENDS Naturals

CONSTANT Jobs

VARIABLES status, claims

Active == {"queued", "running"}
Terminal == {"done", "failed", "paused"}

Init ==
  /\ status = [j \in Jobs |-> "none"]
  /\ claims = [j \in Jobs |-> 0]

Create(j) ==
  /\ status[j] = "none"
  /\ status' = [status EXCEPT ![j] = "queued"]
  /\ UNCHANGED claims

\* A row that was closed while it waited may still be claimed, once.
Claim(j) ==
  /\ status[j] \in {"queued", "failed"} /\ claims[j] = 0
  /\ status' = [status EXCEPT ![j] = "running"]
  /\ claims' = [claims EXCEPT ![j] = 1]

Close ==
  /\ \A j \in Jobs :
       \/ status'[j] = status[j]
       \/ status[j] \in Active /\ status'[j] = "failed"
  /\ status' = [j \in Jobs |-> status'[j]]
  /\ UNCHANGED claims

End(j) ==
  \E s \in Terminal :
    /\ status[j] # "none"
    /\ claims[j] = 1 \/ s = "failed"
    /\ status' = [status EXCEPT ![j] = s]
    /\ UNCHANGED claims

Next ==
  \/ \E j \in Jobs : Create(j) \/ Claim(j) \/ End(j)
  \/ Close

Spec == Init /\ [][Next]_<<status, claims>>

=============================================================================
