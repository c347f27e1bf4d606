----------------------------- MODULE FifoSlots ------------------------------
(***************************************************************************)
(* What the queue of ads requests promises: at most MaxInflight callers    *)
(* hold a slot, the others stand in line and are served in the order in    *)
(* which they came, and a slot never stays free while somebody waits.      *)
(***************************************************************************)
EXTENDS Naturals, FiniteSets, Sequences

CONSTANTS Callers, MaxInflight

VARIABLES holders, line

Init == holders = {} /\ line = <<>>

InLine == {line[i] : i \in DOMAIN line}

Enter(c) ==
  /\ c \notin holders \cup InLine
  /\ line = <<>> /\ Cardinality(holders) < MaxInflight
  /\ holders' = holders \cup {c}
  /\ UNCHANGED line

Queue(c) ==
  /\ c \notin holders \cup InLine
  /\ Cardinality(holders) = MaxInflight
  /\ line' = Append(line, c)
  /\ UNCHANGED holders

Leave(c) ==
  /\ c \in holders
  /\ IF line = <<>>
     THEN holders' = holders \ {c} /\ UNCHANGED line
     ELSE holders' = (holders \ {c}) \cup {Head(line)} /\ line' = Tail(line)

Next == \E c \in Callers : Enter(c) \/ Queue(c) \/ Leave(c)

Spec == Init /\ [][Next]_<<holders, line>>
=============================================================================
