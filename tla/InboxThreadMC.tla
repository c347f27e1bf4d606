---------------------------- MODULE InboxThreadMC ---------------------------
(***************************************************************************)
(* Seven instances of InboxThread, one chosen at the start: "replies", two *)
(* replies with the constants of the cfg; "repeats", where webhooks are    *)
(* repeated and overtake each other; "everybody", where replies, webhooks  *)
(* and syncs meet; "refreshed", where the thread is read from Graph while  *)
(* one member of staff replies, in words that the customer does not use;   *)
(* "desk", where staff work at it; "counts" and "synced", where the page   *)
(* answers, or syncs read, between webhooks that arrive in turn.  An       *)
(* eighth, with errors and photos, is one of the services in ServicesMC.   *)
(* What InboxProofs proves of one conversation is then proved of the run   *)
(* that chooses among the seven.                                           *)
(***************************************************************************)
EXTENDS InboxProofs, TLC

CONSTANTS a, b, g, h, s, y, u1, u2

\* Everybody may write every text.
AnyWords == [w \in {"customer", "page", "ad", "staff"} |-> Texts]
OnlyA    == [w \in {"customer", "page", "ad", "staff"} |-> {a}]
TextsAB  == [w \in {"customer", "page", "ad", "staff"} |-> {a, b}]

\* The customer asks in other words than staff answer.
AskAndAnswer == [w \in {"customer", "page", "ad", "staff"} |-> IF w = "customer" THEN {a} ELSE {b}]

ASSUME NotAPhoto == "media" \notin {a, b}

VARIABLE instance

Repeats == INSTANCE InboxProofs WITH
    Texts <- {a}, Words <- OnlyA, Hooks <- {g, h}, MaxMsgs <- 2, Senders <- {s}, Syncs <- {},
    Does <- {"customer", "send", "receipt", "unread"}, Faults <- {"redeliver", "reorder"}

Everybody == INSTANCE InboxProofs WITH
    Texts <- {a}, Words <- OnlyA, Hooks <- {h}, MaxMsgs <- 2, Senders <- {s}, Syncs <- {y},
    Does <- {"customer", "send", "sync"}, Faults <- {"lost"}

Refreshed == INSTANCE InboxProofs WITH
    Texts <- {a, b}, Words <- AskAndAnswer, Hooks <- {h}, MaxMsgs <- 3, Senders <- {s},
    Syncs <- {}, Does <- {"customer", "send", "refresh"}, Faults <- {"lost"}

Counts == INSTANCE InboxProofs WITH
    Texts <- {a}, Words <- OnlyA, Hooks <- {h}, MaxMsgs <- 3, Senders <- {s}, Syncs <- {},
    Staff <- {u1}, Does <- {"customer", "send", "label", "receipt"}, Faults <- {"lost"}

Synced == INSTANCE InboxProofs WITH
    Texts <- {a}, Words <- OnlyA, Hooks <- {h}, MaxMsgs <- 3, Senders <- {}, Syncs <- {y},
    Does <- {"customer", "ad", "sync", "receipt"}, Faults <- {"lost"}

Desk == INSTANCE InboxProofs WITH
    Texts <- {a, b}, Words <- TextsAB, Hooks <- {h}, MaxMsgs <- 2, Senders <- {}, Staff <- {u1, u2},
    Does <- {"customer", "page", "view", "mark", "list", "label"}, Faults <- {"label error"}

MCInit == \/ instance = "replies" /\ Init
          \/ instance = "repeats" /\ Repeats!Init
          \/ instance = "everybody" /\ Everybody!Init
          \/ instance = "refreshed" /\ Refreshed!Init
          \/ instance = "counts" /\ Counts!Init
          \/ instance = "synced" /\ Synced!Init
          \/ instance = "desk" /\ Desk!Init

MCNext == /\ \/ instance = "replies" /\ Next
             \/ instance = "repeats" /\ Repeats!Next
             \/ instance = "everybody" /\ Everybody!Next
             \/ instance = "refreshed" /\ Refreshed!Next
             \/ instance = "counts" /\ Counts!Next
             \/ instance = "synced" /\ Synced!Next
             \/ instance = "desk" /\ Desk!Next
          /\ instance' = instance

MCSpec == MCInit /\ [][MCNext]_<<vars, instance>>

Symmetry == Permutations(Texts) \cup Permutations(Hooks) \cup Permutations(Senders)

\* A message nobody saw leaves the conversation unread, in the instances that keep the rules
\* InboxThread names for it (ingestMessagingEvent, syncSinglePageFromGraph).
EachSeenInOrder ==
    /\ instance = "counts" => Counts!UnseenIsUnread
    /\ instance = "synced" => Synced!UnseenIsUnread

\* Flag and preview are those of the last message, in the instances that keep the rules for
\* each (ingestMessagingEvent, sendMessageUnlocked).
EachInOrder ==
    /\ instance = "everybody" => Everybody!NeedsReplyRight
    /\ instance = "refreshed" => Refreshed!NeedsReplyRight
    /\ instance = "counts" => Counts!NeedsReplyRight /\ Counts!PreviewRight
    /\ instance = "synced" => Synced!NeedsReplyRight
    /\ instance = "desk" => Desk!NeedsReplyRight /\ Desk!PreviewRight

---------------------------------------------------------------------------
\* The six named instances keep to what InboxProofs assumes of the constants.
LEMMA InstanceConstants ==
    /\ Repeats!InboxConstants /\ Everybody!InboxConstants /\ Refreshed!InboxConstants
    /\ Counts!InboxConstants /\ Synced!InboxConstants /\ Desk!InboxConstants
<1>1. /\ {"redeliver", "reorder"} \subseteq Repeats!FaultKinds
      /\ {"lost"} \subseteq Everybody!FaultKinds
      /\ {"lost"} \subseteq Refreshed!FaultKinds
      /\ {"lost"} \subseteq Counts!FaultKinds
      /\ {"lost"} \subseteq Synced!FaultKinds
      /\ {"label error"} \subseteq Desk!FaultKinds
    BY Zenon DEF Repeats!FaultKinds, Everybody!FaultKinds, Refreshed!FaultKinds,
       Counts!FaultKinds, Synced!FaultKinds, Desk!FaultKinds
<1> QED BY <1>1, InboxConstants, NotAPhoto DEF InboxConstants, Repeats!InboxConstants,
   Everybody!InboxConstants, Refreshed!InboxConstants, Counts!InboxConstants,
   Synced!InboxConstants, Desk!InboxConstants

\* The rules that each instance keeps.
LEMMA RulesKept ==
    /\ Everybody!InTurn /\ Everybody!TakesReplies /\ Refreshed!InTurn /\ Refreshed!TakesReplies
    /\ Counts!InTurn /\ Counts!TakesReplies /\ Counts!CountRules /\ Counts!PreviewRules
    /\ Synced!InTurn /\ Synced!TakesReplies /\ Synced!CountRules
    /\ Desk!InTurn /\ Desk!TakesReplies /\ Desk!PreviewRules
<1>1. /\ Everybody!InTurn /\ Everybody!TakesReplies /\ Refreshed!InTurn
      /\ Refreshed!TakesReplies /\ Counts!InTurn /\ Counts!TakesReplies
      /\ Synced!InTurn /\ Synced!TakesReplies /\ Desk!InTurn /\ Desk!TakesReplies
    BY DEF Everybody!InTurn, Everybody!TakesReplies, Refreshed!InTurn, Refreshed!TakesReplies,
       Counts!InTurn, Counts!TakesReplies,
       Synced!InTurn, Synced!TakesReplies, Desk!InTurn, Desk!TakesReplies
<1>2. Counts!Calm /\ Desk!Calm
    BY DEF Counts!Calm, Desk!Calm
<1> QED BY <1>1, <1>2
        DEF Counts!CountRules, Counts!PreviewRules, Synced!CountRules, Desk!PreviewRules

\* The invariant of the run: that of each instance while it is the one chosen.
EachConvInv ==
    /\ instance = "replies" => ConvInv
    /\ instance = "repeats" => Repeats!ConvInv
    /\ instance = "everybody" => Everybody!ConvInv
    /\ instance = "refreshed" => Refreshed!ConvInv
    /\ instance = "counts" => Counts!ConvInv
    /\ instance = "synced" => Synced!ConvInv
    /\ instance = "desk" => Desk!ConvInv

LEMMA EachInit == MCInit => EachConvInv
BY InstanceConstants, ConvInit, Repeats!ConvInit, Everybody!ConvInit, Refreshed!ConvInit,
   Counts!ConvInit, Synced!ConvInit, Desk!ConvInit DEF MCInit, EachConvInv

LEMMA EachStep == EachConvInv /\ [MCNext]_<<vars, instance>> => EachConvInv'
<1> SUFFICES ASSUME EachConvInv, [MCNext]_<<vars, instance>> PROVE EachConvInv'
  OBVIOUS
<1>1. instance' = instance
    BY DEF MCNext
<1>2. CASE instance = "replies"
  <2>1. ConvInv /\ [Next]_vars
    BY <1>2 DEF EachConvInv, MCNext
  <2> QED BY <1>1, <1>2, <2>1, ConvStep DEF EachConvInv
<1>3. CASE instance = "repeats"
  <2>1. Repeats!ConvInv /\ [Repeats!Next]_vars
    BY <1>3 DEF EachConvInv, MCNext
  <2> QED BY <1>1, <1>3, <2>1, InstanceConstants, Repeats!ConvStep
          DEF EachConvInv, vars, Repeats!vars
<1>4. CASE instance = "everybody"
  <2>1. Everybody!ConvInv /\ [Everybody!Next]_vars
    BY <1>4 DEF EachConvInv, MCNext
  <2> QED BY <1>1, <1>4, <2>1, InstanceConstants, Everybody!ConvStep
          DEF EachConvInv, vars, Everybody!vars
<1>5. CASE instance = "counts"
  <2>1. Counts!ConvInv /\ [Counts!Next]_vars
    BY <1>5 DEF EachConvInv, MCNext
  <2> QED BY <1>1, <1>5, <2>1, InstanceConstants, Counts!ConvStep
          DEF EachConvInv, vars, Counts!vars
<1>6. CASE instance = "synced"
  <2>1. Synced!ConvInv /\ [Synced!Next]_vars
    BY <1>6 DEF EachConvInv, MCNext
  <2> QED BY <1>1, <1>6, <2>1, InstanceConstants, Synced!ConvStep
          DEF EachConvInv, vars, Synced!vars
<1>7. CASE instance = "desk"
  <2>1. Desk!ConvInv /\ [Desk!Next]_vars
    BY <1>7 DEF EachConvInv, MCNext
  <2> QED BY <1>1, <1>7, <2>1, InstanceConstants, Desk!ConvStep
          DEF EachConvInv, vars, Desk!vars
<1>8. CASE instance = "refreshed"
  <2>1. Refreshed!ConvInv /\ [Refreshed!Next]_vars
    BY <1>8 DEF EachConvInv, MCNext
  <2> QED BY <1>1, <1>8, <2>1, InstanceConstants, Refreshed!ConvStep
          DEF EachConvInv, vars, Refreshed!vars
<1>9. CASE instance \notin {"replies", "repeats", "everybody", "refreshed", "counts", "synced",
                           "desk"}
  BY <1>1, <1>9 DEF EachConvInv
<1> QED BY <1>2, <1>3, <1>4, <1>5, <1>6, <1>7, <1>8, <1>9

\* From the invariant of InboxProofs in each instance that keeps the rules: a message nobody saw
\* leaves the conversation unread.
THEOREM EachSeen == MCSpec => []EachSeenInOrder
<1>1. EachConvInv => EachSeenInOrder
  BY InstanceConstants, RulesKept, Counts!ConvHolds, Synced!ConvHolds
     DEF EachConvInv, EachSeenInOrder, Counts!SeenInOrder, Synced!SeenInOrder
<1> QED BY <1>1, EachInit, EachStep, PTL DEF MCSpec

\* And flag and preview are those of the last message.
THEOREM EachLast == MCSpec => []EachInOrder
<1>1. EachConvInv => EachInOrder
  BY InstanceConstants, RulesKept, Everybody!ConvHolds, Refreshed!ConvHolds, Counts!ConvHolds,
     Synced!ConvHolds, Desk!ConvHolds
     DEF EachConvInv, EachInOrder, Everybody!InOrder, Refreshed!InOrder,
         Counts!InOrder, Synced!InOrder, Desk!InOrder
<1> QED BY <1>1, EachInit, EachStep, PTL DEF MCSpec
=============================================================================
