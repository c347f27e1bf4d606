--------------------------- MODULE AdsSlotsProofs ---------------------------
(***************************************************************************)
(* Proofs about AdsSlots, for any callers, accounts and limit: the counter *)
(* counts, and counter and callbacks implement the fair line of FifoSlots. *)
(***************************************************************************)
EXTENDS AdsSlots, FiniteSetTheorems, TLAPS

Safe == TypeOK /\ SlotsCounted

LEMMA SendingFinite == IsFiniteSet(Sending) /\ Cardinality(Sending) \in Nat
<1>1. Sending \in SUBSET Callers BY DEF Sending
<1> QED BY <1>1, AdsSlotsConstants, FS_Subset, FS_CardinalityType

LEMMA InitSafe == Init => Safe
<1> SUFFICES ASSUME Init PROVE Safe
  OBVIOUS
<1>1. Sending = {} BY DEF Init, Sending
<1>2. inflight = Cardinality(Sending) BY <1>1, FS_EmptySet DEF Init
<1>3. waiting = <<>> /\ DOMAIN waiting = {} BY DEF Init
<1>4. TypeOK BY DEF Init, TypeOK
<1>5. \A c \in Callers : pc[c] = "idle" BY DEF Init
<1> QED BY <1>2, <1>3, <1>4, <1>5, AdsSlotsConstants DEF Safe, SlotsCounted, Init

-----------------------------------------------------------------------------
\* A caller that finds a slot takes it; then nobody was waiting.
LEMMA CallTakes ==
  ASSUME Safe, NEW c \in Callers, Call(c), inflight < MaxInflight
  PROVE  /\ waiting = <<>> /\ waiting' = <<>>
         /\ Sending' = Sending \cup {c} /\ c \notin Sending
         /\ Safe'
<1>1. waiting = <<>> /\ waiting' = <<>>
  BY AdsSlotsConstants DEF Safe, TypeOK, SlotsCounted, Call
<1>2. Sending' = Sending \cup {c} /\ c \notin Sending
  BY DEF Safe, TypeOK, Call, Sending
<1>3. Cardinality(Sending') = Cardinality(Sending) + 1
  BY <1>2, SendingFinite, FS_AddElement
<1>4. TypeOK' BY <1>1 DEF Safe, TypeOK, Call
<1>5. inflight' = Cardinality(Sending') /\ inflight' <= MaxInflight
  BY <1>3, AdsSlotsConstants DEF Safe, TypeOK, SlotsCounted, Call
<1>6. \A d \in Callers : pc'[d] # "wait"
  BY <1>1 DEF Safe, TypeOK, SlotsCounted, Call
<1> QED BY <1>1, <1>2, <1>4, <1>5, <1>6 DEF Safe, SlotsCounted

\* A caller that finds none goes to the end of the queue.
LEMMA CallWaits ==
  ASSUME Safe, NEW c \in Callers, Call(c), ~ (inflight < MaxInflight)
  PROVE  /\ waiting' = Append(waiting, c)
         /\ \A i \in DOMAIN waiting : waiting[i] # c
         /\ Sending' = Sending /\ c \notin Sending
         /\ inflight = MaxInflight
         /\ Safe'
<1>1. waiting' = Append(waiting, c) /\ inflight' = inflight /\ inflight = MaxInflight
  BY AdsSlotsConstants DEF Safe, TypeOK, SlotsCounted, Call
<1>2. Sending' = Sending /\ c \notin Sending
  BY DEF Safe, TypeOK, Call, Sending
<1>3. TypeOK' BY <1>1 DEF Safe, TypeOK, Call
<1>4. \A i \in DOMAIN waiting : waiting[i] # c
  BY DEF Safe, SlotsCounted, Call
<1>5. pc' = [pc EXCEPT ![c] = "wait"]
  BY DEF Call
<1>6. /\ DOMAIN waiting' = 1 .. (Len(waiting) + 1) /\ DOMAIN waiting = 1 .. Len(waiting)
      /\ Len(waiting) \in Nat
      /\ \A i \in 1 .. Len(waiting) : waiting'[i] = waiting[i]
      /\ waiting'[Len(waiting) + 1] = c
  BY <1>1 DEF Safe, TypeOK
<1>7. \A d \in Callers : (pc'[d] = "wait") <=> (\E i \in DOMAIN waiting' : waiting'[i] = d)
  <2> SUFFICES ASSUME NEW d \in Callers
               PROVE  (pc'[d] = "wait") <=> (\E i \in DOMAIN waiting' : waiting'[i] = d)
    OBVIOUS
  <2>1. CASE d = c BY <1>5, <1>6, <2>1 DEF Safe, TypeOK
  <2>2. CASE d # c BY <1>5, <1>6, <2>2 DEF Safe, TypeOK, SlotsCounted
  <2> QED BY <2>1, <2>2
<1>8. \A i, j \in DOMAIN waiting' : waiting'[i] = waiting'[j] => i = j
  BY <1>4, <1>6 DEF Safe, SlotsCounted
<1> QED BY <1>1, <1>2, <1>3, <1>4, <1>7, <1>8 DEF Safe, SlotsCounted

\* A slot that is given back and not wanted becomes free.
LEMMA AnswerFrees ==
  ASSUME Safe, NEW c \in Callers, Answer(c), waiting = <<>>
  PROVE  /\ waiting' = <<>> /\ c \in Sending /\ Sending' = Sending \ {c}
         /\ Safe'
<1>1. waiting' = <<>> /\ inflight' = Dec(inflight) /\ pc' = [pc EXCEPT ![c] = "idle"]
  BY DEF Answer, Release
<1>2. c \in Sending /\ Sending' = Sending \ {c}
  BY <1>1 DEF Safe, TypeOK, Answer, Sending
<1>3. Cardinality(Sending') = Cardinality(Sending) - 1 /\ Cardinality(Sending') \in Nat
  BY <1>2, SendingFinite, FS_RemoveElement, FS_CardinalityType
<1>4. inflight' = Cardinality(Sending') /\ inflight' <= MaxInflight
  BY <1>1, <1>3, SendingFinite, AdsSlotsConstants DEF Safe, SlotsCounted, Dec
<1>5. TypeOK' BY <1>1, <1>3, <1>4 DEF Safe, TypeOK, Answer
<1>6. \A d \in Callers : pc'[d] # "wait"
  BY <1>1 DEF Safe, TypeOK, SlotsCounted
<1> QED BY <1>1, <1>2, <1>4, <1>5, <1>6 DEF Safe, SlotsCounted

\* A slot that is given back and wanted goes to the head of the queue.
LEMMA AnswerHandsOver ==
  ASSUME Safe, NEW c \in Callers, Answer(c), waiting # <<>>
  PROVE  /\ waiting' = Tail(waiting) /\ c \in Sending
         /\ Sending' = (Sending \ {c}) \cup {Head(waiting)}
         /\ Safe'
<1> DEFINE next == Head(waiting)
<1>1. /\ waiting' = Tail(waiting) /\ inflight' = Dec(inflight) + 1
      /\ pc' = [pc EXCEPT ![c] = "idle", ![next] = "send"]
  BY DEF Answer, Release
<1>2. /\ Len(waiting) \in Nat \ {0} /\ DOMAIN waiting = 1 .. Len(waiting)
      /\ next = waiting[1] /\ next \in Callers
  BY DEF Safe, TypeOK
<1>3. pc[next] = "wait" /\ pc[c] = "send" /\ next # c
  BY <1>2 DEF Safe, SlotsCounted, Answer
<1>4. c \in Sending /\ next \notin Sending /\ Sending' = (Sending \ {c}) \cup {next}
  BY <1>1, <1>2, <1>3 DEF Safe, TypeOK, Sending
<1>5. /\ IsFiniteSet(Sending \ {c})
      /\ Cardinality(Sending \ {c}) = Cardinality(Sending) - 1
      /\ Cardinality(Sending \ {c}) \in Nat
  BY <1>4, SendingFinite, FS_RemoveElement, FS_CardinalityType
<1>6. Cardinality(Sending') = Cardinality(Sending)
  <2>1. next \notin Sending \ {c} BY <1>4
  <2>2. Cardinality((Sending \ {c}) \cup {next}) = Cardinality(Sending \ {c}) + 1
    <3> HIDE DEF next
    <3> QED BY <2>1, <1>5, FS_AddElement
  <2>3. Cardinality(Sending') = Cardinality(Sending \ {c}) + 1 BY <1>4, <2>2
  <2> QED BY <1>5, <2>3, SendingFinite
<1>7. inflight' = inflight /\ inflight' = Cardinality(Sending')
  BY <1>1, <1>5, <1>6, SendingFinite DEF Safe, SlotsCounted, Dec
<1>8. /\ DOMAIN waiting' = 1 .. (Len(waiting) - 1)
      /\ \A i \in 1 .. (Len(waiting) - 1) : waiting'[i] = waiting[i + 1]
  BY <1>1, <1>2 DEF Safe, TypeOK
<1>9. TypeOK'
  BY <1>1, <1>2, <1>7 DEF Safe, TypeOK, Answer
<1>10. \A i \in DOMAIN waiting : i # 1 => waiting[i] # next
  BY <1>2 DEF Safe, SlotsCounted
<1>11. \A d \in Callers : (pc'[d] = "wait") <=> (\E i \in DOMAIN waiting' : waiting'[i] = d)
  <2> SUFFICES ASSUME NEW d \in Callers
               PROVE  (pc'[d] = "wait") <=> (\E i \in DOMAIN waiting' : waiting'[i] = d)
    OBVIOUS
  <2>1. CASE d = next
    <3>1. pc'[d] = "send" BY <1>1, <1>2, <1>3, <2>1 DEF Safe, TypeOK
    <3>2. \A i \in DOMAIN waiting' : waiting'[i] # next BY <1>2, <1>8, <1>10
    <3> QED BY <3>1, <3>2, <2>1
  <2>2. CASE d # next
    <3>1. (pc'[d] = "wait") <=> (pc[d] = "wait")
      BY <1>1, <1>3, <2>2 DEF Safe, TypeOK
    <3>2. ASSUME NEW i \in DOMAIN waiting, waiting[i] = d
          PROVE  \E k \in DOMAIN waiting' : waiting'[k] = d
      <4>1. i # 1 BY <1>2, <2>2, <3>2
      <4>2. i - 1 \in 1 .. (Len(waiting) - 1) /\ (i - 1) + 1 = i BY <1>2, <4>1
      <4>3. waiting'[i - 1] = d BY <1>8, <3>2, <4>2
      <4> QED BY <1>8, <4>2, <4>3
    <3>3. ASSUME NEW i \in DOMAIN waiting', waiting'[i] = d
          PROVE  \E k \in DOMAIN waiting : waiting[k] = d
      <4>1. i + 1 \in DOMAIN waiting /\ waiting[i + 1] = d BY <1>2, <1>8, <3>3
      <4> QED BY <4>1
    <3>4. (pc[d] = "wait") <=> (\E i \in DOMAIN waiting : waiting[i] = d)
      BY DEF Safe, SlotsCounted
    <3> QED BY <3>1, <3>2, <3>3, <3>4
  <2> QED BY <2>1, <2>2
<1>12. \A i, j \in DOMAIN waiting' : waiting'[i] = waiting'[j] => i = j
  <2> SUFFICES ASSUME NEW i \in DOMAIN waiting', NEW j \in DOMAIN waiting',
                      waiting'[i] = waiting'[j]
               PROVE  i = j
    OBVIOUS
  <2>1. i + 1 \in DOMAIN waiting /\ j + 1 \in DOMAIN waiting /\ waiting[i + 1] = waiting[j + 1]
    BY <1>2, <1>8
  <2>2. i + 1 = j + 1 BY <2>1 DEF Safe, SlotsCounted
  <2> QED BY <1>2, <1>8, <2>2
<1>13. inflight' <= MaxInflight /\ (waiting' # <<>> => inflight' = MaxInflight)
  BY <1>7 DEF Safe, SlotsCounted
<1> QED BY <1>1, <1>4, <1>7, <1>9, <1>11, <1>12, <1>13 DEF Safe, SlotsCounted

-----------------------------------------------------------------------------
LEMMA SafeStep == Safe /\ [Next]_vars => Safe'
<1> SUFFICES ASSUME Safe, [Next]_vars PROVE Safe'
  OBVIOUS
<1>1. ASSUME NEW c \in Callers, Call(c) PROVE Safe'
  BY <1>1, CallTakes, CallWaits
<1>2. ASSUME NEW c \in Callers, Answer(c) PROVE Safe'
  BY <1>2, AnswerFrees, AnswerHandsOver
<1>3. ASSUME NEW x \in Accounts \cup {User}, LimitEnds(x) PROVE Safe'
  BY <1>3 DEF LimitEnds, Safe, TypeOK, SlotsCounted, Sending
<1>4. CASE UNCHANGED vars
  BY <1>4 DEF vars, Safe, TypeOK, SlotsCounted, Sending
<1> QED BY <1>1, <1>2, <1>3, <1>4 DEF Next

THEOREM SafeAlways == Spec => []Safe
BY InitSafe, SafeStep, PTL DEF Spec

\* The types of all variables, for any callers, accounts and limit.
THEOREM TypeCorrect == Spec => []TypeOK
<1>1. Safe => TypeOK BY DEF Safe
<1> QED BY <1>1, SafeAlways, PTL

\* graphAdsInflight counts the requests in flight and never exceeds
\* graphAdsMaxInflight, the queue holds each waiting caller once, and nobody
\* waits while a slot is free.
THEOREM SlotsAlwaysCounted == Spec => []SlotsCounted
<1>1. Safe => SlotsCounted BY DEF Safe
<1> QED BY <1>1, SafeAlways, PTL

\* Counter and callbacks implement the line: first come, first served.
THEOREM ImplementsLine == Spec => LineSpec
<1>1. Init => Line!Init
  BY DEF Init, Line!Init, Sending
<1>2. Safe /\ [Next]_vars => [Line!Next]_<<Sending, waiting>>
  <2> SUFFICES ASSUME Safe, [Next]_vars
               PROVE  Line!Next \/ UNCHANGED <<Sending, waiting>>
    OBVIOUS
  <2>0. Line!Cardinality(Sending) = Cardinality(Sending)
    BY DEF Line!Cardinality, Cardinality
  <2>1. ASSUME NEW c \in Callers, Call(c), inflight < MaxInflight PROVE Line!Enter(c)
    <3>1. Cardinality(Sending) < MaxInflight BY <2>1 DEF Safe, SlotsCounted
    <3>2. waiting = <<>> /\ waiting' = <<>> /\ Sending' = Sending \cup {c} /\ c \notin Sending
      BY <2>1, CallTakes
    <3>3. c \notin Line!InLine BY <3>2 DEF Line!InLine
    <3> QED BY <2>0, <3>1, <3>2, <3>3 DEF Line!Enter
  <2>2. ASSUME NEW c \in Callers, Call(c), ~ (inflight < MaxInflight) PROVE Line!Queue(c)
    <3>1. /\ waiting' = Append(waiting, c) /\ Sending' = Sending /\ c \notin Sending
          /\ \A i \in DOMAIN waiting : waiting[i] # c
          /\ inflight = MaxInflight
      BY <2>2, CallWaits
    <3>2. Cardinality(Sending) = MaxInflight BY <3>1 DEF Safe, SlotsCounted
    <3>3. c \notin Line!InLine BY <3>1 DEF Line!InLine
    <3> QED BY <2>0, <3>1, <3>2, <3>3 DEF Line!Queue
  <2>3. ASSUME NEW c \in Callers, Answer(c), waiting = <<>> PROVE Line!Leave(c)
    BY <2>3, AnswerFrees DEF Line!Leave
  <2>4. ASSUME NEW c \in Callers, Answer(c), waiting # <<>> PROVE Line!Leave(c)
    BY <2>4, AnswerHandsOver DEF Line!Leave
  <2>5. ASSUME NEW x \in Accounts \cup {User}, LimitEnds(x)
        PROVE  UNCHANGED <<Sending, waiting>>
    BY <2>5 DEF LimitEnds, Sending
  <2>6. CASE UNCHANGED vars BY <2>6 DEF vars, Sending
  <2> QED BY <2>1, <2>2, <2>3, <2>4, <2>5, <2>6 DEF Next, Line!Next
<1> QED BY <1>1, <1>2, SafeAlways, PTL DEF Spec, LineSpec, Line!Spec

=============================================================================
