------------------------------ MODULE AdsSlots ------------------------------
(***************************************************************************)
(* The requests to Meta's ads API (FacebookAdsService.graphGet): a counter *)
(* and a queue of callbacks keep a few in flight, and after a rate-limit   *)
(* answer the account, or all of them, are paused for a while.             *)
(***************************************************************************)
EXTENDS Naturals, FiniteSets, Sequences

CONSTANTS
  Callers,      \* computations that send one request at a time
  Accounts,     \* ad accounts
  NoAccount,    \* a request that belongs to no account
  User,         \* stands for the limit of the user or the app
  MaxInflight   \* graphAdsMaxInflight

ASSUME AdsSlotsConstants ==
  /\ IsFiniteSet(Callers)
  /\ MaxInflight \in Nat \ {0}
  /\ NoAccount \notin Accounts /\ User \notin Accounts \cup {NoAccount}

VARIABLES
  pc, acct,   \* per caller: where it is, the account it asks about
  inflight,   \* graphAdsInflight
  waiting,    \* graphAdsWaitQueue
  limited     \* what is paused: accounts, or User

vars == <<pc, acct, inflight, waiting, limited>>

TypeOK ==
  /\ pc \in [Callers -> {"idle", "wait", "send"}]
  /\ acct \in [Callers -> Accounts \cup {NoAccount}]
  /\ inflight \in Nat
  /\ waiting \in Seq(Callers)
  /\ limited \subseteq Accounts \cup {User}

Init ==
  /\ pc = [c \in Callers |-> "idle"]
  /\ acct = [c \in Callers |-> NoAccount]
  /\ inflight = 0 /\ waiting = <<>> /\ limited = {}

\* The checks at the head of graphGet, then acquireGraphAdsSlot.
Call(c) ==
  /\ pc[c] = "idle"
  /\ User \notin limited
  /\ \E x \in (Accounts \ limited) \cup {NoAccount} : acct' = [acct EXCEPT ![c] = x]
  /\ IF inflight < MaxInflight
     THEN /\ inflight' = inflight + 1
          /\ pc' = [pc EXCEPT ![c] = "send"]
          /\ UNCHANGED waiting
     ELSE /\ waiting' = Append(waiting, c)
          /\ pc' = [pc EXCEPT ![c] = "wait"]
          /\ UNCHANGED inflight
  /\ UNCHANGED limited

Dec(n) == IF n = 0 THEN 0 ELSE n - 1

\* Mutant of Release: the resumed caller is not counted.
ReleaseUncounted(c) ==
  LET next == Head(waiting) IN
  IF waiting = <<>>
  THEN /\ inflight' = Dec(inflight)
       /\ pc' = [pc EXCEPT ![c] = "idle"]
       /\ UNCHANGED waiting
  ELSE /\ inflight' = Dec(inflight)
       /\ waiting' = Tail(waiting)
       /\ pc' = [pc EXCEPT ![c] = "idle", ![next] = "send"]

\* Mutant of Release: the count goes down and nobody is resumed.
ReleaseForgets(c) ==
  /\ inflight' = Dec(inflight)
  /\ pc' = [pc EXCEPT ![c] = "idle"]
  /\ UNCHANGED waiting

\* Mutant of Release: the latest of the queue is resumed first.
ReleaseLatest(c) ==
  LET next == waiting[Len(waiting)] IN
  IF waiting = <<>>
  THEN /\ inflight' = Dec(inflight)
       /\ pc' = [pc EXCEPT ![c] = "idle"]
       /\ UNCHANGED waiting
  ELSE /\ inflight' = Dec(inflight) + 1
       /\ waiting' = SubSeq(waiting, 1, Len(waiting) - 1)
       /\ pc' = [pc EXCEPT ![c] = "idle", ![next] = "send"]

\* releaseGraphAdsSlot: the first callback of the queue counts its caller in
\* again and resumes it.
Release(c) ==
  LET next == Head(waiting) IN
  IF waiting = <<>>
  THEN /\ inflight' = Dec(inflight)
       /\ pc' = [pc EXCEPT ![c] = "idle"]
       /\ UNCHANGED waiting
  ELSE /\ inflight' = Dec(inflight) + 1
       /\ waiting' = Tail(waiting)
       /\ pc' = [pc EXCEPT ![c] = "idle", ![next] = "send"]

\* Mutant of Answer: a request without an account is not told apart.
AnswerAnyAccount(c) ==
  /\ pc[c] = "send"
  /\ \E L \in SUBSET {User, acct[c]} : limited' = limited \cup L
  /\ Release(c)
  /\ UNCHANGED acct

\* The answer: data, an error, or a rate limit of the user or the account,
\* which is remembered before the slot is given back.
Answer(c) ==
  /\ pc[c] = "send"
  /\ \E L \in SUBSET ({User} \cup ({acct[c]} \cap Accounts)) : limited' = limited \cup L
  /\ Release(c)
  /\ UNCHANGED acct

\* 20 or 30 minutes later.
LimitEnds(x) ==
  /\ x \in limited
  /\ limited' = limited \ {x}
  /\ UNCHANGED <<pc, acct, inflight, waiting>>

Next ==
  \/ \E c \in Callers : Call(c) \/ Answer(c)
  \/ \E x \in Accounts \cup {User} : LimitEnds(x)

Spec == Init /\ [][Next]_vars

\* Every request has a timeout, so an answer or an error comes.
FairSpec == Spec /\ \A c \in Callers : WF_vars(Answer(c))

-----------------------------------------------------------------------------
Sending == {c \in Callers : pc[c] = "send"}

\* The counter is the number of requests in flight and stays in the limit;
\* those that wait are in the queue, once each; nobody waits while a slot is
\* free.
SlotsCounted ==
  /\ inflight = Cardinality(Sending)
  /\ inflight <= MaxInflight
  /\ \A c \in Callers : (pc[c] = "wait") <=> (\E i \in DOMAIN waiting : waiting[i] = c)
  /\ \A i, j \in DOMAIN waiting : waiting[i] = waiting[j] => i = j
  /\ waiting # <<>> => inflight = MaxInflight

\* The counter and the callbacks are a fair line for the slots.
Line == INSTANCE FifoSlots WITH holders <- Sending, line <- waiting
LineSpec == Line!Spec

\* Every caller that waits is served.
WaiterServed == \A c \in Callers : (pc[c] = "wait") ~> (pc[c] = "send")

\* "tạm dừng ads API": no request is sent while its account, or the user, is
\* paused.
PausedWhenLimited ==
  [][\A c \in Callers : pc[c] # "send" /\ pc'[c] = "send" =>
       User \notin limited' /\ acct'[c] \notin limited']_vars

=============================================================================
