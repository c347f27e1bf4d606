-------------------------- MODULE AuditJobsProofs --------------------------
(***************************************************************************)
(* What can be trusted of an audit job and its outcome, for any number of  *)
(* jobs, sessions, tenants, pages, consumers and conversations.            *)
(*                                                                         *)
(* Types: every variable keeps its type, and a busy actor holds a job.     *)
(*                                                                         *)
(* Ownership: no job is run by two runners, a row is claimed at most once  *)
(* and a run that ended stays ended, whatever crashes, breaks or ages, as  *)
(* long as no reply of Redis to an LPUSH is lost.                          *)
(*                                                                         *)
(* Outcomes: a running row has a runner, a queued row is carried by        *)
(* somebody, a job that is done has scored what it found, and a job that   *)
(* is paused was asked to pause.  Each theorem names the faults it         *)
(* excludes.                                                               *)
(*                                                                         *)
(* The first part proves types, the second ownership.  The third says what *)
(* a step leaves alone and what it does to the status of a row; then comes *)
(* a section for each outcome, with the inductive invariant it needs and   *)
(* one lemma for each part of it.                                          *)
(***************************************************************************)
EXTENDS AuditJobs, SequenceTheorems, TLAPS

-----------------------------------------------------------------------------
\* The list a purge writes back is made of items it read.
LEMMA PurgedList ==
  ASSUME NEW S, NEW s \in Seq(S), NEW i \in DOMAIN s
  PROVE  /\ Reverse(RemoveAt(s, i)) \in Seq(S)
         /\ \A k \in DOMAIN Reverse(RemoveAt(s, i)) :
              \E n \in DOMAIN s : Reverse(RemoveAt(s, i))[k] = s[n]
<1> DEFINE r == RemoveAt(s, i)
<1>1. /\ r \in Seq(S)
      /\ Len(r) = Len(s) - 1
      /\ \A k \in 1 .. Len(r) : r[k] = IF k < i THEN s[k] ELSE s[k + 1]
  <2>1. i \in 1 .. Len(s) /\ Len(s) \in Nat
    OBVIOUS
  <2> DEFINE p == SubSeq(s, 1, i - 1)
             q == SubSeq(s, i + 1, Len(s))
  <2>2. p \in Seq(S) /\ Len(p) = i - 1 /\ \A k \in 1 .. i - 1 : p[k] = s[k]
    BY <2>1, SubSeqProperties
  <2>3. q \in Seq(S) /\ Len(q) = Len(s) - i /\ \A k \in 1 .. Len(s) - i : q[k] = s[k + i]
    BY <2>1, SubSeqProperties
  <2>4. r = p \o q
    BY DEF RemoveAt
  <2> HIDE DEF p, q, r
  <2> QED BY <2>1, <2>2, <2>3, <2>4
<1>2. Reverse(r) = [k \in 1 .. Len(r) |-> r[(Len(r) - k) + 1]]
  BY DEF Reverse
<1>3. \A k \in 1 .. Len(r) : (Len(r) - k) + 1 \in 1 .. Len(r)
  BY <1>1
<1> HIDE DEF r
<1>4. Reverse(r) \in Seq(S)
  BY <1>1, <1>2, <1>3
<1>5. ASSUME NEW k \in DOMAIN Reverse(r)
      PROVE  \E n \in DOMAIN s : Reverse(r)[k] = s[n]
  <2>1. k \in 1 .. Len(r) /\ Reverse(r)[k] = r[(Len(r) - k) + 1]
    BY <1>2
  <2> DEFINE m == (Len(r) - k) + 1
  <2>2. m \in 1 .. Len(r)
    BY <2>1, <1>1
  <2>3. r[m] = IF m < i THEN s[m] ELSE s[m + 1]
    BY <2>2, <1>1
  <2>4. m \in DOMAIN s /\ m + 1 \in DOMAIN s
    BY <2>2, <1>1
  <2> QED BY <2>1, <2>3, <2>4
<1> QED BY <1>4, <1>5 DEF r

-----------------------------------------------------------------------------
LEMMA HostTyped == \A a : Host(a) \in Hosts
BY DEF Host, Hosts

LEMMA FlagHelpersTyped ==
  ASSUME FlagsTyped, NEW h \in Hosts
  PROVE  /\ \A j \in Jobs : UNCHANGED memPause /\ SetPauseFlag(h, j) => FlagsTyped'
         /\ \A j \in Jobs : memPause' = [memPause EXCEPT ![h] = @ \cup {j}]
                              /\ SetPauseFlag(h, j) => FlagsTyped'
         /\ \A j \in Jobs : memPause' = [memPause EXCEPT ![h] = @ \ {j}]
                              /\ SetPauseFlag(h, j) => FlagsTyped'
         /\ \A J : ForgetPause(h, J) => FlagsTyped'
         /\ \A j \in Jobs : CheckStop(h, j) => FlagsTyped'
<1> USE DEF FlagsTyped
<1>1. ASSUME NEW j \in Jobs, SetPauseFlag(h, j)
      PROVE  /\ pauseLocal' \in [Hosts -> SUBSET Jobs]
             /\ negCache' \in [Hosts -> SUBSET Jobs]
             /\ pauseRedis' \subseteq Jobs
  BY <1>1 DEF SetPauseFlag
<1>2. ASSUME NEW j \in Jobs
      PROVE  /\ [memPause EXCEPT ![h] = @ \cup {j}] \in [Hosts -> SUBSET Jobs]
             /\ [memPause EXCEPT ![h] = @ \ {j}] \in [Hosts -> SUBSET Jobs]
             /\ [pauseLocal EXCEPT ![h] = @ \cup {j}] \in [Hosts -> SUBSET Jobs]
             /\ [negCache EXCEPT ![h] = @ \cup {j}] \in [Hosts -> SUBSET Jobs]
  OBVIOUS
<1>3. ASSUME NEW J, ForgetPause(h, J) PROVE FlagsTyped'
  BY <1>3 DEF ForgetPause
<1>4. ASSUME NEW j \in Jobs, CheckStop(h, j) PROVE FlagsTyped'
  <2>1. CASE UNCHANGED flagVars
    BY <2>1 DEF flagVars
  <2>2. CASE /\ memPause' = [memPause EXCEPT ![h] = @ \cup {j}]
             /\ pauseLocal' = [pauseLocal EXCEPT ![h] = @ \cup {j}]
             /\ UNCHANGED <<negCache, pauseRedis>>
    BY <1>2, <2>2
  <2>3. CASE memPause' = [memPause EXCEPT ![h] = @ \cup {j}] /\ SetPauseFlag(h, j)
    BY <1>1, <1>2, <2>3
  <2>4. CASE /\ negCache' = [negCache EXCEPT ![h] = @ \cup {j}]
             /\ UNCHANGED <<memPause, pauseLocal, pauseRedis>>
    BY <1>2, <2>4
  <2> QED BY <1>4, <2>1, <2>2, <2>3, <2>4 DEF CheckStop
<1> HIDE DEF FlagsTyped
<1>5. ASSUME NEW j \in Jobs, SetPauseFlag(h, j),
             \/ UNCHANGED memPause
             \/ memPause' = [memPause EXCEPT ![h] = @ \cup {j}]
             \/ memPause' = [memPause EXCEPT ![h] = @ \ {j}]
      PROVE  FlagsTyped'
  BY <1>1, <1>2, <1>5 DEF FlagsTyped
<1> QED BY <1>3, <1>4, <1>5

LEMMA RowHelpersTyped ==
  ASSUME RowsTyped
  PROVE  /\ \A J : FailRows(J) => status' \in [Jobs -> {"none"} \cup Active \cup Terminal]
         /\ \A j : \A p \in {"page", "conv"} : Report(j, p) =>
              /\ progress' \in [Jobs -> {"none", "page", "conv"}]
              /\ pausing' \in [Jobs -> BOOLEAN]
<1>1. ASSUME NEW J, FailRows(J)
      PROVE  status' \in [Jobs -> {"none"} \cup Active \cup Terminal]
  BY <1>1 DEF RowsTyped, FailRows, Terminal
<1>2. ASSUME NEW j, NEW p \in {"page", "conv"}, Report(j, p)
      PROVE  progress' \in [Jobs -> {"none", "page", "conv"}]
  BY <1>2 DEF RowsTyped, Report
<1>3. ASSUME NEW j, NEW p \in {"page", "conv"}, Report(j, p)
      PROVE  pausing' \in [Jobs -> BOOLEAN]
  BY <1>3 DEF RowsTyped, Report
<1> QED BY <1>1, <1>2, <1>3

\* Leaving a handler or a run.
LEMMA ReturnTyped ==
  ASSUME RequestsTyped, ListsTyped, HoldsJob, NEW a \in Actors, Return(a)
  PROVE  RequestsTyped' /\ snap' \in [Actors -> Seq(Jobs)] /\ HoldsJob'
<1>1. pc' \in [Actors -> Pcs]
  BY DEF RequestsTyped, Return, Go, Pcs
<1>2. /\ op' \in [Actors -> UserOps \cup {"none", "cron"}]
      /\ cur' \in [Actors -> Jobs \cup {NoJob}]
      /\ seen' \in [Actors -> SUBSET Jobs]
  BY DEF RequestsTyped, Return, Drop
<1>3. left' \in [Actors -> 0 .. CronPages]
  BY ConstantsOK DEF RequestsTyped, Return, Drop
<1>4. snap' \in [Actors -> Seq(Jobs)]
  BY DEF ListsTyped, Return, Drop
<1>5. HoldsJob'
  BY DEF RequestsTyped, HoldsJob, FreePcs, Return, Go, Drop
<1> QED BY <1>1, <1>2, <1>3, <1>4, <1>5 DEF RequestsTyped

LEMMA NextPageTyped ==
  ASSUME RequestsTyped, ListsTyped, HoldsJob, NEW a \in Actors, NextPageOrReturn(a)
  PROVE  RequestsTyped' /\ snap' \in [Actors -> Seq(Jobs)] /\ HoldsJob'
<1>1. CASE Return(a)
  BY <1>1, ReturnTyped
<1>2. CASE Go(a, "create") /\ cur' = [cur EXCEPT ![a] = NoJob] /\ UNCHANGED reqVars
  <2>1. pc' \in [Actors -> Pcs] /\ cur' \in [Actors -> Jobs \cup {NoJob}]
    BY <1>2 DEF RequestsTyped, Go, Pcs, RequestPcs
  <2>2. HoldsJob'
    BY <1>2 DEF RequestsTyped, HoldsJob, FreePcs, Go
  <2> QED BY <1>2, <2>1, <2>2 DEF RequestsTyped, ListsTyped, reqVars
<1> QED BY <1>1, <1>2 DEF NextPageOrReturn

LEMMA DropRunTyped ==
  ASSUME RunsTyped, NEW a \in Actors, DropRun(a)
  PROVE  RunsTyped'
BY ConstantsOK DEF RunsTyped, DropRun, Terminal

\* A step that moves a along its program and changes no job of an actor but
\* for giving a one.
LEMMA GoTyped ==
  ASSUME RequestsTyped, HoldsJob, NEW a \in Actors, NEW label \in Pcs, Go(a, label),
         \/ UNCHANGED cur /\ (cur[a] = NoJob => label \in FreePcs)
         \/ \E j \in Jobs : cur' = [cur EXCEPT ![a] = j]
  PROVE  /\ pc' \in [Actors -> Pcs]
         /\ cur' \in [Actors -> Jobs \cup {NoJob}]
         /\ HoldsJob'
<1>1. pc' \in [Actors -> Pcs]
  BY DEF RequestsTyped, Go
<1>2. cur' \in [Actors -> Jobs \cup {NoJob}]
  BY DEF RequestsTyped
<1>3. HoldsJob'
  BY ConstantsOK DEF RequestsTyped, HoldsJob, FreePcs, Go
<1> QED BY <1>1, <1>2, <1>3

LEMMA HasJob ==
  ASSUME TypeOK, NEW a \in Actors, pc[a] \notin FreePcs
  PROVE  cur[a] \in Jobs
BY DEF TypeOK, RequestsTyped, HoldsJob

LEMMA AdvanceTyped ==
  ASSUME TypeOK, NEW a \in Actors, NEW label \in Pcs, Go(a, label), UNCHANGED <<cur, reqVars>>,
         pc[a] \in FreePcs => label \in FreePcs
  PROVE  RequestsTyped' /\ HoldsJob' /\ snap' = snap
<1>1. cur[a] = NoJob => label \in FreePcs
  BY DEF TypeOK, HoldsJob
<1>2. pc' \in [Actors -> Pcs] /\ cur' \in [Actors -> Jobs \cup {NoJob}] /\ HoldsJob'
  BY <1>1, GoTyped DEF TypeOK
<1> QED BY <1>2 DEF TypeOK, RequestsTyped, reqVars

\* A group whose variables do not change keeps its types.
LEMMA Frames ==
  ASSUME TypeOK
  PROVE  /\ UNCHANGED <<rowVars, audits>> => RowsTyped'
         /\ UNCHANGED <<pauseRedis, procVars>> => FlagsTyped'
         /\ UNCHANGED faultVars => HostsTyped'
         /\ UNCHANGED <<pc, cur, reqVars>> => RequestsTyped' /\ HoldsJob'
         /\ UNCHANGED <<queue, snap>> => ListsTyped'
         /\ UNCHANGED runVars => RunsTyped'
         /\ UNCHANGED histVars => HistoryTyped'
<1>1. UNCHANGED <<rowVars, audits>> => RowsTyped'
  BY DEF TypeOK, RowsTyped, rowVars
<1>2. UNCHANGED <<pauseRedis, procVars>> => FlagsTyped'
  BY DEF TypeOK, FlagsTyped, procVars
<1>3. UNCHANGED faultVars => HostsTyped'
  BY DEF TypeOK, HostsTyped, faultVars
<1>4. UNCHANGED <<pc, cur, reqVars>> => RequestsTyped' /\ HoldsJob'
  BY DEF TypeOK, RequestsTyped, HoldsJob, reqVars
<1>5. UNCHANGED <<queue, snap>> => ListsTyped'
  BY DEF TypeOK, ListsTyped
<1>6. UNCHANGED runVars => RunsTyped'
  BY DEF TypeOK, RunsTyped, runVars
<1>7. UNCHANGED histVars => HistoryTyped'
  BY DEF TypeOK, HistoryTyped, histVars
<1> QED BY <1>1, <1>2, <1>3, <1>4, <1>5, <1>6, <1>7

-----------------------------------------------------------------------------
LEMMA TypeInit == Init => TypeOK
<1> SUFFICES ASSUME Init PROVE TypeOK
  OBVIOUS
<1>1. RowsTyped
  BY ConstantsOK DEF Init, RowsTyped, Active, Terminal
<1>2. FlagsTyped /\ HostsTyped
  BY DEF Init, FlagsTyped, HostsTyped, Hosts
<1>3. RequestsTyped /\ ListsTyped
  BY ConstantsOK DEF Init, RequestsTyped, ListsTyped, Pcs
<1>4. RunsTyped /\ HistoryTyped
  BY ConstantsOK DEF Init, RunsTyped, HistoryTyped, Terminal
<1>5. HoldsJob
  BY DEF Init, HoldsJob, FreePcs
<1> QED BY <1>1, <1>2, <1>3, <1>4, <1>5 DEF TypeOK

\* Every action keeps the types: the groups it changes one by one, the others
\* because their variables are unchanged.
LEMMA TypeStep == TypeOK /\ [Next]_vars => TypeOK'
<1> SUFFICES ASSUME TypeOK, [Next]_vars PROVE TypeOK'
  OBVIOUS
<1> USE ConstantsOK
<1>1. ASSUME NEW a \in ApiActors, StaleFind(a) PROVE TypeOK'
  <2> a \in Actors
    BY DEF ApiActors, Actors
  <2>1. FlagsTyped'
    BY <1>1, FlagHelpersTyped DEF StaleFind, TypeOK, Hosts
  <2>2. RequestsTyped' /\ HoldsJob' /\ snap' = snap
    BY <1>1, AdvanceTyped DEF StaleFind, Pcs, RequestPcs, RunPcs, FreePcs, Active
  <2>3. ListsTyped'
    BY <1>1, <2>2 DEF StaleFind, TypeOK, ListsTyped
  <2>4. RowsTyped' /\ HostsTyped' /\ RunsTyped' /\ HistoryTyped'
    BY <1>1, Frames DEF StaleFind
  <2> QED BY <2>1, <2>2, <2>3, <2>4 DEF TypeOK
<1>2. ASSUME NEW a \in ApiActors, StaleUpdate(a) PROVE TypeOK'
  <2> a \in Actors
    BY DEF ApiActors, Actors
  <2>1. RowsTyped'
    BY <1>2, RowHelpersTyped DEF StaleUpdate, TypeOK, RowsTyped
  <2>2. RequestsTyped' /\ HoldsJob' /\ snap' = snap
    BY <1>2, AdvanceTyped DEF StaleUpdate, Pcs, RequestPcs, RunPcs, FreePcs, Active
  <2>3. ListsTyped'
    BY <1>2, <2>2 DEF StaleUpdate, TypeOK, ListsTyped, redisVars
  <2>4. FlagsTyped' /\ HostsTyped' /\ RunsTyped' /\ HistoryTyped'
    BY <1>2, Frames DEF StaleUpdate, redisVars
  <2> QED BY <2>1, <2>2, <2>3, <2>4 DEF TypeOK
<1>3. ASSUME NEW a \in ApiActors, FindActive(a) PROVE TypeOK'
  <2> a \in Actors
    BY DEF ApiActors, Actors
  <2>1. RequestsTyped' /\ HoldsJob' /\ snap' \in [Actors -> Seq(Jobs)]
    <3>1. CASE Return(a)
      BY <3>1, ReturnTyped DEF TypeOK
    <3>2. CASE pc[a] = "find" /\ Go(a, "create") /\ UNCHANGED <<cur, reqVars>>
      BY <3>2, AdvanceTyped DEF Pcs, RequestPcs, FreePcs, TypeOK, ListsTyped
    <3> QED BY <1>3, <3>1, <3>2 DEF FindActive
  <2>2. ListsTyped'
    BY <1>3, <2>1 DEF FindActive, TypeOK, ListsTyped, redisVars
  <2>3. RowsTyped' /\ FlagsTyped' /\ HostsTyped' /\ RunsTyped' /\ HistoryTyped'
    BY <1>3, Frames DEF FindActive, redisVars
  <2> QED BY <2>1, <2>2, <2>3 DEF TypeOK
<1>4. ASSUME NEW a \in ApiActors, Create(a) PROVE TypeOK'
  <2> a \in Actors
    BY DEF ApiActors, Actors
  <2>1. RowsTyped'
    BY <1>4 DEF Create, TypeOK, RowsTyped, Active
  <2>2. pc' \in [Actors -> Pcs] /\ cur' \in [Actors -> Jobs \cup {NoJob}] /\ HoldsJob'
    BY <1>4, GoTyped DEF Create, TypeOK, Pcs, RequestPcs
  <2>3. RequestsTyped'
    <3>1. left' \in [Actors -> 0 .. CronPages]
      BY <1>4 DEF Create, TypeOK, RequestsTyped
    <3> QED BY <1>4, <2>2, <3>1 DEF Create, TypeOK, RequestsTyped
  <2>4. ListsTyped'
    BY <1>4 DEF Create, TypeOK, ListsTyped, redisVars
  <2>5. FlagsTyped' /\ HostsTyped' /\ RunsTyped' /\ HistoryTyped'
    BY <1>4, Frames DEF Create, redisVars
  <2> QED BY <2>1, <2>2, <2>3, <2>4, <2>5 DEF TypeOK
<1>5. ASSUME NEW a \in ApiActors, OutOfIds(a) PROVE TypeOK'
  <2> a \in Actors
    BY DEF ApiActors, Actors
  <2>1. RequestsTyped' /\ HoldsJob' /\ snap' \in [Actors -> Seq(Jobs)]
    BY <1>5, ReturnTyped DEF OutOfIds, TypeOK
  <2>2. ListsTyped'
    BY <1>5, <2>1 DEF OutOfIds, TypeOK, ListsTyped, redisVars
  <2>3. RowsTyped' /\ FlagsTyped' /\ HostsTyped' /\ RunsTyped' /\ HistoryTyped'
    BY <1>5, Frames DEF OutOfIds, redisVars
  <2> QED BY <2>1, <2>2, <2>3 DEF TypeOK
<1>6. ASSUME NEW a \in ApiActors, Enqueue(a) PROVE TypeOK'
  <2> a \in Actors
    BY DEF ApiActors, Actors
  <2>1. RequestsTyped' /\ HoldsJob' /\ snap' \in [Actors -> Seq(Jobs)]
    BY <1>6, NextPageTyped DEF Enqueue, TypeOK
  <2>2. queue' \in Seq(Jobs)
    <3>1. cur[a] \in Jobs
      BY <1>6, HasJob DEF Enqueue, FreePcs
    <3>2. queue \in Seq(Jobs)
      BY DEF TypeOK, ListsTyped
    <3>3. Append(queue, cur[a]) \in Seq(Jobs)
      BY <3>1, <3>2, AppendProperties
    <3> QED BY <1>6, <3>2, <3>3 DEF Enqueue
  <2>3. ListsTyped'
    BY <2>1, <2>2 DEF ListsTyped
  <2>4. RowsTyped' /\ FlagsTyped' /\ HostsTyped' /\ RunsTyped' /\ HistoryTyped'
    BY <1>6, Frames DEF Enqueue
  <2> QED BY <2>1, <2>2, <2>3, <2>4 DEF TypeOK
<1>7. ASSUME NEW a \in ApiActors, EnqueueFails(a) PROVE TypeOK'
  <2> a \in Actors
    BY DEF ApiActors, Actors
  <2>1. RequestsTyped' /\ HoldsJob' /\ snap' = snap
    BY <1>7, AdvanceTyped DEF EnqueueFails, Pcs, RequestPcs, RunPcs, FreePcs
  <2>2. queue' \in Seq(Jobs)
    <3>1. cur[a] \in Jobs
      BY <1>7, HasJob DEF EnqueueFails, FreePcs
    <3>2. queue \in Seq(Jobs)
      BY DEF TypeOK, ListsTyped
    <3>3. Append(queue, cur[a]) \in Seq(Jobs)
      BY <3>1, <3>2, AppendProperties
    <3> QED BY <1>7, <3>2, <3>3 DEF EnqueueFails
  <2>3. ListsTyped'
    BY <2>1, <2>2 DEF TypeOK, ListsTyped
  <2>4. RunsTyped'
    BY <1>7 DEF EnqueueFails, TypeOK, RunsTyped, Terminal
  <2>5. RowsTyped' /\ FlagsTyped' /\ HostsTyped' /\ HistoryTyped'
    BY <1>7, Frames DEF EnqueueFails
  <2> QED BY <2>1, <2>2, <2>3, <2>4, <2>5 DEF TypeOK
<1>8. ASSUME NEW a \in ApiActors, PauseFlag(a) PROVE TypeOK'
  <2> a \in Actors
    BY DEF ApiActors, Actors
  <2>1. cur[a] \in Jobs
    BY <1>8, HasJob DEF PauseFlag, FreePcs
  <2>2. FlagsTyped'
    BY <1>8, <2>1, FlagHelpersTyped DEF PauseFlag, TypeOK, Hosts
  <2>3. RequestsTyped' /\ HoldsJob' /\ snap' = snap
    BY <1>8, AdvanceTyped DEF PauseFlag, Pcs, RequestPcs, RunPcs, FreePcs
  <2>4. ListsTyped'
    BY <1>8, <2>3 DEF PauseFlag, TypeOK, ListsTyped
  <2>5. HistoryTyped'
    BY <1>8, <2>1 DEF PauseFlag, TypeOK, HistoryTyped
  <2>6. RowsTyped' /\ HostsTyped' /\ RunsTyped'
    BY <1>8, Frames DEF PauseFlag
  <2> QED BY <2>1, <2>2, <2>3, <2>4, <2>5, <2>6 DEF TypeOK
<1>9. ASSUME NEW a \in ApiActors, PauseDb(a) PROVE TypeOK'
  <2> a \in Actors
    BY DEF ApiActors, Actors
  <2>1. RequestsTyped' /\ HoldsJob' /\ snap' \in [Actors -> Seq(Jobs)]
    BY <1>9, ReturnTyped DEF PauseDb, TypeOK
  <2>2. ListsTyped'
    BY <1>9, <2>1 DEF PauseDb, TypeOK, ListsTyped, redisVars
  <2>3. RowsTyped'
    BY <1>9 DEF PauseDb, TypeOK, RowsTyped
  <2>4. FlagsTyped' /\ HostsTyped' /\ RunsTyped' /\ HistoryTyped'
    BY <1>9, Frames DEF PauseDb, redisVars
  <2> QED BY <2>1, <2>2, <2>3, <2>4 DEF TypeOK
<1>10. ASSUME NEW a \in ApiActors, CancelFind(a) PROVE TypeOK'
  <2> a \in Actors
    BY DEF ApiActors, Actors
  <2>1. pc' \in [Actors -> Pcs] /\ cur' \in [Actors -> Jobs \cup {NoJob}] /\ HoldsJob'
    BY <1>10, GoTyped DEF CancelFind, TypeOK, Pcs, RequestPcs, FreePcs
  <2>2. RequestsTyped'
    BY <1>10, <2>1 DEF CancelFind, TypeOK, RequestsTyped, ActiveSeenBy, Visible
  <2>3. ListsTyped'
    BY <1>10 DEF CancelFind, TypeOK, ListsTyped, redisVars
  <2>4. RowsTyped' /\ FlagsTyped' /\ HostsTyped' /\ RunsTyped' /\ HistoryTyped'
    BY <1>10, Frames DEF CancelFind, redisVars
  <2> QED BY <2>1, <2>2, <2>3, <2>4 DEF TypeOK
<1>11. ASSUME NEW a \in ApiActors, CancelFlag(a) PROVE TypeOK'
  <2> a \in Actors
    BY DEF ApiActors, Actors
  <2>1. PICK j \in seen[a] : /\ cur' = [cur EXCEPT ![a] = j]
                           /\ seen' = [seen EXCEPT ![a] = @ \ {j}]
                           /\ memPause' = [memPause EXCEPT !["api"] = @ \ {j}]
                           /\ SetPauseFlag("api", j)
                           /\ asked' = asked \cup {j}
    BY <1>11 DEF CancelFlag
  <2>2. j \in Jobs
    BY <2>1 DEF TypeOK, RequestsTyped
  <2>3. FlagsTyped'
    BY <2>1, <2>2, FlagHelpersTyped DEF TypeOK, Hosts
  <2>4. pc' \in [Actors -> Pcs] /\ cur' \in [Actors -> Jobs \cup {NoJob}] /\ HoldsJob'
    BY <1>11, <2>1, <2>2, GoTyped DEF CancelFlag, TypeOK, Pcs, RequestPcs
  <2>5. RequestsTyped'
    BY <1>11, <2>1, <2>4 DEF CancelFlag, TypeOK, RequestsTyped
  <2>6. ListsTyped'
    BY <1>11 DEF CancelFlag, TypeOK, ListsTyped
  <2>7. HistoryTyped'
    BY <1>11, <2>1, <2>2 DEF CancelFlag, TypeOK, HistoryTyped
  <2>8. RowsTyped' /\ HostsTyped' /\ RunsTyped'
    BY <1>11, Frames DEF CancelFlag
  <2> QED BY <2>1, <2>2, <2>3, <2>4, <2>5, <2>6, <2>7, <2>8 DEF TypeOK
<1>12. ASSUME NEW a \in ApiActors, PurgeRead(a) PROVE TypeOK'
  <2> a \in Actors
    BY DEF ApiActors, Actors
  <2>1. pc' \in [Actors -> Pcs] /\ cur' \in [Actors -> Jobs \cup {NoJob}] /\ HoldsJob'
    <3>1. cur[a] # NoJob
      BY <1>12, HasJob, ConstantsOK DEF PurgeRead, FreePcs
    <3> QED BY <1>12, <3>1, GoTyped DEF PurgeRead, TypeOK, Pcs, RequestPcs
  <2>2. RequestsTyped'
    BY <1>12, <2>1 DEF PurgeRead, TypeOK, RequestsTyped
  <2>3. ListsTyped'
    BY <1>12 DEF PurgeRead, TypeOK, ListsTyped, redisVars
  <2>4. RowsTyped' /\ FlagsTyped' /\ HostsTyped' /\ RunsTyped' /\ HistoryTyped'
    BY <1>12, Frames DEF PurgeRead, redisVars
  <2> QED BY <2>1, <2>2, <2>3, <2>4 DEF TypeOK
<1>13. ASSUME NEW a \in ApiActors, PurgeWrite(a) PROVE TypeOK'
  <2> a \in Actors
    BY DEF ApiActors, Actors
  <2>1. pc' \in [Actors -> Pcs] /\ cur' \in [Actors -> Jobs \cup {NoJob}] /\ HoldsJob'
    <3>1. cur[a] # NoJob
      BY <1>13, HasJob, ConstantsOK DEF PurgeWrite, FreePcs
    <3> QED BY <1>13, <3>1, GoTyped DEF PurgeWrite, TypeOK, Pcs, RequestPcs
  <2>2. RequestsTyped'
    BY <1>13, <2>1 DEF PurgeWrite, TypeOK, RequestsTyped
  <2>3. ListsTyped'
    <3>1. queue' \in Seq(Jobs)
      <4>1. snap[a] \in Seq(Jobs) /\ queue \in Seq(Jobs)
        BY <1>13 DEF TypeOK, ListsTyped
      <4> QED BY <1>13, <4>1, PurgedList DEF PurgeWrite
    <3>2. snap' \in [Actors -> Seq(Jobs)]
      BY <1>13 DEF PurgeWrite, TypeOK, ListsTyped
    <3> QED BY <3>1, <3>2 DEF ListsTyped
  <2>4. RowsTyped' /\ FlagsTyped' /\ HostsTyped' /\ RunsTyped' /\ HistoryTyped'
    BY <1>13, Frames DEF PurgeWrite
  <2> QED BY <2>1, <2>2, <2>3, <2>4 DEF TypeOK
<1>14. ASSUME NEW a \in ApiActors, DeleteAudits(a) PROVE TypeOK'
  <2> a \in Actors
    BY DEF ApiActors, Actors
  <2>1. RowsTyped'
    BY <1>14 DEF DeleteAudits, TypeOK, RowsTyped, rowVars
  <2>2. RequestsTyped'
    BY <1>14 DEF DeleteAudits, TypeOK, RequestsTyped, Go, Pcs, RequestPcs, reqVars
  <2>3. HoldsJob'
    BY <1>14 DEF DeleteAudits, TypeOK, RequestsTyped, HoldsJob, FreePcs, Go
  <2>4. ListsTyped'
    BY <1>14 DEF DeleteAudits, TypeOK, ListsTyped, redisVars, reqVars
  <2>5. FlagsTyped' /\ HostsTyped' /\ RunsTyped' /\ HistoryTyped'
    BY <1>14, Frames DEF DeleteAudits, redisVars
  <2> QED BY <2>1, <2>2, <2>3, <2>4, <2>5 DEF TypeOK
<1>15. ASSUME NEW a \in ApiActors, CancelUpdate(a) PROVE TypeOK'
  <2> a \in Actors
    BY DEF ApiActors, Actors
  <2>1. RequestsTyped' /\ HoldsJob' /\ snap' \in [Actors -> Seq(Jobs)]
    <3>1. CASE Return(a)
      BY <3>1, ReturnTyped DEF TypeOK
    <3>2. CASE pc[a] = "cancelLoop" /\ Go(a, "find") /\ UNCHANGED <<cur, reqVars>>
      BY <3>2, AdvanceTyped DEF Pcs, RequestPcs, FreePcs, TypeOK, ListsTyped
    <3> QED BY <1>15, <3>1, <3>2 DEF CancelUpdate
  <2>2. ListsTyped'
    BY <1>15, <2>1 DEF CancelUpdate, TypeOK, ListsTyped, redisVars
  <2>3. RowsTyped'
    BY <1>15, RowHelpersTyped DEF CancelUpdate, TypeOK, RowsTyped
  <2>4. HistoryTyped'
    BY <1>15 DEF CancelUpdate, TypeOK, HistoryTyped, ActiveSeenBy, Visible
  <2>5. FlagsTyped' /\ HostsTyped' /\ RunsTyped'
    BY <1>15, Frames DEF CancelUpdate, redisVars
  <2> QED BY <2>1, <2>2, <2>3, <2>4, <2>5 DEF TypeOK
<1>16. ASSUME NEW a \in ApiActors, FailGhost(a) PROVE TypeOK'
  <2> a \in Actors
    BY DEF ApiActors, Actors
  <2>1. RequestsTyped' /\ HoldsJob' /\ snap' \in [Actors -> Seq(Jobs)]
    BY <1>16, ReturnTyped DEF FailGhost, TypeOK
  <2>2. ListsTyped'
    BY <1>16, <2>1 DEF FailGhost, TypeOK, ListsTyped, redisVars
  <2>3. RowsTyped'
    BY <1>16, RowHelpersTyped DEF FailGhost, TypeOK, RowsTyped
  <2>4. FlagsTyped' /\ HostsTyped' /\ RunsTyped' /\ HistoryTyped'
    BY <1>16, Frames DEF FailGhost, redisVars
  <2> QED BY <2>1, <2>2, <2>3, <2>4 DEF TypeOK
<1>17. ASSUME NEW a \in Users, RunRequest(a) PROVE TypeOK'
  <2> a \in Actors
    BY DEF ApiActors, Actors
  <2>1. PICK kind \in UserOps, label \in {"staleFind", "cancelFind"} : Begin(a, kind, label)
    BY <1>17 DEF RunRequest, UserOps
  <2>2. pc' \in [Actors -> Pcs] /\ cur' \in [Actors -> Jobs \cup {NoJob}] /\ HoldsJob'
    BY <1>17, <2>1, GoTyped DEF RunRequest, Begin, TypeOK, Pcs, RequestPcs, FreePcs
  <2>3. RequestsTyped'
    BY <1>17, <2>1, <2>2 DEF RunRequest, Begin, TypeOK, RequestsTyped
  <2>4. ListsTyped'
    BY <1>17 DEF RunRequest, TypeOK, ListsTyped, redisVars
  <2>5. RowsTyped' /\ FlagsTyped' /\ HostsTyped' /\ RunsTyped' /\ HistoryTyped'
    BY <1>17, Frames DEF RunRequest, redisVars
  <2> QED BY <2>1, <2>2, <2>3, <2>4, <2>5 DEF TypeOK
<1>18. ASSUME NEW a \in Users, PauseRequest(a) PROVE TypeOK'
  <2> a \in Actors
    BY DEF ApiActors, Actors
  <2>1. PICK j \in Jobs : cur' = [cur EXCEPT ![a] = j]
    BY <1>18 DEF PauseRequest, ActiveSeenBy, Visible
  <2>2. pc' \in [Actors -> Pcs] /\ cur' \in [Actors -> Jobs \cup {NoJob}] /\ HoldsJob'
    BY <1>18, <2>1, GoTyped DEF PauseRequest, Begin, TypeOK, Pcs, RequestPcs
  <2>3. RequestsTyped'
    BY <1>18, <2>2 DEF PauseRequest, Begin, TypeOK, RequestsTyped, UserOps
  <2>4. ListsTyped'
    BY <1>18 DEF PauseRequest, TypeOK, ListsTyped, redisVars
  <2>5. RowsTyped' /\ FlagsTyped' /\ HostsTyped' /\ RunsTyped' /\ HistoryTyped'
    BY <1>18, Frames DEF PauseRequest, redisVars
  <2> QED BY <2>1, <2>2, <2>3, <2>4, <2>5 DEF TypeOK
<1>19. ASSUME NEW a \in Users, PollGhost(a) PROVE TypeOK'
  <2> a \in Actors
    BY DEF ApiActors, Actors
  <2>1. PICK j \in Jobs : cur' = [cur EXCEPT ![a] = j]
    BY <1>19 DEF PollGhost, Visible
  <2>2. pc' \in [Actors -> Pcs] /\ cur' \in [Actors -> Jobs \cup {NoJob}] /\ HoldsJob'
    BY <1>19, <2>1, GoTyped DEF PollGhost, Begin, TypeOK, Pcs, RequestPcs
  <2>3. RequestsTyped'
    BY <1>19, <2>2 DEF PollGhost, Begin, TypeOK, RequestsTyped, UserOps
  <2>4. ListsTyped'
    BY <1>19 DEF PollGhost, TypeOK, ListsTyped, redisVars
  <2>5. RowsTyped' /\ FlagsTyped' /\ HostsTyped' /\ RunsTyped' /\ HistoryTyped'
    BY <1>19, Frames DEF PollGhost, redisVars
  <2> QED BY <2>1, <2>2, <2>3, <2>4, <2>5 DEF TypeOK
<1>20. ASSUME CronStarts PROVE TypeOK'
  <2>1. Cron \in Actors
    BY DEF Actors, ApiActors
  <2>2. pc' \in [Actors -> Pcs] /\ cur' \in [Actors -> Jobs \cup {NoJob}] /\ HoldsJob'
    BY <1>20, <2>1, GoTyped DEF CronStarts, TypeOK, Pcs, RequestPcs, FreePcs
  <2>3. RequestsTyped'
    <3>1. op' \in [Actors -> UserOps \cup {"none", "cron"}]
      BY <1>20 DEF CronStarts, TypeOK, RequestsTyped
    <3>2. left' \in [Actors -> 0 .. CronPages]
      <4>1. left' = [left EXCEPT ![Cron] = CronPages]
        BY <1>20 DEF CronStarts
      <4>2. left \in [Actors -> 0 .. CronPages] /\ CronPages \in 0 .. CronPages
        BY DEF TypeOK, RequestsTyped
      <4> QED BY <4>1, <4>2
    <3>3. seen' \in [Actors -> SUBSET Jobs]
      BY <1>20 DEF CronStarts, TypeOK, RequestsTyped
    <3> QED BY <2>2, <3>1, <3>2, <3>3 DEF RequestsTyped
  <2>4. ListsTyped'
    BY <1>20 DEF CronStarts, TypeOK, ListsTyped, redisVars
  <2>5. RowsTyped' /\ FlagsTyped' /\ HostsTyped' /\ RunsTyped' /\ HistoryTyped'
    BY <1>20, Frames DEF CronStarts, redisVars
  <2> QED BY <2>1, <2>2, <2>3, <2>4, <2>5 DEF TypeOK
<1>21. ASSUME Pop PROVE TypeOK'
  <2>1. Worker \in Actors
    BY DEF Actors
  <2>2. Head(queue) \in Jobs /\ Tail(queue) \in Seq(Jobs)
    BY <1>21, HeadTailProperties DEF Pop, TypeOK, ListsTyped
  <2>3. pc' \in [Actors -> Pcs] /\ cur' \in [Actors -> Jobs \cup {NoJob}] /\ HoldsJob'
    BY <1>21, <2>1, <2>2, GoTyped DEF Pop, TypeOK, Pcs
  <2>4. RequestsTyped'
    BY <1>21, <2>3 DEF Pop, TypeOK, RequestsTyped, reqVars
  <2>5. ListsTyped'
    BY <1>21, <2>2 DEF Pop, TypeOK, ListsTyped, reqVars
  <2>6. RowsTyped' /\ FlagsTyped' /\ HostsTyped' /\ RunsTyped' /\ HistoryTyped'
    BY <1>21, Frames DEF Pop
  <2> QED BY <2>1, <2>2, <2>3, <2>4, <2>5, <2>6 DEF TypeOK
<1>22. ASSUME NEW a \in Actors, ReadRow(a) PROVE TypeOK'
  <2>1. RequestsTyped' /\ HoldsJob' /\ snap' \in [Actors -> Seq(Jobs)]
    <3>1. CASE Return(a)
      BY <3>1, ReturnTyped DEF TypeOK
    <3>2. CASE /\ pc[a] = "read" /\ (Go(a, "claim") \/ Go(a, "init"))
               /\ UNCHANGED <<cur, reqVars>>
      BY <3>2, AdvanceTyped DEF Pcs, RunPcs, FreePcs, TypeOK, ListsTyped
    <3> QED BY <1>22, <3>1, <3>2 DEF ReadRow
  <2>2. ListsTyped'
    BY <1>22, <2>1 DEF ReadRow, TypeOK, ListsTyped, redisVars
  <2>3. RowsTyped' /\ FlagsTyped' /\ HostsTyped' /\ RunsTyped' /\ HistoryTyped'
    BY <1>22, Frames DEF ReadRow, redisVars
  <2> QED BY <2>1, <2>2, <2>3 DEF TypeOK
<1>23. ASSUME NEW a \in Actors, Claim(a) PROVE TypeOK'
  <2>1. RowsTyped'
    BY <1>23 DEF Claim, TypeOK, RowsTyped, Active
  <2>2. RequestsTyped' /\ HoldsJob' /\ snap' = snap
    BY <1>23, AdvanceTyped DEF Claim, Pcs, RequestPcs, RunPcs, FreePcs
  <2>3. ListsTyped'
    BY <1>23, <2>2 DEF Claim, TypeOK, ListsTyped, redisVars
  <2>4. HistoryTyped'
    <3>1. cur[a] \in Jobs
      BY <1>23, HasJob DEF Claim, FreePcs
    <3>2. claims' \in [Jobs -> Nat]
      BY <1>23, <3>1 DEF Claim, TypeOK, HistoryTyped
    <3> QED BY <1>23, <3>2 DEF Claim, TypeOK, HistoryTyped
  <2>5. FlagsTyped' /\ HostsTyped' /\ RunsTyped'
    BY <1>23, Frames DEF Claim, redisVars
  <2> QED BY <2>1, <2>2, <2>3, <2>4, <2>5 DEF TypeOK
<1>24. ASSUME NEW a \in Actors, Start(a) PROVE TypeOK'
  <2>1. memPause' \in [Hosts -> SUBSET Jobs]
    BY <1>24, HostTyped DEF Start, TypeOK, FlagsTyped
  <2>2. FlagsTyped'
    BY <1>24, <2>1 DEF Start, TypeOK, FlagsTyped, redisVars
  <2>3. RowsTyped'
    <3>1. \/ UNCHANGED <<progress, pausing>>
          \/ Report(cur[a], "page")
      BY <1>24 DEF Start
    <3>2. RowsTyped
      BY DEF TypeOK
    <3>3. /\ progress' \in [Jobs -> {"none", "page", "conv"}]
          /\ pausing' \in [Jobs -> BOOLEAN]
      <4>1. CASE UNCHANGED <<progress, pausing>>
        BY <3>2, <4>1 DEF RowsTyped
      <4>2. CASE Report(cur[a], "page")
        BY <3>2, <4>2, RowHelpersTyped
      <4> QED BY <3>1, <4>1, <4>2
    <3> QED BY <1>24, <3>2, <3>3 DEF Start, RowsTyped
  <2>4. RequestsTyped' /\ HoldsJob' /\ snap' = snap
    BY <1>24, AdvanceTyped DEF Start, Pcs, RequestPcs, RunPcs, FreePcs
  <2>5. ListsTyped'
    BY <1>24, <2>4 DEF Start, TypeOK, ListsTyped, redisVars
  <2>6. RunsTyped'
    BY <1>24 DEF Start, TypeOK, RunsTyped
  <2>7. HostsTyped' /\ HistoryTyped'
    BY <1>24, Frames DEF Start
  <2> QED BY <2>1, <2>2, <2>3, <2>4, <2>5, <2>6, <2>7 DEF TypeOK
<1>25. ASSUME NEW a \in Actors, RunError(a) PROVE TypeOK'
  <2>1. memPause' \in [Hosts -> SUBSET Jobs]
    BY <1>25, HostTyped DEF RunError, TypeOK, FlagsTyped
  <2>2. FlagsTyped'
    BY <1>25, <2>1 DEF RunError, TypeOK, FlagsTyped, redisVars
  <2>3. pc[a] \notin FreePcs /\ Go(a, "catch") /\ UNCHANGED <<cur, reqVars>>
    BY <1>25 DEF RunError, InWork, Consuming, FreePcs
  <2>4. RequestsTyped' /\ HoldsJob' /\ snap' = snap
    BY <2>3, AdvanceTyped DEF Pcs, RequestPcs, RunPcs
  <2>5. ListsTyped'
    BY <1>25, <2>4 DEF RunError, TypeOK, ListsTyped, redisVars
  <2>6. RunsTyped'
    <3>1. CASE UNCHANGED runVars
      BY <3>1, Frames
    <3>2. CASE /\ fetchDone' = [fetchDone EXCEPT ![a] = TRUE]
               /\ scan' = [scan EXCEPT ![a] = IF scan[a] = "on" THEN "drain" ELSE "over"]
               /\ UNCHANGED <<fetched, waiting, alive, inflight, processed, pausedFetch, want>>
      BY <3>2 DEF TypeOK, RunsTyped
    <3>3. CASE /\ alive[a] > 0
               /\ alive' = [alive EXCEPT ![a] = @ - 1]
               /\ \E n \in {inflight[a], inflight[a] - 1} \cap (0 .. alive[a] - 1) :
                    inflight' = [inflight EXCEPT ![a] = n]
               /\ UNCHANGED <<fetched, waiting, processed, fetchDone, scan, pausedFetch, want>>
      BY <3>3 DEF TypeOK, RunsTyped
    <3> QED BY <1>25, <3>1, <3>2, <3>3 DEF RunError
  <2>7. RowsTyped' /\ HostsTyped' /\ HistoryTyped'
    BY <1>25, Frames DEF RunError
  <2> QED BY <2>1, <2>2, <2>4, <2>5, <2>6, <2>7 DEF TypeOK
<1>25a. ASSUME LoopError PROVE TypeOK'
  <2> Worker \in Actors
    BY DEF Actors
  <2>1. cur[Worker] \in Jobs
    BY <1>25a, HasJob DEF LoopError, FreePcs
  <2>2. RequestsTyped' /\ HoldsJob' /\ snap' \in [Actors -> Seq(Jobs)]
    BY <1>25a, ReturnTyped DEF LoopError, TypeOK
  <2>3. ListsTyped'
    BY <1>25a, <2>2 DEF LoopError, TypeOK, ListsTyped, redisVars
  <2>4. RunsTyped'
    BY <1>25a, DropRunTyped DEF LoopError, TypeOK
  <2>5. HistoryTyped'
    BY <1>25a, <2>1 DEF LoopError, TypeOK, HistoryTyped
  <2>6. RowsTyped' /\ FlagsTyped' /\ HostsTyped'
    BY <1>25a, Frames DEF LoopError, redisVars
  <2> QED BY <2>2, <2>3, <2>4, <2>5, <2>6 DEF TypeOK
<1>26. ASSUME NEW a \in Actors, FetchMatch(a) PROVE TypeOK'
  <2>1. cur[a] \in Jobs
    BY <1>26, HasJob DEF FetchMatch, InWork, Consuming, FreePcs
  <2>2. FlagsTyped'
    BY <1>26, <2>1, HostTyped, FlagHelpersTyped DEF FetchMatch, TypeOK
  <2>3. RowsTyped'
    <3>1. \/ UNCHANGED <<progress, pausing>>
          \/ Report(cur[a], "conv")
      BY <1>26 DEF FetchMatch
    <3>2. RowsTyped
      BY DEF TypeOK
    <3>3. /\ progress' \in [Jobs -> {"none", "page", "conv"}]
          /\ pausing' \in [Jobs -> BOOLEAN]
      <4>1. CASE UNCHANGED <<progress, pausing>>
        BY <3>2, <4>1 DEF RowsTyped
      <4>2. CASE Report(cur[a], "conv")
        BY <3>2, <4>2, RowHelpersTyped
      <4> QED BY <3>1, <4>1, <4>2
    <3> QED BY <1>26, <3>2, <3>3 DEF FetchMatch, RowsTyped
  <2>4. RunsTyped'
    <3>1. CASE fetched' = [fetched EXCEPT ![a] = @ + 1] /\ waiting' = [waiting EXCEPT ![a] = @ + 1]
               /\ UNCHANGED fetchDone
      BY <1>26, <3>1 DEF FetchMatch, TypeOK, RunsTyped
    <3>2. CASE waiting' = [waiting EXCEPT ![a] = 0] /\ UNCHANGED fetched
               /\ fetchDone' = [fetchDone EXCEPT ![a] = TRUE]
      BY <1>26, <3>2 DEF FetchMatch, TypeOK, RunsTyped
    <3> QED BY <1>26, <3>1, <3>2 DEF FetchMatch
  <2>5. HostsTyped' /\ RequestsTyped' /\ HoldsJob' /\ ListsTyped' /\ HistoryTyped'
    BY <1>26, Frames DEF FetchMatch, reqVars
  <2> QED BY <2>1, <2>2, <2>3, <2>4, <2>5 DEF TypeOK
<1>27. ASSUME NEW a \in Actors, FetchEnd(a) PROVE TypeOK'
  <2>1. cur[a] \in Jobs
    BY <1>27, HasJob DEF FetchEnd, InWork, Consuming, FreePcs
  <2>2. FlagsTyped'
    BY <1>27, <2>1, HostTyped, FlagHelpersTyped DEF FetchEnd, TypeOK
  <2>3. pausedFetch' \in [Actors -> BOOLEAN]
    <3>1. ShouldStop(Host(a), cur[a]) \in BOOLEAN
      BY DEF ShouldStop, FlagSeen, TypeOK, RowsTyped
    <3> QED BY <1>27, <3>1 DEF FetchEnd, TypeOK, RunsTyped
  <2>4. RunsTyped'
    BY <1>27, <2>3 DEF FetchEnd, TypeOK, RunsTyped
  <2>5. RowsTyped' /\ HostsTyped' /\ RequestsTyped' /\ HoldsJob' /\ ListsTyped' /\ HistoryTyped'
    BY <1>27, Frames DEF FetchEnd, reqVars
  <2> QED BY <2>1, <2>2, <2>3, <2>4, <2>5 DEF TypeOK
<1>27a. ASSUME NEW a \in Actors, FetchDrain(a) PROVE TypeOK'
  <2>1. cur[a] \in Jobs
    BY <1>27a, HasJob DEF FetchDrain, InWork, Consuming, FreePcs
  <2>2. FlagsTyped'
    BY <1>27a, <2>1, HostTyped, FlagHelpersTyped DEF FetchDrain, TypeOK
  <2>3. RunsTyped'
    BY <1>27a DEF FetchDrain, TypeOK, RunsTyped
  <2>4. RowsTyped' /\ HostsTyped' /\ RequestsTyped' /\ HoldsJob' /\ ListsTyped' /\ HistoryTyped'
    BY <1>27a, Frames DEF FetchDrain, reqVars
  <2> QED BY <2>1, <2>2, <2>3, <2>4 DEF TypeOK
<1>28. ASSUME NEW a \in Actors, Take(a) PROVE TypeOK'
  <2>1. cur[a] \in Jobs
    BY <1>28, HasJob DEF Take, InWork, Consuming, FreePcs
  <2>2. FlagsTyped'
    BY <1>28, <2>1, HostTyped, FlagHelpersTyped DEF Take, TypeOK
  <2>3. RunsTyped'
    BY <1>28 DEF Take, TypeOK, RunsTyped
  <2>4. RowsTyped' /\ HostsTyped' /\ RequestsTyped' /\ HoldsJob' /\ ListsTyped' /\ HistoryTyped'
    BY <1>28, Frames DEF Take, reqVars
  <2> QED BY <2>1, <2>2, <2>3, <2>4 DEF TypeOK
<1>29. ASSUME NEW a \in Actors, Leave(a) PROVE TypeOK'
  <2>1. cur[a] \in Jobs
    BY <1>29, HasJob DEF Leave, InWork, Consuming, FreePcs
  <2>2. FlagsTyped'
    BY <1>29, <2>1, HostTyped, FlagHelpersTyped DEF Leave, TypeOK
  <2>3. RunsTyped'
    BY <1>29 DEF Leave, TypeOK, RunsTyped
  <2>4. RowsTyped' /\ HostsTyped' /\ RequestsTyped' /\ HoldsJob' /\ ListsTyped' /\ HistoryTyped'
    BY <1>29, Frames DEF Leave, reqVars
  <2> QED BY <2>1, <2>2, <2>3, <2>4 DEF TypeOK
<1>30. ASSUME NEW a \in Actors, Score(a) PROVE TypeOK'
  <2>1. RowsTyped'
    <3>1. audits' \in [Jobs -> Nat]
      <4>1. PICK row \in {0, 1} : audits' = [audits EXCEPT ![cur[a]] = @ + row]
        BY <1>30 DEF Score
      <4>2. audits \in [Jobs -> Nat]
        BY DEF TypeOK, RowsTyped
      <4>3. \A j \in Jobs : audits[j] + row \in Nat
        BY <4>1, <4>2
      <4> QED BY <4>1, <4>2, <4>3
    <3>2. RowsTyped
      BY DEF TypeOK
    <3>3. /\ progress' \in [Jobs -> {"none", "page", "conv"}]
          /\ pausing' \in [Jobs -> BOOLEAN]
      BY <1>30, <3>2, RowHelpersTyped DEF Score
    <3> QED BY <1>30, <3>1, <3>2, <3>3 DEF Score, RowsTyped
  <2>2. RunsTyped'
    BY <1>30 DEF Score, TypeOK, RunsTyped
  <2>3. FlagsTyped' /\ HostsTyped' /\ RequestsTyped' /\ HoldsJob' /\ ListsTyped' /\ HistoryTyped'
    BY <1>30, Frames DEF Score, redisVars, reqVars
  <2> QED BY <2>1, <2>2, <2>3 DEF TypeOK
<1>31. ASSUME NEW a \in Actors, ConsumersDone(a) PROVE TypeOK'
  <2>1. RequestsTyped' /\ HoldsJob' /\ snap' = snap
    BY <1>31, AdvanceTyped DEF ConsumersDone, Pcs, RequestPcs, RunPcs, FreePcs, InWork, Consuming
  <2>2. ListsTyped'
    BY <1>31, <2>1 DEF ConsumersDone, TypeOK, ListsTyped, redisVars
  <2>3. RowsTyped' /\ FlagsTyped' /\ HostsTyped' /\ RunsTyped' /\ HistoryTyped'
    BY <1>31, Frames DEF ConsumersDone, redisVars
  <2> QED BY <2>1, <2>2, <2>3 DEF TypeOK
<1>32. ASSUME NEW a \in Actors, CancelledReturn(a) PROVE TypeOK'
  <2>1. RequestsTyped' /\ HoldsJob' /\ snap' \in [Actors -> Seq(Jobs)]
    BY <1>32, ReturnTyped DEF CancelledReturn, TypeOK
  <2>2. ListsTyped'
    BY <1>32, <2>1 DEF CancelledReturn, TypeOK, ListsTyped
  <2>3. FlagsTyped'
    BY <1>32, HostTyped, FlagHelpersTyped DEF CancelledReturn, TypeOK
  <2>4. RunsTyped'
    BY <1>32, DropRunTyped DEF CancelledReturn, TypeOK
  <2>5. RowsTyped' /\ HostsTyped' /\ HistoryTyped'
    BY <1>32, Frames DEF CancelledReturn
  <2> QED BY <2>1, <2>2, <2>3, <2>4, <2>5 DEF TypeOK
<1>33. ASSUME NEW a \in Actors, Decide(a) PROVE TypeOK'
  <2>1. cur[a] \in Jobs
    BY <1>33, HasJob DEF Decide, FreePcs
  <2>2. UNCHANGED flagVars => FlagsTyped'
    BY DEF TypeOK, FlagsTyped, flagVars
  <2>3. FlagsTyped'
    BY <1>33, <2>1, <2>2, HostTyped, FlagHelpersTyped DEF Decide, TypeOK
  <2>4. RequestsTyped' /\ HoldsJob' /\ snap' = snap
    BY <1>33, AdvanceTyped DEF Decide, Pcs, RequestPcs, RunPcs, FreePcs
  <2>5. ListsTyped'
    BY <1>33, <2>4 DEF Decide, TypeOK, ListsTyped
  <2>6. RunsTyped'
    <3>1. Verdict(a) \subseteq Terminal
      BY DEF Verdict, Terminal
    <3> QED BY <1>33, <3>1 DEF Decide, TypeOK, RunsTyped
  <2>7. RowsTyped' /\ HostsTyped' /\ HistoryTyped'
    BY <1>33, Frames DEF Decide
  <2> QED BY <2>1, <2>2, <2>3, <2>4, <2>5, <2>6, <2>7 DEF TypeOK
<1>34. ASSUME NEW a \in Actors, Catch(a) PROVE TypeOK'
  <2>1. RequestsTyped' /\ HoldsJob' /\ snap' = snap
    BY <1>34, AdvanceTyped DEF Catch, Pcs, RequestPcs, RunPcs, FreePcs
  <2>2. ListsTyped'
    BY <1>34, <2>1 DEF Catch, TypeOK, ListsTyped, redisVars
  <2>3. RunsTyped'
    BY <1>34 DEF Catch, TypeOK, RunsTyped, Terminal
  <2>4. RowsTyped' /\ FlagsTyped' /\ HostsTyped' /\ HistoryTyped'
    BY <1>34, Frames DEF Catch, redisVars
  <2> QED BY <2>1, <2>2, <2>3, <2>4 DEF TypeOK
<1>35. ASSUME NEW a \in Actors, FinishRead(a) PROVE TypeOK'
  <2>1. RequestsTyped' /\ HoldsJob' /\ snap' \in [Actors -> Seq(Jobs)]
    <3>1. CASE NextPageOrReturn(a)
      BY <3>1, NextPageTyped DEF TypeOK
    <3>2. CASE pc[a] = "finRead" /\ Go(a, "finWrite") /\ UNCHANGED <<cur, reqVars>>
      BY <3>2, AdvanceTyped DEF Pcs, RunPcs, FreePcs, TypeOK, ListsTyped
    <3> QED BY <1>35, <3>1, <3>2 DEF FinishRead
  <2>2. ListsTyped'
    BY <1>35, <2>1 DEF FinishRead, TypeOK, ListsTyped
  <2>3. FlagsTyped'
    BY <1>35, HostTyped, FlagHelpersTyped DEF FinishRead, TypeOK
  <2>4. RunsTyped'
    BY <1>35, DropRunTyped, Frames DEF FinishRead, TypeOK
  <2>5. RowsTyped' /\ HostsTyped' /\ HistoryTyped'
    BY <1>35, Frames DEF FinishRead
  <2> QED BY <2>1, <2>2, <2>3, <2>4, <2>5 DEF TypeOK
<1>36. ASSUME NEW a \in Actors, FinishWrite(a) PROVE TypeOK'
  <2>1. RequestsTyped' /\ HoldsJob' /\ snap' \in [Actors -> Seq(Jobs)]
    BY <1>36, NextPageTyped DEF FinishWrite, TypeOK
  <2>2. ListsTyped'
    BY <1>36, <2>1 DEF FinishWrite, TypeOK, ListsTyped, redisVars
  <2>3. RowsTyped'
    BY <1>36 DEF FinishWrite, TypeOK, RowsTyped, RunsTyped
  <2>4. RunsTyped'
    BY <1>36, DropRunTyped DEF FinishWrite, TypeOK
  <2>5. FlagsTyped' /\ HostsTyped' /\ HistoryTyped'
    BY <1>36, Frames DEF FinishWrite, redisVars
  <2> QED BY <2>1, <2>2, <2>3, <2>4, <2>5 DEF TypeOK
<1>37. ASSUME NEW h \in Hosts, Boot(h) PROVE TypeOK'
  <2>1. RowsTyped'
    BY <1>37, RowHelpersTyped DEF Boot, TypeOK, RowsTyped
  <2>2. HostsTyped'
    BY <1>37 DEF Boot, TypeOK, HostsTyped
  <2>3. FlagsTyped' /\ RequestsTyped' /\ HoldsJob' /\ ListsTyped' /\ RunsTyped' /\ HistoryTyped'
    BY <1>37, Frames DEF Boot, redisVars, reqVars
  <2> QED BY <2>1, <2>2, <2>3 DEF TypeOK
<1>37a. ASSUME NEW h \in Hosts, BootFails(h) PROVE TypeOK'
  <2>1. HostsTyped'
    BY <1>37a DEF BootFails, TypeOK, HostsTyped
  <2>2. HistoryTyped'
    BY <1>37a DEF BootFails, TypeOK, HistoryTyped
  <2>3. RowsTyped' /\ FlagsTyped' /\ RequestsTyped' /\ HoldsJob' /\ ListsTyped' /\ RunsTyped'
    BY <1>37a, Frames DEF BootFails, redisVars, reqVars
  <2> QED BY <2>1, <2>2, <2>3 DEF TypeOK
<1>38. ASSUME BootPurge PROVE TypeOK'
  <2>1. HostsTyped'
    BY <1>38 DEF BootPurge, TypeOK, HostsTyped
  <2>2. ListsTyped'
    <3>1. queue' \in Seq(Jobs)
      <4>1. queue' = <<>> \/ queue' = queue
        BY <1>38 DEF BootPurge
      <4>2. queue \in Seq(Jobs) /\ <<>> \in Seq(Jobs)
        BY DEF TypeOK, ListsTyped
      <4> QED BY <4>1, <4>2
    <3> QED BY <1>38, <3>1 DEF BootPurge, TypeOK, ListsTyped, reqVars
  <2>3. RowsTyped' /\ FlagsTyped' /\ RequestsTyped' /\ HoldsJob' /\ RunsTyped' /\ HistoryTyped'
    BY <1>38, Frames DEF BootPurge
  <2> QED BY <2>1, <2>2, <2>3 DEF TypeOK
<1>39. ASSUME CacheExpires PROVE TypeOK'
  <2>1. FlagsTyped'
    BY <1>39 DEF CacheExpires, TypeOK, FlagsTyped, redisVars
  <2>2. RowsTyped' /\ HostsTyped' /\ RequestsTyped' /\ HoldsJob' /\ ListsTyped' /\ RunsTyped' /\ HistoryTyped'
    BY <1>39, Frames DEF CacheExpires, redisVars, reqVars
  <2> QED BY <2>1, <2>2 DEF TypeOK
<1>40. ASSUME NEW h \in Hosts, Crash(h) PROVE TypeOK'
  <2>1. FlagsTyped'
    BY <1>40 DEF Crash, TypeOK, FlagsTyped, redisVars
  <2>2. HostsTyped'
    BY <1>40 DEF Crash, TypeOK, HostsTyped
  <2>3. RequestsTyped'
    <3>1. pc' \in [Actors -> Pcs]
      BY <1>40 DEF Crash, TypeOK, RequestsTyped, Pcs
    <3>2. cur' \in [Actors -> Jobs \cup {NoJob}]
      BY <1>40 DEF Crash, TypeOK, RequestsTyped
    <3>3. op' \in [Actors -> UserOps \cup {"none", "cron"}]
      BY <1>40 DEF Crash, TypeOK, RequestsTyped
    <3>4. seen' \in [Actors -> SUBSET Jobs]
      BY <1>40 DEF Crash, TypeOK, RequestsTyped
    <3>5. left' \in [Actors -> 0 .. CronPages]
      <4>1. left' = [a \in Actors |-> IF Host(a) = h THEN 0 ELSE left[a]]
        BY <1>40 DEF Crash
      <4>2. left \in [Actors -> 0 .. CronPages] /\ 0 \in 0 .. CronPages
        BY DEF TypeOK, RequestsTyped
      <4> QED BY <4>1, <4>2
    <3> QED BY <3>1, <3>2, <3>3, <3>4, <3>5 DEF RequestsTyped
  <2>4. HoldsJob'
    BY <1>40 DEF Crash, TypeOK, HoldsJob, FreePcs
  <2>5. ListsTyped'
    <3>1. snap' \in [Actors -> Seq(Jobs)]
      <4>1. snap \in [Actors -> Seq(Jobs)] /\ <<>> \in Seq(Jobs)
        BY DEF TypeOK, ListsTyped
      <4> QED BY <1>40, <4>1 DEF Crash
    <3>2. queue' \in Seq(Jobs)
      BY <1>40 DEF Crash, TypeOK, ListsTyped, redisVars
    <3> QED BY <3>1, <3>2 DEF ListsTyped
  <2>6. RunsTyped'
    <3>1. fetched' \in [Actors -> 0 .. MaxConv]
      <4>1. fetched' = [a \in Actors |-> IF Host(a) = h THEN 0 ELSE fetched[a]]
        BY <1>40 DEF Crash
      <4>2. fetched \in [Actors -> 0 .. MaxConv] /\ 0 \in 0 .. MaxConv
        BY DEF TypeOK, RunsTyped
      <4> QED BY <4>1, <4>2
    <3>2. waiting' \in [Actors -> Nat]
      BY <1>40 DEF Crash, TypeOK, RunsTyped
    <3>3. alive' \in [Actors -> 0 .. Concurrency]
      <4>1. alive' = [a \in Actors |-> IF Host(a) = h THEN 0 ELSE alive[a]]
        BY <1>40 DEF Crash
      <4>2. alive \in [Actors -> 0 .. Concurrency] /\ 0 \in 0 .. Concurrency
        BY DEF TypeOK, RunsTyped
      <4> QED BY <4>1, <4>2
    <3>4. inflight' \in [Actors -> 0 .. Concurrency]
      <4>1. inflight' = [a \in Actors |-> IF Host(a) = h THEN 0 ELSE inflight[a]]
        BY <1>40 DEF Crash
      <4>2. inflight \in [Actors -> 0 .. Concurrency] /\ 0 \in 0 .. Concurrency
        BY DEF TypeOK, RunsTyped
      <4> QED BY <4>1, <4>2
    <3>5. processed' \in [Actors -> Nat]
      <4>1. processed' = [a \in Actors |-> IF Host(a) = h THEN 0 ELSE processed[a]]
        BY <1>40 DEF Crash
      <4>2. processed \in [Actors -> Nat] /\ 0 \in Nat
        BY DEF TypeOK, RunsTyped
      <4> QED BY <4>1, <4>2
    <3>6. fetchDone' \in [Actors -> BOOLEAN]
      BY <1>40 DEF Crash, TypeOK, RunsTyped
    <3>7. pausedFetch' \in [Actors -> BOOLEAN]
      BY <1>40 DEF Crash, TypeOK, RunsTyped
    <3>8. want' \in [Actors -> Terminal]
      BY <1>40 DEF Crash, TypeOK, RunsTyped, Terminal
    <3>9. scan' \in [Actors -> {"on", "drain", "over"}]
      BY <1>40 DEF Crash, TypeOK, RunsTyped
    <3> QED BY <3>1, <3>2, <3>3, <3>4, <3>5, <3>6, <3>7, <3>8, <3>9 DEF RunsTyped
  <2>7. RowsTyped' /\ HistoryTyped'
    BY <1>40, Frames DEF Crash
  <2> QED BY <2>1, <2>2, <2>3, <2>4, <2>5, <2>6, <2>7 DEF TypeOK
<1>41. ASSUME NEW h \in Hosts, RedisToggle(h) PROVE TypeOK'
  <2>1. HostsTyped'
    BY <1>41 DEF RedisToggle, TypeOK, HostsTyped
  <2>2. RowsTyped' /\ FlagsTyped' /\ RequestsTyped' /\ HoldsJob' /\ ListsTyped' /\ RunsTyped' /\ HistoryTyped'
    BY <1>41, Frames DEF RedisToggle, redisVars, reqVars
  <2> QED BY <2>1, <2>2 DEF TypeOK
<1>42. ASSUME Age PROVE TypeOK'
  <2>1. RowsTyped'
    BY <1>42 DEF Age, TypeOK, RowsTyped
  <2>2. FlagsTyped' /\ HostsTyped' /\ RequestsTyped' /\ HoldsJob' /\ ListsTyped' /\ RunsTyped' /\ HistoryTyped'
    BY <1>42, Frames DEF Age, redisVars, reqVars
  <2> QED BY <2>1, <2>2 DEF TypeOK
<1>43. ASSUME UNCHANGED vars PROVE TypeOK'
  BY <1>43, Frames DEF TypeOK, vars, redisVars, reqVars
<1> QED
  BY <1>1, <1>2, <1>3, <1>4, <1>5, <1>6, <1>7, <1>8, <1>9, <1>10, <1>11, <1>12, <1>13, <1>14,
     <1>15, <1>16, <1>17, <1>18, <1>19, <1>20, <1>21, <1>22, <1>23, <1>24, <1>25, <1>25a,
     <1>26, <1>27, <1>27a, <1>28, <1>29, <1>30, <1>31, <1>32, <1>33, <1>34, <1>35, <1>36, <1>37,
     <1>37a, <1>38, <1>39, <1>40, <1>41, <1>42, <1>43
  DEF Next, NewRequest, RequestStep, RunStep, Environment

\* The variables range over what the code can store in them.
THEOREM TypeCorrect == Spec => []TypeOK
<1>1. Init => TypeOK
  BY TypeInit
<1>2. TypeOK /\ [Next]_vars => TypeOK'
  BY TypeStep
<1> QED BY <1>1, <1>2, PTL DEF Spec

-----------------------------------------------------------------------------
IInv == TypeOK /\ Ownership

\* Failing rows and leaving things as they are.
OnlyFails == \A j \in Jobs : status'[j] = status[j] \/ status'[j] = "failed"

LEMMA OwnersHaveJobs ==
  ASSUME TypeOK, NEW a \in Actors, pc[a] \in OwnPcs \cup {"ghost"}
  PROVE  cur[a] \in Jobs
BY HasJob DEF OwnPcs, RunPcs, FreePcs

-----------------------------------------------------------------------------
\* What the items of a list become when it is pushed to, popped or purged.
LEMMA RangeOfList ==
  ASSUME NEW S, NEW s \in Seq(S)
  PROVE  /\ Range(s) \subseteq S
         /\ Range(<<>>) = {}
         /\ \A x \in S : Range(Append(s, x)) \subseteq Range(s) \cup {x}
         /\ s # <<>> => Head(s) \in Range(s) /\ Range(Tail(s)) \subseteq Range(s)
         /\ \A i \in DOMAIN s : Range(Reverse(RemoveAt(s, i))) \subseteq Range(s)
<1>1. DOMAIN s = 1 .. Len(s) /\ Len(s) \in Nat
  OBVIOUS
<1>2. Range(s) \subseteq S /\ Range(<<>>) = {}
  BY DEF Range
<1>3. ASSUME NEW x \in S PROVE Range(Append(s, x)) \subseteq Range(s) \cup {x}
  <2>1. ASSUME NEW k \in DOMAIN Append(s, x)
        PROVE  Append(s, x)[k] = x \/ (k \in DOMAIN s /\ Append(s, x)[k] = s[k])
    <3>1. Len(Append(s, x)) = Len(s) + 1 /\ Append(s, x) \in Seq(S)
      BY AppendProperties
    <3>2. k \in 1 .. Len(s) + 1
      BY <3>1
    <3>3. CASE k = Len(s) + 1
      <4>1. Append(s, x)[Len(s) + 1] = x
        BY AppendProperties
      <4> QED BY <3>3, <4>1
    <3>4. CASE k \in 1 .. Len(s)
      BY <1>1, <3>4, AppendProperties
    <3> QED BY <1>1, <3>2, <3>3, <3>4
  <2> QED BY <2>1 DEF Range
<1>4. ASSUME s # <<>> PROVE Head(s) \in Range(s) /\ Range(Tail(s)) \subseteq Range(s)
  <2>1. 1 \in DOMAIN s /\ Head(s) = s[1]
    BY <1>1, <1>4
  <2>2. ASSUME NEW k \in DOMAIN Tail(s)
        PROVE  k + 1 \in DOMAIN s /\ Tail(s)[k] = s[k + 1]
    BY <1>1, <1>4, HeadTailProperties
  <2> QED BY <2>1, <2>2 DEF Range
<1>5. ASSUME NEW i \in DOMAIN s PROVE Range(Reverse(RemoveAt(s, i))) \subseteq Range(s)
  <2>1. \A k \in DOMAIN Reverse(RemoveAt(s, i)) :
          \E n \in DOMAIN s : Reverse(RemoveAt(s, i))[k] = s[n]
    BY PurgedList
  <2> QED BY <2>1 DEF Range
<1> QED BY <1>2, <1>3, <1>4, <1>5

LEMMA CountsOnce ==
  ASSUME NEW S, NEW f \in [S -> Nat], NEW j \in S, f[j] = 0
  PROVE  \A k \in S : [f EXCEPT ![j] = f[j] + 1][k] = IF k = j THEN 1 ELSE f[k]
OBVIOUS

LEMMA ListedAreJobs ==
  ASSUME TypeOK
  PROVE  Listed \subseteq Jobs
<1>1. queue \in Seq(Jobs) /\ \A b \in Actors : snap[b] \in Seq(Jobs)
  BY DEF TypeOK, ListsTyped
<1>2. Range(queue) \subseteq Jobs /\ \A b \in Actors : Range(snap[b]) \subseteq Jobs
  BY <1>1, RangeOfList
<1> QED BY <1>2 DEF Listed

LEMMA ListedShrinks ==
  ASSUME \/ queue' = queue
         \/ queue' = <<>>
         \/ Range(queue') \subseteq Listed,
         \A b \in Actors : snap'[b] = snap[b] \/ snap'[b] = <<>> \/ snap'[b] = queue
  PROVE  Listed' \subseteq Listed
<1>1. Range(<<>>) = {}
  BY DEF Range
<1>2. Range(queue') \subseteq Listed
  <2>1. CASE queue' = queue
    BY <2>1 DEF Listed
  <2>2. CASE queue' = <<>>
    BY <1>1, <2>2
  <2> QED BY <2>1, <2>2
<1>3. ASSUME NEW b \in Actors PROVE Range(snap'[b]) \subseteq Listed
  <2>1. CASE snap'[b] = snap[b]
    BY <2>1 DEF Listed
  <2>2. CASE snap'[b] = <<>>
    BY <1>1, <2>2
  <2>3. CASE snap'[b] = queue
    BY <2>3 DEF Listed
  <2> QED BY <2>1, <2>2, <2>3
<1>4. Listed' = Range(queue') \cup UNION {Range(snap'[b]) : b \in Actors}
  BY DEF Listed
<1> QED BY <1>2, <1>3, <1>4

-----------------------------------------------------------------------------
\* A step after which no more is listed, and nobody owns a job that he did
\* not own before.
LEMMA Carry ==
  ASSUME IInv, Listed' \subseteq Listed,
         \A j \in Jobs : status[j] # "none" => status'[j] # "none",
         \A b \in Actors : pc'[b] \in OwnPcs => pc[b] \in OwnPcs /\ cur'[b] = cur[b],
         \A b \in Actors : pc'[b] = "ghost" => pc[b] = "ghost" /\ cur'[b] = cur[b]
  PROVE  OwnedByOne' /\ Created'
<1>1. OwnedByOne'
  BY DEF IInv, Ownership, OwnedByOne, ApiActors, Actors
<1>2. \A j \in Listed' : status'[j] # "none"
  BY ListedAreJobs DEF IInv, Ownership, Created
<1>3. \A b \in Actors : pc'[b] \in OwnPcs \cup {"ghost"} => status'[cur'[b]] # "none"
  BY OwnersHaveJobs DEF IInv, Ownership, Created
<1> QED BY <1>1, <1>2, <1>3 DEF Created

\* A step after which nobody holds or lists more than before.
LEMMA Shrink ==
  ASSUME IInv, OnlyFails, UNCHANGED claims,
         queue' = queue \/ queue' = <<>>,
         \A b \in Actors : snap'[b] = snap[b] \/ snap'[b] = <<>>,
         \A b \in Actors :
           \/ pc'[b] \notin OwnPcs \cup {"ghost"}
           \/ pc'[b] = pc[b] /\ cur'[b] = cur[b] /\ want'[b] = want[b]
  PROVE  Ownership'
<1>1. Listed' \subseteq Listed
  BY ListedShrinks
<1>2. OwnedByOne' /\ Created'
  BY <1>1, Carry DEF OnlyFails
<1>3. ClaimsAgree'
  BY DEF IInv, Ownership, ClaimsAgree, OnlyFails
<1>4. RunsClaimed'
  BY DEF IInv, Ownership, RunsClaimed, OwnPcs, RunPcs
<1> QED BY <1>2, <1>3, <1>4 DEF Ownership

\* A request moves on and owns nothing.
LEMMA Quiet ==
  ASSUME IInv, OnlyFails, UNCHANGED <<claims, queue, want>>,
         NEW a \in Actors, NEW label \in Pcs \ (OwnPcs \cup {"ghost"}), Go(a, label),
         \A b \in Actors : b # a => cur'[b] = cur[b],
         \A b \in Actors : snap'[b] = snap[b] \/ snap'[b] = <<>>
  PROVE  Ownership'
<1>1. \A b \in Actors : pc'[b] = IF b = a THEN label ELSE pc[b]
  BY DEF Go, IInv, TypeOK, RequestsTyped
<1> QED BY <1>1, Shrink

\* A request or a run ends, or the scheduler goes to its next page.
LEMMA Leaving ==
  ASSUME IInv, OnlyFails, UNCHANGED <<claims, queue>>,
         NEW a \in Actors, NextPageOrReturn(a) \/ Return(a),
         UNCHANGED want \/ DropRun(a)
  PROVE  Ownership'
<1>1. PICK label \in {"create", "idle"} : Go(a, label)
  BY DEF NextPageOrReturn, Return
<1>2. \A b \in Actors : pc'[b] = IF b = a THEN label ELSE pc[b]
  BY <1>1 DEF Go, IInv, TypeOK, RequestsTyped
<1>3. \A b \in Actors : b # a => cur'[b] = cur[b]
  BY DEF NextPageOrReturn, Return, Drop, IInv, TypeOK, RequestsTyped
<1>4. \A b \in Actors : snap'[b] = snap[b] \/ snap'[b] = <<>>
  BY DEF NextPageOrReturn, Return, Drop, reqVars, IInv, TypeOK, ListsTyped
<1>5. \A b \in Actors : b # a => want'[b] = want[b]
  BY DEF DropRun, IInv, TypeOK, RunsTyped
<1> QED BY <1>1, <1>2, <1>3, <1>4, <1>5, Shrink DEF OwnPcs, RunPcs

\* A runner moves on with its job.
LEMMA RunOn ==
  ASSUME IInv, UNCHANGED <<status, claims, queue, cur, snap>>,
         NEW a \in Actors, pc[a] \in OwnPcs,
         \A b \in Actors : b # a => pc'[b] = pc[b] /\ want'[b] = want[b],
         pc'[a] \in OwnPcs,
         pc'[a] = "claim" => claims[cur[a]] = 0,
         pc'[a] \in RunPcs \ {"claim"} =>
           \/ claims[cur[a]] = 1
           \/ pc'[a] \in {"finRead", "finWrite"} /\ want'[a] = "failed"
  PROVE  Ownership'
<1>1. \A b \in Actors : pc'[b] \in OwnPcs <=> pc[b] \in OwnPcs
  OBVIOUS
<1>2. \A b \in Actors : pc'[b] = "ghost" => pc[b] = "ghost"
  BY DEF OwnPcs, RunPcs
<1>3. Listed' \subseteq Listed
  BY ListedShrinks
<1>4. OwnedByOne' /\ Created'
  BY <1>1, <1>2, <1>3, Carry
<1>5. ClaimsAgree'
  BY DEF IInv, Ownership, ClaimsAgree
<1>6. RunsClaimed'
  BY DEF IInv, Ownership, RunsClaimed
<1> QED BY <1>4, <1>5, <1>6 DEF Ownership

\* A run past its claim goes from one program point to another.
LEMMA RunGoes ==
  ASSUME IInv, UNCHANGED <<status, claims, queue, cur, snap>>,
         NEW a \in Actors, pc[a] \in RunPcs \ {"claim", "finRead", "finWrite"},
         \A b \in Actors : b # a => want'[b] = want[b],
         \/ UNCHANGED pc
         \/ \E label \in RunPcs \ {"claim"} : Go(a, label)
  PROVE  Ownership'
<1>1. \A b \in Actors : b # a => pc'[b] = pc[b]
  BY DEF Go, IInv, TypeOK, RequestsTyped
<1>2. pc'[a] \in RunPcs \ {"claim"}
  BY DEF Go, IInv, TypeOK, RequestsTyped
<1>3. claims[cur[a]] = 1
  BY DEF IInv, Ownership, RunsClaimed
<1> QED BY <1>1, <1>2, <1>3, RunOn DEF OwnPcs

-----------------------------------------------------------------------------
LEMMA OwnershipInit == Init => Ownership
<1> SUFFICES ASSUME Init PROVE Ownership
  OBVIOUS
<1>1. \A a \in Actors : pc[a] \notin OwnPcs \cup {"ghost"} /\ snap[a] = <<>>
  BY DEF Init, OwnPcs, RunPcs
<1>2. Range(<<>>) = {}
  BY DEF Range
<1>3. Listed = {}
  BY <1>1, <1>2 DEF Init, Listed
<1>4. OwnedByOne /\ Created
  BY <1>1, <1>3 DEF OwnedByOne, Created, ApiActors, Actors
<1>5. ClaimsAgree
  BY DEF Init, ClaimsAgree
<1>6. RunsClaimed
  BY <1>1 DEF RunsClaimed, OwnPcs, RunPcs
<1> QED BY <1>4, <1>5, <1>6 DEF Ownership

LEMMA OwnershipStep ==
  ASSUME IInv, [Next]_vars, "lost reply" \notin Faults
  PROVE  Ownership'
<1> ApiActors \subseteq Actors /\ Worker \in Actors /\ Cron \in ApiActors
  BY DEF ApiActors, Actors
<1>1. ASSUME NEW a \in ApiActors, StaleFind(a) PROVE Ownership'
  BY <1>1, Quiet DEF StaleFind, OnlyFails, Pcs, RequestPcs, RunPcs, OwnPcs, Active, rowVars,
     runVars, reqVars, histVars
<1>2. ASSUME NEW a \in ApiActors, StaleUpdate(a) PROVE Ownership'
  <2>1. OnlyFails
    BY <1>2 DEF StaleUpdate, FailRows, OnlyFails
  <2> QED BY <1>2, <2>1, Quiet DEF StaleUpdate, Pcs, RequestPcs, RunPcs, OwnPcs, Active, redisVars,
             runVars, reqVars, histVars
<1>3. ASSUME NEW a \in ApiActors, FindActive(a) PROVE Ownership'
  <2>1. CASE Return(a)
    BY <1>3, <2>1, Leaving DEF FindActive, OnlyFails, rowVars, redisVars, runVars, histVars
  <2>2. CASE Go(a, "create") /\ UNCHANGED <<cur, reqVars>>
    BY <1>3, <2>2, Quiet DEF FindActive, OnlyFails, Pcs, RequestPcs, RunPcs, OwnPcs, rowVars,
       redisVars, runVars, reqVars, histVars
  <2> QED BY <1>3, <2>1, <2>2 DEF FindActive
<1>4. ASSUME NEW a \in ApiActors, OutOfIds(a) PROVE Ownership'
  BY <1>4, Leaving DEF OutOfIds, OnlyFails, rowVars, redisVars, runVars, histVars
<1>5. ASSUME NEW a \in ApiActors, PauseFlag(a) PROVE Ownership'
  BY <1>5, Quiet DEF PauseFlag, OnlyFails, Pcs, RequestPcs, RunPcs, OwnPcs, rowVars, runVars,
     reqVars
<1>6. ASSUME NEW a \in ApiActors, PauseDb(a) PROVE Ownership'
  BY <1>6, Leaving DEF PauseDb, OnlyFails, redisVars, runVars, histVars
<1>7. ASSUME NEW a \in ApiActors, CancelFind(a) PROVE Ownership'
  BY <1>7, Quiet DEF CancelFind, OnlyFails, Pcs, RequestPcs, RunPcs, OwnPcs, rowVars, redisVars,
     runVars, histVars
<1>8. ASSUME NEW a \in ApiActors, CancelFlag(a) PROVE Ownership'
  <2>1. \A b \in Actors : b # a => cur'[b] = cur[b]
    BY <1>8 DEF CancelFlag, IInv, TypeOK, RequestsTyped
  <2> QED BY <1>8, <2>1, Quiet DEF CancelFlag, OnlyFails, Pcs, RequestPcs, RunPcs, OwnPcs, rowVars,
             runVars
<1>9. ASSUME NEW a \in ApiActors, DeleteAudits(a) PROVE Ownership'
  <2>1. \A b \in Actors : b # a => cur'[b] = cur[b]
    BY <1>9 DEF DeleteAudits, IInv, TypeOK, RequestsTyped
  <2> QED BY <1>9, <2>1, Quiet DEF DeleteAudits, OnlyFails, Pcs, RequestPcs, RunPcs, OwnPcs,
             rowVars, redisVars, reqVars, runVars, histVars
<1>10. ASSUME NEW a \in ApiActors, CancelUpdate(a) PROVE Ownership'
  <2>1. OnlyFails
    BY <1>10 DEF CancelUpdate, FailRows, OnlyFails
  <2>2. CASE Return(a)
    BY <1>10, <2>1, <2>2, Leaving DEF CancelUpdate, redisVars, runVars
  <2>3. CASE Go(a, "find") /\ UNCHANGED <<cur, reqVars>>
    BY <1>10, <2>1, <2>3, Quiet DEF CancelUpdate, Pcs, RequestPcs, RunPcs, OwnPcs, redisVars,
       reqVars, runVars
  <2> QED BY <1>10, <2>2, <2>3 DEF CancelUpdate
<1>11. ASSUME NEW a \in ApiActors, FailGhost(a) PROVE Ownership'
  <2>1. OnlyFails
    BY <1>11 DEF FailGhost, FailRows, OnlyFails
  <2> QED BY <1>11, <2>1, Leaving DEF FailGhost, redisVars, runVars, histVars
<1>12. ASSUME NEW a \in ApiActors, Create(a) PROVE Ownership'
  <2>1. PICK j \in Jobs :
          /\ status[j] = "none"
          /\ status' = [status EXCEPT ![j] = "queued"]
          /\ cur' = [cur EXCEPT ![a] = j]
    BY <1>12 DEF Create
  <2>2. /\ \A b \in Actors : pc'[b] = IF b = a THEN "enqueue" ELSE pc[b]
        /\ \A b \in Actors : cur'[b] = IF b = a THEN j ELSE cur[b]
        /\ \A k \in Jobs : status'[k] = IF k = j THEN "queued" ELSE status[k]
        /\ UNCHANGED <<queue, snap, claims, want>>
    BY ZenonT(90), <1>12, <2>1 DEF Create, Go, IInv, TypeOK, RequestsTyped, RowsTyped, redisVars,
       histVars, runVars
  <2>3. Listed' \subseteq Listed
    BY <2>2, ListedShrinks
  <2>4. /\ j \notin Listed
        /\ \A b \in Actors : pc[b] \in OwnPcs => cur[b] # j
    BY <2>1 DEF IInv, Ownership, Created
  <2>5. OwnedByOne'
    <3> SUFFICES ASSUME NEW c \in ApiActors, pc'[c] \in OwnPcs
                 PROVE  /\ cur'[c] \notin Listed'
                        /\ \A b \in Actors : b # c /\ pc'[b] \in OwnPcs => cur'[b] # cur'[c]
      BY DEF OwnedByOne
    <3>1. CASE c = a
      BY <2>2, <2>3, <2>4, <3>1
    <3>2. CASE c # a
      <4>1. pc[c] \in OwnPcs /\ cur'[c] = cur[c]
        BY <2>2, <3>2
      <4>2. cur[c] \notin Listed /\ \A b \in Actors : b # c /\ pc[b] \in OwnPcs => cur[b] # cur[c]
        BY <4>1 DEF IInv, Ownership, OwnedByOne
      <4> QED BY <2>2, <2>3, <2>4, <4>1, <4>2
    <3> QED BY <3>1, <3>2
  <2>6. Created'
    <3>1. \A k \in Jobs : status[k] # "none" => status'[k] # "none"
      BY <2>2
    <3>2. \A k \in Listed' : status'[k] # "none"
      BY <2>3, <3>1, ListedAreJobs DEF IInv, Ownership, Created
    <3>3. ASSUME NEW b \in Actors,
       pc'[b] \in OwnPcs \cup {"ghost"} PROVE status'[cur'[b]] # "none"
      <4>1. CASE b = a
        BY <2>2, <4>1
      <4>2. CASE b # a
        <5>1. pc[b] \in OwnPcs \cup {"ghost"} /\ cur'[b] = cur[b]
          BY <2>2, <3>3, <4>2
        <5>2. cur[b] \in Jobs /\ status[cur[b]] # "none"
          BY <5>1, OwnersHaveJobs DEF IInv, Ownership, Created
        <5> QED BY <3>1, <5>1, <5>2
      <4> QED BY <4>1, <4>2
    <3> QED BY <3>2, <3>3 DEF Created
  <2>7. ClaimsAgree'
    <3>1. claims[j] = 0
      BY <2>1 DEF IInv, Ownership, ClaimsAgree
    <3> QED BY <2>2, <3>1 DEF IInv, Ownership, ClaimsAgree
  <2>8. RunsClaimed'
    BY <2>2 DEF IInv, Ownership, RunsClaimed, RunPcs
  <2> QED BY <2>5, <2>6, <2>7, <2>8 DEF Ownership
<1>13. ASSUME NEW a \in ApiActors, Enqueue(a) PROVE Ownership'
  <2>1. cur[a] \in Jobs /\ pc[a] \in OwnPcs
    BY <1>13, OwnersHaveJobs DEF Enqueue, OwnPcs, IInv
  <2>2. Range(queue') \subseteq Range(queue) \cup {cur[a]}
    <3>1. queue \in Seq(Jobs)
      BY DEF IInv, TypeOK, ListsTyped
    <3>2. queue' = Append(queue, cur[a])
      BY <1>13 DEF Enqueue
    <3>3. \A x \in Jobs : Range(Append(queue, x)) \subseteq Range(queue) \cup {x}
      BY <3>1, RangeOfList
    <3>4. Range(Append(queue, cur[a])) \subseteq Range(queue) \cup {cur[a]}
      BY <2>1, <3>3
    <3> QED BY <3>2, <3>4
  <2>3. PICK label \in {"create", "idle"} : Go(a, label)
    BY <1>13 DEF Enqueue, NextPageOrReturn, Return
  <2>4. \A b \in Actors : pc'[b] = IF b = a THEN label ELSE pc[b]
    BY <2>3 DEF Go, IInv, TypeOK, RequestsTyped
  <2>5. \A b \in Actors : b # a => cur'[b] = cur[b]
    BY <1>13 DEF Enqueue, NextPageOrReturn, Return, Drop, IInv, TypeOK, RequestsTyped
  <2>6. \A b \in Actors : snap'[b] = snap[b] \/ snap'[b] = <<>>
    BY <1>13 DEF Enqueue, NextPageOrReturn, Return, Drop, reqVars, IInv, TypeOK, ListsTyped
  <2>7. UNCHANGED <<status, claims, want>>
    BY <1>13 DEF Enqueue, rowVars, histVars, runVars
  <2>8. \A b \in Actors : pc'[b] \in OwnPcs \cup {"ghost"} => b # a /\ pc'[b] = pc[b]
          /\ cur'[b] = cur[b]
    BY <2>4, <2>5 DEF OwnPcs, RunPcs
  <2>9. Listed' \subseteq Listed \cup {cur[a]}
    <3>1. Range(<<>>) = {}
      <4>1. queue \in Seq(Jobs)
        BY DEF IInv, TypeOK, ListsTyped
      <4> QED BY <4>1, RangeOfList
    <3>2. \A b \in Actors : Range(snap'[b]) \subseteq Range(snap[b])
      BY <2>6, <3>1
    <3>3. Listed' = Range(queue') \cup UNION {Range(snap'[b]) : b \in Actors}
      BY DEF Listed
    <3> QED BY <2>2, <3>2, <3>3 DEF Listed
  <2>10. OwnedByOne'
    <3> SUFFICES ASSUME NEW c \in ApiActors, pc'[c] \in OwnPcs
                 PROVE  /\ cur'[c] \notin Listed'
                        /\ \A b \in Actors : b # c /\ pc'[b] \in OwnPcs => cur'[b] # cur'[c]
      BY DEF OwnedByOne
    <3>1. c # a /\ cur'[c] = cur[c] /\ pc[c] \in OwnPcs
      BY <2>8
    <3>2. cur[c] \notin Listed /\ \A b \in Actors : b # c /\ pc[b] \in OwnPcs => cur[b] # cur[c]
      BY <3>1 DEF IInv, Ownership, OwnedByOne
    <3> QED BY <2>1, <2>8, <2>9, <3>1, <3>2
  <2>11. Created'
    <3>1. status[cur[a]] # "none"
      BY <2>1 DEF IInv, Ownership, Created
    <3> QED BY <2>7, <2>8, <2>9, <3>1 DEF IInv, Ownership, Created
  <2>12. ClaimsAgree'
    BY <2>7 DEF IInv, Ownership, ClaimsAgree
  <2>13. RunsClaimed'
    BY ZenonT(60), <2>7, <2>8 DEF IInv, Ownership, RunsClaimed, OwnPcs, RunPcs
  <2> QED BY <2>10, <2>11, <2>12, <2>13 DEF Ownership
<1>14. ASSUME NEW a \in ApiActors, EnqueueFails(a) PROVE Ownership'
  <2>1. UNCHANGED <<status, claims, queue, cur, snap>>
    BY <1>14 DEF EnqueueFails, rowVars, histVars, reqVars
  <2>2. PICK label \in {"finRead", "read"} :
          Go(a, label) /\ (label = "finRead" => want' = [want EXCEPT ![a] = "failed"])
    BY <1>14 DEF EnqueueFails
  <2>3. \A b \in Actors : pc'[b] = IF b = a THEN label ELSE pc[b]
    BY <2>2 DEF Go, IInv, TypeOK, RequestsTyped
  <2>4. \A b \in Actors : b # a => want'[b] = want[b]
    BY <1>14 DEF EnqueueFails, IInv, TypeOK, RunsTyped
  <2>5. label = "finRead" => want'[a] = "failed"
    BY <2>2 DEF IInv, TypeOK, RunsTyped
  <2>6. pc[a] = "enqueue"
    BY <1>14 DEF EnqueueFails
  <2> QED BY <2>1, <2>3, <2>4, <2>5, <2>6, RunOn DEF OwnPcs, RunPcs
<1>15. ASSUME NEW a \in ApiActors, PurgeRead(a) PROVE Ownership'
  <2>1. UNCHANGED <<status, claims, queue, cur, want>>
    BY <1>15 DEF PurgeRead, rowVars, redisVars, histVars, runVars
  <2>2. \A b \in Actors : snap'[b] = snap[b] \/ snap'[b] = queue
    BY <1>15 DEF PurgeRead, IInv, TypeOK, ListsTyped
  <2>3. PICK label \in {"purgeWrite", "delete"} : Go(a, label)
    BY <1>15 DEF PurgeRead
  <2>4. \A b \in Actors : pc'[b] = IF b = a THEN label ELSE pc[b]
    BY <2>3 DEF Go, IInv, TypeOK, RequestsTyped
  <2>5. \A b \in Actors : pc'[b] \in OwnPcs \cup {"ghost"} => pc'[b] = pc[b]
    BY <2>4 DEF OwnPcs, RunPcs
  <2>6. Listed' \subseteq Listed
    BY <2>1, <2>2, ListedShrinks
  <2>7. OwnedByOne' /\ Created'
    BY <2>1, <2>5, <2>6, Carry
  <2>8. ClaimsAgree' /\ RunsClaimed'
    BY <2>1, <2>5 DEF IInv, Ownership, ClaimsAgree, RunsClaimed, OwnPcs, RunPcs
  <2> QED BY <2>7, <2>8 DEF Ownership
<1>16. ASSUME NEW a \in ApiActors, PurgeWrite(a) PROVE Ownership'
  <2>1. UNCHANGED <<status, claims, cur, want>>
    BY <1>16 DEF PurgeWrite, rowVars, histVars, runVars
  <2>2. \A b \in Actors : snap'[b] = snap[b] \/ snap'[b] = <<>>
    BY <1>16 DEF PurgeWrite, IInv, TypeOK, ListsTyped
  <2>3. UNCHANGED queue \/ Range(queue') \subseteq Listed
    <3>1. snap[a] \in Seq(Jobs)
      BY DEF IInv, TypeOK, ListsTyped
    <3>2. Range(snap[a]) \subseteq Listed
      BY DEF Listed
    <3>3. \A i \in DOMAIN snap[a] : Range(Reverse(RemoveAt(snap[a], i))) \subseteq Range(snap[a])
      BY <3>1, RangeOfList
    <3>4. UNCHANGED queue \/ \E i \in DOMAIN snap[a] : queue' = Reverse(RemoveAt(snap[a], i))
      BY <1>16 DEF PurgeWrite
    <3> QED BY <3>2, <3>3, <3>4
  <2>4. \A b \in Actors : pc'[b] = IF b = a THEN "delete" ELSE pc[b]
    BY <1>16 DEF PurgeWrite, Go, IInv, TypeOK, RequestsTyped
  <2>5. \A b \in Actors : pc'[b] \in OwnPcs \cup {"ghost"} => pc'[b] = pc[b]
    BY <2>4 DEF OwnPcs, RunPcs
  <2>6. Listed' \subseteq Listed
    BY <2>2, <2>3, ListedShrinks
  <2>7. OwnedByOne' /\ Created'
    BY <2>1, <2>5, <2>6, Carry
  <2>8. ClaimsAgree' /\ RunsClaimed'
    BY <2>1, <2>5 DEF IInv, Ownership, ClaimsAgree, RunsClaimed, OwnPcs, RunPcs
  <2> QED BY <2>7, <2>8 DEF Ownership
<1>17. ASSUME NEW a \in Users, RunRequest(a) PROVE Ownership'
  <2> a \in Actors
    BY DEF ApiActors
  <2> QED BY <1>17, Quiet DEF RunRequest, Begin, OnlyFails, Pcs, RequestPcs, RunPcs, OwnPcs,
             rowVars, redisVars, runVars, histVars
<1>18. ASSUME NEW a \in Users, PauseRequest(a) PROVE Ownership'
  <2> a \in Actors
    BY DEF ApiActors
  <2>1. \A b \in Actors : b # a => cur'[b] = cur[b]
    BY <1>18 DEF PauseRequest, IInv, TypeOK, RequestsTyped
  <2> QED BY <1>18, <2>1, Quiet DEF PauseRequest, Begin, OnlyFails, Pcs, RequestPcs, RunPcs,
             OwnPcs, rowVars, redisVars, runVars, histVars
<1>19. ASSUME NEW a \in Users, PollGhost(a) PROVE Ownership'
  <2> a \in Actors
    BY DEF ApiActors
  <2>1. PICK j \in Jobs : LooksDead(j) /\ cur' = [cur EXCEPT ![a] = j]
    BY <1>19 DEF PollGhost, Visible
  <2>2. /\ \A b \in Actors : pc'[b] = IF b = a THEN "ghost" ELSE pc[b]
        /\ \A b \in Actors : cur'[b] = IF b = a THEN j ELSE cur[b]
        /\ UNCHANGED <<status, claims, queue, snap, want>>
    BY <1>19, <2>1 DEF PollGhost, Begin, Go, IInv, TypeOK, RequestsTyped, rowVars, redisVars,
       runVars, histVars
  <2>3. \A b \in Actors : pc'[b] \in OwnPcs => b # a
    BY <2>2 DEF OwnPcs, RunPcs
  <2>4. status[j] = "running"
    BY <2>1 DEF LooksDead
  <2>5. OwnedByOne'
    <3>1. Listed' \subseteq Listed
      BY <2>2, ListedShrinks
    <3> QED BY <2>2, <2>3, <3>1 DEF IInv, Ownership, OwnedByOne, ApiActors, Actors
  <2>6. Created'
    <3>1. Listed' \subseteq Listed
      BY <2>2, ListedShrinks
    <3> QED BY <2>2, <2>4, <3>1 DEF IInv, Ownership, Created
  <2>7. ClaimsAgree' /\ RunsClaimed'
    BY <2>2, <2>3 DEF IInv, Ownership, ClaimsAgree, RunsClaimed, OwnPcs, RunPcs
  <2> QED BY <2>5, <2>6, <2>7 DEF Ownership
<1>20. ASSUME CronStarts PROVE Ownership'
  BY <1>20, Quiet DEF CronStarts, OnlyFails, Pcs, RequestPcs, RunPcs, OwnPcs, rowVars, redisVars,
     runVars, histVars
<1>21. ASSUME Pop PROVE Ownership'
  <2>1. queue \in Seq(Jobs) /\ queue # <<>>
    BY <1>21 DEF Pop, IInv, TypeOK, ListsTyped
  <2>2. Head(queue) \in Range(queue) /\ Range(Tail(queue)) \subseteq Range(queue)
    BY <2>1, RangeOfList
  <2>3. Head(queue) \in Listed /\ Range(Tail(queue)) \subseteq Listed
    BY <2>2 DEF Listed
  <2>4. /\ \A b \in Actors : pc'[b] = IF b = Worker THEN "read" ELSE pc[b]
        /\ \A b \in Actors : cur'[b] = IF b = Worker THEN Head(queue) ELSE cur[b]
        /\ UNCHANGED <<status, claims, snap, want>>
        /\ queue' = Tail(queue)
    BY <1>21 DEF Pop, Go, IInv, TypeOK, RequestsTyped, rowVars, reqVars, runVars, histVars
  <2>5. Listed' \subseteq Listed
    BY <2>3, <2>4, ListedShrinks
  <2>6. OwnedByOne'
    <3> SUFFICES ASSUME NEW c \in ApiActors, pc'[c] \in OwnPcs
                 PROVE  /\ cur'[c] \notin Listed'
                        /\ \A b \in Actors : b # c /\ pc'[b] \in OwnPcs => cur'[b] # cur'[c]
      BY DEF OwnedByOne
    <3>1. c # Worker
      BY ConstantsOK DEF ApiActors
    <3>2. cur'[c] = cur[c] /\ pc[c] \in OwnPcs
      BY <2>4, <3>1
    <3>3. cur[c] \notin Listed /\ \A b \in Actors : b # c /\ pc[b] \in OwnPcs => cur[b] # cur[c]
      BY <3>2 DEF IInv, Ownership, OwnedByOne
    <3> QED BY <2>3, <2>4, <2>5, <3>2, <3>3
  <2>7. Created'
    BY <2>3, <2>4, <2>5 DEF IInv, Ownership, Created
  <2>8. ClaimsAgree' /\ RunsClaimed'
    BY <2>4 DEF IInv, Ownership, ClaimsAgree, RunsClaimed, RunPcs
  <2> QED BY <2>6, <2>7, <2>8 DEF Ownership
<1>22. ASSUME NEW a \in Actors, ReadRow(a) PROVE Ownership'
  <2>1. UNCHANGED <<status, claims, queue, want>> /\ pc[a] = "read" /\ cur[a] \in Jobs
    BY <1>22, OwnersHaveJobs DEF ReadRow, rowVars, redisVars, runVars, histVars, OwnPcs, IInv
  <2>2. CASE Return(a)
    BY <2>1, <2>2, Leaving DEF OnlyFails
  <2>3. ASSUME NEW label \in {"claim", "init"}, Go(a, label), UNCHANGED <<cur, reqVars>>,
               status[cur[a]] = IF label = "claim" THEN "queued" ELSE "running"
        PROVE  Ownership'
    <3>1. \A b \in Actors : pc'[b] = IF b = a THEN label ELSE pc[b]
      BY <2>3 DEF Go, IInv, TypeOK, RequestsTyped
    <3>2. claims[cur[a]] = IF label = "claim" THEN 0 ELSE 1
      BY <2>1, <2>3 DEF IInv, Ownership, ClaimsAgree
    <3> QED BY <2>1, <2>3, <3>1, <3>2, RunOn DEF OwnPcs, RunPcs, reqVars
  <2> QED BY <1>22, <2>2, <2>3 DEF ReadRow
<1>23. ASSUME NEW a \in Actors, Claim(a) PROVE Ownership'
  <2> DEFINE j == cur[a]
  <2>1. j \in Jobs /\ pc[a] = "claim" /\ pc[a] \in OwnPcs
    BY <1>23, OwnersHaveJobs DEF Claim, OwnPcs, RunPcs, IInv
  <2>2. claims[j] = 0
    BY <2>1 DEF IInv, Ownership, RunsClaimed
  <2>3. /\ \A b \in Actors : pc'[b] = IF b = a THEN "init" ELSE pc[b]
        /\ \A k \in Jobs : status'[k] = IF k = j THEN "running" ELSE status[k]
        /\ \A k \in Jobs : claims'[k] = IF k = j THEN 1 ELSE claims[k]
        /\ UNCHANGED <<cur, queue, snap, want>>
    <3>1. \A b \in Actors : pc'[b] = IF b = a THEN "init" ELSE pc[b]
      BY <1>23 DEF Claim, Go, IInv, TypeOK, RequestsTyped
    <3>2. \A k \in Jobs : status'[k] = IF k = j THEN "running" ELSE status[k]
      BY <1>23 DEF Claim, IInv, TypeOK, RowsTyped
    <3>3. \A k \in Jobs : claims'[k] = IF k = j THEN 1 ELSE claims[k]
      <4>1. claims \in [Jobs -> Nat]
        BY DEF IInv, TypeOK, HistoryTyped
      <4>2. claims' = [claims EXCEPT ![j] = claims[j] + 1]
        BY <1>23 DEF Claim
      <4> HIDE DEF j
      <4> QED BY <2>1, <2>2, <4>1, <4>2, CountsOnce
    <3>4. UNCHANGED <<cur, queue, snap, want>>
      BY <1>23 DEF Claim, redisVars, reqVars, runVars
    <3> HIDE DEF j
    <3> QED BY <3>1, <3>2, <3>3, <3>4
  <2>4. \A b \in Actors : pc'[b] \in OwnPcs <=> pc[b] \in OwnPcs
    BY <2>1, <2>3 DEF OwnPcs, RunPcs
  <2>5. OwnedByOne' /\ Created'
    <3>1. Listed' \subseteq Listed
      BY <2>3, ListedShrinks
    <3>2. \A k \in Jobs : status[k] # "none" => status'[k] # "none"
      BY <2>3
    <3> HIDE DEF j
    <3> QED BY <2>3, <2>4, <3>1, <3>2, Carry
  <2>6. \A b \in Actors : b # a /\ pc[b] \in OwnPcs => cur[b] # j
    BY <2>1 DEF IInv, Ownership, OwnedByOne, ApiActors, Actors
  <2>8. ClaimsAgree'
    BY <2>1, <2>3 DEF IInv, Ownership, ClaimsAgree
  <2>9. RunsClaimed'
    <3> SUFFICES ASSUME NEW b \in Actors, pc'[b] \in RunPcs
                 PROVE  /\ pc'[b] = "claim" => claims'[cur'[b]] = 0
                        /\ pc'[b] # "claim" =>
                             \/ claims'[cur'[b]] = 1
                             \/ pc'[b] \in {"finRead", "finWrite"} /\ want'[b] = "failed"
      BY DEF RunsClaimed, RunPcs
    <3>1. CASE b = a
      BY <2>1, <2>3, <3>1
    <3>2. CASE b # a
      <4>1. pc[b] \in OwnPcs /\ pc'[b] = pc[b] /\ cur[b] \in Jobs \ {j}
        BY <2>3, <2>6, <3>2, OwnersHaveJobs DEF OwnPcs, IInv
      <4> QED BY <2>3, <4>1 DEF IInv, Ownership, RunsClaimed
    <3> QED BY <3>1, <3>2
  <2> QED BY <2>5, <2>8, <2>9 DEF Ownership
<1>24. ASSUME NEW a \in Actors, Start(a) PROVE Ownership'
  BY <1>24, RunGoes DEF Start, RunPcs, reqVars, histVars, redisVars
<1>25. ASSUME NEW a \in Actors, RunError(a) PROVE Ownership'
  <2>1. /\ UNCHANGED <<status, claims, queue, cur, snap, want>> /\ Go(a, "catch")
        /\ pc[a] \in RunPcs \ {"claim"}
        /\ pc[a] \in {"finRead", "finWrite"} => want[a] # "failed"
    BY <1>25 DEF RunError, InWork, Consuming, RunPcs, rowVars, redisVars, reqVars, runVars, histVars
  <2>2. \A b \in Actors : pc'[b] = IF b = a THEN "catch" ELSE pc[b]
    BY <2>1 DEF Go, IInv, TypeOK, RequestsTyped
  <2>3. claims[cur[a]] = 1
    BY <2>1 DEF IInv, Ownership, RunsClaimed, RunPcs
  <2> QED BY <2>1, <2>2, <2>3, RunOn DEF OwnPcs, RunPcs
<1>25a. ASSUME LoopError PROVE Ownership'
  BY <1>25a, Leaving DEF LoopError, OnlyFails, rowVars, redisVars
<1>26. ASSUME NEW a \in Actors, FetchMatch(a) PROVE Ownership'
  BY <1>26, RunGoes DEF FetchMatch, InWork, Consuming, RunPcs, reqVars, histVars
<1>27. ASSUME NEW a \in Actors, FetchEnd(a) PROVE Ownership'
  BY <1>27, RunGoes DEF FetchEnd, InWork, Consuming, RunPcs, rowVars, reqVars, histVars
<1>27a. ASSUME NEW a \in Actors, FetchDrain(a) PROVE Ownership'
  BY <1>27a, RunGoes DEF FetchDrain, InWork, Consuming, RunPcs, rowVars, reqVars, histVars
<1>28. ASSUME NEW a \in Actors, Take(a) PROVE Ownership'
  BY <1>28, RunGoes DEF Take, InWork, Consuming, RunPcs, rowVars, reqVars, histVars
<1>29. ASSUME NEW a \in Actors, Leave(a) PROVE Ownership'
  BY <1>29, RunGoes DEF Leave, InWork, Consuming, RunPcs, rowVars, reqVars, histVars
<1>30. ASSUME NEW a \in Actors, Score(a) PROVE Ownership'
  BY <1>30, RunGoes DEF Score, InWork, Consuming, RunPcs, redisVars, reqVars, histVars
<1>31. ASSUME NEW a \in Actors, ConsumersDone(a) PROVE Ownership'
  BY <1>31, RunGoes DEF ConsumersDone, InWork, Consuming, RunPcs, rowVars, redisVars, reqVars, runVars,
     histVars
<1>32. ASSUME NEW a \in Actors, CancelledReturn(a) PROVE Ownership'
  BY <1>32, Leaving DEF CancelledReturn, OnlyFails, rowVars, histVars
<1>33. ASSUME NEW a \in Actors, Decide(a) PROVE Ownership'
  <2>1. \A b \in Actors : b # a => want'[b] = want[b]
    BY <1>33 DEF Decide, IInv, TypeOK, RunsTyped
  <2> QED BY <1>33, <2>1, RunGoes DEF Decide, RunPcs, rowVars, reqVars, histVars
<1>34. ASSUME NEW a \in Actors, Catch(a) PROVE Ownership'
  <2>1. \A b \in Actors : b # a => want'[b] = want[b]
    BY <1>34 DEF Catch, IInv, TypeOK, RunsTyped
  <2> QED BY <1>34, <2>1, RunGoes DEF Catch, RunPcs, rowVars, redisVars, reqVars, histVars
<1>35. ASSUME NEW a \in Actors, FinishRead(a) PROVE Ownership'
  <2>1. UNCHANGED <<status, claims, queue>> /\ pc[a] = "finRead"
    BY <1>35 DEF FinishRead, rowVars, histVars
  <2>2. CASE NextPageOrReturn(a) /\ DropRun(a)
    BY <2>1, <2>2, Leaving DEF OnlyFails
  <2>3. CASE Go(a, "finWrite") /\ UNCHANGED <<cur, reqVars, runVars>>
    <3>1. \A b \in Actors : pc'[b] = IF b = a THEN "finWrite" ELSE pc[b]
      BY <2>3 DEF Go, IInv, TypeOK, RequestsTyped
    <3>2. claims[cur[a]] = 1 \/ want[a] = "failed"
      BY <2>1 DEF IInv, Ownership, RunsClaimed, RunPcs
    <3> QED BY <2>1, <2>3, <3>1, <3>2, RunOn DEF OwnPcs, RunPcs, reqVars, runVars
  <2> QED BY <1>35, <2>2, <2>3 DEF FinishRead
<1>36. ASSUME NEW a \in Actors, FinishWrite(a) PROVE Ownership'
  <2> DEFINE j == cur[a]
  <2>1. j \in Jobs /\ pc[a] = "finWrite" /\ pc[a] \in OwnPcs
    BY <1>36, OwnersHaveJobs DEF FinishWrite, OwnPcs, RunPcs, IInv
  <2>2. claims[j] = 1 \/ want[a] = "failed"
    BY <2>1 DEF IInv, Ownership, RunsClaimed, RunPcs
  <2>3. want[a] \in Terminal
    BY DEF IInv, TypeOK, RunsTyped
  <2>4. \A k \in Jobs : status'[k] = IF k = j THEN want[a] ELSE status[k]
    BY <1>36 DEF FinishWrite, IInv, TypeOK, RowsTyped
  <2>5. UNCHANGED <<claims, queue>>
    BY <1>36 DEF FinishWrite, redisVars, histVars
  <2>6. PICK label \in {"create", "idle"} : Go(a, label)
    BY <1>36 DEF FinishWrite, NextPageOrReturn, Return
  <2>7. \A b \in Actors : pc'[b] = IF b = a THEN label ELSE pc[b]
    BY <2>6 DEF Go, IInv, TypeOK, RequestsTyped
  <2>8. \A b \in Actors : b # a => cur'[b] = cur[b]
    BY <1>36 DEF FinishWrite, NextPageOrReturn, Return, Drop, IInv, TypeOK, RequestsTyped
  <2>9. \A b \in Actors : snap'[b] = snap[b] \/ snap'[b] = <<>>
    BY <1>36 DEF FinishWrite, NextPageOrReturn, Return, Drop, reqVars, IInv, TypeOK, ListsTyped
  <2>10. \A b \in Actors : b # a => want'[b] = want[b]
    BY <1>36 DEF FinishWrite, DropRun, IInv, TypeOK, RunsTyped
  <2>11. \A b \in Actors : pc'[b] \in OwnPcs \cup {"ghost"} =>
           b # a /\ pc'[b] = pc[b] /\ cur'[b] = cur[b] /\ want'[b] = want[b]
    BY <2>7, <2>8, <2>10 DEF OwnPcs, RunPcs
  <2> HIDE DEF j
  <2>12. OwnedByOne' /\ Created'
    <3>1. \A k \in Jobs : status[k] # "none" => status'[k] # "none"
      BY <2>3, <2>4 DEF Terminal
    <3>2. Listed' \subseteq Listed
      BY <2>5, <2>9, ListedShrinks
    <3> QED BY <2>11, <3>1, <3>2, Carry
  <2>14. ClaimsAgree'
    BY <2>2, <2>3, <2>4, <2>5 DEF IInv, Ownership, ClaimsAgree, Terminal
  <2>15. RunsClaimed'
    BY ZenonT(60), <2>5, <2>11 DEF IInv, Ownership, RunsClaimed, OwnPcs, RunPcs
  <2> QED BY <2>12, <2>14, <2>15 DEF Ownership
<1>37. ASSUME NEW h \in Hosts, Boot(h) PROVE Ownership'
  <2>1. OnlyFails
    BY <1>37 DEF Boot, FailRows, OnlyFails
  <2> QED BY <1>37, <2>1, Shrink DEF Boot, redisVars, reqVars, runVars, histVars
<1>37a. ASSUME NEW h \in Hosts, BootFails(h) PROVE Ownership'
  BY <1>37a, Shrink DEF BootFails, OnlyFails, rowVars, redisVars, reqVars, runVars, histVars
<1>38. ASSUME BootPurge PROVE Ownership'
  BY <1>38, Shrink DEF BootPurge, OnlyFails, rowVars, reqVars, runVars, histVars
<1>39. ASSUME CacheExpires PROVE Ownership'
  BY <1>39, Shrink DEF CacheExpires, OnlyFails, rowVars, redisVars, reqVars, runVars, histVars
<1>40. ASSUME NEW h \in Hosts, Crash(h) PROVE Ownership'
  <2>1. /\ pc' = [b \in Actors |-> IF Host(b) = h THEN "idle" ELSE pc[b]]
        /\ cur' = [b \in Actors |-> IF Host(b) = h THEN NoJob ELSE cur[b]]
        /\ snap' = [b \in Actors |-> IF Host(b) = h THEN <<>> ELSE snap[b]]
        /\ want' = [b \in Actors |-> IF Host(b) = h THEN "done" ELSE want[b]]
        /\ UNCHANGED <<status, claims, queue>>
    BY <1>40 DEF Crash, rowVars, redisVars, histVars
  <2>2. \A b \in Actors : pc'[b] = "idle" \/ (pc'[b] = pc[b] /\ cur'[b] = cur[b]
          /\ want'[b] = want[b])
    <3> SUFFICES ASSUME NEW b \in Actors
                 PROVE  pc'[b] = "idle" \/ (pc'[b] = pc[b] /\ cur'[b] = cur[b] /\ want'[b] = want[b])
      OBVIOUS
    <3>1. pc'[b] = IF Host(b) = h THEN "idle" ELSE pc[b]
      BY <2>1
    <3>2. cur'[b] = IF Host(b) = h THEN NoJob ELSE cur[b]
      BY <2>1
    <3>3. want'[b] = IF Host(b) = h THEN "done" ELSE want[b]
      BY <2>1
    <3> QED BY <3>1, <3>2, <3>3
  <2>3. \A b \in Actors : snap'[b] = snap[b] \/ snap'[b] = <<>>
    BY <2>1
  <2> QED BY <2>1, <2>2, <2>3, Shrink DEF OnlyFails, OwnPcs, RunPcs
<1>41. ASSUME NEW h \in Hosts, RedisToggle(h) PROVE Ownership'
  BY <1>41, Shrink DEF RedisToggle, OnlyFails, rowVars, redisVars, reqVars, runVars, histVars
<1>42. ASSUME Age PROVE Ownership'
  BY <1>42, Shrink DEF Age, OnlyFails, redisVars, reqVars, runVars, histVars
<1>43. ASSUME UNCHANGED vars PROVE Ownership'
  BY <1>43, Shrink DEF OnlyFails, vars, rowVars, redisVars, reqVars, runVars, histVars
<1> QED
  BY <1>1, <1>2, <1>3, <1>4, <1>5, <1>6, <1>7, <1>8, <1>9, <1>10, <1>11, <1>12, <1>13, <1>14,
     <1>15, <1>16, <1>17, <1>18, <1>19, <1>20, <1>21, <1>22, <1>23, <1>24, <1>25, <1>25a,
     <1>26, <1>27, <1>27a, <1>28, <1>29, <1>30, <1>31, <1>32, <1>33, <1>34, <1>35, <1>36, <1>37,
     <1>37a, <1>38, <1>39, <1>40, <1>41, <1>42, <1>43 DEF Next, NewRequest, RequestStep, RunStep, Environment

LEMMA OwnershipHolds == "lost reply" \notin Faults => (Spec => []IInv)
<1> SUFFICES ASSUME "lost reply" \notin Faults PROVE Spec => []IInv
  OBVIOUS
<1>1. Init => IInv
  BY TypeInit, OwnershipInit DEF IInv
<1>2. IInv /\ [Next]_vars => IInv'
  BY TypeStep, OwnershipStep DEF IInv
<1> QED BY <1>1, <1>2, PTL DEF Spec

\* No two actors run the same job (a request that Redis refused and the
\* queue loop), unless Redis applied an LPUSH whose reply was lost.
THEOREM NoDoubleRun == "lost reply" \notin Faults => (Spec => []OneRunner)
<1> SUFFICES ASSUME "lost reply" \notin Faults PROVE Spec => []OneRunner
  OBVIOUS
<1>1. IInv => OneRunner
  BY DEF IInv, Ownership, OwnedByOne, OneRunner, OwnPcs, Actors, ApiActors
<1> QED BY <1>1, OwnershipHolds, PTL

-----------------------------------------------------------------------------
\* An updateMany that fails active rows closes them.
LEMMA ClosesGroup ==
  ASSUME NEW J, FailRows(J), \A j \in J : status[j] \in Active, UNCHANGED claims
  PROVE  Lifecycle!Next
<1>1. \A j \in Jobs : status'[j] = status[j] \/ (status[j] \in Lifecycle!Active
        /\ status'[j] = "failed")
  BY DEF FailRows, Active, Lifecycle!Active
<1>2. status' = [j \in Jobs |-> status'[j]]
  BY DEF FailRows
<1> QED BY <1>1, <1>2 DEF Lifecycle!Next, Lifecycle!Close

LEMMA PositiveIsNotZero == \A n \in Nat : n > 0 => n # 0
OBVIOUS

LEMMA LifecycleStep ==
  ASSUME IInv, [Next]_vars
  PROVE  [Lifecycle!Next]_<<status, claims>>
<1>1. ASSUME NewRequest PROVE UNCHANGED <<status, claims>>
  BY <1>1 DEF NewRequest, RunRequest, PauseRequest, PollGhost, CronStarts, rowVars, histVars
<1>2. ASSUME NEW a \in ApiActors, StaleFind(a) PROVE UNCHANGED <<status, claims>>
  BY <1>2 DEF StaleFind, rowVars, histVars
<1>3. ASSUME NEW a \in ApiActors, FindActive(a) PROVE UNCHANGED <<status, claims>>
  BY <1>3 DEF FindActive, rowVars, histVars
<1>4. ASSUME NEW a \in ApiActors, OutOfIds(a) PROVE UNCHANGED <<status, claims>>
  BY <1>4 DEF OutOfIds, rowVars, histVars
<1>5. ASSUME NEW a \in ApiActors, Enqueue(a) PROVE UNCHANGED <<status, claims>>
  BY <1>5 DEF Enqueue, rowVars, histVars
<1>6. ASSUME NEW a \in ApiActors, EnqueueFails(a) PROVE UNCHANGED <<status, claims>>
  BY <1>6 DEF EnqueueFails, rowVars, histVars
<1>7. ASSUME NEW a \in ApiActors, PauseFlag(a) PROVE UNCHANGED <<status, claims>>
  BY <1>7 DEF PauseFlag, rowVars
<1>8. ASSUME NEW a \in ApiActors, PauseDb(a) PROVE UNCHANGED <<status, claims>>
  BY <1>8 DEF PauseDb, histVars
<1>9. ASSUME NEW a \in ApiActors, CancelFind(a) PROVE UNCHANGED <<status, claims>>
  BY <1>9 DEF CancelFind, rowVars, histVars
<1>10. ASSUME NEW a \in ApiActors, CancelFlag(a) PROVE UNCHANGED <<status, claims>>
  BY <1>10 DEF CancelFlag, rowVars
<1>11. ASSUME NEW a \in ApiActors, PurgeRead(a) PROVE UNCHANGED <<status, claims>>
  BY <1>11 DEF PurgeRead, rowVars, histVars
<1>12. ASSUME NEW a \in ApiActors, PurgeWrite(a) PROVE UNCHANGED <<status, claims>>
  BY <1>12 DEF PurgeWrite, rowVars, histVars
<1>13. ASSUME NEW a \in ApiActors, DeleteAudits(a) PROVE UNCHANGED <<status, claims>>
  BY <1>13 DEF DeleteAudits, rowVars, histVars
<1>14. ASSUME NEW a \in Actors, ReadRow(a) PROVE UNCHANGED <<status, claims>>
  BY <1>14 DEF ReadRow, rowVars, histVars
<1>15. ASSUME NEW a \in Actors, Start(a) PROVE UNCHANGED <<status, claims>>
  BY <1>15 DEF Start, histVars
<1>16. ASSUME NEW a \in Actors, RunError(a) PROVE UNCHANGED <<status, claims>>
  BY <1>16 DEF RunError, rowVars, histVars
<1>16a. ASSUME LoopError PROVE UNCHANGED <<status, claims>>
  BY <1>16a DEF LoopError, rowVars
<1>16b. ASSUME NEW h \in Hosts, BootFails(h) PROVE UNCHANGED <<status, claims>>
  BY <1>16b DEF BootFails, rowVars
<1>17. ASSUME NEW a \in Actors, FetchMatch(a) PROVE UNCHANGED <<status, claims>>
  BY <1>17 DEF FetchMatch, histVars
<1>18. ASSUME NEW a \in Actors, FetchEnd(a) PROVE UNCHANGED <<status, claims>>
  BY <1>18 DEF FetchEnd, rowVars, histVars
<1>18a. ASSUME NEW a \in Actors, FetchDrain(a) PROVE UNCHANGED <<status, claims>>
  BY <1>18a DEF FetchDrain, rowVars, histVars
<1>19. ASSUME NEW a \in Actors, Take(a) PROVE UNCHANGED <<status, claims>>
  BY <1>19 DEF Take, rowVars, histVars
<1>20. ASSUME NEW a \in Actors, Leave(a) PROVE UNCHANGED <<status, claims>>
  BY <1>20 DEF Leave, rowVars, histVars
<1>21. ASSUME NEW a \in Actors, Score(a) PROVE UNCHANGED <<status, claims>>
  BY <1>21 DEF Score, histVars
<1>22. ASSUME NEW a \in Actors, ConsumersDone(a) PROVE UNCHANGED <<status, claims>>
  BY <1>22 DEF ConsumersDone, rowVars, histVars
<1>23. ASSUME NEW a \in Actors, CancelledReturn(a) PROVE UNCHANGED <<status, claims>>
  BY <1>23 DEF CancelledReturn, rowVars, histVars
<1>24. ASSUME NEW a \in Actors, Decide(a) PROVE UNCHANGED <<status, claims>>
  BY <1>24 DEF Decide, rowVars, histVars
<1>25. ASSUME NEW a \in Actors, Catch(a) PROVE UNCHANGED <<status, claims>>
  BY <1>25 DEF Catch, rowVars, histVars
<1>26. ASSUME NEW a \in Actors, FinishRead(a) PROVE UNCHANGED <<status, claims>>
  BY <1>26 DEF FinishRead, rowVars, histVars
<1>27. ASSUME Pop PROVE UNCHANGED <<status, claims>>
  BY <1>27 DEF Pop, rowVars, histVars
<1>28. ASSUME BootPurge PROVE UNCHANGED <<status, claims>>
  BY <1>28 DEF BootPurge, rowVars, histVars
<1>29. ASSUME CacheExpires PROVE UNCHANGED <<status, claims>>
  BY <1>29 DEF CacheExpires, rowVars, histVars
<1>30. ASSUME NEW h \in Hosts, Crash(h) PROVE UNCHANGED <<status, claims>>
  BY <1>30 DEF Crash, rowVars, histVars
<1>31. ASSUME NEW h \in Hosts, RedisToggle(h) PROVE UNCHANGED <<status, claims>>
  BY <1>31 DEF RedisToggle, rowVars, histVars
<1>32. ASSUME Age PROVE UNCHANGED <<status, claims>>
  BY <1>32 DEF Age, histVars
<1>33. ASSUME UNCHANGED vars PROVE UNCHANGED <<status, claims>>
  BY <1>33 DEF vars, rowVars, histVars
<1>34. ASSUME NEW a \in ApiActors, Create(a) PROVE Lifecycle!Next
  <2>1. PICK j \in Jobs : status[j] = "none" /\ status' = [status EXCEPT ![j] = "queued"]
    BY <1>34 DEF Create
  <2>2. UNCHANGED claims
    BY <1>34 DEF Create, histVars
  <2> QED BY <2>1, <2>2 DEF Lifecycle!Next, Lifecycle!Create
<1>35. ASSUME NEW a \in Actors, Claim(a) PROVE Lifecycle!Next
  <2> DEFINE j == cur[a]
  <2>1. j \in Jobs /\ pc[a] = "claim" /\ pc[a] \in OwnPcs
    BY <1>35, OwnersHaveJobs DEF Claim, OwnPcs, RunPcs, IInv
  <2>2. claims[j] = 0
    BY <2>1 DEF IInv, Ownership, RunsClaimed
  <2>3. status[j] \in {"queued", "failed"}
    <3>1. status[j] \notin {"none", "running", "done", "paused"}
      BY <2>1, <2>2 DEF IInv, Ownership, ClaimsAgree, Created
    <3>2. status[j] \in {"none"} \cup Active \cup Terminal
      BY <2>1 DEF IInv, TypeOK, RowsTyped
    <3> QED BY <3>1, <3>2 DEF Active, Terminal
  <2>4. status' = [status EXCEPT ![j] = "running"] /\ claims' = [claims EXCEPT ![j] = claims[j] + 1]
    BY <1>35 DEF Claim
  <2>5. claims' = [claims EXCEPT ![j] = 1]
    <3>1. claims \in [Jobs -> Nat]
      BY DEF IInv, TypeOK, HistoryTyped
    <3> HIDE DEF j
    <3>2. claims[j] + 1 = 1
      BY <2>1, <2>2, <3>1, CountsOnce
    <3> QED BY <2>4, <3>2
  <2> HIDE DEF j
  <2> QED BY <2>1, <2>2, <2>3, <2>4, <2>5 DEF Lifecycle!Next, Lifecycle!Claim
<1>36. ASSUME NEW a \in Actors, FinishWrite(a) PROVE Lifecycle!Next
  <2> DEFINE j == cur[a]
  <2>1. j \in Jobs /\ pc[a] = "finWrite" /\ pc[a] \in OwnPcs
    BY <1>36, OwnersHaveJobs DEF FinishWrite, OwnPcs, RunPcs, IInv
  <2>2. status[j] # "none" /\ (claims[j] = 1 \/ want[a] = "failed")
    BY <2>1 DEF IInv, Ownership, RunsClaimed, Created, RunPcs
  <2>3. want[a] \in Lifecycle!Terminal
    BY DEF IInv, TypeOK, RunsTyped, Terminal, Lifecycle!Terminal
  <2>4. status' = [status EXCEPT ![j] = want[a]] /\ UNCHANGED claims
    BY <1>36 DEF FinishWrite, histVars
  <2> HIDE DEF j
  <2> QED BY <2>1, <2>2, <2>3, <2>4 DEF Lifecycle!Next, Lifecycle!End
<1>37. ASSUME NEW a \in ApiActors, FailGhost(a) PROVE Lifecycle!Next
  <2> DEFINE j == cur[a]
  <2>1. j \in Jobs /\ pc[a] = "ghost" /\ a \in Actors
    BY <1>37, OwnersHaveJobs DEF FailGhost, IInv, ApiActors, Actors
  <2>2. status[j] # "none"
    BY <2>1 DEF IInv, Ownership, Created
  <2>3. status' = [status EXCEPT ![j] = "failed"] /\ UNCHANGED claims
    BY <1>37, <2>1 DEF FailGhost, FailRows, IInv, TypeOK, RowsTyped, histVars
  <2> HIDE DEF j
  <2> QED BY <2>1, <2>2, <2>3 DEF Lifecycle!Next, Lifecycle!End, Lifecycle!Terminal
<1>38. ASSUME NEW a \in ApiActors, StaleUpdate(a) PROVE Lifecycle!Next
  <2>1. PICK s \in Active : FailRows(StaleRows(a, s))
    BY <1>38 DEF StaleUpdate
  <2>2. \A j \in StaleRows(a, s) : status[j] \in Active
    BY DEF StaleRows
  <2>3. UNCHANGED claims
    BY <1>38 DEF StaleUpdate, histVars
  <2> QED BY <2>1, <2>2, <2>3, ClosesGroup
<1>39. ASSUME NEW a \in ApiActors, CancelUpdate(a) PROVE Lifecycle!Next
  <2>1. FailRows(ActiveSeenBy(a)) /\ UNCHANGED claims
    BY <1>39 DEF CancelUpdate
  <2>2. \A j \in ActiveSeenBy(a) : status[j] \in Active
    BY DEF ActiveSeenBy
  <2> QED BY <2>1, <2>2, ClosesGroup
<1>40. ASSUME NEW h \in Hosts, Boot(h) PROVE Lifecycle!Next
  <2>1. PICK J : FailRows(J) /\ \A j \in J : status[j] \in Active
    BY <1>40 DEF Boot, Active
  <2>2. UNCHANGED claims
    BY <1>40 DEF Boot, histVars
  <2> QED BY <2>1, <2>2, ClosesGroup
<1> QED
  BY <1>1, <1>2, <1>3, <1>4, <1>5, <1>6, <1>7, <1>8, <1>9, <1>10, <1>11, <1>12, <1>13, <1>14,
     <1>15, <1>16, <1>16a, <1>16b, <1>17, <1>18, <1>18a, <1>19, <1>20, <1>21, <1>22, <1>23, <1>24, <1>25, <1>26,
     <1>27, <1>28, <1>29, <1>30, <1>31, <1>32, <1>33, <1>34, <1>35, <1>36, <1>37, <1>38, <1>39,
     <1>40 DEF Next, RequestStep, RunStep, Environment

\* The rows of the whole system behave as JobLifecycle promises: every claim,
\* expiry, cancel, poll and boot is one of its steps or a stutter.
THEOREM RefinesLifecycle == "lost reply" \notin Faults => (Spec => LifecycleSpec)
<1> SUFFICES ASSUME "lost reply" \notin Faults PROVE Spec => LifecycleSpec
  OBVIOUS
<1>1. Init => Lifecycle!Init
  BY DEF Init, Lifecycle!Init
<1>2. IInv /\ [Next]_vars => [Lifecycle!Next]_<<status, claims>>
  BY LifecycleStep
<1> QED BY <1>1, <1>2, OwnershipHolds, PTL DEF Spec, LifecycleSpec, Lifecycle!Spec

\* Once a job was claimed and its row closed, no step of any actor (a claim
\* of what a purge put back, a late finishJob, an expiry) makes it active.
THEOREM NoRevival == "lost reply" \notin Faults => (Spec => NoRevivalAfterRun)
<1> SUFFICES ASSUME "lost reply" \notin Faults PROVE Spec => NoRevivalAfterRun
  OBVIOUS
<1> DEFINE Stays == \A j \in Jobs : claims[j] > 0 /\ status[j] \in Terminal => status'[j] \in Terminal
<1>1. IInv /\ [Next]_vars => [Stays]_vars
  <2> SUFFICES ASSUME IInv, [Next]_vars, NEW j \in Jobs, claims[j] > 0, status[j] \in Terminal
               PROVE  status'[j] \in Terminal
    OBVIOUS
  <2>1. claims[j] # 0 /\ status[j] \notin {"none", "queued",
     "running"} /\ status \in [Jobs -> {"none"} \cup Active \cup Terminal]
    <3>1. claims[j] \in Nat
      BY DEF IInv, TypeOK, HistoryTyped
    <3>2. claims[j] # 0
      BY <3>1, PositiveIsNotZero
    <3>3. status \in [Jobs -> {"none"} \cup Active \cup Terminal]
      BY DEF IInv, TypeOK, RowsTyped
    <3> QED BY <3>2, <3>3 DEF Terminal
  <2>2. CASE UNCHANGED <<status, claims>>
    BY <2>2
  <2>3. ASSUME NEW k \in Jobs, Lifecycle!Create(k) \/ Lifecycle!Claim(k) \/ Lifecycle!End(k)
        PROVE  status'[j] \in Terminal
    BY <2>1, <2>3 DEF Lifecycle!Create, Lifecycle!Claim, Lifecycle!End, Lifecycle!Terminal, Terminal
  <2>4. CASE Lifecycle!Close
    BY <2>1, <2>4 DEF Lifecycle!Close, Lifecycle!Active, Terminal
  <2> QED BY LifecycleStep, <2>2, <2>3, <2>4 DEF Lifecycle!Next
<1> QED BY <1>1, OwnershipHolds, PTL DEF Spec, NoRevivalAfterRun

-----------------------------------------------------------------------------
(***************************************************************************)
(* The outcomes.                                                           *)
(***************************************************************************)

\* What the step of another actor leaves alone of b.
SameLocals(b) ==
  /\ pc'[b] = pc[b] /\ cur'[b] = cur[b]
  /\ fetched'[b] = fetched[b] /\ waiting'[b] = waiting[b] /\ alive'[b] = alive[b]
  /\ inflight'[b] = inflight[b] /\ processed'[b] = processed[b]
  /\ fetchDone'[b] = fetchDone[b] /\ scan'[b] = scan[b]
  /\ pausedFetch'[b] = pausedFetch[b] /\ want'[b] = want[b]

\* The first values of the locals of runAuditJob.
Resting(b) ==
  /\ fetched[b] = 0 /\ waiting[b] = 0 /\ alive[b] = 0 /\ inflight[b] = 0 /\ processed[b] = 0
  /\ ~ fetchDone[b] /\ scan[b] = "on" /\ ~ pausedFetch[b] /\ want[b] = "done"

\* A request never touches a process or a claim, and is not a run.
LEMMA RequestFrames ==
  ASSUME NEW a, RequestStep(a)
  PROVE  UNCHANGED <<faultVars, claims>> /\ pc[a] \notin RunPcs \cup {"idle", "read"}
BY DEF RequestStep, StaleFind, StaleUpdate, FindActive, Create, OutOfIds, Enqueue, EnqueueFails,
   PauseFlag, PauseDb, CancelFind, CancelFlag, PurgeRead, PurgeWrite, DeleteAudits, CancelUpdate,
   FailGhost, faultVars, histVars, RunPcs, Active

\* A request leaves the locals of the other actors alone.
LEMMA RequestsAlone ==
  ASSUME TypeOK, NEW a \in Actors, RequestStep(a), NEW b \in Actors, b # a
  PROVE  SameLocals(b)
<1> USE DEF TypeOK, RequestsTyped, RunsTyped, SameLocals, Go, runVars, reqVars
<1>1. CASE StaleFind(a)
  BY <1>1 DEF StaleFind
<1>2. CASE StaleUpdate(a)
  BY <1>2 DEF StaleUpdate
<1>3. CASE FindActive(a)
  BY <1>3 DEF FindActive, Return, Drop
<1>4. CASE Create(a)
  BY <1>4 DEF Create
<1>5. CASE OutOfIds(a)
  BY <1>5 DEF OutOfIds, Return, Drop
<1>6. CASE Enqueue(a)
  BY <1>6 DEF Enqueue, NextPageOrReturn, Return, Drop
<1>7. CASE EnqueueFails(a)
  BY <1>7 DEF EnqueueFails
<1>8. CASE PauseFlag(a)
  BY <1>8 DEF PauseFlag
<1>9. CASE PauseDb(a)
  BY <1>9 DEF PauseDb, Return, Drop
<1>10. CASE CancelFind(a)
  BY <1>10 DEF CancelFind
<1>11. CASE CancelFlag(a)
  BY <1>11 DEF CancelFlag
<1>12. CASE PurgeRead(a)
  BY <1>12 DEF PurgeRead
<1>13. CASE PurgeWrite(a)
  BY <1>13 DEF PurgeWrite
<1>14. CASE DeleteAudits(a)
  BY <1>14 DEF DeleteAudits
<1>15. CASE CancelUpdate(a)
  BY <1>15 DEF CancelUpdate, Return, Drop
<1>16. CASE FailGhost(a)
  BY <1>16 DEF FailGhost, Return, Drop
<1> QED BY <1>1, <1>2, <1>3, <1>4, <1>5, <1>6, <1>7, <1>8, <1>9, <1>10, <1>11, <1>12, <1>13, <1>14,
           <1>15, <1>16 DEF RequestStep

\* So does a run.
LEMMA RunsAlone ==
  ASSUME TypeOK, NEW a \in Actors, RunStep(a), NEW b \in Actors, b # a
  PROVE  SameLocals(b)
<1> USE DEF TypeOK, RequestsTyped, RunsTyped, SameLocals, Go, runVars, reqVars
<1>1. CASE ReadRow(a)
  BY <1>1 DEF ReadRow, Return, Drop
<1>2. CASE Claim(a)
  BY <1>2 DEF Claim
<1>3. CASE Start(a)
  BY <1>3 DEF Start
<1>4. CASE RunError(a)
  BY <1>4 DEF RunError
<1>5. CASE FetchMatch(a)
  BY <1>5 DEF FetchMatch
<1>6. CASE FetchEnd(a)
  BY <1>6 DEF FetchEnd
<1>7. CASE FetchDrain(a)
  BY <1>7 DEF FetchDrain
<1>8. CASE Take(a)
  BY <1>8 DEF Take
<1>9. CASE Leave(a)
  BY <1>9 DEF Leave
<1>10. CASE Score(a)
  BY <1>10 DEF Score
<1>11. CASE ConsumersDone(a)
  BY <1>11 DEF ConsumersDone
<1>12. CASE CancelledReturn(a)
  BY <1>12 DEF CancelledReturn, Return, Drop, DropRun
<1>13. CASE Decide(a)
  BY <1>13 DEF Decide
<1>14. CASE Catch(a)
  BY <1>14 DEF Catch
<1>15. CASE FinishRead(a)
  BY <1>15 DEF FinishRead, NextPageOrReturn, Return, Drop, DropRun
<1>16. CASE FinishWrite(a)
  BY <1>16 DEF FinishWrite, NextPageOrReturn, Return, Drop, DropRun
<1> QED BY <1>1, <1>2, <1>3, <1>4, <1>5, <1>6, <1>7, <1>8, <1>9, <1>10, <1>11, <1>12, <1>13, <1>14,
           <1>15, <1>16 DEF RunStep

-----------------------------------------------------------------------------
\* What a step does to the status of a row.
LEMMA RequestStatus ==
  ASSUME TypeOK, NEW a \in ApiActors, RequestStep(a), NEW j \in Jobs
  PROVE  \/ status'[j] = status[j]
         \/ status[j] = "none" /\ status'[j] = "queued" /\ pc'[a] = "enqueue" /\ cur'[a] = j
         \/ status'[j] = "failed"
<1>1. CASE Create(a)
  BY <1>1 DEF Create, Go, TypeOK, RequestsTyped, RowsTyped, ApiActors, Actors
<1>2. CASE StaleUpdate(a) \/ CancelUpdate(a) \/ FailGhost(a)
  BY <1>2 DEF StaleUpdate, CancelUpdate, FailGhost, FailRows
<1>3. CASE UNCHANGED status
  BY <1>3
<1> QED
  BY <1>1, <1>2, <1>3 DEF RequestStep, StaleFind, FindActive, OutOfIds, Enqueue, EnqueueFails,
     PauseFlag, PauseDb, CancelFind, CancelFlag, PurgeRead, PurgeWrite, DeleteAudits, rowVars

\* The same of a run: it writes its own row only.
LEMMA RunStatus ==
  ASSUME TypeOK, NEW a \in Actors, RunStep(a), NEW j \in Jobs
  PROVE  \/ status'[j] = status[j]
         \/ Claim(a) /\ j = cur[a] /\ status'[j] = "running"
         \/ FinishWrite(a) /\ j = cur[a] /\ status'[j] \in Terminal
<1>1. CASE Claim(a)
  BY <1>1 DEF Claim, TypeOK, RowsTyped
<1>2. CASE FinishWrite(a)
  BY <1>2 DEF FinishWrite, TypeOK, RowsTyped, RunsTyped
<1>3. CASE UNCHANGED status
  BY <1>3
<1> QED
  BY <1>1, <1>2, <1>3 DEF RunStep, ReadRow, Start, RunError, FetchMatch, FetchEnd, FetchDrain,
     Take, Leave, Score, ConsumersDone, CancelledReturn, Decide, Catch, FinishRead, rowVars

\* What a run never touches: the faults, the list, the history of requests.
LEMMA RunFrames ==
  ASSUME NEW a, RunStep(a)
  PROVE  UNCHANGED <<faultVars, queue, asked, struck>> /\ pc[a] \in RunPcs \cup {"read"}
BY DEF RunStep, ReadRow, Claim, Start, RunError, FetchMatch, FetchEnd, FetchDrain, Take, Leave,
   Score, ConsumersDone, CancelledReturn, Decide, Catch, FinishRead, FinishWrite, InWork, Consuming, RunPcs,
   redisVars, histVars

\* An exception that leaves runAuditJob moves the queue loop on, and no more.
LEMMA LoopFrames ==
  ASSUME TypeOK, LoopError
  PROVE  /\ UNCHANGED <<rowVars, faultVars, flagVars, queue, claims, asked, struck>>
         /\ \A b \in Actors : SameLocals(b) \/ (b = Worker /\ pc'[b] = "idle" /\ Resting(b)')
<1> USE DEF LoopError, TypeOK, RequestsTyped, RunsTyped
<1>1. UNCHANGED <<rowVars, faultVars, flagVars, queue, claims, asked, struck>>
  BY DEF redisVars, procVars, flagVars
<1>2. ASSUME NEW b \in Actors, b # Worker PROVE SameLocals(b)
  BY <1>2 DEF SameLocals, Return, Go, Drop, DropRun
<1>3. Worker \in Actors => pc'[Worker] = "idle" /\ Resting(Worker)'
  BY DEF Resting, Return, Go, DropRun
<1> QED BY <1>1, <1>2, <1>3

\* Where a request begins; a popped job is at "read".
BeginPcs == {"staleFind", "cancelFind", "pauseFlag", "ghost"}

\* Only an idle actor begins, and a beginning changes its own locals only.
LEMMA Beginnings ==
  ASSUME TypeOK, NewRequest \/ Pop
  PROVE  /\ UNCHANGED <<rowVars, faultVars, runVars, flagVars, histVars>>
         /\ \A b \in Actors : \/ SameLocals(b)
                               \/ /\ pc[b] = "idle"
                                  /\ pc'[b] \in BeginPcs \/ (b = Worker /\ pc'[b] = "read")
<1> USE DEF TypeOK, RequestsTyped, SameLocals, Go, runVars, reqVars, redisVars, flagVars, procVars,
        BeginPcs, ApiActors, Actors
<1>1. ASSUME NEW u \in Users, RunRequest(u)
      PROVE  /\ UNCHANGED <<rowVars, faultVars, runVars, flagVars, histVars>>
             /\ \A b \in Actors : SameLocals(b) \/ (pc[b] = "idle" /\ pc'[b] \in BeginPcs)
  BY <1>1 DEF RunRequest, Begin, Idle
<1>2. ASSUME NEW u \in Users, PauseRequest(u)
      PROVE  /\ UNCHANGED <<rowVars, faultVars, runVars, flagVars, histVars>>
             /\ \A b \in Actors : SameLocals(b) \/ (pc[b] = "idle" /\ pc'[b] \in BeginPcs)
  BY <1>2 DEF PauseRequest, Begin, Idle
<1>3. ASSUME NEW u \in Users, PollGhost(u)
      PROVE  /\ UNCHANGED <<rowVars, faultVars, runVars, flagVars, histVars>>
             /\ \A b \in Actors : SameLocals(b) \/ (pc[b] = "idle" /\ pc'[b] \in BeginPcs)
  BY <1>3 DEF PollGhost, Begin, Idle
<1>4. CASE CronStarts
  BY <1>4 DEF CronStarts, Idle
<1>5. CASE Pop
  BY <1>5 DEF Pop
<1> QED BY <1>1, <1>2, <1>3, <1>4, <1>5 DEF NewRequest

-----------------------------------------------------------------------------
\* What can become of an actor in a step: it stands still, its own handler or
\* run goes on, it begins, or its run or process stops.
\* The disjuncts of Next, seen from one actor.
LEMMA EveryActor ==
  ASSUME TypeOK, [Next]_vars, NEW b \in Actors
  PROVE  \/ SameLocals(b)
         \/ b \in ApiActors /\ RequestStep(b)
         \/ RunStep(b)
         \/ /\ UNCHANGED runVars /\ pc[b] = "idle"
            /\ pc'[b] \in BeginPcs \/ (b = Worker /\ pc'[b] = "read")
         \/ pc'[b] = "idle" /\ Resting(b)'
<1>1. CASE NewRequest \/ Pop
  BY <1>1, Beginnings
<1>2. ASSUME NEW a \in ApiActors, RequestStep(a)
      PROVE  SameLocals(b) \/ (b \in ApiActors /\ RequestStep(b))
  BY <1>2, RequestsAlone DEF ApiActors, Actors
<1>3. ASSUME NEW a \in Actors, RunStep(a) PROVE SameLocals(b) \/ RunStep(b)
  BY <1>3, RunsAlone
<1>4. ASSUME NEW h \in Hosts, Crash(h)
      PROVE  SameLocals(b) \/ (pc'[b] = "idle" /\ Resting(b)')
  BY <1>4 DEF Crash, SameLocals, Resting
<1>5. CASE \/ BootPurge \/ CacheExpires \/ Age \/ UNCHANGED vars
           \/ \E h \in Hosts : Boot(h) \/ BootFails(h) \/ RedisToggle(h)
  BY <1>5 DEF Boot, BootFails, BootPurge, CacheExpires, Age, RedisToggle, vars, runVars, SameLocals
<1>6. CASE LoopError
  BY <1>6, LoopFrames
<1> QED BY <1>1, <1>2, <1>3, <1>4, <1>5, <1>6 DEF Next, Environment

-----------------------------------------------------------------------------
\* RunningHasRunner: the runs that have claimed their row.
BegunPcs == RunPcs \ {"claim"}

\* A run that goes on keeps its job, and its row as long as it runs.
LEMMA RunKeeps ==
  ASSUME TypeOK, NEW a \in Actors, RunStep(a), pc[a] \in BegunPcs
  PROVE  (pc'[a] \in BegunPcs /\ cur'[a] = cur[a]) \/ status'[cur[a]] # "running"
<1> cur[a] \in Jobs
  BY HasJob DEF BegunPcs, RunPcs, FreePcs
<1> USE DEF TypeOK, RequestsTyped, Go, BegunPcs, RunPcs
<1>1. CASE CancelledReturn(a)
  BY <1>1 DEF CancelledReturn, rowVars
<1>2. CASE FinishRead(a)
  BY <1>2 DEF FinishRead, rowVars, Active
<1>3. CASE FinishWrite(a)
  BY <1>3 DEF FinishWrite, RowsTyped, RunsTyped, Terminal
<1>4. CASE Start(a) \/ RunError(a)
  <2>1. cur' = cur /\ pc' = [pc EXCEPT ![a] = pc'[a]] /\ pc'[a] \in {"finRead", "work", "catch"}
    BY <1>4 DEF Start, RunError
  <2> QED BY <2>1
<1>5. CASE FetchMatch(a) \/ FetchEnd(a) \/ FetchDrain(a) \/ Take(a) \/ Leave(a) \/ Score(a)
  BY <1>5 DEF FetchMatch, FetchEnd, FetchDrain, Take, Leave, Score
<1>6. CASE ConsumersDone(a) \/ Decide(a) \/ Catch(a)
  BY <1>6 DEF ConsumersDone, Decide, Catch
<1>7. ~ ReadRow(a) /\ ~ Claim(a)
  BY DEF ReadRow, Claim
<1> QED BY <1>1, <1>2, <1>3, <1>4, <1>5, <1>6, <1>7 DEF RunStep

\* Rows that lost their runner, or a boot, are remembered.
LEMMA StrandedGrows ==
  ASSUME [Next]_vars
  PROVE  stranded \subseteq stranded'
<1>1. ASSUME NEW a, RequestStep(a) PROVE UNCHANGED stranded
  BY <1>1 DEF RequestStep, StaleFind, StaleUpdate, FindActive, Create, OutOfIds, Enqueue,
     EnqueueFails, PauseFlag, PauseDb, CancelFind, CancelFlag, PurgeRead, PurgeWrite, DeleteAudits,
     CancelUpdate, FailGhost, histVars
<1>2. ASSUME NEW a, RunStep(a) PROVE UNCHANGED stranded
  BY <1>2 DEF RunStep, ReadRow, Claim, Start, RunError, FetchMatch, FetchEnd, FetchDrain, Take,
     Leave, Score, ConsumersDone, CancelledReturn, Decide, Catch, FinishRead, FinishWrite, histVars
<1>3. CASE NewRequest
  BY <1>3 DEF NewRequest, RunRequest, PauseRequest, PollGhost, CronStarts, histVars
<1>4. CASE \/ Pop \/ LoopError \/ BootPurge \/ CacheExpires \/ Age \/ UNCHANGED vars
           \/ \E h \in Hosts : Boot(h) \/ BootFails(h) \/ RedisToggle(h) \/ Crash(h)
  BY <1>4 DEF Pop, LoopError, Boot, BootFails, BootPurge, CacheExpires, Age, RedisToggle, Crash,
     vars, histVars
<1> QED BY <1>1, <1>2, <1>3, <1>4 DEF Next, Environment

\* RunningHasRunner is inductive by itself.
LEMMA RunnerStep ==
  ASSUME TypeOK, RunningHasRunner, [Next]_vars
  PROVE  RunningHasRunner'
<1> SUFFICES ASSUME NEW j \in Jobs, status'[j] = "running"
             PROVE  HasRunner(j)' \/ j \in stranded' \/ \E h \in Hosts : up'[h] = "boot"
  BY DEF RunningHasRunner
<1> DEFINE Goal == HasRunner(j)' \/ j \in stranded' \/ \E h \in Hosts : up'[h] = "boot"
<1> ApiActors \subseteq Actors
  BY DEF ApiActors, Actors
<1> DEFINE Kept == \A b \in Actors : pc[b] \in BegunPcs /\ cur[b] = j => pc'[b] \in BegunPcs /\ cur'[b] = j
<1>0. stranded \subseteq stranded'
  BY StrandedGrows
<1>1. ASSUME status[j] = "running", UNCHANGED up, Kept PROVE Goal
  BY <1>0, <1>1 DEF RunningHasRunner, HasRunner, BegunPcs
<1> HIDE DEF Kept
<1>2. CASE NewRequest \/ Pop
  <2>1. Kept /\ UNCHANGED <<status, up>>
    BY <1>2, Beginnings DEF Kept, SameLocals, BegunPcs, RunPcs, rowVars, faultVars
  <2> QED BY <1>1, <2>1
<1>3. ASSUME NEW a \in ApiActors, RequestStep(a) PROVE Goal
  <2>1. Kept /\ UNCHANGED up
    BY <1>3, RequestFrames, RequestsAlone DEF Kept, SameLocals, BegunPcs, faultVars
  <2>2. status[j] = "running"
    BY <1>3, RequestStatus
  <2> QED BY <1>1, <2>1, <2>2
<1>4. ASSUME NEW a \in Actors, RunStep(a) PROVE Goal
  <2>1. CASE status'[j] = status[j]
    <3>1. Kept
      BY <1>4, <2>1, RunsAlone, RunKeeps DEF Kept, SameLocals
    <3> QED BY <1>1, <1>4, <2>1, <3>1, RunFrames DEF faultVars
  <2>2. CASE Claim(a) /\ j = cur[a]
    BY <2>2 DEF Claim, Go, TypeOK, RequestsTyped, HasRunner, RunPcs
  <2>3. status'[j] \notin Terminal
    BY DEF Terminal
  <2> QED BY <1>4, <2>1, <2>2, <2>3, RunStatus
<1>5. CASE LoopError
  <2>1. CASE cur[Worker] = j
    BY <1>5, <2>1 DEF LoopError
  <2>2. CASE cur[Worker] # j
    <3>1. Kept /\ UNCHANGED <<status, up>>
      BY <1>5, <2>2, LoopFrames DEF Kept, SameLocals, rowVars, faultVars
    <3> QED BY <1>1, <3>1
  <2> QED BY <2>1, <2>2
<1>6. ASSUME NEW h \in Hosts, Boot(h) PROVE FALSE
  BY <1>6 DEF Boot, FailRows, Active
<1>7. ASSUME NEW h \in Hosts, BootFails(h) PROVE Goal
  <2>1. HasRunner(j) => HasRunner(j)'
    BY <1>7 DEF BootFails, HasRunner
  <2> QED BY <1>7, <2>1 DEF BootFails, rowVars
<1>8. CASE BootPurge
  <2>1. UNCHANGED <<status, pc, cur>> /\ \A h \in Hosts : up[h] = "boot" => up'[h] = "boot"
    BY <1>8 DEF BootPurge, TypeOK, HostsTyped, rowVars
  <2> QED BY <1>0, <2>1 DEF RunningHasRunner, HasRunner
<1>9. ASSUME NEW h \in Hosts, Crash(h) PROVE \E i \in Hosts : up'[i] = "boot"
  BY <1>9 DEF Crash, TypeOK, HostsTyped
<1>10. CASE CacheExpires \/ Age \/ UNCHANGED vars \/ \E h \in Hosts : RedisToggle(h)
  <2>1. UNCHANGED <<status, up, pc, cur>>
    BY <1>10 DEF CacheExpires, Age, RedisToggle, vars, rowVars, faultVars
  <2> QED BY <1>1, <2>1 DEF Kept
<1> QED BY <1>2, <1>3, <1>4, <1>5, <1>6, <1>7, <1>8, <1>9, <1>10 DEF Next, Environment

\* A running row is never left alone, but where the boot that should fail it
\* cannot, or where an exception leaves the catch block of its run: any other
\* exception, crash, cancel, purge or race finds a runner that goes on, or a
\* process that is booting and will fail the row.
THEOREM RunningIsRun == Spec => []RunningHasRunner
<1>1. Init => RunningHasRunner
  BY DEF Init, RunningHasRunner
<1>2. TypeOK /\ RunningHasRunner /\ [Next]_vars => RunningHasRunner'
  BY RunnerStep
<1> QED BY <1>1, <1>2, TypeCorrect, PTL DEF Spec

-----------------------------------------------------------------------------
\* Nobody is past the claim of a row that is still queued, but the scheduler
\* that closes a row Redis refused.
RunsBegun ==
  \A a \in Actors :
    /\ pc[a] \in BegunPcs
    /\ pc[a] \in {"finRead", "finWrite"} => want[a] # "failed"
    => status[cur[a]] \notin {"none", "queued"}

\* A row that was claimed or closed is not queued again.
LEMMA NotQueuedAgain ==
  ASSUME TypeOK, [Next]_vars, NEW j \in Jobs, status[j] \notin {"none", "queued"}
  PROVE  status'[j] \notin {"none", "queued"}
<1>1. ASSUME NEW a \in ApiActors, RequestStep(a) PROVE status'[j] \notin {"none", "queued"}
  BY <1>1, RequestStatus
<1>2. ASSUME NEW a \in Actors, RunStep(a) PROVE status'[j] \notin {"none", "queued"}
  BY <1>2, RunStatus DEF Terminal
<1>3. CASE NewRequest \/ Pop
  BY <1>3, Beginnings DEF rowVars
<1>4. ASSUME NEW h \in Hosts, Boot(h) PROVE status'[j] \notin {"none", "queued"}
  BY <1>4 DEF Boot, FailRows
<1>5. CASE \/ LoopError \/ BootPurge \/ CacheExpires \/ Age \/ UNCHANGED vars
           \/ \E h \in Hosts : BootFails(h) \/ RedisToggle(h) \/ Crash(h)
  BY <1>5 DEF LoopError, BootFails, BootPurge, CacheExpires, Age, RedisToggle, Crash, vars, rowVars
<1> QED BY <1>1, <1>2, <1>3, <1>4, <1>5 DEF Next, Environment

\* RunsBegun is preserved by every step.
LEMMA RunsBegunStep ==
  ASSUME TypeOK, RunsBegun, [Next]_vars
  PROVE  RunsBegun'
<1> SUFFICES ASSUME NEW b \in Actors, pc'[b] \in BegunPcs,
                    pc'[b] \in {"finRead", "finWrite"} => want'[b] # "failed"
             PROVE  status'[cur'[b]] \notin {"none", "queued"}
  BY DEF RunsBegun
<1>1. ASSUME pc[b] \in BegunPcs, pc[b] \in {"finRead", "finWrite"} => want[b] # "failed",
             cur'[b] = cur[b]
      PROVE  status'[cur'[b]] \notin {"none", "queued"}
  <2>1. cur[b] \in Jobs
    BY <1>1, HasJob DEF BegunPcs, RunPcs, FreePcs
  <2> QED BY <1>1, <2>1, NotQueuedAgain DEF RunsBegun
<1>2. CASE SameLocals(b)
  BY <1>1, <1>2 DEF SameLocals
<1>3. ASSUME b \in ApiActors, RequestStep(b) PROVE FALSE
  <2>1. CASE EnqueueFails(b)
    BY <2>1 DEF EnqueueFails, Go, TypeOK, RequestsTyped, RunsTyped, BegunPcs, RunPcs
  <2>2. CASE ~ EnqueueFails(b)
    BY ZenonT(60), <1>3, <2>2 DEF RequestStep, StaleFind, StaleUpdate, FindActive, Create, OutOfIds,
       Enqueue, PauseFlag, PauseDb, CancelFind, CancelFlag, PurgeRead, PurgeWrite, DeleteAudits,
       CancelUpdate, FailGhost, NextPageOrReturn, Return, Go, TypeOK, RequestsTyped, Active,
       BegunPcs, RunPcs
  <2> QED BY <2>1, <2>2
<1>4. CASE RunStep(b)
  <2> USE DEF TypeOK, RequestsTyped, Go
  <2>1. CASE ReadRow(b)
    <3>1. status[cur[b]] = "running" /\ cur'[b] = cur[b]
      BY <2>1 DEF ReadRow, Return, BegunPcs, RunPcs
    <3>2. cur[b] \in Jobs
      BY <2>1, HasJob DEF ReadRow, FreePcs
    <3> QED BY <3>1, <3>2, NotQueuedAgain
  <2>2. CASE Claim(b)
    <3>1. cur[b] \in Jobs
      BY <2>2, HasJob DEF Claim, FreePcs
    <3> QED BY <2>2, <3>1 DEF Claim, RowsTyped
  <2>3. CASE Start(b) \/ RunError(b) \/ ConsumersDone(b) \/ Decide(b)
    <3>1. /\ cur'[b] = cur[b] /\ pc[b] \in BegunPcs
          /\ pc[b] \in {"finRead", "finWrite"} => want[b] # "failed"
      BY <2>3 DEF Start, RunError, ConsumersDone, Decide, InWork, BegunPcs, RunPcs
    <3> QED BY <1>1, <3>1
  <2>4. CASE FetchMatch(b) \/ FetchEnd(b) \/ FetchDrain(b) \/ Take(b) \/ Leave(b) \/ Score(b)
    <3>1. cur'[b] = cur[b] /\ pc[b] \in {"work", "catch"}
      BY <2>4 DEF FetchMatch, FetchEnd, FetchDrain, Take, Leave, Score, InWork, Consuming
    <3> QED BY <1>1, <3>1 DEF BegunPcs, RunPcs
  <2>5. CASE Catch(b)
    BY <1>1, <2>5 DEF Catch, BegunPcs, RunPcs
  <2>6. CASE FinishRead(b)
    <3>1. CASE Go(b, "finWrite") /\ UNCHANGED <<cur, reqVars, runVars>>
      BY <1>1, <2>6, <3>1 DEF FinishRead, runVars, BegunPcs, RunPcs
    <3>2. CASE NextPageOrReturn(b)
      BY <3>2 DEF NextPageOrReturn, Return, BegunPcs, RunPcs
    <3> QED BY <2>6, <3>1, <3>2 DEF FinishRead
  <2>7. CASE CancelledReturn(b) \/ FinishWrite(b)
    BY <2>7 DEF CancelledReturn, FinishWrite, NextPageOrReturn, Return, BegunPcs, RunPcs
  <2> QED BY <1>4, <2>1, <2>2, <2>3, <2>4, <2>5, <2>6, <2>7 DEF RunStep
<1>5. pc'[b] \notin BeginPcs \cup {"read", "idle"}
  BY DEF BeginPcs, BegunPcs, RunPcs
<1> QED BY <1>2, <1>3, <1>4, <1>5, EveryActor

-----------------------------------------------------------------------------
\* NoOrphan: the list keeps what was pushed, but for a purge, and whoever
\* purges goes on to close every row of the tenant.
CancelPcs == {"cancelLoop", "purgeRead", "purgeWrite", "delete"}
CarryPcs == {"enqueue", "read", "claim", "finRead", "finWrite"}

UsersCancel == pc[Cron] \notin CancelPcs \cup {"cancelFind"}
AllUp == \A h \in Hosts : up[h] = "up"

OrphanInv == UsersCancel /\ AllUp /\ RunsBegun /\ NoOrphan

\* Pushing a job onto the list loses none.
LEMMA AppendContains ==
  ASSUME NEW S, NEW s \in Seq(S), NEW x \in S
  PROVE  /\ Contains(Append(s, x), x)
         /\ \A y \in S : Contains(s, y) => Contains(Append(s, x), y)
<1>1. /\ Len(Append(s, x)) = Len(s) + 1
      /\ Append(s, x)[Len(s) + 1] = x
      /\ \A i \in 1 .. Len(s) : Append(s, x)[i] = s[i]
      /\ Len(s) \in Nat
  BY AppendProperties
<1> QED BY <1>1 DEF Contains

\* Popping the list loses the job at its head only.
LEMMA TailContains ==
  ASSUME NEW S, NEW s \in Seq(S), s # <<>>, NEW y \in S, Contains(s, y), y # Head(s)
  PROVE  Contains(Tail(s), y)
<1>1. PICK i \in 1 .. Len(s) : s[i] = y
  BY DEF Contains
<1>2. Len(Tail(s)) = Len(s) - 1 /\ Len(s) \in Nat /\ i # 1 /\ Head(s) = s[1]
  BY <1>1, HeadTailProperties
<1>3. i - 1 \in 1 .. Len(Tail(s)) /\ Tail(s)[i - 1] = s[i]
  BY <1>1, <1>2, HeadTailProperties
<1> QED BY <1>1, <1>3 DEF Contains

\* What a row of the tenant is carried by, before and after a step of a handler.
LEMMA RequestCarries ==
  ASSUME TypeOK, UsersCancel, NEW a \in ApiActors, Visible(a) = Jobs, RequestStep(a),
         NEW j \in Jobs, status[j] = "queued", status'[j] = "queued",
         \/ Contains(queue, j)
         \/ cur[a] = j /\ pc[a] \in CarryPcs
         \/ a \in Users /\ pc[a] \in CancelPcs
  PROVE  \/ Contains(queue', j)
         \/ cur'[a] = j /\ pc'[a] \in CarryPcs
         \/ a \in Users /\ pc'[a] \in CancelPcs
<1> queue \in Seq(Jobs) /\ a \in Actors
  BY DEF TypeOK, ListsTyped, ApiActors, Actors
<1> pc \in [Actors -> Pcs]
  BY DEF TypeOK, RequestsTyped
<1>1. ASSUME pc[a] = "enqueue"
      PROVE  \A y \in Jobs : Contains(queue, y) \/ cur[a] = y => Contains(Append(queue, cur[a]), y)
  BY <1>1, HasJob, AppendContains DEF FreePcs
<1>2. CASE Enqueue(a)
  <2>1. pc[a] = "enqueue" /\ queue' = Append(queue, cur[a])
    BY <1>2 DEF Enqueue
  <2> QED BY <1>1, <2>1 DEF CarryPcs, CancelPcs
<1>3. CASE EnqueueFails(a)
  <2>1. pc[a] = "enqueue" /\ pc'[a] \in CarryPcs /\ cur' = cur
    BY <1>3 DEF EnqueueFails, Go, CarryPcs
  <2>2. queue' = queue \/ queue' = Append(queue, cur[a])
    BY <1>3 DEF EnqueueFails
  <2> QED BY <1>1, <2>1, <2>2 DEF CancelPcs
<1>4. CASE CancelFlag(a) \/ PurgeRead(a) \/ PurgeWrite(a) \/ DeleteAudits(a)
  <2>1. pc[a] \in CancelPcs /\ pc'[a] \in CancelPcs
    BY <1>4 DEF CancelFlag, PurgeRead, PurgeWrite, DeleteAudits, Go, CancelPcs
  <2> QED BY <2>1 DEF UsersCancel, ApiActors
<1>5. CASE CancelUpdate(a)
  BY <1>5 DEF CancelUpdate, FailRows, ActiveSeenBy, Active
<1>6. CASE \/ StaleFind(a) \/ StaleUpdate(a) \/ FindActive(a) \/ Create(a) \/ OutOfIds(a)
           \/ PauseFlag(a) \/ PauseDb(a) \/ CancelFind(a) \/ FailGhost(a)
  <2>1. pc[a] \notin CarryPcs \cup CancelPcs /\ queue' = queue
    BY <1>6 DEF StaleFind, StaleUpdate, FindActive, Create, OutOfIds, PauseFlag, PauseDb,
       CancelFind, FailGhost, CarryPcs, CancelPcs, redisVars
  <2> QED BY <2>1
<1> QED BY <1>2, <1>3, <1>4, <1>5, <1>6 DEF RequestStep

\* The same of a run.
LEMMA RunCarries ==
  ASSUME TypeOK, RunsBegun, NEW a \in Actors, RunStep(a), status'[cur[a]] = "queued",
         status[cur[a]] = "queued", pc[a] \in CarryPcs
  PROVE  cur'[a] = cur[a] /\ pc'[a] \in CarryPcs
<1> cur[a] \in Jobs
  BY HasJob DEF CarryPcs, FreePcs
<1> USE DEF TypeOK, RequestsTyped, Go, CarryPcs
<1>1. CASE ReadRow(a)
  BY <1>1 DEF ReadRow
<1>2. CASE Claim(a)
  BY <1>2 DEF Claim, RowsTyped
<1>3. CASE FinishRead(a)
  BY <1>3 DEF FinishRead, Active
<1>4. CASE FinishWrite(a)
  BY <1>4 DEF FinishWrite, RowsTyped, RunsTyped, Terminal
<1>5. ~ RunError(a)
  BY DEF RunError, RunsBegun, BegunPcs, RunPcs, InWork
<1> QED
  BY <1>1, <1>2, <1>3, <1>4, <1>5 DEF RunStep, Start, FetchMatch, FetchEnd, FetchDrain, Take,
     Leave, Score, ConsumersDone, CancelledReturn, Decide, Catch, InWork, Consuming

\* With one tenant a session sees every row.
LEMMA SeesAll ==
  ASSUME TypeOK, NEW t, Tenants = {t}, NEW a \in ApiActors
  PROVE  Visible(a) = Jobs
BY ConstantsOK DEF Visible, TypeOK, RowsTyped

\* The nightly session never begins a cancel.
LEMMA UsersCancelStep ==
  ASSUME TypeOK, UsersCancel, [Next]_vars
  PROVE  UsersCancel'
<1> Cron \in Actors /\ Cron \notin Users /\ Cron # Worker
  BY ConstantsOK DEF ApiActors, Actors
<1> USE DEF UsersCancel, CancelPcs, TypeOK, RequestsTyped
<1>1. CASE NewRequest
  BY <1>1 DEF NewRequest, RunRequest, PauseRequest, PollGhost, CronStarts, Begin, Go
<1>2. CASE Pop
  BY <1>2 DEF Pop, Go
<1>3. ASSUME NEW a \in Actors, a # Cron, SameLocals(Cron) PROVE UsersCancel'
  BY <1>3 DEF SameLocals
<1>4. CASE RequestStep(Cron)
  BY <1>4 DEF RequestStep, StaleFind, StaleUpdate, FindActive, Create, OutOfIds, Enqueue,
     EnqueueFails, PauseFlag, PauseDb, CancelFind, CancelFlag, PurgeRead, PurgeWrite, DeleteAudits,
     CancelUpdate, FailGhost, Go, Return, NextPageOrReturn, Active
<1>5. CASE RunStep(Cron)
  BY <1>5 DEF RunStep, ReadRow, Claim, Start, RunError, FetchMatch, FetchEnd, FetchDrain, Take,
     Leave, Score, ConsumersDone, CancelledReturn, Decide, Catch, FinishRead, FinishWrite, Go,
     Return, NextPageOrReturn, reqVars
<1>6. ASSUME NEW h \in Hosts, Crash(h) PROVE UsersCancel'
  BY <1>6 DEF Crash
<1>7. ASSUME UNCHANGED pc PROVE UsersCancel'
  BY <1>7
<1>8. ASSUME LoopError PROVE UsersCancel'
  BY <1>8, LoopFrames DEF SameLocals
<1> QED
  BY <1>1, <1>2, <1>3, <1>4, <1>5, <1>6, <1>7, <1>8, RequestsAlone, RunsAlone DEF Next, Environment,
     Boot, BootFails, BootPurge, CacheExpires, RedisToggle, Age, vars, ApiActors, Actors

\* OrphanInv is preserved by every step.
LEMMA OrphanStep ==
  ASSUME TypeOK, OrphanInv, [Next]_vars, NEW t, Tenants = {t},
         "crash api" \notin Faults, "crash worker" \notin Faults, "loop error" \notin Faults
  PROVE  OrphanInv'
<1> ApiActors \subseteq Actors /\ Users \subseteq ApiActors /\ Worker \in Actors
  BY DEF ApiActors, Actors
<1> queue \in Seq(Jobs)
  BY DEF TypeOK, ListsTyped
<1>1. UsersCancel'
  BY UsersCancelStep DEF OrphanInv
<1>2. AllUp'
  <2>1. ASSUME NEW h \in Hosts, Boot(h) \/ BootFails(h) \/ BootPurge \/ Crash(h) \/ LoopError
        PROVE  FALSE
    BY <2>1 DEF OrphanInv, AllUp, Boot, BootFails, BootPurge, Crash, Hosts, LoopError
  <2>2. UNCHANGED up
    BY <2>1, Beginnings, RequestFrames, RunFrames DEF Next, Environment, CacheExpires, RedisToggle,
       Age, vars, faultVars, Hosts
  <2> QED BY <2>2 DEF OrphanInv, AllUp
<1>3. NoOrphan'
  <2> SUFFICES ASSUME NEW j \in Jobs, status'[j] = "queued"
               PROVE  \/ Contains(queue', j)
                      \/ \E b \in Actors : cur'[b] = j /\ pc'[b] \in CarryPcs
                      \/ \E u \in Users : pc'[u] \in CancelPcs
    <3>1. TypeOK'
      BY TypeStep
    <3>2. \A u \in Users : Visible(u)' = Jobs
      BY ZenonT(90), <3>1, ConstantsOK DEF Visible, TypeOK, RowsTyped
    <3> QED BY <3>2 DEF NoOrphan, Carried, CarryPcs, CancelPcs
  <2> DEFINE Goal == \/ Contains(queue', j)
                     \/ \E b \in Actors : cur'[b] = j /\ pc'[b] \in CarryPcs
                     \/ \E u \in Users : pc'[u] \in CancelPcs
  <2>1. ASSUME status[j] = "queued"
        PROVE  \/ Contains(queue, j)
               \/ \E b \in Actors : cur[b] = j /\ pc[b] \in CarryPcs
               \/ \E u \in Users : pc[u] \in CancelPcs
    <3>1. up["worker"] # "boot"
      BY DEF OrphanInv, AllUp, Hosts
    <3> QED BY <2>1, <3>1 DEF OrphanInv, NoOrphan, Carried, CarryPcs, CancelPcs
  <2>2. ASSUME status[j] = "queued", Contains(queue', j) \/ UNCHANGED queue,
               \A b \in Actors : (pc'[b] = pc[b] /\ cur'[b] = cur[b]) \/ pc[b] = "idle"
        PROVE  Goal
    BY <2>1, <2>2 DEF CarryPcs, CancelPcs
  <2>3. CASE NewRequest
    <3>1. UNCHANGED <<status, queue>>
      BY <2>3 DEF NewRequest, RunRequest, PauseRequest, PollGhost, CronStarts, rowVars, redisVars
    <3> QED BY <2>2, <2>3, <3>1, Beginnings DEF SameLocals
  <2>4. CASE Pop
    <3>1. /\ status' = status /\ queue # <<>> /\ queue' = Tail(queue)
          /\ cur'[Worker] = Head(queue) /\ pc'[Worker] = "read"
      BY <2>4 DEF Pop, rowVars, Go, TypeOK, RequestsTyped
    <3>2. CASE j = Head(queue)
      BY <3>1, <3>2 DEF CarryPcs
    <3>3. CASE ~ Contains(queue, j)
      <4>1. \A b \in Actors : SameLocals(b) \/ pc[b] = "idle"
        BY <2>4, Beginnings
      <4> QED BY <2>1, <3>1, <3>3, <4>1 DEF SameLocals, CarryPcs, CancelPcs
    <3> QED BY <3>1, <3>2, <3>3, TailContains
  <2>5. ASSUME NEW a \in ApiActors, RequestStep(a) PROVE Goal
    <3>1. CASE status[j] # "queued"
      BY <2>5, <3>1, RequestStatus DEF CarryPcs
    <3>2. CASE status[j] = "queued"
      <4>1. \A b \in Actors : b # a => pc'[b] = pc[b] /\ cur'[b] = cur[b]
        BY <2>5, RequestsAlone DEF SameLocals
      <4>2. CASE \/ Contains(queue, j)
                 \/ cur[a] = j /\ pc[a] \in CarryPcs
                 \/ a \in Users /\ pc[a] \in CancelPcs
        <5>1. Visible(a) = Jobs
          BY SeesAll
        <5> QED BY <2>5, <3>2, <4>2, <5>1, RequestCarries DEF OrphanInv
      <4> QED BY <2>1, <3>2, <4>1, <4>2
    <3> QED BY <3>1, <3>2
  <2>6. ASSUME NEW a \in Actors, RunStep(a) PROVE Goal
    <3>1. status[j] = "queued"
      BY <2>6, RunStatus DEF Terminal
    <3>2. queue' = queue /\ pc[a] \notin CancelPcs
      BY <2>6, RunFrames DEF RunPcs, CancelPcs
    <3>3. \A b \in Actors : b # a => pc'[b] = pc[b] /\ cur'[b] = cur[b]
      BY <2>6, RunsAlone DEF SameLocals
    <3>4. cur[a] = j /\ pc[a] \in CarryPcs => cur'[a] = j /\ pc'[a] \in CarryPcs
      BY <2>6, <3>1, RunCarries DEF OrphanInv
    <3> QED BY <2>1, <3>1, <3>2, <3>3, <3>4
  <2>7. ASSUME NEW h \in Hosts, Boot(h) \/ BootFails(h) \/ BootPurge \/ Crash(h) \/ LoopError
        PROVE  Goal
    BY <2>7 DEF OrphanInv, AllUp, Boot, BootFails, BootPurge, Crash, Hosts, LoopError
  <2>8. CASE CacheExpires \/ Age \/ UNCHANGED vars \/ \E h \in Hosts : RedisToggle(h)
    <3>1. UNCHANGED <<status, queue, pc, cur>>
      BY <2>8 DEF CacheExpires, Age, RedisToggle, vars, rowVars, redisVars
    <3> QED BY <2>2, <3>1
  <2> QED BY <2>3, <2>4, <2>5, <2>6, <2>7, <2>8 DEF Next, Environment, Hosts
<1>4. RunsBegun'
  BY RunsBegunStep DEF OrphanInv
<1> QED BY <1>1, <1>2, <1>3, <1>4 DEF OrphanInv

\* No queued row is lost: it is on the list, in somebody's hands, or about to
\* be closed by the cancel whose purge dropped it.  With one tenant, as a
\* purge may drop another tenant's row, with no crash, and with no exception
\* in the first reads of a run, as a row in the hands of what stops is lost.
THEOREM QueuedIsCarried ==
  ASSUME NEW t, Tenants = {t}, "crash api" \notin Faults, "crash worker" \notin Faults,
         "loop error" \notin Faults
  PROVE  Spec => []NoOrphan
<1>1. Init => OrphanInv
  BY ZenonT(90), ConstantsOK DEF Init, OrphanInv, UsersCancel, AllUp, NoOrphan, RunsBegun,
     BegunPcs, RunPcs, CancelPcs, ApiActors, Actors
<1>2. TypeOK /\ OrphanInv /\ [Next]_vars => OrphanInv'
  BY OrphanStep
<1>3. OrphanInv => NoOrphan
  BY DEF OrphanInv
<1> QED BY <1>1, <1>2, <1>3, TypeCorrect, PTL DEF Spec

-----------------------------------------------------------------------------
\* Outside a run the locals of runAuditJob have their first values.
RestPcs == Pcs \ {"work", "decide", "catch", "finRead", "finWrite"}
Rested == \A a \in Actors : pc[a] \in RestPcs => Resting(a)

\* Rested is preserved by every step.
LEMMA RestedStep ==
  ASSUME TypeOK, Rested, [Next]_vars
  PROVE  Rested'
<1> SUFFICES ASSUME NEW b \in Actors, pc'[b] \in RestPcs PROVE Resting(b)'
  BY DEF Rested, RestPcs, Pcs
<1> USE DEF Resting
<1>1. CASE SameLocals(b)
  BY <1>1 DEF Rested, SameLocals
<1>2. ASSUME pc[b] \in RestPcs, UNCHANGED runVars PROVE Resting(b)'
  BY <1>2 DEF Rested, runVars
<1>3. ASSUME DropRun(b) PROVE Resting(b)'
  BY <1>3 DEF DropRun, TypeOK, RunsTyped
<1>4. CASE b \in ApiActors /\ RequestStep(b)
  <2>1. pc[b] \in RestPcs
    BY <1>4, RequestFrames DEF TypeOK, RequestsTyped, RestPcs, RunPcs
  <2>2. CASE EnqueueFails(b)
    <3>1. pc'[b] # "finRead"
      BY DEF RestPcs
    <3> QED BY <2>1, <2>2, <3>1 DEF EnqueueFails, Go, Rested, TypeOK, RequestsTyped, RunsTyped
  <2>3. CASE UNCHANGED runVars
    BY <1>2, <2>1, <2>3
  <2> QED BY <1>4, <2>2, <2>3 DEF RequestStep, StaleFind, StaleUpdate, FindActive, Create,
             OutOfIds, Enqueue, PauseFlag, PauseDb, CancelFind, CancelFlag, PurgeRead, PurgeWrite,
             DeleteAudits, CancelUpdate, FailGhost
<1>5. CASE RunStep(b)
  <2>1. CASE ReadRow(b) \/ Claim(b)
    BY <1>2, <2>1 DEF ReadRow, Claim, RestPcs, Pcs, RunPcs
  <2>1a. ~ RunError(b)
    BY DEF RunError, Go, RestPcs, TypeOK, RequestsTyped
  <2>2. CASE CancelledReturn(b) \/ FinishWrite(b)
    BY <1>3, <2>2 DEF CancelledReturn, FinishWrite
  <2>3. CASE FinishRead(b)
    <3>1. Go(b, "finWrite") => pc'[b] \notin RestPcs
      BY DEF Go, RestPcs, TypeOK, RequestsTyped
    <3> QED BY <1>3, <2>3, <3>1 DEF FinishRead
  <2>4. CASE \/ Start(b) \/ FetchMatch(b) \/ FetchEnd(b) \/ FetchDrain(b) \/ Take(b) \/ Leave(b)
             \/ Score(b) \/ ConsumersDone(b) \/ Decide(b) \/ Catch(b)
    BY <2>4 DEF Start, FetchMatch, FetchEnd, FetchDrain, Take, Leave, Score, ConsumersDone, Decide,
       Catch, InWork, Consuming, Go, RestPcs, TypeOK, RequestsTyped
  <2> QED BY <1>5, <2>1, <2>1a, <2>2, <2>3, <2>4 DEF RunStep
<1>6. CASE UNCHANGED runVars /\ pc[b] = "idle"
  BY <1>2, <1>6 DEF RestPcs, Pcs
<1> QED BY <1>1, <1>4, <1>5, <1>6, EveryActor

-----------------------------------------------------------------------------
\* The stop flags of a process.
Flagged(h) == memPause[h] \cup pauseLocal[h]
Raised(j) == j \in pauseRedis \/ \E h \in Hosts : j \in Flagged(h)

\* The pause check of a run sets flags, and takes none away.
LEMMA CheckStopFlags ==
  ASSUME TypeOK, NEW h \in Hosts, NEW j \in Jobs, CheckStop(h, j)
  PROVE  /\ \A g \in Hosts : Flagged(g) \subseteq Flagged(g)'
         /\ \A k : Raised(k)' => Raised(k) \/ (k = j /\ pauseReq[j])
         /\ ShouldStop(h, j) => j \in Flagged(h)' \/ status[j] # "running"
<1> USE DEF TypeOK, FlagsTyped, Flagged, Raised
<1>1. CASE j \in memPause[h] /\ UNCHANGED flagVars
  BY <1>1 DEF flagVars
<1>2. CASE /\ FlagSeen(h, j)
           /\ memPause' = [memPause EXCEPT ![h] = @ \cup {j}]
           /\ pauseLocal' = [pauseLocal EXCEPT ![h] = @ \cup {j}]
           /\ UNCHANGED <<negCache, pauseRedis>>
  BY <1>2 DEF FlagSeen
<1>3. CASE /\ status[j] = "running" /\ pauseReq[j]
           /\ memPause' = [memPause EXCEPT ![h] = @ \cup {j}]
           /\ SetPauseFlag(h, j)
  BY <1>3 DEF SetPauseFlag
<1>4. CASE /\ j \notin memPause[h] /\ ~ FlagSeen(h, j) /\ ~ (status[j] = "running" /\ pauseReq[j])
           /\ UNCHANGED <<memPause, pauseLocal, pauseRedis>>
  BY <1>4 DEF ShouldStop
<1> QED BY <1>1, <1>2, <1>3, <1>4 DEF CheckStop

\* A flag appears only for a job that was asked to stop, or is copied from
\* the flag in its row.
LEMMA FlagSources ==
  ASSUME TypeOK, [Next]_vars, NEW j \in Jobs, Raised(j)'
  PROVE  Raised(j) \/ pauseReq[j] \/ j \in asked'
<1> USE DEF TypeOK, FlagsTyped
<1>1. ASSUME UNCHANGED flagVars PROVE Raised(j)
  BY <1>1 DEF Raised, Flagged, flagVars
<1>2. ASSUME NEW h \in Hosts, NEW J, ForgetPause(h, J) PROVE Raised(j)
  BY <1>2 DEF Raised, Flagged, ForgetPause
<1>3. ASSUME NEW h \in Hosts, NEW k \in Jobs, CheckStop(h, k) PROVE Raised(j) \/ pauseReq[j]
  BY <1>3, CheckStopFlags
<1>4. ASSUME NEW a \in ApiActors, RequestStep(a) PROVE Raised(j) \/ j \in asked'
  <2>1. CASE PauseFlag(a) \/ CancelFlag(a)
    BY <2>1 DEF PauseFlag, CancelFlag, SetPauseFlag, Raised, Flagged, Hosts
  <2>2. CASE StaleFind(a)
    BY <1>2, <2>2 DEF StaleFind, Hosts
  <2> QED BY <1>1, <1>4, <2>1, <2>2 DEF RequestStep, StaleUpdate, FindActive, Create, OutOfIds,
             Enqueue, EnqueueFails, PauseDb, CancelFind, PurgeRead, PurgeWrite, DeleteAudits,
             CancelUpdate, FailGhost, flagVars, procVars, redisVars
<1>5. ASSUME NEW a \in Actors, RunStep(a) PROVE Raised(j) \/ pauseReq[j]
  <2>1. Host(a) \in Hosts
    BY HostTyped
  <2>2. CASE Start(a) \/ RunError(a)
    BY <2>1, <2>2 DEF Start, RunError, Raised, Flagged, redisVars
  <2>3. CASE CancelledReturn(a) \/ FinishRead(a)
    BY <1>2, <2>1, <2>3 DEF CancelledReturn, FinishRead
  <2>4. CASE FetchMatch(a) \/ FetchEnd(a) \/ FetchDrain(a) \/ Take(a) \/ Leave(a)
    <3>1. cur[a] \in Jobs
      BY <2>4, HasJob DEF FetchMatch, FetchEnd, FetchDrain, Take, Leave, InWork, Consuming, FreePcs
    <3> QED BY <1>3, <2>1, <2>4, <3>1 DEF FetchMatch, FetchEnd, FetchDrain, Take, Leave
  <2>5. CASE Decide(a)
    <3>1. cur[a] \in Jobs
      BY <2>5, HasJob DEF Decide, FreePcs
    <3>2. CheckStop(Host(a), cur[a]) \/ UNCHANGED flagVars
      BY <2>5 DEF Decide
    <3> QED BY <1>1, <1>3, <2>1, <3>1, <3>2
  <2> QED BY <1>1, <1>5, <2>2, <2>3, <2>4, <2>5 DEF RunStep, ReadRow, Claim, Score, ConsumersDone,
             Catch, FinishWrite, flagVars, procVars, redisVars
<1>6. ASSUME NEW h \in Hosts, Crash(h) PROVE Raised(j)
  BY <1>6 DEF Crash, Raised, Flagged, redisVars
<1>7. CASE \/ BootPurge \/ CacheExpires \/ Age \/ UNCHANGED vars
           \/ \E h \in Hosts : Boot(h) \/ BootFails(h) \/ RedisToggle(h)
  BY <1>7 DEF Boot, BootFails, BootPurge, CacheExpires, Age, RedisToggle, vars, procVars, redisVars, Raised,
     Flagged
<1>8. CASE LoopError
  BY <1>1, <1>8, LoopFrames
<1> QED BY <1>1, <1>4, <1>5, <1>6, <1>7, <1>8, Beginnings DEF Next, Environment

-----------------------------------------------------------------------------
\* DoneMeansAllScored.  A run that was told to stop stays so: its flag is in
\* one of the two maps of its process, or its row is no longer running.  The
\* flags of an aged row are forgotten by the API process, so with aging this
\* holds of the worker alone.
Stopped(a) == cur[a] \in Flagged(Host(a)) \/ status[cur[a]] # "running"

Sure == {a \in Actors : a = Worker \/ "aging" \notin Faults}

NoneOld == "aging" \notin Faults => \A j \in Jobs : ~ old[j]

\* The conversations of a run: with an AI call done, with one under way, or
\* waiting, and none dropped unless it was told to stop.
AtWork(a) ==
  /\ inflight[a] <= alive[a]
  /\ processed[a] + inflight[a] + waiting[a] <= fetched[a]
  /\ ~ Stopped(a) => processed[a] + inflight[a] + waiting[a] = fetched[a]
  /\ fetchDone[a] /\ scan[a] = "on" => Stopped(a)
  /\ scan[a] # "on" => fetchDone[a]
  /\ alive[a] < Concurrency /\ ~ Stopped(a) => fetchDone[a] /\ waiting[a] = 0

AllScored(a) ==
  /\ processed[a] <= fetched[a]
  /\ ~ Stopped(a) => processed[a] = fetched[a]

Accounted ==
  \A a \in Sure :
    /\ pc[a] = "work" => AtWork(a)
    /\ pc[a] = "decide" => AllScored(a)
    /\ pc[a] \in {"finRead", "finWrite"} /\ want[a] = "done" => processed[a] = fetched[a]

\* No row ages without the fault.
LEMMA NoneOldStep ==
  ASSUME TypeOK, NoneOld, [Next]_vars
  PROVE  NoneOld'
<1> SUFFICES ASSUME "aging" \notin Faults, NEW j \in Jobs, ~ old[j] PROVE ~ old'[j]
  BY DEF NoneOld
<1> old \in [Jobs -> BOOLEAN]
  BY DEF TypeOK, RowsTyped
<1>1. ASSUME NEW a, RequestStep(a) PROVE UNCHANGED old
  BY <1>1 DEF RequestStep, StaleFind, StaleUpdate, FindActive, Create, OutOfIds, Enqueue,
     EnqueueFails, PauseFlag, PauseDb, CancelFind, CancelFlag, PurgeRead, PurgeWrite, DeleteAudits,
     CancelUpdate, FailGhost, rowVars
<1>2. ASSUME NEW a, RunStep(a), ~ Claim(a) PROVE UNCHANGED old
  BY <1>2 DEF RunStep, ReadRow, Start, RunError, FetchMatch, FetchEnd, FetchDrain, Take, Leave,
     Score, ConsumersDone, CancelledReturn, Decide, Catch, FinishRead, FinishWrite, rowVars
<1>3. ASSUME NEW a, Claim(a) PROVE ~ old'[j]
  BY <1>3 DEF Claim
<1>4. CASE \/ LoopError \/ BootPurge \/ CacheExpires \/ UNCHANGED vars
           \/ \E h \in Hosts : Boot(h) \/ BootFails(h) \/ RedisToggle(h) \/ Crash(h)
  BY <1>4 DEF LoopError, Boot, BootFails, BootPurge, CacheExpires, RedisToggle, Crash, vars, rowVars
<1>5. ~ Age
  BY DEF Age
<1> QED BY <1>1, <1>2, <1>3, <1>4, <1>5, Beginnings DEF Next, Environment, rowVars

\* A claimed row that is no longer running does not run again.
LEMMA StaysOff ==
  ASSUME IInv, [Next]_vars, NEW j \in Jobs, claims[j] = 1, status[j] # "running"
  PROVE  status'[j] # "running"
<1>1. CASE UNCHANGED <<status, claims>>
  BY <1>1
<1>2. ASSUME NEW k \in Jobs, Lifecycle!Create(k) \/ Lifecycle!Claim(k) \/ Lifecycle!End(k)
      PROVE  status'[j] # "running"
  BY <1>2 DEF Lifecycle!Create, Lifecycle!Claim, Lifecycle!End, Lifecycle!Terminal, IInv, TypeOK,
     RowsTyped
<1>3. CASE Lifecycle!Close
  BY <1>3 DEF Lifecycle!Close
<1> QED BY LifecycleStep, <1>1, <1>2, <1>3 DEF Lifecycle!Next

\* The jobs of two runners differ.
LEMMA OthersJob ==
  ASSUME IInv, NEW a \in Actors, NEW b \in Actors, a # b, pc[a] \in OwnPcs, pc[b] \in OwnPcs
  PROVE  cur[a] # cur[b]
BY DEF IInv, Ownership, OwnedByOne, ApiActors, Actors

\* No step of others takes a stop flag away from a run at work.
LEMMA FlagStays ==
  ASSUME IInv, NoneOld, [Next]_vars, NEW b \in Sure, pc[b] \in {"work", "decide"}, SameLocals(b),
         cur[b] \in Flagged(Host(b))
  PROVE  cur[b] \in Flagged(Host(b))'
<1> DEFINE h == Host(b)
<1> /\ b \in Actors /\ h \in Hosts /\ pc'[b] = pc[b] /\ pc[b] \in OwnPcs
    /\ cur[b] \in Jobs
  BY HostTyped, HasJob DEF Sure, SameLocals, OwnPcs, RunPcs, IInv, FreePcs
<1> FlagsTyped /\ TypeOK
  BY DEF IInv, TypeOK
<1>1. CASE UNCHANGED <<memPause, pauseLocal>>
  BY <1>1 DEF Flagged
<1>2. ASSUME NEW a \in ApiActors, RequestStep(a) PROVE cur[b] \in Flagged(h)'
  <2>1. CASE PauseFlag(a)
    BY <2>1 DEF PauseFlag, SetPauseFlag, Flagged, FlagsTyped, Hosts
  <2>2. CASE CancelFlag(a)
    BY <2>2 DEF CancelFlag, SetPauseFlag, Flagged, FlagsTyped, Hosts
  <2>3. CASE StaleFind(a)
    <3>1. CASE h = "worker"
      BY <2>3, <3>1 DEF StaleFind, ForgetPause, Flagged, FlagsTyped, Hosts
    <3>2. CASE "aging" \notin Faults
      <4>1. \A s \in Active : StaleRows(a, s) = {}
        BY <3>2 DEF NoneOld, StaleRows, Visible
      <4> QED BY <2>3, <4>1 DEF StaleFind, ForgetPause, Flagged, FlagsTyped, Hosts
    <3>3. h = "worker" \/ "aging" \notin Faults
      BY DEF Sure, Host
    <3> QED BY <3>1, <3>2, <3>3
  <2> QED BY <1>1, <1>2, <2>1, <2>2, <2>3 DEF RequestStep, StaleUpdate, FindActive, Create,
             OutOfIds, Enqueue, EnqueueFails, PauseDb, CancelFind, PurgeRead, PurgeWrite,
             DeleteAudits, CancelUpdate, FailGhost, procVars
<1>3. ASSUME NEW a \in Actors, RunStep(a) PROVE cur[b] \in Flagged(h)'
  <2> Host(a) \in Hosts
    BY HostTyped
  <2>1. CASE Start(a) \/ RunError(a) \/ CancelledReturn(a) \/ FinishRead(a)
    <3>1. pc'[a] # pc[a] /\ pc[a] \in OwnPcs
      BY <2>1 DEF Start, RunError, InWork, CancelledReturn, FinishRead, NextPageOrReturn, Return, Go,
         TypeOK, RequestsTyped, OwnPcs, RunPcs
    <3>2. cur[a] # cur[b]
      BY <3>1, OthersJob
    <3> QED BY ZenonT(60), <2>1, <3>2 DEF Start, RunError, CancelledReturn, FinishRead,
               ForgetPause, Flagged, FlagsTyped
  <2>2. CASE FetchMatch(a) \/ FetchEnd(a) \/ FetchDrain(a) \/ Take(a) \/ Leave(a)
    <3>1. cur[a] \in Jobs
      BY <2>2, HasJob DEF FetchMatch, FetchEnd, FetchDrain, Take, Leave, InWork, Consuming, FreePcs
    <3>2. CheckStop(Host(a), cur[a])
      BY <2>2 DEF FetchMatch, FetchEnd, FetchDrain, Take, Leave
    <3> QED BY <3>1, <3>2, CheckStopFlags
  <2>3. CASE Decide(a)
    <3>1. cur[a] \in Jobs
      BY <2>3, HasJob DEF Decide, FreePcs
    <3>2. CheckStop(Host(a), cur[a]) \/ UNCHANGED <<memPause, pauseLocal>>
      BY <2>3 DEF Decide, flagVars
    <3> QED BY <1>1, <3>1, <3>2, CheckStopFlags
  <2> QED BY <1>1, <1>3, <2>1, <2>2, <2>3 DEF RunStep, ReadRow, Claim, Score, ConsumersDone, Catch,
             FinishWrite, procVars
<1>4. ASSUME NEW g \in Hosts, Crash(g) PROVE cur[b] \in Flagged(h)'
  <2>1. g # h
    BY <1>4 DEF Crash, TypeOK, RequestsTyped
  <2> QED BY <1>4, <2>1 DEF Crash, Flagged, FlagsTyped
<1>5. CASE \/ LoopError \/ BootPurge \/ CacheExpires \/ Age \/ UNCHANGED vars
           \/ \E g \in Hosts : Boot(g) \/ BootFails(g) \/ RedisToggle(g)
  BY <1>1, <1>5 DEF LoopError, Boot, BootFails, BootPurge, CacheExpires, Age, RedisToggle, vars, procVars
<1> QED BY <1>1, <1>2, <1>3, <1>4, <1>5, Beginnings DEF Next, Environment, flagVars

\* A run that was told to stop, or lost its row, is not told otherwise.
LEMMA StoppedStays ==
  ASSUME IInv, NoneOld, [Next]_vars, NEW b \in Sure, pc[b] \in {"work", "decide"}, SameLocals(b),
         Stopped(b)
  PROVE  Stopped(b)'
<1>1. b \in Actors /\ cur'[b] = cur[b] /\ cur[b] \in Jobs /\ Host(b)' = Host(b)
  BY HasJob DEF Sure, SameLocals, IInv, FreePcs, Host
<1>2. claims[cur[b]] = 1
  BY <1>1 DEF IInv, Ownership, RunsClaimed, RunPcs
<1> QED BY <1>1, <1>2, StaysOff, FlagStays DEF Stopped

\* What a run finds when it asks shouldStopAuditJob.
LEMMA AskStop ==
  ASSUME TypeOK, NEW b \in Actors, cur[b] \in Jobs, CheckStop(Host(b), cur[b]),
         UNCHANGED <<status, cur>>
  PROVE  /\ Stopped(b) => ShouldStop(Host(b), cur[b])
         /\ ShouldStop(Host(b), cur[b]) => Stopped(b)'
         /\ Stopped(b) => Stopped(b)'
<1>1. Stopped(b) => ShouldStop(Host(b), cur[b])
  BY DEF Stopped, Flagged, ShouldStop, FlagSeen
<1>2. Host(b) \in Hosts /\ Host(b)' = Host(b)
  BY HostTyped DEF Host
<1>3. ShouldStop(Host(b), cur[b]) => Stopped(b)'
  BY <1>2, CheckStopFlags DEF Stopped
<1> QED BY <1>1, <1>3

\* The counters of a run are numbers.
LEMMA CountsTyped ==
  ASSUME TypeOK, NEW b \in Actors
  PROVE  /\ fetched[b] \in Nat /\ waiting[b] \in Nat /\ alive[b] \in Nat
         /\ inflight[b] \in Nat /\ processed[b] \in Nat /\ Concurrency \in Nat \ {0}
BY ConstantsOK DEF TypeOK, RunsTyped

\* The steps of a run at work.
LEMMA WorkStep ==
  ASSUME TypeOK, NEW b \in Actors, RunStep(b), pc[b] = "work", AtWork(b)
  PROVE  /\ pc'[b] = "work" => AtWork(b)'
         /\ pc'[b] = "decide" => AllScored(b)'
         /\ pc'[b] \in {"work", "decide", "catch"}
<1> cur[b] \in Jobs
  BY HasJob DEF FreePcs
<1> USE CountsTyped DEF TypeOK, RunsTyped, AtWork
<1>1. CASE FetchMatch(b)
  <2>1. pc'[b] = "work" /\ UNCHANGED <<status, cur>> /\ CheckStop(Host(b), cur[b])
    BY <1>1 DEF FetchMatch
  <2>2. CASE /\ ~ ShouldStop(Host(b), cur[b])
             /\ fetched' = [fetched EXCEPT ![b] = @ + 1]
             /\ waiting' = [waiting EXCEPT ![b] = @ + 1]
             /\ UNCHANGED fetchDone
    <3>1. ~ Stopped(b)
      BY <2>1, <2>2, AskStop
    <3> QED BY <1>1, <2>1, <2>2, <3>1 DEF FetchMatch
  <2>3. CASE /\ ShouldStop(Host(b), cur[b])
             /\ waiting' = [waiting EXCEPT ![b] = 0]
             /\ fetchDone' = [fetchDone EXCEPT ![b] = TRUE]
             /\ UNCHANGED fetched
    <3>1. Stopped(b)'
      BY <2>1, <2>3, AskStop
    <3> QED BY <1>1, <2>1, <2>3, <3>1 DEF FetchMatch
  <2> QED BY <1>1, <2>2, <2>3 DEF FetchMatch
<1>2. CASE FetchEnd(b)
  <2>1. pc'[b] = "work" /\ (Stopped(b) => Stopped(b)')
    BY <1>2, AskStop DEF FetchEnd, rowVars
  <2> QED BY <1>2, <2>1 DEF FetchEnd
<1>3. CASE FetchDrain(b)
  <2>1. /\ pc'[b] = "work" /\ (Stopped(b) => Stopped(b)')
        /\ ShouldStop(Host(b), cur[b]) => Stopped(b)'
    BY <1>3, AskStop DEF FetchDrain, rowVars
  <2> QED BY <1>3, <2>1 DEF FetchDrain
<1>4. CASE Take(b)
  <2>1. /\ pc'[b] = "work" /\ (Stopped(b) => Stopped(b)')
        /\ ShouldStop(Host(b), cur[b]) => Stopped(b)'
    BY <1>4, AskStop DEF Take, rowVars
  <2> QED BY <1>4, <2>1 DEF Take
<1>5. CASE Leave(b)
  <2>1. /\ pc'[b] = "work" /\ (Stopped(b) => Stopped(b)')
        /\ ShouldStop(Host(b), cur[b]) => Stopped(b)'
    BY <1>5, AskStop DEF Leave, rowVars
  <2> QED BY <1>5, <2>1 DEF Leave
<1>6. CASE Score(b)
  <2>1. pc'[b] = "work" /\ Stopped(b)' = Stopped(b)
    BY <1>6 DEF Score, procVars, Stopped, Flagged, Host
  <2> QED BY <1>6, <2>1 DEF Score
<1>7. CASE ConsumersDone(b)
  <2>1. pc'[b] = "decide" /\ Stopped(b)' = Stopped(b) /\ alive[b] = 0
    BY <1>7 DEF ConsumersDone, procVars, rowVars, Stopped, Flagged, Host, Go, RequestsTyped
  <2> QED BY <1>7, <2>1 DEF ConsumersDone, runVars, AllScored
<1>8. CASE RunError(b)
  BY <1>8 DEF RunError, Go, RequestsTyped
<1> QED
  BY <1>1, <1>2, <1>3, <1>4, <1>5, <1>6, <1>7, <1>8 DEF RunStep, ReadRow, Claim, Start,
     CancelledReturn, Decide, Catch, FinishRead, FinishWrite

\* Accounted is preserved by every step.
LEMMA AccountedStep ==
  ASSUME IInv, Rested, NoneOld, Accounted, [Next]_vars
  PROVE  Accounted'
<1> SUFFICES ASSUME NEW b \in Sure
             PROVE  /\ pc'[b] = "work" => AtWork(b)'
                    /\ pc'[b] = "decide" => AllScored(b)'
                    /\ pc'[b] \in {"finRead", "finWrite"} /\ want'[b] = "done" =>
                          processed'[b] = fetched'[b]
  BY DEF Accounted, Sure
<1> b \in Actors /\ TypeOK
  BY DEF Sure, IInv
<1> USE CountsTyped
<1>1. CASE SameLocals(b)
  <2>1. CASE pc[b] = "work"
    <3>1. AtWork(b) /\ (Stopped(b) => Stopped(b)')
      BY <1>1, <2>1, StoppedStays DEF Accounted
    <3> QED BY <1>1, <2>1, <3>1 DEF SameLocals, AtWork
  <2>2. CASE pc[b] = "decide"
    <3>1. AllScored(b) /\ (Stopped(b) => Stopped(b)')
      BY <1>1, <2>2, StoppedStays DEF Accounted
    <3> QED BY <1>1, <2>2, <3>1 DEF SameLocals, AllScored
  <2>3. CASE pc[b] \notin {"work", "decide"}
    BY <1>1, <2>3 DEF SameLocals, Accounted
  <2> QED BY <2>1, <2>2, <2>3
<1>2. ASSUME pc'[b] \notin {"work", "decide", "finRead", "finWrite"}
      PROVE  /\ pc'[b] = "work" => AtWork(b)'
             /\ pc'[b] = "decide" => AllScored(b)'
             /\ pc'[b] \in {"finRead", "finWrite"} /\ want'[b] = "done" =>
                   processed'[b] = fetched'[b]
  BY <1>2
<1>3. CASE b \in ApiActors /\ RequestStep(b)
  <2>1. CASE EnqueueFails(b)
    BY <2>1 DEF EnqueueFails, Go, TypeOK, RequestsTyped, RunsTyped
  <2>2. CASE ~ EnqueueFails(b)
    <3>1. pc'[b] \notin {"work", "decide", "finRead", "finWrite"}
      BY <1>3, <2>2 DEF RequestStep, StaleFind, StaleUpdate, FindActive, Create, OutOfIds, Enqueue,
         PauseFlag, PauseDb, CancelFind, CancelFlag, PurgeRead, PurgeWrite, DeleteAudits,
         CancelUpdate, FailGhost, NextPageOrReturn, Return, Go, TypeOK, RequestsTyped, Active
    <3> QED BY <1>2, <3>1
  <2> QED BY <2>1, <2>2
<1>4. CASE RunStep(b)
  <2>1. CASE pc[b] = "work"
    <3>1. AtWork(b)
      BY <2>1 DEF Accounted
    <3> QED BY <1>4, <2>1, <3>1, WorkStep
  <2>2. CASE Start(b)
    <3>1. Resting(b)
      BY <2>2 DEF Start, Rested, RestPcs, Pcs, RunPcs
    <3>2. pc'[b] = "finRead" \/ (pc'[b] = "work" /\ alive'[b] = Concurrency)
      BY <2>2 DEF Start, Go, TypeOK, RequestsTyped, RunsTyped
    <3>3. /\ fetched'[b] = 0 /\ processed'[b] = 0 /\ inflight'[b] = 0 /\ waiting'[b] = 0
          /\ ~ fetchDone'[b] /\ scan'[b] = "on"
      BY <2>2, <3>1 DEF Start, Resting
    <3> QED BY <3>2, <3>3 DEF AtWork
  <2>3. CASE Decide(b)
    <3>1. AllScored(b) /\ pc'[b] = "finRead" /\ UNCHANGED <<processed, fetched>>
      BY <2>3 DEF Decide, Accounted, Go, TypeOK, RequestsTyped
    <3>2. ASSUME want'[b] = "done", processed[b] # fetched[b] PROVE FALSE
      <4>1. HasWork(b) /\ processed[b] < fetched[b] /\ Stopped(b)
        BY <3>1, <3>2 DEF AllScored, HasWork
      <4>2. ShouldStop(Host(b), cur[b])
        BY <4>1 DEF Stopped, Flagged, ShouldStop, FlagSeen
      <4>3. want'[b] \in Verdict(b)
        BY <2>3 DEF Decide, TypeOK, RunsTyped
      <4> QED BY <3>2, <4>1, <4>2, <4>3 DEF Verdict
    <3> QED BY <3>1, <3>2
  <2>4. CASE Catch(b)
    BY <2>4 DEF Catch, Go, TypeOK, RequestsTyped, RunsTyped
  <2>5. CASE FinishRead(b)
    <3>1. CASE Go(b, "finWrite") /\ UNCHANGED runVars
      BY <2>5, <3>1 DEF FinishRead, Go, TypeOK, RequestsTyped, runVars, Accounted
    <3>2. CASE NextPageOrReturn(b)
      BY <1>2, <3>2 DEF NextPageOrReturn, Return, Go, TypeOK, RequestsTyped
    <3> QED BY <2>5, <3>1, <3>2 DEF FinishRead
  <2>6. CASE ReadRow(b)
    <3>1. pc'[b] \in {"claim", "init", "idle"}
      BY <2>6 DEF ReadRow, Return, Go, TypeOK, RequestsTyped
    <3> QED BY <1>2, <3>1
  <2>7a. CASE pc[b] = "catch" /\ (FetchDrain(b) \/ Take(b) \/ Leave(b) \/ Score(b))
    <3>1. pc'[b] = "catch"
      BY <2>7a DEF FetchDrain, Take, Leave, Score
    <3> QED BY <1>2, <3>1
  <2>7. CASE Claim(b) \/ RunError(b) \/ CancelledReturn(b) \/ FinishWrite(b)
    <3>1. pc'[b] \in {"init", "catch", "idle", "create"}
      BY <2>7 DEF Claim, RunError, CancelledReturn, FinishWrite, NextPageOrReturn, Return, Go,
         TypeOK, RequestsTyped
    <3> QED BY <1>2, <3>1
  <2> QED
    BY <1>4, <2>1, <2>2, <2>3, <2>4, <2>5, <2>6, <2>7, <2>7a DEF RunStep, FetchMatch, FetchEnd,
       FetchDrain, Take, Leave, Score, ConsumersDone, InWork, Consuming
<1> QED BY <1>1, <1>2, <1>3, <1>4, EveryActor DEF BeginPcs

\* Without an inline run on the API process only the worker is at issue.
RedisHolds == "redis api" \notin Faults =>
                redisUp["api"] /\ \A a \in ApiActors : pc[a] \notin RunPcs \cup {"read"}

\* RedisHolds is preserved by every step.
LEMMA RedisHoldsStep ==
  ASSUME TypeOK, RedisHolds, [Next]_vars, "lost reply" \notin Faults
  PROVE  RedisHolds'
<1> SUFFICES ASSUME "redis api" \notin Faults
             PROVE  redisUp'["api"] /\ \A a \in ApiActors : pc'[a] \notin RunPcs \cup {"read"}
  BY DEF RedisHolds
<1>0. redisUp["api"] /\ \A a \in ApiActors : pc[a] \notin RunPcs \cup {"read"}
  BY DEF RedisHolds
<1>1. UNCHANGED redisUp \/ \E h \in Hosts : RedisToggle(h)
  BY Beginnings, RequestFrames, RunFrames, LoopFrames DEF Next, Environment, CacheExpires, Age, vars,
     faultVars, Boot, BootFails, BootPurge, Crash
<1>2. redisUp'["api"]
  BY <1>0, <1>1 DEF RedisToggle, TypeOK, HostsTyped, Hosts
<1>3. ASSUME NEW a \in ApiActors PROVE pc'[a] \notin RunPcs \cup {"read"}
  <2> a \in Actors /\ pc[a] \notin RunPcs \cup {"read"} /\ a # Worker
    BY <1>0, ConstantsOK DEF ApiActors, Actors
  <2>1. CASE SameLocals(a)
    BY <2>1 DEF SameLocals
  <2>2. CASE RequestStep(a)
    <3>1. ~ EnqueueFails(a)
      BY <1>0 DEF EnqueueFails
    <3> QED BY ZenonT(60), <2>2, <3>1 DEF RequestStep, StaleFind, StaleUpdate, FindActive, Create,
               OutOfIds, Enqueue, PauseFlag, PauseDb, CancelFind, CancelFlag, PurgeRead,
               PurgeWrite, DeleteAudits, CancelUpdate, FailGhost, NextPageOrReturn, Return, Go,
               TypeOK, RequestsTyped, Active, RunPcs
  <2>3. ~ RunStep(a)
    BY RunFrames
  <2>4. CASE pc'[a] \in BeginPcs \cup {"idle"}
    BY <2>4 DEF RunPcs, BeginPcs
  <2> QED BY <2>1, <2>2, <2>3, <2>4, EveryActor
<1> QED BY <1>2, <1>3

DoneInv == IInv /\ Rested /\ NoneOld /\ Accounted /\ RedisHolds

\* The worker and, where it may, the API process finish a job as done only
\* when every conversation found was scored.  An API handler runs jobs when
\* Redis refuses one, and the age limits make another handler forget the flag
\* that stopped it: the two together leave conversations unscored.
THEOREM DoneIsScored ==
  ASSUME "lost reply" \notin Faults, "aging" \notin Faults \/ "redis api" \notin Faults
  PROVE  Spec => []DoneMeansAllScored
<1>1. Init => DoneInv
  <2> SUFFICES ASSUME Init PROVE DoneInv
    OBVIOUS
  <2>1. IInv
    BY TypeInit, OwnershipInit DEF IInv
  <2>2. Rested /\ NoneOld /\ Accounted /\ RedisHolds
    BY DEF Init, Rested, Resting, NoneOld, Accounted, Sure, RedisHolds, Hosts, ApiActors, Actors,
       RunPcs
  <2> QED BY <2>1, <2>2 DEF DoneInv
<1>2. DoneInv /\ [Next]_vars => DoneInv'
  BY TypeStep, OwnershipStep, RestedStep, NoneOldStep, AccountedStep, RedisHoldsStep DEF DoneInv,
     IInv
<1>3. DoneInv => DoneMeansAllScored
  BY DEF DoneInv, DoneMeansAllScored, Accounted, Sure, RedisHolds, RunPcs, Actors
<1> QED BY <1>1, <1>2, <1>3, PTL DEF Spec

-----------------------------------------------------------------------------
\* PausedOnlyWhenAsked: a flag, in memory, in Redis or in the row, stems from
\* a pause or a cancel, and the worker's scan is cut short only by one of
\* them or by the end of its row.
FlagsAsked == \A j \in Jobs : Raised(j) \/ pauseReq[j] => j \in asked
PausersAsked == \A u \in ApiActors : pc[u] = "pauseDb" => cur[u] \in asked

CutShort == cur[Worker] \in asked \/ status[cur[Worker]] # "running"

WorkerAsked ==
  /\ pc[Worker] \in {"work", "decide"} /\ pausedFetch[Worker] => CutShort
  /\ pc[Worker] \in {"finRead", "finWrite"} /\ want[Worker] = "paused" => cur[Worker] \in asked

\* The history of requests to stop only grows.
LEMMA AskedGrows ==
  ASSUME [Next]_vars
  PROVE  asked \subseteq asked'
<1>1. ASSUME NEW a, RequestStep(a) PROVE asked \subseteq asked'
  BY <1>1 DEF RequestStep, StaleFind, StaleUpdate, FindActive, Create, OutOfIds, Enqueue,
     EnqueueFails, PauseFlag, PauseDb, CancelFind, CancelFlag, PurgeRead, PurgeWrite, DeleteAudits,
     CancelUpdate, FailGhost, histVars
<1>2. CASE NewRequest
  BY <1>2 DEF NewRequest, RunRequest, PauseRequest, PollGhost, CronStarts, histVars
<1>3. CASE \/ Pop \/ LoopError \/ BootPurge \/ CacheExpires \/ Age \/ UNCHANGED vars
           \/ \E h \in Hosts : Boot(h) \/ BootFails(h) \/ RedisToggle(h) \/ Crash(h)
  BY <1>3 DEF Pop, LoopError, Boot, BootFails, BootPurge, CacheExpires, Age, RedisToggle, Crash, vars, histVars
<1> QED BY <1>1, <1>2, <1>3, RunFrames DEF Next, Environment

\* A pause flag appears in a row only by a session that pauses its job.
LEMMA PauseReqSources ==
  ASSUME TypeOK, [Next]_vars, NEW j \in Jobs, pauseReq'[j]
  PROVE  pauseReq[j] \/ \E u \in ApiActors : pc[u] = "pauseDb" /\ cur[u] = j
<1>1. ASSUME NEW a \in ApiActors, RequestStep(a)
      PROVE  pauseReq[j] \/ \E u \in ApiActors : pc[u] = "pauseDb" /\ cur[u] = j
  <2>1. CASE PauseDb(a)
    BY <2>1 DEF PauseDb, TypeOK, RowsTyped
  <2>2. CASE UNCHANGED pauseReq
    BY <2>2
  <2> QED BY <1>1, <2>1, <2>2 DEF RequestStep, StaleFind, StaleUpdate, FindActive, Create,
             OutOfIds, Enqueue, EnqueueFails, PauseFlag, CancelFind, CancelFlag, PurgeRead,
             PurgeWrite, DeleteAudits, CancelUpdate, FailGhost, rowVars
<1>2. ASSUME NEW a \in Actors, RunStep(a) PROVE UNCHANGED pauseReq
  BY <1>2 DEF RunStep, ReadRow, Claim, Start, RunError, FetchMatch, FetchEnd, FetchDrain, Take,
     Leave, Score, ConsumersDone, CancelledReturn, Decide, Catch, FinishRead, FinishWrite, rowVars
<1>3. CASE \/ LoopError \/ BootPurge \/ CacheExpires \/ Age \/ UNCHANGED vars
           \/ \E h \in Hosts : Boot(h) \/ BootFails(h) \/ RedisToggle(h) \/ Crash(h)
  BY <1>3 DEF LoopError, Boot, BootFails, BootPurge, CacheExpires, Age, RedisToggle, Crash, vars, rowVars
<1> QED BY <1>1, <1>2, <1>3, Beginnings DEF Next, Environment, rowVars

\* PausersAsked is preserved by every step.
LEMMA PausersStep ==
  ASSUME TypeOK, PausersAsked, [Next]_vars
  PROVE  PausersAsked'
<1> SUFFICES ASSUME NEW u \in ApiActors, pc'[u] = "pauseDb" PROVE cur'[u] \in asked'
  BY DEF PausersAsked
<1> u \in Actors
  BY DEF ApiActors, Actors
<1>1. CASE SameLocals(u)
  BY <1>1, AskedGrows DEF SameLocals, PausersAsked
<1>2. CASE RequestStep(u)
  <2>1. PauseFlag(u)
    BY <1>2 DEF RequestStep, StaleFind, StaleUpdate, FindActive, Create, OutOfIds, Enqueue,
       EnqueueFails, PauseDb, CancelFind, CancelFlag, PurgeRead, PurgeWrite, DeleteAudits,
       CancelUpdate, FailGhost, NextPageOrReturn, Return, Go, TypeOK, RequestsTyped, Active
  <2> QED BY <2>1 DEF PauseFlag
<1>3. ASSUME RunStep(u) PROVE FALSE
  <2>1. pc[u] \in RunPcs \cup {"read"}
    BY <1>3, RunFrames
  <2> QED BY <1>3, <2>1 DEF RunStep, ReadRow, Claim, Start, RunError, FetchMatch, FetchEnd,
             FetchDrain, Take, Leave, Score, ConsumersDone, CancelledReturn, Decide, Catch,
             FinishRead, FinishWrite, InWork, Consuming, NextPageOrReturn, Return, Go, TypeOK, RequestsTyped,
             RunPcs
<1>4. pc'[u] \notin BeginPcs \cup {"read", "idle"}
  BY DEF BeginPcs
<1> QED BY <1>1, <1>2, <1>3, <1>4, EveryActor

\* FlagsAsked is preserved by every step.
LEMMA FlagsAskedStep ==
  ASSUME TypeOK, FlagsAsked, PausersAsked, [Next]_vars
  PROVE  FlagsAsked'
<1> SUFFICES ASSUME NEW j \in Jobs, Raised(j)' \/ pauseReq'[j] PROVE j \in asked'
  BY DEF FlagsAsked
<1>1. asked \subseteq asked'
  BY AskedGrows
<1> QED BY <1>1, FlagSources, PauseReqSources DEF FlagsAsked, PausersAsked

\* A run of the worker is told to stop only as asked.
LEMMA StopIsAsked ==
  ASSUME TypeOK, FlagsAsked, cur[Worker] \in Jobs, ShouldStop(Host(Worker), cur[Worker])
  PROVE  CutShort
<1> Host(Worker) \in Hosts
  BY HostTyped
<1> QED BY DEF CutShort, FlagsAsked, Raised, Flagged, ShouldStop, FlagSeen

\* WorkerAsked is preserved by every step.
LEMMA WorkerAskedStep ==
  ASSUME IInv, Rested, FlagsAsked, WorkerAsked, [Next]_vars
  PROVE  WorkerAsked'
<1> Worker \in Actors /\ TypeOK /\ Worker \notin ApiActors /\ Host(Worker) = "worker"
  BY ConstantsOK DEF Actors, ApiActors, IInv, Host
<1>0. asked \subseteq asked'
  BY AskedGrows
<1>1. ASSUME pc[Worker] \in {"work", "decide"}, cur'[Worker] = cur[Worker], CutShort PROVE CutShort'
  <2>1. cur[Worker] \in Jobs
    BY <1>1, HasJob DEF FreePcs
  <2>2. claims[cur[Worker]] = 1
    BY <1>1 DEF IInv, Ownership, RunsClaimed, RunPcs
  <2> QED BY <1>0, <1>1, <2>1, <2>2, StaysOff DEF CutShort
<1>2. CASE SameLocals(Worker)
  BY <1>0, <1>1, <1>2 DEF SameLocals, WorkerAsked
<1>3. CASE RunStep(Worker)
  <2>1. CASE FetchEnd(Worker)
    <3>1. pc[Worker] = "work" /\ pc'[Worker] = "work" /\ cur'[Worker] = cur[Worker]
      BY <2>1 DEF FetchEnd, InWork, Consuming
    <3>2. cur[Worker] \in Jobs
      BY <3>1, HasJob DEF FreePcs
    <3>3. pausedFetch'[Worker] => CutShort
      BY <2>1, <3>2, StopIsAsked DEF FetchEnd, TypeOK, RunsTyped
    <3> QED BY <1>1, <3>1, <3>3 DEF WorkerAsked
  <2>2. CASE \/ FetchMatch(Worker) \/ FetchDrain(Worker) \/ Take(Worker) \/ Leave(Worker)
             \/ Score(Worker) \/ ConsumersDone(Worker)
    <3>1. /\ cur'[Worker] = cur[Worker] /\ pausedFetch' = pausedFetch
          /\ \/ pc[Worker] = "work" /\ pc'[Worker] \in {"work", "decide"}
             \/ pc'[Worker] = "catch"
      BY <2>2 DEF FetchMatch, FetchDrain, Take, Leave, Score, ConsumersDone, InWork, Consuming, Go, runVars,
         TypeOK, RequestsTyped
    <3> QED BY <1>1, <3>1 DEF WorkerAsked
  <2>3. CASE Decide(Worker)
    <3>1. /\ pc[Worker] = "decide" /\ pc'[Worker] = "finRead" /\ cur'[Worker] = cur[Worker]
          /\ status[cur[Worker]] = "running" /\ want'[Worker] \in Verdict(Worker)
      BY <2>3 DEF Decide, Go, TypeOK, RequestsTyped, RunsTyped
    <3>2. cur[Worker] \in Jobs
      BY <3>1, HasJob DEF FreePcs
    <3>3. want'[Worker] = "paused" => pausedFetch[Worker] \/ ShouldStop(Host(Worker), cur[Worker])
      BY <3>1 DEF Verdict
    <3>4. want'[Worker] = "paused" => CutShort
      BY <3>1, <3>2, <3>3, StopIsAsked DEF WorkerAsked
    <3> QED BY <1>0, <3>1, <3>4 DEF CutShort, WorkerAsked
  <2>4. CASE Start(Worker)
    <3>1. Resting(Worker)
      BY <2>4 DEF Start, Rested, RestPcs, Pcs, RunPcs
    <3>2. UNCHANGED <<pausedFetch, want>>
      BY <2>4 DEF Start
    <3> QED BY <3>1, <3>2 DEF WorkerAsked, Resting
  <2>5. CASE Catch(Worker)
    BY <2>5 DEF Catch, Go, TypeOK, RequestsTyped, RunsTyped, WorkerAsked
  <2>6. CASE FinishRead(Worker)
    <3>1. CASE Go(Worker, "finWrite") /\ UNCHANGED <<cur, runVars>>
      BY <1>0, <2>6, <3>1 DEF FinishRead, Go, TypeOK, RequestsTyped, runVars, WorkerAsked
    <3>2. CASE NextPageOrReturn(Worker)
      BY <3>2 DEF NextPageOrReturn, Return, Go, TypeOK, RequestsTyped, WorkerAsked
    <3> QED BY <2>6, <3>1, <3>2 DEF FinishRead
  <2>7. CASE \/ ReadRow(Worker) \/ Claim(Worker) \/ RunError(Worker) \/ CancelledReturn(Worker)
             \/ FinishWrite(Worker)
    <3>1. pc'[Worker] \in {"claim", "init", "catch", "idle", "create"}
      <4>1. CASE ReadRow(Worker)
        BY <4>1 DEF ReadRow, Return, Go, TypeOK, RequestsTyped
      <4>2. CASE Claim(Worker) \/ RunError(Worker) \/ CancelledReturn(Worker) \/ FinishWrite(Worker)
        BY <4>2 DEF Claim, RunError, CancelledReturn, FinishWrite, NextPageOrReturn, Return, Go,
           TypeOK, RequestsTyped
      <4> QED BY <2>7, <4>1, <4>2
    <3> QED BY <3>1 DEF WorkerAsked
  <2> QED BY <1>3, <2>1, <2>2, <2>3, <2>4, <2>5, <2>6, <2>7 DEF RunStep
<1>4. CASE pc'[Worker] \in BeginPcs \cup {"read", "idle"}
  BY <1>4 DEF BeginPcs, WorkerAsked
<1> QED BY <1>2, <1>3, <1>4, EveryActor

PauseInv == IInv /\ Rested /\ FlagsAsked /\ PausersAsked /\ WorkerAsked

\* The worker ends no job as paused that nobody paused or cancelled: the stop
\* flags of memory, of Redis and of the row, which outlive the request that
\* raised them, are never taken for those of another job.
THEOREM PausedIsAsked ==
  ASSUME "lost reply" \notin Faults
  PROVE  Spec => []PausedOnlyWhenAsked
<1>1. Init => PauseInv
  <2> SUFFICES ASSUME Init PROVE PauseInv
    OBVIOUS
  <2>1. IInv
    BY TypeInit, OwnershipInit DEF IInv
  <2>2. Rested /\ FlagsAsked /\ PausersAsked /\ WorkerAsked
    BY DEF Init, Rested, Resting, FlagsAsked, Raised, Flagged, PausersAsked, WorkerAsked,
       ApiActors, Actors
  <2> QED BY <2>1, <2>2 DEF PauseInv
<1>2. PauseInv /\ [Next]_vars => PauseInv'
  BY TypeStep, OwnershipStep, RestedStep, FlagsAskedStep, PausersStep, WorkerAskedStep
     DEF PauseInv, IInv
<1>3. PauseInv => PausedOnlyWhenAsked
  BY DEF PauseInv, WorkerAsked, PausedOnlyWhenAsked
<1> QED BY <1>1, <1>2, <1>3, PTL DEF Spec

=============================================================================
