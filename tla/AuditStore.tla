----------------------------- MODULE AuditStore -----------------------------
(***************************************************************************)
(* What the parts of the chat-audit ("Chấm điểm") machinery share: the     *)
(* rows of cskh_job_runs and chat_audits, the Redis audit list and pause   *)
(* keys, the pause flags each process keeps in memory, and the program     *)
(* counter and locals of every actor.  AuditRequests adds the handlers of  *)
(* the API process, AuditRun the worker loop and runAuditJob; AuditJobs    *)
(* composes them.  An action is the code between two awaits: what a        *)
(* handler read before an await stays in a local of its actor and may be   *)
(* out of date when a later action uses it.                                *)
(***************************************************************************)
EXTENDS Naturals, FiniteSets, SequencesExt

CONSTANTS
  Jobs,          \* ids of the audit rows that may be created
  Users,         \* HTTP sessions of the API process
  Cron,          \* the nightly scheduler of the API process
  Worker,        \* the queue loop of the worker process
  Tenants,       \* tenants that own rows; they share one Redis list
  TenantOf,      \* TenantOf[u]: the tenant of a user's session
  Ops,           \* Ops[u]: the requests a user may send
  CronPages,     \* number of connected pages the nightly audit enqueues
  Concurrency,   \* auditConcurrency: consumers of one run
  MaxConv,       \* bound: conversations one run can find
  Faults,        \* what may go wrong: a subset of FaultKinds
  NoJob

UserOps == {"run", "force", "cancel", "pause", "poll"}
Hosts == {"api", "worker"}
FaultKinds == {"crash api", "crash worker", "redis api", "redis worker",
               "lost reply", "run error", "loop error", "boot error", "aging"}

ASSUME ConstantsOK ==
  /\ Tenants # {} /\ TenantOf \in [Users -> Tenants]
  /\ Ops \in [Users -> SUBSET UserOps]
  /\ Cron \notin Users /\ Worker \notin Users /\ Cron # Worker
  /\ CronPages \in Nat /\ MaxConv \in Nat /\ Concurrency \in Nat \ {0}
  /\ Faults \subseteq FaultKinds
  /\ NoJob \notin Jobs

ApiActors == Users \cup {Cron}
Actors == ApiActors \cup {Worker}
Host(a) == IF a = Worker THEN "worker" ELSE "api"

\* CSKH_ACTIVE_JOB_STATUSES, and the statuses finishJob writes.
Active == {"queued", "running"}
Terminal == {"done", "failed", "paused"}

VARIABLES
  \* cskh_job_runs: status, tenantId, summary.pauseRequested, whether
  \* summary.phase is "pausing", what progress the summary shows, and
  \* whether startedAt is older than every age limit
  status, tenant, pauseReq, pausing, progress, old,
  \* number of chat_audits rows whose metadata.jobRunId is the job
  audits,
  \* Redis: the audit list (its head is what BRPOP takes next), pause keys
  queue, pauseRedis,
  \* per process: jobs paused in activeJobs and in auditPauseLocal, and jobs
  \* whose pause key was read as absent less than 3 s ago (checkCache)
  memPause, pauseLocal, negCache,
  \* per process: can it reach Redis, and how far it is in its boot
  redisUp, up,
  \* per actor: program counter, kind of request and locals of the request
  pc, op, cur, seen, snap, left,
  \* per actor: locals of runAuditJob.  Conversations found so far, those in
  \* the in-memory queue, consumers still in their loop, consumers inside
  \* auditOne, finished auditOne calls, fetchCompleted, how far the scan is
  \* (its finally block drains), and the status to finish with
  fetched, waiting, alive, inflight, processed, fetchDone, scan, pausedFetch, want,
  \* history: how often a row was claimed, which rows a pause or a cancel has
  \* flagged, which rows a cancel has closed, and which rows lost their runner
  \* to an exception, or were left by a boot that could not clean up
  claims, asked, struck, stranded

rowVars == <<status, tenant, pauseReq, pausing, progress, old>>
redisVars == <<queue, pauseRedis>>
flagVars == <<pauseRedis, memPause, pauseLocal, negCache>>
procVars == <<memPause, pauseLocal, negCache>>
reqVars == <<op, seen, snap, left>>
runVars == <<fetched, waiting, alive, inflight, processed, fetchDone, scan,
             pausedFetch, want>>
faultVars == <<redisUp, up>>
histVars == <<claims, asked, struck, stranded>>
vars == <<rowVars, audits, redisVars, procVars, faultVars, pc, cur, reqVars,
          runVars, histVars>>

-----------------------------------------------------------------------------
\* Program points.  RunPcs are those of an actor that has begun runAuditJob
\* on cur[a] and has not left it.
RequestPcs == {"staleFind", "staleUpdate", "queuedFind", "queuedUpdate",
               "find", "create", "enqueue", "pauseFlag", "pauseDb", "ghost",
               "cancelFind", "cancelLoop", "purgeRead", "purgeWrite", "delete"}
RunPcs == {"claim", "init", "work", "decide", "catch", "finRead", "finWrite"}
Pcs == {"idle", "read"} \cup RequestPcs \cup RunPcs

RowsTyped ==
  /\ status \in [Jobs -> {"none"} \cup Active \cup Terminal]
  /\ tenant \in [Jobs -> Tenants]
  /\ pauseReq \in [Jobs -> BOOLEAN]
  /\ pausing \in [Jobs -> BOOLEAN]
  /\ progress \in [Jobs -> {"none", "page", "conv"}]
  /\ old \in [Jobs -> BOOLEAN]
  /\ audits \in [Jobs -> Nat]

FlagsTyped ==
  /\ pauseRedis \subseteq Jobs
  /\ memPause \in [Hosts -> SUBSET Jobs]
  /\ pauseLocal \in [Hosts -> SUBSET Jobs]
  /\ negCache \in [Hosts -> SUBSET Jobs]

HostsTyped ==
  /\ redisUp \in [Hosts -> BOOLEAN]
  /\ up \in [Hosts -> {"up", "boot", "purge"}]

RequestsTyped ==
  /\ pc \in [Actors -> Pcs]
  /\ op \in [Actors -> UserOps \cup {"none", "cron"}]
  /\ cur \in [Actors -> Jobs \cup {NoJob}]
  /\ seen \in [Actors -> SUBSET Jobs]
  /\ left \in [Actors -> 0 .. CronPages]

ListsTyped ==
  /\ queue \in Seq(Jobs)
  /\ snap \in [Actors -> Seq(Jobs)]

RunsTyped ==
  /\ fetched \in [Actors -> 0 .. MaxConv]
  /\ waiting \in [Actors -> Nat]
  /\ alive \in [Actors -> 0 .. Concurrency]
  /\ inflight \in [Actors -> 0 .. Concurrency]
  /\ processed \in [Actors -> Nat]
  /\ fetchDone \in [Actors -> BOOLEAN]
  /\ scan \in [Actors -> {"on", "drain", "over"}]
  /\ pausedFetch \in [Actors -> BOOLEAN]
  /\ want \in [Actors -> Terminal]

HistoryTyped ==
  /\ claims \in [Jobs -> Nat]
  /\ asked \subseteq Jobs
  /\ struck \subseteq Jobs
  /\ stranded \subseteq Jobs

\* The program points at which an actor need not have a job yet.
FreePcs == {"idle", "staleFind", "staleUpdate", "queuedFind", "queuedUpdate",
            "find", "create", "cancelFind", "cancelLoop"}
HoldsJob == \A a \in Actors : cur[a] = NoJob => pc[a] \in FreePcs

TypeOK ==
  /\ RowsTyped /\ FlagsTyped /\ HostsTyped /\ RequestsTyped
  /\ ListsTyped /\ RunsTyped /\ HistoryTyped
  /\ HoldsJob

Init ==
  /\ status = [j \in Jobs |-> "none"]
  /\ tenant = [j \in Jobs |-> CHOOSE t \in Tenants : TRUE]
  /\ pauseReq = [j \in Jobs |-> FALSE]
  /\ pausing = [j \in Jobs |-> FALSE]
  /\ progress = [j \in Jobs |-> "none"]
  /\ old = [j \in Jobs |-> FALSE]
  /\ audits = [j \in Jobs |-> 0]
  /\ queue = <<>>
  /\ pauseRedis = {}
  /\ memPause = [h \in Hosts |-> {}]
  /\ pauseLocal = [h \in Hosts |-> {}]
  /\ negCache = [h \in Hosts |-> {}]
  /\ redisUp = [h \in Hosts |-> TRUE]
  /\ up = [h \in Hosts |-> "up"]
  /\ pc = [a \in Actors |-> "idle"]
  /\ op = [a \in Actors |-> "none"]
  /\ cur = [a \in Actors |-> NoJob]
  /\ seen = [a \in Actors |-> {}]
  /\ snap = [a \in Actors |-> <<>>]
  /\ left = [a \in Actors |-> 0]
  /\ fetched = [a \in Actors |-> 0]
  /\ waiting = [a \in Actors |-> 0]
  /\ alive = [a \in Actors |-> 0]
  /\ inflight = [a \in Actors |-> 0]
  /\ processed = [a \in Actors |-> 0]
  /\ fetchDone = [a \in Actors |-> FALSE]
  /\ scan = [a \in Actors |-> "on"]
  /\ pausedFetch = [a \in Actors |-> FALSE]
  /\ want = [a \in Actors |-> "done"]
  /\ claims = [j \in Jobs |-> 0]
  /\ asked = {}
  /\ struck = {}
  /\ stranded = {}

-----------------------------------------------------------------------------
\* The rows a request of actor a may see: its tenant's, or every row for the
\* scheduler, which passes no tenantId.
Visible(a) == {j \in Jobs : a \in Users => tenant[j] = TenantOf[a]}
ActiveSeenBy(a) == {j \in Visible(a) : status[j] \in Active}

\* updateMany({status: 'failed', ...}) over the rows J.
FailRows(J) == status' = [j \in Jobs |-> IF j \in J THEN "failed" ELSE status[j]]

\* setAuditPauseRequested: local map and cache first, then the Redis key.
SetPauseFlag(h, j) ==
  /\ pauseLocal' = [pauseLocal EXCEPT ![h] = @ \cup {j}]
  /\ negCache' = [negCache EXCEPT ![h] = @ \ {j}]
  /\ pauseRedis' = IF redisUp[h] THEN pauseRedis \cup {j} ELSE pauseRedis

\* activeJobs.delete and clearAuditPauseRequested for every job of J.
ForgetPause(h, J) ==
  /\ memPause' = [memPause EXCEPT ![h] = @ \ J]
  /\ pauseLocal' = [pauseLocal EXCEPT ![h] = @ \ J]
  /\ negCache' = [negCache EXCEPT ![h] = @ \ J]
  /\ pauseRedis' = IF redisUp[h] THEN pauseRedis \ J ELSE pauseRedis

\* isAuditPauseRequested: the local map, else a cached miss, else Redis.
FlagSeen(h, j) ==
  \/ j \in pauseLocal[h]
  \/ j \notin negCache[h] /\ redisUp[h] /\ j \in pauseRedis

\* shouldStopAuditJob: its answer ...
ShouldStop(h, j) ==
  j \in memPause[h] \/ FlagSeen(h, j) \/ status[j] # "running" \/ pauseReq[j]

\* ... and what it leaves behind: a flag that was seen is remembered in both
\* maps, a row no longer running drops the activeJobs entry, a pause found
\* only in the row is copied to the flags, and a miss is cached.
CheckStop(h, j) ==
  IF j \in memPause[h] THEN UNCHANGED flagVars
  ELSE IF FlagSeen(h, j)
    THEN /\ memPause' = [memPause EXCEPT ![h] = @ \cup {j}]
         /\ pauseLocal' = [pauseLocal EXCEPT ![h] = @ \cup {j}]
         /\ UNCHANGED <<negCache, pauseRedis>>
  ELSE IF status[j] = "running" /\ pauseReq[j]
    THEN /\ memPause' = [memPause EXCEPT ![h] = @ \cup {j}]
         /\ SetPauseFlag(h, j)
  ELSE /\ negCache' = [negCache EXCEPT ![h] = @ \cup {j}]
       /\ UNCHANGED <<memPause, pauseLocal, pauseRedis>>

\* The 3 s of a cached miss are over.
CacheExpires ==
  \E h \in Hosts, j \in Jobs :
    /\ j \in negCache[h]
    /\ negCache' = [negCache EXCEPT ![h] = @ \ {j}]
    /\ UNCHANGED <<rowVars, audits, redisVars, memPause, pauseLocal, faultVars,
                   pc, cur, reqVars, runVars, histVars>>

\* The locals of a handler that returned are gone.
Drop(a) ==
  /\ cur' = [cur EXCEPT ![a] = NoJob]
  /\ op' = [op EXCEPT ![a] = "none"]
  /\ seen' = [seen EXCEPT ![a] = {}]
  /\ snap' = [snap EXCEPT ![a] = <<>>]
  /\ left' = [left EXCEPT ![a] = 0]

\* So are those of a run.
DropRun(a) ==
  /\ fetched' = [fetched EXCEPT ![a] = 0]
  /\ waiting' = [waiting EXCEPT ![a] = 0]
  /\ alive' = [alive EXCEPT ![a] = 0]
  /\ inflight' = [inflight EXCEPT ![a] = 0]
  /\ processed' = [processed EXCEPT ![a] = 0]
  /\ fetchDone' = [fetchDone EXCEPT ![a] = FALSE]
  /\ scan' = [scan EXCEPT ![a] = "on"]
  /\ pausedFetch' = [pausedFetch EXCEPT ![a] = FALSE]
  /\ want' = [want EXCEPT ![a] = "done"]

Go(a, label) == pc' = [pc EXCEPT ![a] = label]
Return(a) == Go(a, "idle") /\ Drop(a)

\* The scheduler's loop over pages: the next page, or the end of the request.
NextPageOrReturn(a) ==
  IF op[a] = "cron" /\ left[a] > 0
  THEN /\ Go(a, "create")
       /\ cur' = [cur EXCEPT ![a] = NoJob]
       /\ UNCHANGED reqVars
  ELSE Return(a)

=============================================================================
