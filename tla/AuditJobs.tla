----------------------------- MODULE AuditJobs -----------------------------
(***************************************************************************)
(* The audit-job system: the API handlers (AuditRequests) and the runs     *)
(* (AuditRun) over one database and one Redis, with the boots, crashes and *)
(* Redis outages of the two processes, and the passing of time.            *)
(***************************************************************************)
EXTENDS AuditRequests, AuditRun

\* The process stops between any two steps: its memory and every handler or
\* run it was executing are gone, the database and Redis stay.
Crash(h) ==
  /\ (IF h = "api" THEN "crash api" ELSE "crash worker") \in Faults
  /\ up[h] = "up"
  /\ up' = [up EXCEPT ![h] = "boot"]
  /\ memPause' = [memPause EXCEPT ![h] = {}]
  /\ pauseLocal' = [pauseLocal EXCEPT ![h] = {}]
  /\ negCache' = [negCache EXCEPT ![h] = {}]
  /\ pc' = [a \in Actors |-> IF Host(a) = h THEN "idle" ELSE pc[a]]
  /\ op' = [a \in Actors |-> IF Host(a) = h THEN "none" ELSE op[a]]
  /\ cur' = [a \in Actors |-> IF Host(a) = h THEN NoJob ELSE cur[a]]
  /\ seen' = [a \in Actors |-> IF Host(a) = h THEN {} ELSE seen[a]]
  /\ snap' = [a \in Actors |-> IF Host(a) = h THEN <<>> ELSE snap[a]]
  /\ left' = [a \in Actors |-> IF Host(a) = h THEN 0 ELSE left[a]]
  /\ fetched' = [a \in Actors |-> IF Host(a) = h THEN 0 ELSE fetched[a]]
  /\ waiting' = [a \in Actors |-> IF Host(a) = h THEN 0 ELSE waiting[a]]
  /\ alive' = [a \in Actors |-> IF Host(a) = h THEN 0 ELSE alive[a]]
  /\ inflight' = [a \in Actors |-> IF Host(a) = h THEN 0 ELSE inflight[a]]
  /\ processed' = [a \in Actors |-> IF Host(a) = h THEN 0 ELSE processed[a]]
  /\ fetchDone' = [a \in Actors |-> IF Host(a) = h THEN FALSE ELSE fetchDone[a]]
  /\ scan' = [a \in Actors |-> IF Host(a) = h THEN "on" ELSE scan[a]]
  /\ pausedFetch' = [a \in Actors |-> IF Host(a) = h THEN FALSE ELSE pausedFetch[a]]
  /\ want' = [a \in Actors |-> IF Host(a) = h THEN "done" ELSE want[a]]
  /\ UNCHANGED <<rowVars, audits, redisVars, redisUp, histVars>>

\* Somebody is inside the run of a job.
HasRunner(j) == \E a \in Actors : cur[a] = j /\ pc[a] \in RunPcs \ {"claim"}

\* Mutant of Boot: it closes the queued rows only.
BootQueued(h) ==
  /\ up[h] = "boot"
  /\ FailRows({j \in Jobs : status[j] = "queued"})
  /\ up' = [up EXCEPT ![h] = IF h = "worker" THEN "purge" ELSE "up"]
  /\ UNCHANGED <<tenant, pauseReq, pausing, progress, old, audits, redisVars, procVars,
                 redisUp, pc, cur, reqVars, runVars, histVars>>

\* cleanupStuckJobsOnBoot: the API fails the running rows, the worker every
\* active row.  HTTP and the queue loop start when it is over.
Boot(h) ==
  /\ up[h] = "boot"
  /\ FailRows({j \in Jobs : status[j] \in
                 IF h = "worker" THEN Active ELSE {"running"}})
  /\ up' = [up EXCEPT ![h] = IF h = "worker" THEN "purge" ELSE "up"]
  /\ UNCHANGED <<tenant, pauseReq, pausing, progress, old, audits, redisVars, procVars,
                 redisUp, pc, cur, reqVars, runVars, histVars>>

\* The clean-up fails, or the database is read-only: onModuleInit catches or
\* the clean-up returns early, nothing is closed or purged, and the process
\* goes on.  What ran before it stopped is left running.
BootFails(h) ==
  /\ "boot error" \in Faults
  /\ up[h] = "boot"
  /\ stranded' = stranded \cup {j \in Jobs : status[j] = "running" /\ ~ HasRunner(j)}
  /\ up' = [up EXCEPT ![h] = "up"]
  /\ UNCHANGED <<rowVars, audits, redisVars, procVars, redisUp, pc, cur, reqVars,
                 runVars, claims, asked, struck>>

\* The worker then deletes the audit list, unless its Redis client, which
\* connects in a hook run side by side with this one, is not ready yet.
BootPurge ==
  /\ up["worker"] = "purge"
  /\ \/ redisUp["worker"] /\ queue' = <<>>
     \/ UNCHANGED queue
  /\ up' = [up EXCEPT !["worker"] = "up"]
  /\ UNCHANGED <<rowVars, audits, pauseRedis, procVars, redisUp, pc, cur, reqVars, runVars,
                 histVars>>

\* The Redis connection of a process breaks, or its circuit opens, and heals.
RedisToggle(h) ==
  /\ (IF h = "api" THEN "redis api" ELSE "redis worker") \in Faults
  /\ redisUp' = [redisUp EXCEPT ![h] = ~ @]
  /\ UNCHANGED <<rowVars, audits, redisVars, procVars, up, pc, cur, reqVars, runVars,
                 histVars>>

\* Enough time passes for an active row to exceed the age limits.  The model
\* has one limit where the code has several (2, 5 and 15 minutes, 1 and more
\* hours): a row is older than all of them or than none.
Age ==
  /\ "aging" \in Faults
  /\ \E j \in Jobs :
       /\ status[j] \in Active /\ ~ old[j]
       /\ old' = [old EXCEPT ![j] = TRUE]
  /\ UNCHANGED <<status, tenant, pauseReq, pausing, progress, audits, redisVars,
                 procVars, faultVars, pc, cur, reqVars, runVars, histVars>>

Environment ==
  \/ \E h \in Hosts : Crash(h) \/ RedisToggle(h)
  \/ Age

Next ==
  \/ NewRequest
  \/ \E a \in ApiActors : RequestStep(a)
  \/ Pop
  \/ \E a \in Actors : RunStep(a)
  \/ LoopError
  \/ \E h \in Hosts : Boot(h) \/ BootFails(h)
  \/ BootPurge
  \/ CacheExpires
  \/ Environment

Spec == Init /\ [][Next]_vars

\* Node runs every continuation that is ready, so what has begun goes on:
\* handlers, a run and each of its parts, a boot, and the expiry of a cached
\* miss.  Nobody has to send a request, and nothing is said of Pop: five lists
\* come before the audit list in the BRPOP of the queue loop, and while they
\* are refilled it is never reached.
Fairness ==
  /\ \A a \in ApiActors : WF_vars(RequestStep(a))
  /\ \A a \in Actors :
       /\ WF_vars(ReadRow(a) \/ Claim(a) \/ Start(a))
       /\ WF_vars(FetchEnd(a)) /\ WF_vars(FetchDrain(a)) /\ WF_vars(Take(a)) /\ WF_vars(Leave(a)) /\ WF_vars(Score(a))
       /\ WF_vars(ConsumersDone(a))
       /\ WF_vars(CancelledReturn(a) \/ Decide(a) \/ Catch(a) \/ FinishRead(a) \/ FinishWrite(a))
  /\ \A h \in Hosts : WF_vars(Boot(h))
  /\ WF_vars(BootPurge)
  /\ WF_vars(CacheExpires)

FairSpec == Spec /\ Fairness

-----------------------------------------------------------------------------
\* No two actors are inside runAuditJob of the same job: what the worker
\* pops, what a purge puts back on the list and what an API handler runs
\* inline never meet in one job.
OneRunner ==
  \A a, b \in Actors :
    a # b /\ pc[a] \in RunPcs /\ pc[b] \in RunPcs => cur[a] # cur[b]

\* A job whose run has begun and whose row is closed (by the run, a cancel,
\* an expiry, a poll or a boot) is never active again: the id-only updates of
\* claim and finish cannot reopen it.
NoRevivalAfterRun ==
  [][\A j \in Jobs :
       claims[j] > 0 /\ status[j] \in Terminal => status'[j] \in Terminal]_vars

\* The rows behave as JobLifecycle promises.
Lifecycle == INSTANCE JobLifecycle
LifecycleSpec == Lifecycle!Spec

\* A row runs without a runner only while a process boots, which is about to
\* fail it, or when its boot could not clean up, or when an exception left the
\* catch block of its run (cskh.service.ts:234, 264, 4718): no crash, no
\* cancel, no other exception and no race leaves a row running alone.
RunningHasRunner ==
  \A j \in Jobs : status[j] = "running" =>
    HasRunner(j) \/ j \in stranded \/ \E h \in Hosts : up[h] = "boot"

\* A queued row is on the Redis list, in the hands of an actor that will push,
\* run or close it, or about to be closed by a cancel of its tenant.
Carried(j) ==
  \/ Contains(queue, j)
  \/ \E a \in Actors : cur[a] = j /\ pc[a] \in {"enqueue", "read", "claim", "finRead", "finWrite"}
  \/ \E u \in Users : j \in Visible(u) /\ pc[u] \in
        {"cancelLoop", "purgeRead", "purgeWrite", "delete"}
  \/ up["worker"] = "boot"

NoOrphan == \A j \in Jobs : status[j] = "queued" => Carried(j)

\* finishJob('done') is reached only when every conversation put on the
\* in-memory queue was scored: the drain of the queue, the consumers' exits
\* and the three stop checks agree.
DoneMeansAllScored ==
  \A a \in Actors : pc[a] = "finWrite" /\ want[a] = "done" => processed[a] = fetched[a]

\* The worker finishes a job as paused only if a pause or a cancel of it was
\* begun; only those raise its flag.
PausedOnlyWhenAsked ==
  pc[Worker] = "finWrite" /\ want[Worker] = "paused" => cur[Worker] \in asked

\* Every queued row leaves the queue, provided the queue loop comes to the
\* audit list again and again: no handler, refused push or pause keeps it there.
QueuedLeaves ==
  WF_vars(Pop) => \A j \in Jobs : (status[j] = "queued") ~> (status[j] # "queued")

\* Every run ends: the fetch, the consumers and the stop checks never wait on
\* each other for ever, and the row does not stay running.
RunEnds == \A j \in Jobs : (status[j] = "running") ~> (status[j] # "running")

\* "không dùng findRunningJob nữa (bỏ sót job queued -> chấm song song)": a
\* tenant has one active audit job.  What the tests say of the check.
OneActivePerTenant ==
  \A i, j \in Jobs :
    status[i] \in Active /\ status[j] \in Active /\ tenant[i] = tenant[j] => i = j

\* "Delete all chat audits generated by this cancelled job run to keep DB
\* clean": a job that a cancel found and closed has no rows in chat_audits.
CancelledHasNoAudits == \A j \in struck \cap asked : audits[j] = 0

\* "worker kiểm tra trước khi chạy từ Redis queue": the worker does not run a
\* job that was cancelled before it began.
CancelledIsNotScored ==
  [][\A a \in Actors : inflight'[a] > inflight[a] => cur[a] \notin struck]_vars

-----------------------------------------------------------------------------
\* Why OneRunner and LifecycleSpec hold: the inductive invariant.  A job an
\* API handler is about to push or is running belongs to that handler alone:
\* it is not on the list, in no reading of the list that a purge will write
\* back, and in no other hands.
OwnPcs == {"enqueue", "read"} \cup RunPcs

Listed == Range(queue) \cup UNION {Range(snap[a]) : a \in Actors}

OwnedByOne ==
  \A a \in ApiActors : pc[a] \in OwnPcs =>
    /\ cur[a] \notin Listed
    /\ \A b \in Actors : b # a /\ pc[b] \in OwnPcs => cur[b] # cur[a]

\* Whatever is on the list, in a reading of it or in somebody's hands was
\* created.
Created ==
  /\ \A j \in Listed : status[j] # "none"
  /\ \A b \in Actors : pc[b] \in OwnPcs \cup {"ghost"} => status[cur[b]] # "none"

\* What a row's status says about its claims.
ClaimsAgree ==
  \A j \in Jobs :
    /\ claims[j] \in {0, 1}
    /\ status[j] \in {"none", "queued"} => claims[j] = 0
    /\ status[j] \in {"running", "done", "paused"} => claims[j] = 1

\* A run past its claim runs a claimed job, or is the scheduler closing a row
\* that Redis refused.
RunsClaimed ==
  \A a \in Actors :
    /\ pc[a] = "claim" => claims[cur[a]] = 0
    /\ pc[a] \in RunPcs \ {"claim"} =>
         \/ claims[cur[a]] = 1
         \/ pc[a] \in {"finRead", "finWrite"} /\ want[a] = "failed"

Ownership == OwnedByOne /\ Created /\ ClaimsAgree /\ RunsClaimed

=============================================================================
