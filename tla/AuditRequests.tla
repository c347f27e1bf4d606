---------------------------- MODULE AuditRequests ----------------------------
(***************************************************************************)
(* The handlers of the API process that touch audit jobs: POST audit/run,  *)
(* audit/cancel, audit/pause, the progress poll, and the nightly           *)
(* scheduler.  Every await inside a handler is a boundary between two      *)
(* actions, so that the handlers of two sessions interleave there.         *)
(***************************************************************************)
EXTENDS AuditStore

Idle(a) == pc[a] = "idle" /\ up["api"] = "up"

Begin(u, kind, label) ==
  /\ Idle(u) /\ kind \in Ops[u]
  /\ Go(u, label)
  /\ op' = [op EXCEPT ![u] = kind]

\* POST audit/run: without force it first releases stale jobs, with force it
\* first cancels whatever is active.  POST audit/cancel only cancels.
RunRequest(u) ==
  /\ \/ Begin(u, "run", "staleFind")
     \/ Begin(u, "force", "cancelFind")
     \/ Begin(u, "cancel", "cancelFind")
  /\ UNCHANGED <<rowVars, audits, redisVars, procVars, faultVars, cur, seen, snap,
                 left, runVars, histVars>>

\* scheduledAudit with at least one connected page.
CronStarts ==
  /\ Idle(Cron) /\ CronPages > 0
  /\ Go(Cron, "staleFind")
  /\ op' = [op EXCEPT ![Cron] = "cron"]
  /\ left' = [left EXCEPT ![Cron] = CronPages]
  /\ UNCHANGED <<rowVars, audits, redisVars, procVars, faultVars, cur, seen, snap,
                 runVars, histVars>>

-----------------------------------------------------------------------------
\* releaseStaleJobs: for "running" and then for "queued" rows, find the stale
\* ones, clear their pause flags, and fail the rows that are stale by then.
StaleRows(a, s) == {j \in Visible(a) : status[j] = s /\ old[j]}

StaleFind(a) ==
  \E s \in Active :
    /\ pc[a] = IF s = "running" THEN "staleFind" ELSE "queuedFind"
    /\ ForgetPause("api", StaleRows(a, s))
    /\ Go(a, IF StaleRows(a, s) # {}
             THEN IF s = "running" THEN "staleUpdate" ELSE "queuedUpdate"
             ELSE IF s = "running" THEN "queuedFind" ELSE "find")
    /\ UNCHANGED <<rowVars, audits, queue, faultVars, cur, reqVars, runVars, histVars>>

StaleUpdate(a) ==
  \E s \in Active :
    /\ pc[a] = IF s = "running" THEN "staleUpdate" ELSE "queuedUpdate"
    /\ FailRows(StaleRows(a, s))
    /\ Go(a, IF s = "running" THEN "queuedFind" ELSE "find")
    /\ UNCHANGED <<tenant, pauseReq, pausing, progress, old, audits, redisVars,
                   procVars, faultVars, cur, reqVars, runVars, histVars>>

\* findActiveJob: a job that is queued or running ends the request.
FindActive(a) ==
  /\ pc[a] = "find"
  /\ IF ActiveSeenBy(a) # {}
     THEN Return(a)
     ELSE Go(a, "create") /\ UNCHANGED <<cur, reqVars>>
  /\ UNCHANGED <<rowVars, audits, redisVars, procVars, faultVars, runVars, histVars>>

\* createJob('audit', tenant, 'queued'); the scheduler uses the page's tenant.
Create(a) ==
  /\ pc[a] = "create"
  /\ \E j \in Jobs, t \in Tenants :
       /\ status[j] = "none"
       /\ a \in Users => t = TenantOf[a]
       /\ status' = [status EXCEPT ![j] = "queued"]
       /\ tenant' = [tenant EXCEPT ![j] = t]
       /\ cur' = [cur EXCEPT ![a] = j]
  /\ left' = [left EXCEPT ![a] = IF @ > 0 THEN @ - 1 ELSE 0]
  /\ Go(a, "enqueue")
  /\ UNCHANGED <<pauseReq, pausing, progress, old, audits, redisVars, procVars,
                 faultVars, op, seen, snap, runVars, histVars>>

\* Bound: the instance has no id left, so the request ends here.
OutOfIds(a) ==
  /\ pc[a] = "create"
  /\ \A j \in Jobs : status[j] # "none"
  /\ Return(a)
  /\ UNCHANGED <<rowVars, audits, redisVars, procVars, faultVars, runVars, histVars>>

\* LPUSH succeeded: the row will be read by the worker.
Enqueue(a) ==
  /\ pc[a] = "enqueue" /\ redisUp["api"]
  /\ queue' = Append(queue, cur[a])
  /\ NextPageOrReturn(a)
  /\ UNCHANGED <<rowVars, audits, pauseRedis, procVars, faultVars, runVars, histVars>>

\* Mutant of EnqueueFails: the push happened before the failure was noticed.
EnqueueFailsAfterPush(a) ==
  /\ pc[a] = "enqueue" /\ ~ redisUp["api"]
  /\ queue' = Append(queue, cur[a])
  /\ Go(a, IF op[a] = "cron" THEN "finRead" ELSE "read")
  /\ want' = [want EXCEPT ![a] = IF op[a] = "cron" THEN "failed" ELSE @]
  /\ UNCHANGED <<rowVars, audits, pauseRedis, procVars, faultVars, cur, reqVars,
                 fetched, waiting, alive, inflight, processed, fetchDone,
                 scan, pausedFetch, histVars>>

\* Mutant of EnqueueFails: the failed push is logged and nothing else.
EnqueueFailsForgets(a) ==
  /\ pc[a] = "enqueue" /\ ~ redisUp["api"]
  /\ Go(a, "idle")
  /\ UNCHANGED <<want, queue, rowVars, audits, pauseRedis, procVars, faultVars, cur, reqVars,
                 fetched, waiting, alive, inflight, processed, fetchDone,
                 scan, pausedFetch, histVars>>

\* enqueueAuditJob answered false.  A user's request runs the job inline on
\* the API process; the scheduler closes the row with finishJob('failed').
\* The answer is also false when LPUSH took effect but its reply was lost.
EnqueueFails(a) ==
  /\ pc[a] = "enqueue"
  /\ \/ ~ redisUp["api"] /\ UNCHANGED queue
     \/ /\ redisUp["api"] /\ "lost reply" \in Faults
        /\ queue' = Append(queue, cur[a])
  /\ Go(a, IF op[a] = "cron" THEN "finRead" ELSE "read")
  /\ want' = [want EXCEPT ![a] = IF op[a] = "cron" THEN "failed" ELSE @]
  /\ UNCHANGED <<rowVars, audits, pauseRedis, procVars, faultVars, cur, reqVars,
                 fetched, waiting, alive, inflight, processed, fetchDone,
                 scan, pausedFetch, histVars>>

-----------------------------------------------------------------------------
\* requestAuditPause: the active job found, then the flags, then the row,
\* whose guarded UPDATE does nothing unless the row is running.
PauseRequest(u) ==
  /\ Begin(u, "pause", "pauseFlag")
  /\ \E j \in ActiveSeenBy(u) : cur' = [cur EXCEPT ![u] = j]
  /\ UNCHANGED <<rowVars, audits, redisVars, procVars, faultVars, seen, snap, left,
                 runVars, histVars>>

PauseFlag(u) ==
  /\ pc[u] = "pauseFlag"
  /\ memPause' = [memPause EXCEPT !["api"] = @ \cup {cur[u]}]
  /\ SetPauseFlag("api", cur[u])
  /\ asked' = asked \cup {cur[u]}
  /\ Go(u, "pauseDb")
  /\ UNCHANGED <<rowVars, audits, queue, faultVars, cur, reqVars, runVars, claims, struck, stranded>>

PauseDb(u) ==
  /\ pc[u] = "pauseDb"
  /\ LET running == status[cur[u]] = "running" IN
       /\ pauseReq' = [pauseReq EXCEPT ![cur[u]] = @ \/ running]
       /\ pausing' = [pausing EXCEPT ![cur[u]] = @ \/ running]
  /\ Return(u)
  /\ UNCHANGED <<status, tenant, progress, old, audits, redisVars, procVars,
                 faultVars, runVars, histVars>>

-----------------------------------------------------------------------------
\* cancelRunningJobs: find the active rows; for each one drop the memory
\* entry, set the pause flag, take it out of the Redis list, delete its
\* chat_audits; at last fail every row of the tenant that is active by then.
CancelFind(a) ==
  /\ pc[a] = "cancelFind"
  /\ seen' = [seen EXCEPT ![a] = ActiveSeenBy(a)]
  /\ Go(a, "cancelLoop")
  /\ UNCHANGED <<rowVars, audits, redisVars, procVars, faultVars, cur, op, snap,
                 left, runVars, histVars>>

CancelFlag(a) ==
  /\ pc[a] = "cancelLoop"
  /\ \E j \in seen[a] :
       /\ cur' = [cur EXCEPT ![a] = j]
       /\ seen' = [seen EXCEPT ![a] = @ \ {j}]
       /\ memPause' = [memPause EXCEPT !["api"] = @ \ {j}]
       /\ SetPauseFlag("api", j)
       /\ asked' = asked \cup {j}
  /\ Go(a, "purgeRead")
  /\ UNCHANGED <<rowVars, audits, queue, faultVars, op, snap, left, runVars, claims, struck, stranded>>

\* purgeAuditQueueForJobIds reads the whole list ...
PurgeRead(a) ==
  /\ pc[a] = "purgeRead"
  /\ IF redisUp["api"] /\ Contains(queue, cur[a])
     THEN snap' = [snap EXCEPT ![a] = queue] /\ Go(a, "purgeWrite")
     ELSE UNCHANGED snap /\ Go(a, "delete")
  /\ UNCHANGED <<rowVars, audits, redisVars, procVars, faultVars, cur, op, seen,
                 left, runVars, histVars>>

\* ... and replaces it, in one MULTI, by the items of that reading it keeps.
\* LRANGE goes from the newest item to the oldest and the RPUSHes walk it
\* backwards, so the list that BRPOP pops from the tail comes out reversed.
\* A job is pushed once, so at most one item of the reading is dropped.
PurgeWrite(a) ==
  /\ pc[a] = "purgeWrite"
  /\ IF redisUp["api"]
     THEN \E i \in DOMAIN snap[a] :
            snap[a][i] = cur[a] /\ queue' = Reverse(RemoveAt(snap[a], i))
     ELSE UNCHANGED queue
  /\ snap' = [snap EXCEPT ![a] = <<>>]
  /\ Go(a, "delete")
  /\ UNCHANGED <<rowVars, audits, pauseRedis, procVars, faultVars, cur, op, seen,
                 left, runVars, histVars>>

DeleteAudits(a) ==
  /\ pc[a] = "delete"
  /\ audits' = [audits EXCEPT ![cur[a]] = 0]
  /\ cur' = [cur EXCEPT ![a] = NoJob]
  /\ Go(a, "cancelLoop")
  /\ UNCHANGED <<rowVars, redisVars, procVars, faultVars, reqVars, runVars, histVars>>

\* Mutant of CancelUpdate: it closes the running rows only.
CancelUpdateRunning(a) ==
  /\ pc[a] = "cancelLoop" /\ seen[a] = {}
  /\ LET J == {j \in ActiveSeenBy(a) : status[j] = "running"} IN
       FailRows(J) /\ struck' = struck \cup J
  /\ IF op[a] = "force"
     THEN Go(a, "find") /\ UNCHANGED <<cur, reqVars>>
     ELSE Return(a)
  /\ UNCHANGED <<tenant, pauseReq, pausing, progress, old, audits, redisVars,
                 procVars, faultVars, runVars, claims, asked, stranded>>

CancelUpdate(a) ==
  /\ pc[a] = "cancelLoop" /\ seen[a] = {}
  /\ FailRows(ActiveSeenBy(a))
  /\ struck' = struck \cup ActiveSeenBy(a)
  /\ IF op[a] = "force"
     THEN Go(a, "find") /\ UNCHANGED <<cur, reqVars>>
     ELSE Return(a)
  /\ UNCHANGED <<tenant, pauseReq, pausing, progress, old, audits, redisVars,
                 procVars, faultVars, runVars, claims, asked, stranded>>

-----------------------------------------------------------------------------
\* getAuditProgress polls the row and failGhostJobIfNeeded judges what it
\* read: an aged running row without audits or progress is failed, whatever
\* has become of it since (the update names only the id).
LooksDead(j) ==
  /\ status[j] = "running" /\ old[j] /\ audits[j] = 0
  /\ IF pausing[j] THEN progress[j] # "conv" ELSE progress[j] = "none"

PollGhost(u) ==
  /\ Begin(u, "poll", "ghost")
  /\ \E j \in Visible(u) : LooksDead(j) /\ cur' = [cur EXCEPT ![u] = j]
  /\ UNCHANGED <<rowVars, audits, redisVars, procVars, faultVars, seen, snap, left,
                 runVars, histVars>>

\* Mutant of FailGhost: a dead run is queued again instead of failed.
RequeueGhost(u) ==
  /\ pc[u] = "ghost"
  /\ status' = [status EXCEPT ![cur[u]] = "queued"]
  /\ Return(u)
  /\ UNCHANGED <<tenant, pauseReq, pausing, progress, old, audits, redisVars,
                 procVars, faultVars, runVars, histVars>>

FailGhost(u) ==
  /\ pc[u] = "ghost"
  /\ FailRows({cur[u]})
  /\ Return(u)
  /\ UNCHANGED <<tenant, pauseReq, pausing, progress, old, audits, redisVars,
                 procVars, faultVars, runVars, histVars>>

-----------------------------------------------------------------------------
\* Steps that continue a request, and steps that begin one.
RequestStep(a) ==
  \/ StaleFind(a) \/ StaleUpdate(a) \/ FindActive(a)
  \/ Create(a) \/ OutOfIds(a) \/ Enqueue(a) \/ EnqueueFails(a)
  \/ PauseFlag(a) \/ PauseDb(a)
  \/ CancelFind(a) \/ CancelFlag(a) \/ PurgeRead(a) \/ PurgeWrite(a)
  \/ DeleteAudits(a) \/ CancelUpdate(a)
  \/ FailGhost(a)

NewRequest ==
  \/ \E u \in Users : RunRequest(u) \/ PauseRequest(u) \/ PollGhost(u)
  \/ CronStarts

=============================================================================
