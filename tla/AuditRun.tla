------------------------------ MODULE AuditRun ------------------------------
(***************************************************************************)
(* runUnifiedQueueWorker for the audit list, and runAuditJob: claim the    *)
(* row, find conversations while auditConcurrency consumers score them,    *)
(* stop when shouldStopAuditJob says so, and finish the row.  The runner   *)
(* is the worker, or a session of the API process when Redis refused the   *)
(* job and the handler runs it inline.                                     *)
(***************************************************************************)
EXTENDS AuditStore

InWork(a) == pc[a] = "work"

\* The consumers work on beside the catch block of their run.
Consuming(a) == pc[a] \in {"work", "catch"}
HasWork(a) == fetched[a] > 0

\* BRPOP on the audit list; the item is gone from Redis at once.
Pop ==
  /\ pc[Worker] = "idle" /\ up["worker"] = "up" /\ redisUp["worker"]
  /\ queue # <<>>
  /\ cur' = [cur EXCEPT ![Worker] = Head(queue)]
  /\ queue' = Tail(queue)
  /\ Go(Worker, "read")
  /\ UNCHANGED <<rowVars, audits, pauseRedis, procVars, faultVars, reqVars, runVars,
                 histVars>>

\* Mutant of ReadRow: the row's status is not looked at.
ReadRowUnchecked(a) ==
  /\ pc[a] = "read" /\ Go(a, "claim")
  /\ UNCHANGED <<rowVars, audits, redisVars, procVars, faultVars, cur, reqVars,
                 runVars, histVars>>

\* findJobStatus and the first read of runAuditJob: a queued row will be
\* claimed, a running one is run as it is, any other is skipped.
ReadRow(a) ==
  /\ pc[a] = "read"
  /\ CASE status[cur[a]] = "queued"  -> Go(a, "claim") /\ UNCHANGED <<cur, reqVars>>
       [] status[cur[a]] = "running" -> Go(a, "init") /\ UNCHANGED <<cur, reqVars>>
       [] OTHER                      -> Return(a)
  /\ UNCHANGED <<rowVars, audits, redisVars, procVars, faultVars, runVars, histVars>>

\* The update that makes the row running names only its id.
Claim(a) ==
  /\ pc[a] = "claim"
  /\ status' = [status EXCEPT ![cur[a]] = "running"]
  /\ old' = [old EXCEPT ![cur[a]] = FALSE]
  /\ claims' = [claims EXCEPT ![cur[a]] = @ + 1]
  /\ Go(a, "init")
  /\ UNCHANGED <<tenant, pauseReq, pausing, progress, audits, redisVars, procVars,
                 faultVars, cur, reqVars, runVars, asked, struck, stranded>>

\* reportProgressDb merges the run's own summary, whose phase is never
\* "pausing", into the row, if the row is still running.
Report(j, p) ==
  LET running == status[j] = "running" IN
  /\ progress' = [progress EXCEPT ![j] = IF running THEN p ELSE @]
  /\ pausing' = [pausing EXCEPT ![j] = @ /\ ~ running]

\* activeJobs.set(jobId, {pauseRequested: false}), pages and audited index.
\* Everything is scored already and the run is done, or the consumers and the
\* fetch start, and the first page is reported.
Start(a) ==
  /\ pc[a] = "init"
  /\ memPause' = [memPause EXCEPT ![Host(a)] = @ \ {cur[a]}]
  /\ \/ Go(a, "finRead") /\ UNCHANGED <<alive, progress, pausing>>
     \/ /\ Go(a, "work")
        /\ alive' = [alive EXCEPT ![a] = Concurrency]
        /\ Report(cur[a], "page")
  /\ UNCHANGED <<status, tenant, pauseReq, old, audits, redisVars, pauseLocal,
                 negCache, faultVars, cur, reqVars, fetched, waiting, inflight, processed,
                 fetchDone, scan, pausedFetch, want, histVars>>

\* A query throws inside the try block of runAuditJob, and its catch block
\* begins: before the consumers start, in the scan, whose finally block still
\* comes (or throws itself), in a consumer that Promise.all waits for, or
\* while the run is being finished.  A consumer that throws before that is an
\* unhandled rejection: the process stops, which is Crash.
RunError(a) ==
  /\ "run error" \in Faults
  /\ \/ /\ pc[a] = "init"
        /\ memPause' = [memPause EXCEPT ![Host(a)] = @ \ {cur[a]}]
        /\ UNCHANGED runVars
     \/ /\ InWork(a) /\ scan[a] # "over"
        /\ fetchDone' = [fetchDone EXCEPT ![a] = TRUE]
        /\ scan' = [scan EXCEPT ![a] = IF scan[a] = "on" THEN "drain" ELSE "over"]
        /\ UNCHANGED <<memPause, fetched, waiting, alive, inflight, processed,
                       pausedFetch, want>>
     \/ /\ InWork(a) /\ scan[a] = "over" /\ alive[a] > 0
        /\ alive' = [alive EXCEPT ![a] = @ - 1]
        /\ \E n \in {inflight[a], inflight[a] - 1} \cap (0 .. alive[a] - 1) :
             inflight' = [inflight EXCEPT ![a] = n]
        /\ UNCHANGED <<memPause, fetched, waiting, processed, fetchDone, scan,
                       pausedFetch, want>>
     \/ /\ \/ pc[a] = "decide"
           \/ pc[a] \in {"finRead", "finWrite"} /\ want[a] # "failed"
        /\ UNCHANGED <<memPause, runVars>>
  /\ Go(a, "catch")
  /\ UNCHANGED <<rowVars, audits, redisVars, pauseLocal, negCache, faultVars, cur,
                 reqVars, histVars>>

\* A query throws where no try block of runAuditJob holds it: the first reads,
\* the claim, or the catch block itself.  The queue loop catches the exception
\* and goes on to its next item; the row stays as it is.  (A run of the API
\* process is not awaited: there the same exception stops the process.)
LoopError ==
  /\ "loop error" \in Faults
  /\ \/ pc[Worker] \in {"read", "claim"}
     \/ pc[Worker] = "catch" /\ scan[Worker] # "drain"
     \/ pc[Worker] \in {"finRead", "finWrite"} /\ want[Worker] = "failed"
  /\ stranded' = stranded \cup {cur[Worker]}
  /\ Return(Worker) /\ DropRun(Worker)
  /\ UNCHANGED <<rowVars, audits, redisVars, procVars, faultVars, claims, asked, struck>>

-----------------------------------------------------------------------------
\* onMatch: a conversation is put on the in-memory queue and its progress
\* reaches the row unless it was throttled.  If the job is to stop, the queue
\* is emptied instead and the fetch counts as completed.
FetchMatch(a) ==
  /\ InWork(a) /\ scan[a] = "on" /\ fetched[a] < MaxConv
  /\ CheckStop(Host(a), cur[a])
  /\ \/ /\ ~ ShouldStop(Host(a), cur[a])
        /\ fetched' = [fetched EXCEPT ![a] = @ + 1]
        /\ waiting' = [waiting EXCEPT ![a] = @ + 1]
        /\ \/ Report(cur[a], "conv")
           \/ UNCHANGED <<progress, pausing>>
        /\ UNCHANGED fetchDone
     \/ /\ ShouldStop(Host(a), cur[a])
        /\ waiting' = [waiting EXCEPT ![a] = 0]
        /\ fetchDone' = [fetchDone EXCEPT ![a] = TRUE]
        /\ UNCHANGED <<fetched, progress, pausing>>
  /\ UNCHANGED <<status, tenant, pauseReq, old, audits, queue, faultVars, pc, cur,
                 reqVars, alive, inflight, processed, scan, pausedFetch, want, histVars>>

\* Mutant of FetchEnd: a hot inbox ends the scan on the worker too.
FetchEndYieldsAnywhere(a) ==
  /\ InWork(a) /\ scan[a] = "on"
  /\ \E hot \in BOOLEAN :
       pausedFetch' = [pausedFetch EXCEPT ![a] = ShouldStop(Host(a), cur[a]) \/ hot]
  /\ CheckStop(Host(a), cur[a])
  /\ fetchDone' = [fetchDone EXCEPT ![a] = TRUE]
  /\ scan' = [scan EXCEPT ![a] = "drain"]
  /\ UNCHANGED <<rowVars, audits, queue, faultVars, pc, cur, reqVars, fetched, waiting,
                 alive, inflight, processed, want, histVars>>

\* The scan ends: all pages are through, or it was told to stop.  On the API
\* process a hot inbox ends the scan as well (shouldAuditYieldToInbox).
FetchEnd(a) ==
  /\ InWork(a) /\ scan[a] = "on"
  /\ \E hot \in (IF Host(a) = "api" THEN BOOLEAN ELSE {FALSE}) :
       pausedFetch' = [pausedFetch EXCEPT ![a] = ShouldStop(Host(a), cur[a]) \/ hot]
  /\ CheckStop(Host(a), cur[a])
  /\ fetchDone' = [fetchDone EXCEPT ![a] = TRUE]
  /\ scan' = [scan EXCEPT ![a] = "drain"]
  /\ UNCHANGED <<rowVars, audits, queue, faultVars, pc, cur, reqVars, fetched, waiting,
                 alive, inflight, processed, want, histVars>>

\* The finally block asks once more, and drops what still waits if the job is
\* to stop by now.
FetchDrain(a) ==
  /\ Consuming(a) /\ scan[a] = "drain"
  /\ waiting' = [waiting EXCEPT ![a] = IF ShouldStop(Host(a), cur[a]) THEN 0 ELSE @]
  /\ CheckStop(Host(a), cur[a])
  /\ scan' = [scan EXCEPT ![a] = "over"]
  /\ UNCHANGED <<rowVars, audits, queue, faultVars, pc, cur, reqVars, fetched, alive,
                 inflight, processed, fetchDone, pausedFetch, want, histVars>>

\* A consumer shifts a conversation off the queue.  auditOne drops it if the
\* job is to stop by then; else the AI call and its row are under way.
Take(a) ==
  /\ Consuming(a) /\ inflight[a] < alive[a] /\ waiting[a] > 0
  /\ waiting' = [waiting EXCEPT ![a] = @ - 1]
  /\ inflight' = [inflight EXCEPT ![a] = IF ShouldStop(Host(a), cur[a]) THEN @ ELSE @ + 1]
  /\ CheckStop(Host(a), cur[a])
  /\ UNCHANGED <<rowVars, audits, queue, faultVars, pc, cur, reqVars, fetched, alive,
                 processed, fetchDone, scan, pausedFetch, want, histVars>>

\* Mutants of Leave: the last consumer is let go twice, and a consumer that
\* waits for work is not told that the fetch is over.
LeaveTwice(a) ==
  /\ InWork(a) /\ inflight[a] <= alive[a]
  /\ ShouldStop(Host(a), cur[a]) \/ (fetchDone[a] /\ waiting[a] = 0)
  /\ CheckStop(Host(a), cur[a])
  /\ alive' = [alive EXCEPT ![a] = @ - 1]
  /\ UNCHANGED <<rowVars, audits, queue, faultVars, pc, cur, reqVars, fetched, waiting,
                 inflight, processed, fetchDone, scan, pausedFetch, want, histVars>>

LeaveOnlyWhenStopped(a) ==
  /\ InWork(a) /\ inflight[a] < alive[a]
  /\ ShouldStop(Host(a), cur[a])
  /\ CheckStop(Host(a), cur[a])
  /\ alive' = [alive EXCEPT ![a] = @ - 1]
  /\ UNCHANGED <<rowVars, audits, queue, faultVars, pc, cur, reqVars, fetched, waiting,
                 inflight, processed, fetchDone, scan, pausedFetch, want, histVars>>

\* A consumer leaves its loop: it is told to stop, or nothing more will come.
Leave(a) ==
  /\ Consuming(a) /\ inflight[a] < alive[a]
  /\ ShouldStop(Host(a), cur[a]) \/ (fetchDone[a] /\ waiting[a] = 0)
  /\ CheckStop(Host(a), cur[a])
  /\ alive' = [alive EXCEPT ![a] = @ - 1]
  /\ UNCHANGED <<rowVars, audits, queue, faultVars, pc, cur, reqVars, fetched, waiting,
                 inflight, processed, fetchDone, scan, pausedFetch, want, histVars>>

\* auditChat returns: it inserted the chat_audits row without looking at the
\* job again, or it answered {error: true}.  Either counts as processed.
Score(a) ==
  /\ Consuming(a) /\ inflight[a] > 0
  /\ \E row \in {0, 1} : audits' = [audits EXCEPT ![cur[a]] = @ + row]
  /\ inflight' = [inflight EXCEPT ![a] = @ - 1]
  /\ processed' = [processed EXCEPT ![a] = @ + 1]
  /\ Report(cur[a], "conv")
  /\ UNCHANGED <<status, tenant, pauseReq, old, redisVars, procVars, faultVars, pc, cur,
                 reqVars, fetched, waiting, alive, fetchDone, scan, pausedFetch, want, histVars>>

ConsumersDone(a) ==
  /\ InWork(a) /\ scan[a] = "over" /\ alive[a] = 0
  /\ Go(a, "decide")
  /\ UNCHANGED <<rowVars, audits, redisVars, procVars, faultVars, cur, reqVars,
                 runVars, histVars>>

-----------------------------------------------------------------------------
\* isAuditJobCancelled: the row is no longer running, so the run forgets its
\* flags and returns without touching the row.
CancelledReturn(a) ==
  /\ pc[a] = "decide" \/ (pc[a] = "catch" /\ scan[a] # "drain")
  /\ status[cur[a]] # "running"
  /\ ForgetPause(Host(a), {cur[a]})
  /\ Return(a) /\ DropRun(a)
  /\ UNCHANGED <<rowVars, audits, queue, faultVars, histVars>>

\* Mutant of Verdict: conversations left unscored are not counted.
VerdictUncounted(a) ==
  IF HasWork(a)
  THEN {IF pausedFetch[a] THEN "paused" ELSE "done"}
  ELSE IF pausedFetch[a] THEN {"done", "paused"} ELSE {"done", "failed"}

\* The status to finish with.  Without a conversation: paused when the scan
\* was stopped, else done (all were scored before) or an error (none exist).
Verdict(a) ==
  IF HasWork(a)
  THEN {IF pausedFetch[a] \/ (processed[a] < fetched[a] /\ ShouldStop(Host(a), cur[a]))
        THEN "paused" ELSE "done"}
  ELSE IF pausedFetch[a] THEN {"done", "paused"} ELSE {"done", "failed"}

Decide(a) ==
  /\ pc[a] = "decide"
  /\ status[cur[a]] = "running"
  /\ \E v \in Verdict(a) : want' = [want EXCEPT ![a] = v]
  /\ IF HasWork(a) /\ processed[a] < fetched[a]
     THEN CheckStop(Host(a), cur[a])
     ELSE UNCHANGED flagVars
  /\ Go(a, "finRead")
  /\ UNCHANGED <<rowVars, audits, queue, faultVars, cur, reqVars, fetched, waiting, alive,
                 inflight, processed, fetchDone, scan, pausedFetch, histVars>>

\* The catch block, when no scan has its finally block before it.
Catch(a) ==
  /\ pc[a] = "catch" /\ scan[a] # "drain"
  /\ status[cur[a]] = "running"
  /\ want' = [want EXCEPT ![a] = "failed"]
  /\ Go(a, "finRead")
  /\ UNCHANGED <<rowVars, audits, redisVars, procVars, faultVars, cur, reqVars, fetched,
                 waiting, alive, inflight, processed, fetchDone, scan, pausedFetch, histVars>>

\* finishJob reads the row and forgets the pause in any case; if the row was
\* active, it then writes the status, naming only the id.
FinishRead(a) ==
  /\ pc[a] = "finRead"
  /\ ForgetPause(Host(a), {cur[a]})
  /\ IF status[cur[a]] \in Active
     THEN Go(a, "finWrite") /\ UNCHANGED <<cur, reqVars, runVars>>
     ELSE NextPageOrReturn(a) /\ DropRun(a)
  /\ UNCHANGED <<rowVars, audits, queue, faultVars, histVars>>

FinishWrite(a) ==
  /\ pc[a] = "finWrite"
  /\ status' = [status EXCEPT ![cur[a]] = want[a]]
  /\ NextPageOrReturn(a) /\ DropRun(a)
  /\ UNCHANGED <<tenant, pauseReq, pausing, progress, old, audits, redisVars, procVars,
                 faultVars, histVars>>

-----------------------------------------------------------------------------
RunStep(a) ==
  \/ ReadRow(a) \/ Claim(a) \/ Start(a) \/ RunError(a)
  \/ FetchMatch(a) \/ FetchEnd(a) \/ FetchDrain(a) \/ Take(a) \/ Leave(a) \/ Score(a)
  \/ ConsumersDone(a)
  \/ CancelledReturn(a) \/ Decide(a) \/ Catch(a)
  \/ FinishRead(a) \/ FinishWrite(a)

=============================================================================
