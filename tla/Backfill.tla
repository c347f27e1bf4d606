------------------------------ MODULE Backfill ------------------------------
(***************************************************************************)
(* The full scan of the inbox ("Quét đầy đủ"): sessions of the API process *)
(* start, pause and cancel it, a runner scans the pages one after another  *)
(* and saves its progress in the job's row.  With Redis the runner is the  *)
(* worker process; without it the API process runs the job inline, in the  *)
(* same memory as its sessions.  An action is the code between two awaits. *)
(***************************************************************************)
EXTENDS Naturals, FiniteSets, Sequences

CONSTANTS
  Jobs,       \* ids of the backfill rows that may be created
  Users,      \* sessions of the API process (the nightly cron is one)
  Inline,     \* bound: runs the API process may execute at one time
  Worker,     \* the queue loop of the worker process
  Tenants, TenantOf,
  Ops,        \* Ops[u]: the requests a session may send
  Pages,      \* the connected pages
  MaxQueue,   \* bound: length of the Redis list
  Redis,      \* whether Redis is there (else every job runs inline)
  Faults,     \* what may go wrong: a subset of FaultKinds
  NoJob, NoPage

UserOps == {"start", "force", "pause", "cancel"}
FaultKinds == {"push error", "page error", "run error", "restart"}
Kinds == {"pause", "cancel"}
Hosts == {"api", "worker"}

ASSUME BackfillConstants ==
  /\ MaxQueue \in Nat /\ Redis \in BOOLEAN /\ Faults \subseteq FaultKinds
  /\ TenantOf \in [Users -> Tenants] /\ Ops \in [Users -> SUBSET UserOps]
  /\ Worker \notin Inline /\ Users \cap (Inline \cup {Worker}) = {}
  /\ NoJob \notin Jobs /\ NoPage \notin Pages /\ IsFiniteSet(Pages)
  /\ Tenants # {}

Runners == Inline \cup {Worker}
Actors == Users \cup Runners
Host(a) == IF a = Worker THEN "worker" ELSE "api"

VARIABLES
  row,      \* cskh_job_runs: status, tenant and summary.completedPageIds
  queue,    \* the Redis list of queued job ids
  keys,     \* keys[k]: jobs with a Redis pause or cancel key
  cache,    \* cache[h][k][j]: checkCache of a process
  mem,      \* per process: backfillJobId, backfillState.running, the two
            \* request flags, backfillCompletedPageIds
  act,      \* per actor: program counter and locals
  purging,  \* the worker has restarted but not purged the list yet
  scanned,  \* history: pages whose scan for the job ran to its end
  struck    \* history: jobs a cancel that has returned found and closed

vars == <<row, queue, keys, cache, mem, act, purging, scanned, struck>>

Live == {"running", "paused"}
Statuses == Live \cup {"none", "completed", "failed", "cancelled"}

UserPcs == {"idle", "lookup", "close", "create", "resume", "enqueue", "flag", "dbRead",
            "dbWrite", "signal", "update", "purgeLen", "purgeDel", "clearFlags", "reset"}
RunnerPcs == {"idle", "read", "clearPause", "clearCancel", "pages", "top", "pauseTop", "check",
              "write", "scan", "after", "finally", "bottom", "pauseBottom",
              "pauseClear", "pauseClearMid", "cancelClear", "cancelClearMid", "catch"}
InRun == RunnerPcs \ {"idle", "read"}

\* The locals of an actor: the job it handles; a session's rows and reading
\* of the saved pages; a run's remaining pages and current page; and, of a
\* persistBackfillJob under way, its target, status, pages and continuation.
Blank == [pc |-> "idle", op |-> "none", cur |-> NoJob, seen |-> {}, list |-> {},
          todo |-> {}, page |-> NoPage, tgt |-> NoJob, want |-> "none", next |-> "idle"]

Fresh == [job |-> NoJob, running |-> FALSE, pause |-> FALSE, cancel |-> FALSE, done |-> {}]

TypeOK ==
  /\ row \in [Jobs -> [status : Statuses, tenant : Tenants, saved : SUBSET Pages]]
  /\ queue \in Seq(Jobs)
  /\ keys \in [Kinds -> SUBSET Jobs]
  /\ cache \in [Hosts -> [Kinds -> [Jobs -> {"none", "yes", "no"}]]]
  /\ mem \in [Hosts -> [job : Jobs \cup {NoJob}, running : BOOLEAN, pause : BOOLEAN,
                        cancel : BOOLEAN, done : SUBSET Pages]]
  /\ act \in [Actors ->
       [pc : UserPcs \cup RunnerPcs, op : UserOps \cup {"none"}, cur : Jobs \cup {NoJob},
        seen : SUBSET Jobs, list : SUBSET Pages, todo : SUBSET Pages,
        page : Pages \cup {NoPage}, tgt : Jobs \cup {NoJob}, want : Statuses,
        next : RunnerPcs]]
  /\ purging \in BOOLEAN
  /\ scanned \in [Jobs -> SUBSET Pages]
  /\ struck \subseteq Jobs

Init ==
  /\ row = [j \in Jobs |-> [status |-> "none", tenant |-> CHOOSE t \in Tenants : TRUE,
                            saved |-> {}]]
  /\ queue = <<>>
  /\ keys = [k \in Kinds |-> {}]
  /\ cache = [h \in Hosts |-> [k \in Kinds |-> [j \in Jobs |-> "none"]]]
  /\ mem = [h \in Hosts |-> Fresh]
  /\ act = [a \in Actors |-> Blank]
  /\ purging = FALSE
  /\ scanned = [j \in Jobs |-> {}]
  /\ struck = {}

-----------------------------------------------------------------------------
At(a, label) == act[a].pc = label
Go(a, label) == act' = [act EXCEPT ![a].pc = label]
Quit(a) == act' = [act EXCEPT ![a] = Blank]

\* set...Requested and clear...Requested: the cache, then the Redis key.
SetFlag(h, k, j) ==
  /\ cache' = [cache EXCEPT ![h][k][j] = "yes"]
  /\ keys' = IF Redis THEN [keys EXCEPT ![k] = @ \cup {j}] ELSE keys

ClearFlag(h, k, J) ==
  /\ cache' = [cache EXCEPT ![h][k] = [j \in Jobs |-> IF j \in J THEN "none" ELSE @[j]]]
  /\ keys' = IF Redis THEN [keys EXCEPT ![k] = @ \ J] ELSE keys

\* getCachedSignal: the cached answer, else the key, which is then cached.
Flagged(h, k, j) == cache[h][k][j] = "yes" \/ (cache[h][k][j] = "none" /\ j \in keys[k])

CacheAfter(h, k) ==
  LET j == mem[h].job IN
  IF j = NoJob \/ mem[h][k] THEN cache
  ELSE [cache EXCEPT ![h][k][j] = IF Flagged(h, k, j) THEN "yes" ELSE "no"]

\* is...RequestedNow of the process's job, and the flag it leaves set.
Requested(h, k) == mem[h][k] \/ (mem[h].job # NoJob /\ Flagged(h, k, mem[h].job))

MemAfter(h, k) == [mem EXCEPT ![h][k] = Requested(h, k)]

\* isBackfillCancelledNow falls back on the row.
CancelledNow(h) ==
  \/ Requested(h, "cancel")
  \/ mem[h].job # NoJob /\ row[mem[h].job].status = "cancelled"

\* An entry expires.  Only a process that runs the job ever asks for it, so
\* elsewhere its expiry makes no difference and is left out.
CacheExpires ==
  \E r \in Runners, k \in Kinds :
    LET h == Host(r)  j == mem[h].job IN
    /\ act[r].pc \in InRun /\ j # NoJob
    /\ cache[h][k][j] # "none"
    /\ cache' = [cache EXCEPT ![h][k][j] = "none"]
    /\ UNCHANGED <<row, queue, keys, mem, act, purging, scanned, struck>>

-----------------------------------------------------------------------------
\* startBackfill.  A running row, or a run in this process, ends the request.
Visible(u) == {j \in Jobs : row[j].tenant = TenantOf[u]}
InStatus(u, S) == {j \in Visible(u) : row[j].status \in S}

StartFind(u) ==
  /\ At(u, "idle")
  /\ InStatus(u, {"running"}) = {} /\ ~ mem["api"].running
  /\ \E k \in Ops[u] \cap {"start", "force"} :
       act' = [act EXCEPT ![u] = [@ EXCEPT !.op = k,
                                            !.pc = IF k = "force" THEN "close" ELSE "lookup"]]
  /\ mem' = [mem EXCEPT !["api"] = [@ EXCEPT !.pause = FALSE, !.cancel = FALSE]]
  /\ UNCHANGED <<row, queue, keys, cache, purging, scanned, struck>>

\* A paused job is resumed: its id becomes backfillJobId before the update.
Lookup(u) ==
  /\ At(u, "lookup")
  /\ \/ \E j \in InStatus(u, {"paused"}) :
          /\ mem' = [mem EXCEPT !["api"].job = j]
          /\ act' = [act EXCEPT ![u] = [@ EXCEPT !.cur = j, !.pc = "resume"]]
     \/ InStatus(u, {"paused"}) = {} /\ Go(u, "create") /\ UNCHANGED mem
  /\ UNCHANGED <<row, queue, keys, cache, purging, scanned, struck>>

\* The job that is pushed is what backfillJobId is by then.
Resume(u) ==
  /\ At(u, "resume")
  /\ row' = [row EXCEPT ![act[u].cur].status = "running"]
  /\ act' = [act EXCEPT ![u] = [@ EXCEPT !.cur = mem["api"].job, !.pc = "enqueue"]]
  /\ UNCHANGED <<queue, keys, cache, mem, purging, scanned, struck>>

SetStatus(J, s) == row' = [j \in Jobs |-> IF j \in J THEN [row[j] EXCEPT !.status = s] ELSE row[j]]

ClosePaused(u) ==
  /\ At(u, "close")
  /\ SetStatus(InStatus(u, {"paused"}), "cancelled")
  /\ Go(u, "create")
  /\ UNCHANGED <<queue, keys, cache, mem, purging, scanned, struck>>

Create(u) ==
  /\ At(u, "create")
  /\ \E j \in Jobs :
       /\ row[j].status = "none"
       /\ row' = [row EXCEPT ![j] = [status |-> "running", tenant |-> TenantOf[u], saved |-> {}]]
       /\ mem' = [mem EXCEPT !["api"].job = j]
       /\ act' = [act EXCEPT ![u] = [@ EXCEPT !.cur = j, !.pc = "enqueue"]]
  /\ UNCHANGED <<queue, keys, cache, purging, scanned, struck>>

\* Bound: the instance has no id left.
OutOfIds(u) ==
  /\ At(u, "create") /\ \A j \in Jobs : row[j].status # "none"
  /\ Quit(u)
  /\ UNCHANGED <<row, queue, keys, cache, mem, purging, scanned, struck>>

Enqueue(u) ==
  /\ At(u, "enqueue") /\ Redis /\ Len(queue) < MaxQueue
  /\ queue' = IF act[u].cur = NoJob THEN queue ELSE Append(queue, act[u].cur)
  /\ Quit(u)
  /\ UNCHANGED <<row, keys, cache, mem, purging, scanned, struck>>

\* Without Redis the job is run inline, detached from the request.
RunInline(u) ==
  /\ At(u, "enqueue") /\ ~ Redis
  /\ IF act[u].cur = NoJob THEN Quit(u)
     ELSE \E r \in Inline :
            /\ At(r, "idle")
            /\ act' = [act EXCEPT ![u] = Blank,
                                  ![r] = [Blank EXCEPT !.pc = "read", !.cur = act[u].cur]]
  /\ UNCHANGED <<row, queue, keys, cache, mem, purging, scanned, struck>>

\* LPUSH fails while the client is still connected: executeBackfillJob is
\* called inline and refuses to run on an API process that has Redis.
PushRefused(u) ==
  /\ At(u, "enqueue") /\ Redis /\ "push error" \in Faults
  /\ Quit(u)
  /\ UNCHANGED <<row, queue, keys, cache, mem, purging, scanned, struck>>

-----------------------------------------------------------------------------
\* requestBackfillPause: the flag of a running job of any tenant, then
\* pauseRequested, written into the summary that was read before.
PauseFind(u) ==
  /\ At(u, "idle") /\ "pause" \in Ops[u]
  /\ LET running == {j \in Jobs : row[j].status = "running"} IN
       \E j \in (IF running # {} THEN running ELSE {mem["api"].job} \ {NoJob}) :
         /\ running # {} \/ mem["api"].running
         /\ act' = [act EXCEPT ![u] = [@ EXCEPT !.op = "pause", !.cur = j, !.pc = "flag"]]
  /\ UNCHANGED <<row, queue, keys, cache, mem, purging, scanned, struck>>

PauseFlag(u) ==
  /\ At(u, "flag")
  /\ SetFlag("api", "pause", act[u].cur)
  /\ Go(u, "dbRead")
  /\ UNCHANGED <<row, queue, mem, purging, scanned, struck>>

PauseRead(u) ==
  /\ At(u, "dbRead")
  /\ act' = [act EXCEPT ![u] = [@ EXCEPT !.list = row[act[u].cur].saved, !.pc = "dbWrite"]]
  /\ UNCHANGED <<row, queue, keys, cache, mem, purging, scanned, struck>>

PauseWrite(u) ==
  /\ At(u, "dbWrite")
  /\ row' = [row EXCEPT ![act[u].cur].saved = act[u].list]
  /\ mem' = [mem EXCEPT !["api"].pause = TRUE]
  /\ Quit(u)
  /\ UNCHANGED <<queue, keys, cache, purging, scanned, struck>>

\* cancelAllBackfill: flag what is live, close what is live by then, delete
\* the list if it is not empty, and reset this process's memory.  The loops
\* over the jobs found are one step each.
CancelFind(u) ==
  /\ At(u, "idle") /\ "cancel" \in Ops[u]
  /\ act' = [act EXCEPT ![u] = [@ EXCEPT !.op = "cancel", !.seen = InStatus(u, Live),
                                         !.pc = "signal"]]
  /\ mem' = [mem EXCEPT !["api"].cancel = TRUE]
  /\ UNCHANGED <<row, queue, keys, cache, purging, scanned, struck>>

CancelSignal(u) ==
  /\ At(u, "signal")
  /\ cache' = [cache EXCEPT !["api"]["cancel"] =
                 [j \in Jobs |-> IF j \in act[u].seen THEN "yes" ELSE @[j]]]
  /\ keys' = IF Redis THEN [keys EXCEPT !["cancel"] = @ \cup act[u].seen] ELSE keys
  /\ Go(u, "update")
  /\ UNCHANGED <<row, queue, mem, purging, scanned, struck>>

CancelUpdate(u) ==
  /\ At(u, "update")
  /\ SetStatus(InStatus(u, Live), "cancelled")
  /\ Go(u, IF Redis THEN "purgeLen" ELSE "clearFlags")
  /\ UNCHANGED <<queue, keys, cache, mem, purging, scanned, struck>>

PurgeLen(u) ==
  /\ At(u, "purgeLen")
  /\ Go(u, IF queue = <<>> THEN "clearFlags" ELSE "purgeDel")
  /\ UNCHANGED <<row, queue, keys, cache, mem, purging, scanned, struck>>

PurgeDel(u) ==
  /\ At(u, "purgeDel")
  /\ queue' = <<>>
  /\ Go(u, "clearFlags")
  /\ UNCHANGED <<row, keys, cache, mem, purging, scanned, struck>>

ClearPauses(u) ==
  /\ At(u, "clearFlags")
  /\ ClearFlag("api", "pause", act[u].seen)
  /\ Go(u, "reset")
  /\ UNCHANGED <<row, queue, mem, purging, scanned, struck>>

Reset(u) ==
  /\ At(u, "reset")
  /\ ClearFlag("api", "cancel", {mem["api"].job})
  /\ mem' = [mem EXCEPT !["api"] = Fresh]
  /\ struck' = struck \cup {j \in act[u].seen : row[j].status = "cancelled"}
  /\ Quit(u)
  /\ UNCHANGED <<row, queue, purging, scanned>>

SessionStep(u) ==
  \/ Lookup(u) \/ Resume(u) \/ ClosePaused(u) \/ Create(u) \/ OutOfIds(u)
  \/ Enqueue(u) \/ RunInline(u)
  \/ PauseFlag(u) \/ PauseRead(u) \/ PauseWrite(u)
  \/ CancelSignal(u) \/ CancelUpdate(u) \/ PurgeLen(u) \/ PurgeDel(u)
  \/ ClearPauses(u) \/ Reset(u)

Request(u) == StartFind(u) \/ PauseFind(u) \/ CancelFind(u)

-----------------------------------------------------------------------------
\* executeBackfillJob.
Pop ==
  /\ Redis /\ At(Worker, "idle") /\ queue # <<>> /\ ~ purging
  /\ act' = [act EXCEPT ![Worker] = [Blank EXCEPT !.pc = "read", !.cur = Head(queue)]]
  /\ queue' = Tail(queue)
  /\ UNCHANGED <<row, keys, cache, mem, purging, scanned, struck>>

\* Only a running row is executed, and only if this process has no run.
ReadRow(r) ==
  /\ At(r, "read")
  /\ LET h == Host(r)  j == act[r].cur IN
     IF row[j].status # "running" \/ mem[h].running
     THEN Quit(r) /\ UNCHANGED mem
     ELSE /\ act' = [act EXCEPT ![r] = [@ EXCEPT !.todo = Pages \ row[j].saved,
                                                 !.pc = "clearPause"]]
          /\ mem' = [mem EXCEPT ![h] = [@ EXCEPT !.job = j, !.done = row[j].saved, !.pause = FALSE]]
  /\ UNCHANGED <<row, queue, keys, cache, purging, scanned, struck>>

ClearOldPause(r) ==
  /\ At(r, "clearPause")
  /\ ClearFlag(Host(r), "pause", {act[r].cur})
  /\ Go(r, "clearCancel")
  /\ UNCHANGED <<row, queue, mem, purging, scanned, struck>>

ClearOldCancel(r) ==
  /\ At(r, "clearCancel")
  /\ ClearFlag(Host(r), "cancel", {act[r].cur})
  /\ mem' = [mem EXCEPT ![Host(r)].running = TRUE]
  /\ Go(r, "pages")
  /\ UNCHANGED <<row, queue, purging, scanned, struck>>

\* buildBackfillPageList: the pages without those saved as completed.
ListPages(r) ==
  /\ At(r, "pages")
  /\ Go(r, "top")
  /\ UNCHANGED <<row, queue, keys, cache, mem, purging, scanned, struck>>

\* Its query throws: it stands before the try block, nothing is put back.
ListThrows(r) ==
  /\ At(r, "pages") /\ "run error" \in Faults
  /\ Quit(r)
  /\ UNCHANGED <<row, queue, keys, cache, mem, purging, scanned, struck>>

\* persistBackfillJob(s) from here on, continuing at c.  Saving "running" or
\* "paused" first asks whether the job was cancelled; the other statuses are
\* written at once.  Without a job in memory nothing is written.
Persist(r, s, pages, c) ==
  IF mem[Host(r)].job = NoJob
  THEN act' = [act EXCEPT ![r].pc = c]
  ELSE act' = [act EXCEPT ![r] = [@ EXCEPT !.pc = IF s \in Live THEN "check" ELSE "write",
                                           !.tgt = mem[Host(r)].job, !.want = s,
                                           !.list = pages, !.next = c]]

\* The save is over: its locals are gone and the run goes on.
Saved(r) ==
  IF act[r].next = "idle" THEN Quit(r)
  ELSE act' = [act EXCEPT ![r] = [@ EXCEPT !.pc = act[r].next, !.tgt = NoJob, !.want = "none",
                                           !.list = {}, !.next = "idle"]]

\* The row is the one backfillJobId names when the check is answered; a reset
\* of it falls before the check or after it, not inside.
PersistCheck(r) ==
  /\ At(r, "check")
  /\ IF CancelledNow(Host(r)) \/ mem[Host(r)].job = NoJob
     THEN Saved(r)
     ELSE act' = [act EXCEPT ![r] = [@ EXCEPT !.tgt = mem[Host(r)].job, !.pc = "write"]]
  /\ mem' = MemAfter(Host(r), "cancel")
  /\ cache' = CacheAfter(Host(r), "cancel")
  /\ UNCHANGED <<row, queue, keys, purging, scanned, struck>>

\* The update names the row by id only.
PersistWrite(r) ==
  /\ At(r, "write")
  /\ row' = [row EXCEPT ![act[r].tgt] = [@ EXCEPT !.status = act[r].want, !.saved = act[r].list]]
  /\ Saved(r)
  /\ UNCHANGED <<queue, keys, cache, mem, purging, scanned, struck>>

\* finishBackfillPause and finishBackfillCancel up to their persist.
FinishPause(r, c) ==
  /\ mem' = [mem EXCEPT ![Host(r)] = [@ EXCEPT !.pause = TRUE, !.running = FALSE]]
  /\ Persist(r, "paused", mem[Host(r)].done, c)

FinishCancel(r, c) ==
  /\ mem' = [MemAfter(Host(r), "cancel") EXCEPT ![Host(r)].running = FALSE]
  /\ Persist(r, "cancelled", mem[Host(r)].done, c)

\* The cancel check at the head of the loop, after a page, and at its foot.
AskCancel(r, here, there, c) ==
  /\ At(r, here)
  /\ cache' = CacheAfter(Host(r), "cancel")
  /\ IF CancelledNow(Host(r))
     THEN FinishCancel(r, c)
     ELSE mem' = MemAfter(Host(r), "cancel") /\ Go(r, there)
  /\ UNCHANGED <<row, queue, keys, purging, scanned, struck>>

Top(r) == act[r].todo # {} /\ AskCancel(r, "top", "pauseTop", "cancelClear")
Bottom(r) == AskCancel(r, "bottom", "pauseBottom", "cancelClear")

\* The pause check at the head of the loop; then the next page is begun.
NextPage(r) ==
  /\ At(r, "pauseTop")
  /\ LET h == Host(r) IN
     /\ cache' = CacheAfter(h, "pause")
     /\ IF Requested(h, "pause")
        THEN FinishPause(r, "pauseClear")
        ELSE /\ \E p \in act[r].todo :
                  IF mem[h].job = NoJob
                  THEN act' = [act EXCEPT ![r] = [@ EXCEPT !.page = p, !.pc = "scan"]]
                  ELSE act' = [act EXCEPT ![r] = [@ EXCEPT !.page = p, !.pc = "check",
                                                           !.tgt = mem[h].job, !.want = "running",
                                                           !.list = mem[h].done, !.next = "scan"]]
             /\ UNCHANGED mem
  /\ UNCHANGED <<row, queue, keys, purging, scanned, struck>>

\* Mutant of PauseBottom: a pause breaks the loop instead of ending the run.
PauseBottomBreaks(r) ==
  /\ At(r, "pauseBottom")
  /\ cache' = CacheAfter(Host(r), "pause")
  /\ act' = [act EXCEPT ![r] = [@ EXCEPT !.todo = IF Requested(Host(r), "pause") THEN {}
                                                  ELSE act[r].todo \ {act[r].page},
                                         !.page = NoPage, !.pc = "top"]]
  /\ UNCHANGED <<row, queue, keys, mem, purging, scanned, struck>>

\* Mutant of PauseBottom: the loop does not advance.
PauseBottomStays(r) ==
  /\ At(r, "pauseBottom")
  /\ cache' = CacheAfter(Host(r), "pause")
  /\ IF Requested(Host(r), "pause")
     THEN FinishPause(r, "pauseClear")
     ELSE act' = [act EXCEPT ![r] = [@ EXCEPT !.page = NoPage, !.pc = "top"]] /\ UNCHANGED mem
  /\ UNCHANGED <<row, queue, keys, purging, scanned, struck>>

PauseBottom(r) ==
  /\ At(r, "pauseBottom")
  /\ cache' = CacheAfter(Host(r), "pause")
  /\ IF Requested(Host(r), "pause")
     THEN FinishPause(r, "pauseClear")
     ELSE /\ act' = [act EXCEPT ![r] = [@ EXCEPT !.todo = act[r].todo \ {act[r].page},
                                                 !.page = NoPage, !.pc = "top"]]
          /\ UNCHANGED mem
  /\ UNCHANGED <<row, queue, keys, purging, scanned, struck>>

-----------------------------------------------------------------------------
\* syncSinglePageFromGraph of one page.  It saves progress as it goes, stops
\* early when it sees a pause or a cancel, or ends; a page that fails or
\* takes longer than backfillPageTimeoutMs counts as done too.
ScanProgress(r) ==
  /\ At(r, "scan")
  /\ Persist(r, "running", mem[Host(r)].done, "scan")
  /\ mem[Host(r)].job # NoJob
  /\ UNCHANGED <<row, queue, keys, cache, mem, purging, scanned, struck>>

ScanStops(r) ==
  /\ At(r, "scan")
  /\ \E k \in Kinds :
       /\ IF k = "cancel" THEN CancelledNow(Host(r)) ELSE Requested(Host(r), k)
       /\ mem' = MemAfter(Host(r), k)
       /\ cache' = CacheAfter(Host(r), k)
  /\ Go(r, "after")
  /\ UNCHANGED <<row, queue, keys, purging, scanned, struck>>

ScanEnds(r) ==
  /\ At(r, "scan")
  /\ scanned' = [scanned EXCEPT ![act[r].cur] = @ \cup {act[r].page}]
  /\ Go(r, "after")
  /\ UNCHANGED <<row, queue, keys, cache, mem, purging, struck>>

ScanFails(r) ==
  /\ At(r, "scan") /\ "page error" \in Faults
  /\ scanned' = [scanned EXCEPT ![act[r].cur] = @ \cup {act[r].page}]
  /\ mem' = [mem EXCEPT ![Host(r)].done = @ \cup {act[r].page}]
  /\ Go(r, "finally")
  /\ UNCHANGED <<row, queue, keys, cache, purging, struck>>

\* Mutant of After: a pause seen during the scan is left to the loop's foot.
AfterNoPause(r) ==
  /\ At(r, "after")
  /\ cache' = CacheAfter(Host(r), "cancel")
  /\ IF CancelledNow(Host(r)) THEN FinishCancel(r, "cancelClearMid")
     ELSE /\ mem' = [MemAfter(Host(r), "cancel") EXCEPT ![Host(r)].done = @ \cup {act[r].page}]
          /\ Go(r, "finally")
  /\ UNCHANGED <<row, queue, keys, purging, scanned, struck>>

\* The page counts as done unless a cancel or a pause was seen by now.
After(r) ==
  /\ At(r, "after")
  /\ cache' = CacheAfter(Host(r), "cancel")
  /\ IF CancelledNow(Host(r)) THEN FinishCancel(r, "cancelClearMid")
     ELSE IF mem[Host(r)].pause THEN FinishPause(r, "pauseClearMid")
     ELSE /\ mem' = [MemAfter(Host(r), "cancel") EXCEPT ![Host(r)].done = @ \cup {act[r].page}]
          /\ Go(r, "finally")
  /\ UNCHANGED <<row, queue, keys, purging, scanned, struck>>

\* The finally block of a page that counts as done.
Finally(r) ==
  /\ At(r, "finally")
  /\ Persist(r, IF mem[Host(r)].pause THEN "paused" ELSE "running", mem[Host(r)].done, "bottom")
  /\ UNCHANGED <<row, queue, keys, cache, mem, purging, scanned, struck>>

\* The end of finishBackfillPause.  In the middle of a page the finally block
\* follows, which saves the job as "running": the flag it looks at was reset
\* a moment ago.
Cleared(r, mid) ==
  IF ~ mid \/ mem[Host(r)].job = NoJob THEN Quit(r)
  ELSE act' = [act EXCEPT ![r] = [@ EXCEPT !.pc = "check", !.tgt = mem[Host(r)].job,
                                           !.want = "running", !.list = mem[Host(r)].done,
                                           !.next = "idle"]]

PauseCleared(r) ==
  \E mid \in BOOLEAN :
    /\ At(r, IF mid THEN "pauseClearMid" ELSE "pauseClear")
    /\ ClearFlag(Host(r), "pause", {mem[Host(r)].job})
    /\ mem' = [mem EXCEPT ![Host(r)].pause = FALSE]
    /\ Cleared(r, mid)
    /\ UNCHANGED <<row, queue, purging, scanned, struck>>

\* The end of finishBackfillCancel; both keys are deleted in one step.
CancelCleared(r) ==
  \E mid \in BOOLEAN :
    /\ At(r, IF mid THEN "cancelClearMid" ELSE "cancelClear")
    /\ LET h == Host(r)  J == {mem[h].job} IN
         /\ cache' = [cache EXCEPT ![h] =
              [k \in Kinds |-> [j \in Jobs |-> IF j \in J THEN "none" ELSE @[k][j]]]]
         /\ keys' = IF Redis THEN [k \in Kinds |-> keys[k] \ J] ELSE keys
    /\ mem' = [mem EXCEPT ![Host(r)] = [@ EXCEPT !.pause = FALSE, !.cancel = FALSE]]
    /\ Cleared(r, mid)
    /\ UNCHANGED <<row, queue, purging, scanned, struck>>

\* Mutant of Complete: the run is over but the state stays running.
CompleteStillRunning(r) ==
  /\ At(r, "top") /\ act[r].todo = {}
  /\ IF mem[Host(r)].job = NoJob THEN Quit(r)
     ELSE Persist(r, "completed", mem[Host(r)].done, "idle")
  /\ UNCHANGED <<row, queue, keys, cache, mem, purging, scanned, struck>>

\* All pages are through.
Complete(r) ==
  /\ At(r, "top") /\ act[r].todo = {}
  /\ mem' = [mem EXCEPT ![Host(r)].running = FALSE]
  /\ IF mem[Host(r)].job = NoJob THEN Quit(r)
     ELSE Persist(r, "completed", mem[Host(r)].done, "idle")
  /\ UNCHANGED <<row, queue, keys, cache, purging, scanned, struck>>

\* A query of the finally block throws and ends the whole run.
RunThrows(r) ==
  /\ At(r, "check") /\ act[r].next = "bottom" /\ "run error" \in Faults
  /\ Go(r, "catch")
  /\ UNCHANGED <<row, queue, keys, cache, mem, purging, scanned, struck>>

\* A cancelled job returns from the catch block with the state still running.
Catch(r) ==
  /\ At(r, "catch")
  /\ cache' = CacheAfter(Host(r), "cancel")
  /\ IF CancelledNow(Host(r)) \/ mem[Host(r)].job = NoJob
     THEN Quit(r) /\ mem' = MemAfter(Host(r), "cancel")
     ELSE /\ mem' = [mem EXCEPT ![Host(r)].running = FALSE]
          /\ Persist(r, "failed", mem[Host(r)].done, "idle")
  /\ UNCHANGED <<row, queue, keys, purging, scanned, struck>>

\* The poller asks for a pause every 1.5 s while a run is under way.
Poll ==
  \E r \in Runners :
    /\ act[r].pc \in InRun /\ mem[Host(r)].running
    /\ Requested(Host(r), "pause") /\ ~ mem[Host(r)].pause
    /\ mem' = MemAfter(Host(r), "pause")
    /\ cache' = CacheAfter(Host(r), "pause")
    /\ UNCHANGED <<row, queue, keys, act, purging, scanned, struck>>

RunnerStep(r) ==
  \/ ReadRow(r) \/ ClearOldPause(r) \/ ClearOldCancel(r) \/ ListPages(r)
  \/ Top(r) \/ NextPage(r) \/ PersistCheck(r) \/ PersistWrite(r)
  \/ After(r) \/ Finally(r) \/ Bottom(r) \/ PauseBottom(r)
  \/ PauseCleared(r) \/ CancelCleared(r) \/ Complete(r) \/ Catch(r)

ScanStep(r) == ScanStops(r) \/ ScanEnds(r) \/ ScanFails(r)

-----------------------------------------------------------------------------
\* A process restarts: its memory and actors are gone and its boot fails the
\* running rows; the worker then deletes the list.
Restart(h) ==
  /\ "restart" \in Faults
  /\ SetStatus({j \in Jobs : row[j].status = "running"}, "failed")
  /\ mem' = [mem EXCEPT ![h] = Fresh]
  /\ cache' = [cache EXCEPT ![h] = [k \in Kinds |-> [j \in Jobs |-> "none"]]]
  /\ act' = [a \in Actors |-> IF Host(a) = h THEN Blank ELSE act[a]]
  /\ purging' = (h = "worker" \/ purging)
  /\ UNCHANGED <<queue, keys, scanned, struck>>

BootPurge ==
  /\ purging
  /\ purging' = FALSE
  /\ queue' = <<>>
  /\ UNCHANGED <<row, keys, cache, mem, act, scanned, struck>>

Next ==
  \/ \E u \in Users : Request(u) \/ SessionStep(u) \/ PushRefused(u)
  \/ Pop
  \/ \E r \in Runners : RunnerStep(r) \/ ScanStep(r) \/ ScanProgress(r)
                      \/ RunThrows(r) \/ ListThrows(r)
  \/ Poll \/ CacheExpires
  \/ (\E h \in Hosts : Restart(h)) \/ BootPurge

Spec == Init /\ [][Next]_vars

\* Node runs every ready continuation.  A page's scan ends, be it by its
\* timeout, however often it saves its progress (hence strong fairness).
Fairness ==
  /\ \A u \in Users : WF_vars(SessionStep(u))
  /\ WF_vars(Pop) /\ WF_vars(BootPurge)
  /\ \A r \in Runners : WF_vars(RunnerStep(r)) /\ SF_vars(ScanStep(r))
FairSpec == Spec /\ Fairness

-----------------------------------------------------------------------------
\* Progress is honest: a page is saved as completed only if its scan ran to
\* its end, not when a pause or a cancel cut it short between two checks.
SavedWasScanned == \A j \in Jobs : row[j].saved \subseteq scanned[j]

\* A completed job has scanned every page, through pauses and resumptions.
CompletedCoversAll ==
  \A j \in Jobs : row[j].status = "completed" => scanned[j] = Pages

\* A process without a run does not believe it has one, so the next job it
\* takes is not skipped.
FreeWhenIdle == act[Worker].pc \in {"idle", "read"} => ~ mem["worker"].running

\* Every run returns, so the worker goes back to its other queues.
RunReturns == (act[Worker].pc # "idle") ~> (act[Worker].pc = "idle")

\* "Nếu có job paused trong DB → tự bỏ qua các kênh đã quét": a job found
\* paused becomes running again only by a request that resumes it.
PauseHolds ==
  [][\A j \in Jobs : row[j].status = "paused" /\ row'[j].status = "running" =>
       \E u \in Users : At(u, "resume") /\ act[u].cur = j]_vars

\* "đánh dấu job cancelled": what was marked cancelled stays so.
CancelHolds ==
  [][\A j \in Jobs : row[j].status = "cancelled" => row'[j].status = "cancelled"]_vars

\* "dừng ngay": once cancelAllBackfill has returned, no page of a job it
\* closed is begun.
CancelStops ==
  [][\A r \in Runners : act[r].page = NoPage /\ act'[r].page # NoPage =>
       act[r].cur \notin struck]_vars

\* "Redis queue unavailable — chạy inline": a running row is on the list, in
\* the hands of its request, or executed by somebody.
RunningIsCarried ==
  \A j \in Jobs : row[j].status = "running" =>
    \/ \E i \in DOMAIN queue : queue[i] = j
    \/ \E a \in Actors : act[a].pc # "idle" /\ act[a].cur = j

=============================================================================
