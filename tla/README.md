# A verification project for CQA_BE

CQA_BE is the backend of a customer-care ("CSKH") console: it receives Facebook,
Instagram and Pancake conversations, shows them to staff, scores them with an AI
("Chấm điểm", the *audit*), and links them to orders, ads and labels.  This
directory models the parts of it whose correctness depends on the order in which
things happen, checks them with TLC and proves the most important facts with TLAPS.

Paths below are relative to the repository, `src/...`; line numbers are those of
the modelled commit.

## 1. The system

Two kinds of process run the same code (`cskh-run-mode.ts`): the *API* serves HTTP,
webhooks and cron jobs, the *worker* pops jobs from Redis lists; a development
process does both.  They share a PostgreSQL database and a Redis server, which may be
absent: then the API does the work inline.  Inside a process JavaScript runs one
continuation at a time, so **code between two `await`s is atomic and everything
else interleaves**.  That is the grain of the actions in every module.

| component | state it keeps | operations | interacts with | what makes it correct | modules |
|---|---|---|---|---|---|
| Audit jobs (`cskh.service.ts`, `cskh.controller.ts`, `cskh-cron.service.ts`) | rows of `cskh_job_runs`, `chat_audits`, the map `activeJobs`, the locals of a run | run, force, cancel, pause, progress poll, nightly scheduler, stale release, boot clean-up, `runAuditJob` | Redis list and pause keys, AI service, inbox | one runner per job, no row stranded as queued or running, done means all scored, closed stays closed | `Audit*`, `JobLifecycle` |
| Audit scan (`facebook-graph.service.ts`, `runAuditJob`) | candidates, cursor and marks of a scan | list a page, retry, read a transcript, hand on | Graph, inbox tables, consumers | every conversation of the day once | `AuditScan` |
| Audit links (`cskh-inbox.service.ts`, `cskh-insight.service.ts`) | `chat_audits` metadata, conversation row | link and sync after a score, link on demand, dates | audits, inbox | an audit with an intent has its thread | `AuditLink` |
| Monitor (`cskh.service.ts`) | job row, monitor items | run | Graph | what it reports is what it stored | `MonitorJob` |
| Redis queue and worker loop (`redis/redis-queue.service.ts`) | six lists, dedup keys, heartbeat | push, BRPOP loop, purge, dedup | all job kinds | nothing queued is lost, run twice or starved | `AuditRequests`, `Backfill`, `WorkerLists` |
| Redis signals, client, breaker (`redis/*`) | pause keys, deadlines, caches of 1-5 s, connections | set, read, clear; connect, trip, close | audits, backfill, Graph slots, page numbers | a signal is seen within the cache time | `AuditStore`, `Backfill`, `GraphSlots`, `PageStats`, `WorkerLists` |
| Graph slot coordinator (`facebook/graph-api-coordinator.service.ts`) | `activeHigh`, `activeLow`, `inboxSyncDepth` | acquire, release, begin and end of a sync | every Graph call, rotating sync | limits respected, high priority never behind low | `GraphSlots` |
| Ads requests and spend (`facebook/facebook-ads.service.ts`, `cskh.service.ts`) | slots, waiters, deadlines, hints, misses, cached insights, the day's row, answers kept for conversations | graphGet, search of the account, daily sync, cost of a conversation's ad | Meta's ads API, conversation row | slots counted, one search for all who need it, a refresh is not taken back | `AdsSlots`, `FifoSlots`, `AdSpend`, `AdChat` |
| Inbox threads (`inbox/cskh-inbox.service.ts`) | conversations with unread count, messages, locks | webhook ingest, reply, sync, refresh, read state | webhook, Graph, realtime, labels | a message is stored once, the flags are those of the last message | `Inbox{Store,Ingest,Reply,Sync,Desk,Thread}` |
| Inbox lists (same file) | list and count caches, loads in flight | first page, next pages, counts | database | rows neither lost nor doubled | `InboxListing` |
| Inbox rounds (same file) | viewed page, poll lock, cursor, back-offs | catch-up, rotation | Graph, lists | every page has its turn | `InboxRounds` |
| Inbox media (same file) | rows without a URL | webhook task, opening, refresh, sweep | Graph | each photo once, under its own message | `InboxMedia` |
| Translations (same file, `ai.service.ts`) | translated texts, the customer's language | run over a thread, reply | AI service | a stored translation stays | `Translations` |
| Labels (`inbox/cskh-inbox-labels.service.ts`) | label rows and links, `awaitingLabel` | set labels, staff lock, views | inbox, Pancake | a claimed conversation stays claimed | `InboxDesk` |
| Backfill (`cskh-inbox.service.ts`) | job row, Redis list, pause and cancel flags, `backfillState` and its fellows | start, pause, cancel, execute | Redis queue, Graph | progress is honest, pause and cancel take effect | `Backfill` |
| Realtime (`inbox/cskh-inbox-realtime.service.ts`) | subscribers, memory of emitted events, analyses | publish, receive, analyse | inbox, Redis pub/sub | each event once, in order of its key | `Realtime` |
| Comments (`comment/*`) | comments, threads, unread count | webhook, sync, reply, hide | Graph | a comment is shown, and counted once | `CommentThread`, `InstagramThread` |
| Pancake (`pancake/*`) | user token, list of pages, page tokens, leads | connect, list, call, sync, label | Redis lists, inbox | the stored token is the valid one, labels agree with the stage | `PancakeToken`, `PancakeLeads`, `WorkerLists` |
| Page connections (`cskh.service.ts`) | page rows and their metadata, OAuth session | connect, refresh, repair, hints, pictures | Graph | an account keeps its link to its page | `PageConnect` |
| Page numbers (`cskh.service.ts`) | caches, totals, time of the last bump | list pages, bump, refresh | backfill, Redis | numbers older than a bump go | `PageStats` |
| Sapo and stock (`sapo/*`) | products, customers, orders, levels | syncs, order | Sapo's API, inbox | stock moves with the order; a sync catches up | `SapoSync`, `StockOrders` |
| OMS (`oms/*`, `meta-conversions.service.ts`) | nothing of its own but a data set cache | order, suggestion, report of the purchase | warehouse, Meta | what is reported was ordered | `OmsOrders`, `OmsSuggest` |
| Auth and users, media library, analytics, Prisma, wiring | single rows | CRUD, reads | everything | - | not modelled |

The hard behaviours, each at its line, are the hazards of PROJECT.json.

## 2. Plan

Built, in this order: audit jobs with their proofs; Graph slots and ads requests with
theirs; backfill; the inbox thread; the worker's lists; the services beside them
(`ServicesMC`): comments, realtime, Pancake, Sapo, stock, OMS, connected pages, ad
spend, lists, scan, monitor, numbers, rounds, media, links, translations.

The proofs went the same way: types and ownership of the audit jobs, the two kinds of
slots, the outcomes of an audit, the progress of a backfill, the rows of a thread, its
conversation's row, the worker that is free again, the monitor.

Open:

1. Proofs for the services, the ones whose property is an invariant of a few actors
   first: `InboxListing!OneCount`, `AuditScan!MatchedOnce`, `AdSpend!SearchedOnce`,
   `AdChat!RefreshSeen`, `PageConnect!LinkKept`.
2. The composition of `AuditScan` with the consumers of `AuditRun`: today the run
   assumes of a scan that it hands conversations on one by one and ends.
3. Manual page settings and TikTok in `PageConnect`; Sapo's collections; the
   administration of labels.

## 3. The modules

Everywhere an action is the code between two `await`s, named after the function it
stands for; PROJECT.json maps each definition to its lines.  What a handler read
before an `await` stays in a local of its actor, and may be out of date later.

### Audit jobs

| module | part |
|---|---|
| `AuditStore` | the state and the helpers on it |
| `AuditRequests` | the handlers of the API process: run, force, cancel, pause, poll, the scheduler |
| `AuditRun` | the worker loop and `runAuditJob`, on the worker or inline in a handler |
| `AuditJobs` | crashes, boots, Redis outages, ageing; `Next`, `Spec`, the properties |
| `JobLifecycle` | abstract: what the rows promise |
| `AuditJobsProofs` | theorems: types, ownership, outcomes |
| `AuditJobsMC` | instances: sessions and the requests they may send |

State: `status`, `tenant`, `pauseReq`, `pausing`, `progress`, `old` are columns of
`cskh_job_runs`; `audits` counts the `chat_audits` of a job; `queue` and `pauseRedis`
are the Redis list and pause keys; `memPause`, `pauseLocal`, `negCache` are the flags
each process keeps (`activeJobs`, `auditPauseLocal`, the 3 s cache of a miss); `pc`,
`cur`, `op`, `seen`, `snap`, `left` are the locals of a handler; `fetched` to `want`
those of a run: the conversations found, waiting in its in-memory queue, being scored
and scored, the consumers still in their loop, how far the scan is, the status to
finish with.  `claims`, `asked`, `struck` and `stranded` (rows that a boot could not
clean up, or whose run an exception ended outside its `try`) are history.

The handlers: `runAudit` = `RunRequest`, `StaleFind`, `StaleUpdate`, `FindActive`,
`Create`, `Enqueue` or `EnqueueFails` (which runs the job inline), with the cancel
steps first when forced; `cancelRunningJobs` = `CancelFind` to `CancelUpdate`,
whose purge of the Redis list is a read and a later rewrite; `requestAuditPause` =
`PauseRequest`, `PauseFlag`, `PauseDb`; `failGhostJobIfNeeded` = `PollGhost`,
`FailGhost`.  The run: `ReadRow`, `Claim`, `Start`, the fetch (`FetchMatch`,
`FetchEnd`, `FetchDrain`), the consumers (`Take`, `Score`, `Leave`), then
`ConsumersDone`, `Verdict`, `FinishRead`, `FinishWrite`.  `RunError` is an exception at
any step of the `try` block (before the consumers, in the scan, in a consumer, while
finishing) and `Catch` its handler; `LoopError` is one outside of it, which the worker's
loop catches.  `Boot` fails the running rows and purges the list; `BootFails` is
`onModuleInit` going on after its clean-up threw or found the database read-only
(`cskh.service.ts:234-241`, `:264-271`).

`AuditScan` opens the fetch up: `talk` is what Graph holds, `updated` the order of its
list, `saved` the inbox tables, `marks` how the rows of earlier audits name a
conversation, `scan` the locals (the page of candidates, what was read of each, the
cursor, the tries).  `AuditLink` is what follows a score: `auto` and `asked` are the
two handlers that put the conversation into the inbox, `dates` the dashboard's.
`MonitorJob` is the other job, without a queue; `MonitorProofs` has its theorem.

### Backfill

`Backfill` has sessions (`startBackfill`, `requestBackfillPause`, `cancelAllBackfill`),
runners (the worker's loop, or inline runs of the API process) and the two processes'
memory `mem`: the fields `backfillJobId`, `backfillState.running`, the two request
flags and `backfillCompletedPageIds`, which every run *and* every session of the
process shares.  `row` is the job's row, `keys` and `cache` the Redis keys and the
cached readings.  `executeBackfillJob` and `runBackfillJob` are the pcs `read` to
`catch` of a runner: each `persistBackfillJob` is a check and a write
(`PersistCheck`, `PersistWrite`), pages are scanned by `ScanProgress`, `ScanStops`,
`ScanEnds`, `ScanFails`, the finally block is `Finally`.  `Poll` is the poller that
copies the Redis pause into memory, `Restart` and `BootPurge` a process that starts
anew.  `scanned` and `struck` are history.  `BackfillProofs` has the theorems.

### Slots

`GraphSlots` is one process: `high`, `low`, `depth` are the coordinator's three
counters; requests come from callers of both priorities and from the syncs' own
pages; `until`, `recent`, `key` are the sync signal (deadline in memory, age of the
last write, Redis key).  `Acquire` is the iteration of the poll that finds room.

`AdsSlots` has `inflight` (`graphAdsInflight`), `waiting` (`graphAdsWaitQueue`, by
caller), `limited` (which deadlines lie ahead).  `FifoSlots` is its abstract
specification: a first-come-first-served line for the slots.  `GraphSlotsProofs` and
`AdsSlotsProofs` have the theorems.

### The inbox thread

One Messenger conversation.  `InboxStore` has its state: `fb` what Facebook holds,
`rows` of `cskh_inbox_messages`, `conv` the row of the conversation, `labels`, and the
locals of everybody: `hook` (webhook handlers), `send` (replies), `sync` and `refresh`
(the two readers of Graph), `persist` (the two messages a refresh handles at a time),
`desk` (staff).

| module | handlers |
|---|---|
| `InboxIngest` | `ingestMessagingEvent`: `Upsert` of the conversation, look-up by mid, echo and link, `Insert`; ad clicks; read receipts |
| `InboxReply` | `sendMessage`: the lock per text, the pending row, Facebook's answer, the link or the row that is dropped because the echo was first, the failure |
| `InboxSync` | `syncSinglePageFromGraph` for this conversation; `refreshConversationMessages` with `persistGraphMessage` |
| `InboxDesk` | opening, read, unread, the list's correction, labels with the staff lock; the insert after a deletion may fail (`LabelInsertFails`) |
| `InboxThread` | `Next`, `Spec`, the properties |
| `InboxProofs` | theorems: labels, the rows of the messages, the row of the conversation |
| `InboxThreadMC` | seven instances in one run, and theorems of that run; an eighth, with errors, is in `ServicesMC` |

`Window` is the distance, in messages, over which a refresh matches a row by its time
(`findStoredMessageNearSentAt`, 5 s, `cskh-inbox.service.ts:4551`): in every instance
with a refresh it spans all messages.  `Words` says who writes which texts.

### The worker's lists

`WorkerLists`: requests push Pancake syncs and label jobs under a dedup key, webhooks
push intents, audits and backfills are one slow list; `client` are the two Redis
connections of the worker, `circuit` the quota breaker of its process.  `PopIntent`, `PopSlow`,
`PopJob` and `TryRunOnePancakeJob` are the loop.

### The services

| module | system and state |
|---|---|
| `CommentThread`, `InstagramThread` | comments under one post; the second module extends the first with what Instagram does differently. `stored`, `threads`, `threadOf` are the tables, `work` the handlers' locals |
| `Realtime` | two processes; `channel` is Redis pub/sub, `recent` each process's memory of its own events, `analyses` the background analyses of an intent |
| `PancakeToken` | `session` and `pagesCache` of the user token, `pageToken` against `valid` at Pancake; `overlapped` (page tokens generated while another waited to be stored) and `late` (lists a snapshot wrote after a connect) are history |
| `PancakeLeads` | one lead's row, the worker's sync (whose list of customers may be cut short), repair and labelling against webhook, staff and orders |
| `SapoSync` | the shop goes on changing while products, customers and orders are read page by page |
| `StockOrders` | interactive transactions at READ COMMITTED |
| `OmsOrders`, `OmsSuggest` | an order with customer, conversation, purchase event; the pure suggestion of products from a transcript |
| `PageConnect` | rows `"fb"` and `"ig"` with metadata as sets of keys; every writer that reads, waits and writes back |
| `AdSpend` | the day's row, the search for the account that runs the ads |
| `AdChat` | viewers of one conversation's ad, the answers kept for the conversation over those kept for the ad, the post's address written in the background |
| `InboxListing` | viewers scroll, messages move conversations, caches expire; the line of the counts |
| `AuditScan`, `MonitorJob`, `AuditLink` | see above |
| `PageStats` | ticks, the bump in Redis, the API's memory of it, three caches |
| `InboxRounds` | pollers and rotators over the pages of a tenant; a round is `bare` when it took longer than the 2 s lock from testing `liveCatchUpRunning` to setting it |
| `InboxMedia` | rows of photos, their times in seconds, four resolvers; `raced` (photos of a task that had looked before they showed) is history |
| `Translations` | texts as kinds (Vietnamese, Latin, other script); `omitted` (texts an answer left out) is history |
| `ServicesMC` | 43 small instances (`Parts`), one picked at the start; a theorem about those of the jobs |

## 4. The runs

Each run takes under four minutes with two workers.

| run | instance | shows |
|---|---|---|
| `audit_cancel` | two sessions (run; cancel, force), two jobs, one tenant | `NoOrphan`: no queued row without somebody who will push, run or close it; `LifecycleSpec`: the rows implement `JobLifecycle` |
| `audit_crash` | a session (run, poll) and the scheduler, two jobs, either process crashing and booting at any step, boots that clean up nothing, exceptions inside and outside the `try` of a run, the API without Redis, rows ageing | `RunningHasRunner`: a row runs alone only after a clean-up that failed or an exception outside the `try`; `NoRevivalAfterRun`: claim and finish update by id only, yet never reopen a closed row whose run had begun |
| `audit_run` | one job, two consumers, up to two conversations, pauses, exceptions at every step of the run, Redis failing on the API; fair | `OneRunner`, `DoneMeansAllScored`, `PausedOnlyWhenAsked`, `RunEnds`; `QueuedLeaves`, while the loop keeps coming to the audit list |
| `backfill_run` | a session starts and resumes, another pauses; two pages, failing pages, refused pushes, restarts of both processes; or inline in an API process without Redis, with queries that throw (instance "inline"); fair | `SavedWasScanned`: a page saved as completed was scanned for that job; `CompletedCoversAll`; `RunReturns`: the worker gets back to its loop |
| `graph_all` | three callers, a sync, two rotations, limits 2/1/3 | `Counted`, `Limits`, `HighWaitsForHigh`, `LowYields` |
| `ads_line` | four callers, two slots, two accounts; fair | `SlotsCounted`, `LineSpec`, `WaiterServed` |
| `inbox_thread` | seven instances: two replies with two texts; repeated and overtaking webhooks; replies, webhooks and syncs with lost webhooks; the same with a refresh that matches by time; staff at their desks, whose labels may fail to be written; answers, and syncs, between webhooks in turn | `OneRowPerMessage`, `RepliesTold`, `ClaimKept`, `StatusKept`; `EachInOrder` (flag and preview are those of the last message) and `EachSeenInOrder` (an unseen message leaves the conversation unread) for the instances in which the code keeps them (section 6 says which it does not) |
| `worker_lists` | two pages with syncs and one with labels, refused pushes, connections that break, the breaker, failing analyses; fair | `SyncServed`: a Pancake sync that was pushed is run |
| `services` | the 43 parts | `CommentsShown`, `EventsOnce`, `PancakeAgrees`, `SapoCaughtUp`, `SalesAccounted`, `PagesLinked`, `SpendShared`, `ListsWhole`, `ScanFinds`, `JobsTellTruth`, `NumbersFresh`, `RoundsTurn`, `InboxFilled`, `TranslationsKept`: each joins the properties of one or a few modules, part by part |
| `audit_parallel`, `backfill_hold`, `graph_full` | | disagreements, section 6 |

**Bounds.** Two jobs are needed for a row that is created while another one is
cancelled, purged or run, and suffice for pairs of actors; two conversations with two
consumers give one that is scored beside one that waits when the pause or the exception
comes, and a consumer its second round when the other is slow; two pages are a page before and a page after an interruption, and since
one page is like another the saved set grows one at a time; three callers with limits
2/1/3 fill each class and the total separately.  `Jobs` bounds how many rows are created
(`OutOfIds` ends a request that would need another), `MaxConv` the conversations of a
run (none where only the rows are looked at), `MaxQueue` the Redis list of the backfill (one entry in `backfill_run`, two in the part "backfill queued" of
`services`, since a job that is resumed while an old entry waits is there twice), `Inline` the inline runs at one time.

In the thread, two or three messages (`MaxMsgs`) and four rows (`MaxRows`) give a
message and its reply, an echo before the answer, and a copy of a sync beside them.
In the services every bound is the smallest with which the case happens: two comments
under a post; two messages and three events; two callers for a rejected page token and
up to four generated tokens (`MaxGenerations`); products and pages of one row
(`PageSize = 1`) so that a list moves between two pages; two buyers on two warehouses;
three conversations where the first page of the inbox is one row, and pages of two in the
audit's scan, so that the first older conversation has one beside it; the real windows of 5,
8, 10 and 15 s with photos 1 to 7 s apart; up to three conversations on a page of the monitor, of
which it fetches two; clock ticks up to 4 (`MaxNow`), twice the memory of a
reading.  `MaxTaken`, `MaxTalk`, `MaxWrites`, `MaxCount`, `MaxSpend`, `MaxTexts`,
`MaxCustomers`, `MaxPresses` and `MediaRounds` bound how often the environment acts.

Symmetry is used for jobs, texts and handlers in runs without liveness.
`ServicesMC` and `InboxThread` turn the deadlock check off: when all that the bounds
allow has happened, nothing is left to do.

**Fairness.** Node resumes every continuation whose promise is settled, and every
HTTP call, page scan and scoring call has a timeout, so a step that has begun is taken
(weak fairness of the handlers', runs' and boots' steps).  Nobody has to send a request
and no fault has to happen.  `FairSpec` of the audits says nothing of `Pop`: the worker is one
serial loop over six lists of which the audits' is the last (`redis-queue.service.ts:438-446`),
and lists before it that refill starve it (`SlowServed`, section 6).  `QueuedLeaves` therefore has
weak fairness of `Pop` as its premise; what it shows is that nothing in the audits' own handlers
keeps a row queued.  A page scan may save its progress any number of times, but
its pages are finite, hence strong fairness of the end of a scan; a request that polls
for a slot is admitted only if room stays (weak fairness of `Acquire`).  In
`WorkerLists` the loop and the connections' retries are weakly fair, and `SyncServed`
asks only for times when Redis stays up in the end (`<>[]Well`).

## 5. The proofs

TLAPS checks the following for every value of the constants.

**Audit jobs.**

- `AuditJobsProofs!TypeCorrect`: `TypeOK`, for any number of jobs, sessions, tenants,
  pages and consumers and every fault.  `TypeOK` also says that an actor in the middle
  of something holds a job, which the other proofs need.
- `NoDoubleRun` (`OneRunner`), `RefinesLifecycle` (`LifecycleSpec`) and
  `NoRevival` (`NoRevivalAfterRun`), unless `"lost reply"` is among the faults.  The
  invariant is `IInv == TypeOK /\ Ownership`.  *OwnedByOne*: a job that an API handler is
  about to push or is running is in no other hands, not on the list, and in no reading
  of the list that a purge will write back.  `OneRunner` alone is not inductive: the list
  may hold a job twice, or a purge may put back what was popped.  *Created*,
  *ClaimsAgree* and *RunsClaimed* tie the statuses to the number of claims (`0` while
  queued, `1` once running), which is what makes the id-only update of the claim
  harmless for the lifecycle.  With a lost reply the handler runs the job inline while
  the worker pops it.
- `RunningIsRun` (`RunningHasRunner`), with every fault.  Given `TypeOK` it is inductive
  by itself: a claim makes its actor the runner, and whatever takes a runner away, its
  finish, an error in its `try` block or a crash, closes the row or leaves the process
  booting.  Two things do neither, and `stranded` names the rows they leave: a boot that
  cannot clean up, and an exception outside the `try`.
- `QueuedIsCarried` (`NoOrphan`), for one tenant, without crashes and without exceptions
  outside the `try`.  `OrphanInv` adds that only sessions cancel and that every process is
  up.  What a purge drops is what its own cancel will close, since a cancel of the only
  tenant closes every row.  All conditions are needed (section 6).
- `DoneIsScored` (`DoneMeansAllScored`), unless a reply is lost, and unless rows age
  while Redis fails on the API.  `DoneInv` follows the conversations of a run: while it
  is at work, `processed + inflight + waiting` equals `fetched` or the run has been told
  to stop (*Accounted*); outside a run the locals have their first values (*Rested*);
  *NoneOld* and *RedisHolds* carry the two conditions.  With both faults a handler that
  runs a job inline loses its stop flag to another handler's stale release.
- `PausedIsAsked` (`PausedOnlyWhenAsked`), unless a reply is lost.  `PauseInv`: a flag,
  in memory, in Redis or in the row, belongs to a job somebody asked to stop
  (*FlagsAsked*, *PausersAsked*), and what the worker's scan remembers of a stop is
  that job's or the end of its row (*WorkerAsked*).

**Slots.**

- `GraphSlotsProofs`: `Counted`, `Limits`, `HighWaitsForHigh`, `LowYields` for any
  callers, syncs and limits.  `Safe == TypeOK /\ Counted /\ Limits` is inductive: the
  cardinality of the holders changes by one exactly when a counter does, so the
  `Math.max(0, ...)` of the release never hides a lost slot.
- `AdsSlotsProofs`: `SlotsCounted`, and that counter and callback queue implement
  `FifoSlots`.  `Safe == TypeOK /\ SlotsCounted`: the count, the queue without
  repetitions and "nobody waits beside a free slot" need each other.

**Backfill.**

- `BackfillProofs!TypeCorrect`: `TypeOK`, with Redis or without and with every fault, for
  any sessions, tenants, jobs and pages.
- `SavedIsScanned` (`SavedWasScanned`) and `CompletedIsWhole` (`CompletedCoversAll`), with
  Redis and as long as no session cancels (`NoCancels`); pauses, resumptions, failing
  pages, refused pushes and restarts of both processes are included.  The invariant is
  `ProgressInv`.  *RunCovers*: what the run has not scanned it still has to do, and what
  it counts as done it has scanned.  *SavingIsHonest*: what is between the check and
  the write of `persistBackfillJob` was scanned.  *StopIsSeen*: a scan that was cut short
  was cut short by a pause, which the run remembers when it decides about the page.
  The last is what a cancel breaks, and then progress is not honest (section 6).
  Without Redis the sessions of one process share one memory of the job with the run.
- `WorkerIsFree` (`FreeWhenIdle`), with cancels, forced starts, pauses and restarts, with
  Redis or without, unless a query throws (`NoRunError`, section 6).  `FreeInv`: a run
  gives up "running" before its last save, and from then on, through every write and
  clearing of a flag until the next run has cleared the old ones, it is off.

**Monitor.**

- `MonitorProofs!DoneIsTold` (`DoneIsShown`), for any number of monitors side by side, of
  pages and of conversations, whatever requests fail and whichever process boots.  The
  sums are raised before a page's rows are saved, so neither half is inductive alone:
  `MonitorInv` says that the sums are those of the rows of the pages counted, and that
  the rows in the table are those of the pages stored; at the end both are all pages.
  The hypothesis `MonitorConstants` asks for at least one page, lists as Graph's
  answers, and that rows can be saved: a page whose save fails stays counted.

**The inbox thread.**

- `InboxProofs!StatusLabelsStay` (`StatusKept`) and `ClaimedStays` (`ClaimKept`), for any
  handlers and every fault.  `ClaimInv`: a conversation that was claimed shows a label
  of staff, or somebody is between the two statements of a claim, or the second of them
  failed and nobody has claimed it since: they are not one transaction
  (`cskh-inbox-labels.service.ts:703`, `:711`).
- `StoredOnce` (`OneRowPerMessage`) and `RepliesAreTold` (`RepliesTold`), for any number
  of webhooks, replies, syncs, messages and rows, in the settings `Calm`: webhooks may
  be repeated, overtaken or lost.  The invariant `ThreadInv` says of which message each
  row is (*RowsTrue*, *OneRowOfMid*), which reply owns a row without a mid
  (*PendingOwned*, *SendsTrue*), that a message of the page has its row or a reply that
  waits for Graph's answer (*EchoesExpected*), and that a handler that is about to
  write a mid has the row of that message (*LinksTrue*); a message that was delivered has
  its row or a webhook handler at work (*DeliveredHandled*).  `Calm` excludes what breaks
  these: a reply typed in Facebook's own inbox beside one from here, which may be taken
  for its echo; photos, whose echoes carry no text to match; a failed call or query; and
  a refresh beside replies from here, or of messages within 5 s of each other, whose rows
  it may take for one another's, since it matches by time (`Apart`).  The run has a
  refresh beside replies within the 5 s nevertheless (instance "refreshed", and there the
  row is right because there is one reply at a time, in words of its own); section 6 has
  what goes wrong otherwise.  `TextStays` (`TextKept`) follows from the same invariant.
- `RowIsLast` (`InOrder`) and `UnseenStaysUnread` (`SeenInOrder`), of which each part has
  its rules in `InboxThread`: webhooks in turn (some may be lost), Facebook taking every
  reply for the flag, nobody writing from an old listing for preview and count.  The
  invariant `ConvInv` speaks of the messages that are *caught up* with, those whose
  webhook has written the conversation.  `TurnInv`: nothing later than the message a
  webhook is about to write was delivered, so what it writes is never old.  `FlagInv`
  and `PreviewInv` (the latter over `ThreadInv`): unless a reply has written the
  conversation and is not on Facebook yet, flag and preview are those of the last
  message once it is caught up with.  `CountInv`: a message that waits unseen and is
  caught up with is counted; no member of staff acts on what they read earlier; and
  beside syncs only customers have written, so a sync's listing ends with a message that
  counts.  Section 6 has the counterexample for each rule left out.
- `InboxThreadMC!EachLast` and `EachSeen` are these results for the run as it is: the
  constants of its seven instances satisfy the assumptions (`InstanceConstants`), some of
  them keep the rules (`RulesKept`; the run names what it checks of which), and each
  `ConvInv` holds while its instance is the chosen one.

**Services.**

- `ServicesMC!JobsAreTrue` (`JobsTellTruth`) does the same for the parts "monitor",
  "backfill queued" and "backfill stopped", from `MonitorInv`, `ProgressInv` and `FreeInv`.


The models write an update of several fields of one record as
`![r] = [@ EXCEPT !.a = ..., !.b = ...]` and never repeat a key that is not a literal, nor
nest `@`: tlapm 1.4.5 does not translate those forms faithfully, and no proof here
relies on it.

Assumptions on constants are the named `ASSUME`s of the modules (`ConstantsOK`,
`GraphSlotsConstants`, `AdsSlotsConstants`: a positive ads limit, `BackfillConstants`: at
least one tenant, `InboxConstants`: `"media"` is not the text of a reply, `NotAPhoto` and
`NotTheirs`: the same, and distinct names, for the instances), which TLC evaluates.  What a
single theorem asks for besides is in its statement, under `ASSUME`.

Only model-checked: liveness (`QueuedLeaves`, `RunEnds`, `RunReturns`, `WaiterServed`,
`SyncServed`), which is outside the prover's reach; and the properties of the services
other than `JobsTellTruth`: each belongs to a small module of its own and needs an
invariant of its own, and is left for later (section 2).

## 6. Where code and text disagree

Runs that TLC finds violated, each with its line in PROJECT.json "findings":

- `audit_parallel`: `runAudit` looks for an active job and later creates one; a session
  and the scheduler get two for one tenant, which a test says cannot be.
- `backfill_hold`: a pause in the middle of a page saves `paused` and the finally block
  then saves `running`: the job can be neither started nor resumed.
- `graph_full`: a full sync counts itself as a sync, which closes the low class, and
  then asks for a low slot: it never ends, later syncs are skipped, low requests hang.

**Other counterexamples.** TLC finds these the same way, with a configuration of the
module named: the constants of its run or part, changed as the second column says.
They are why the runs state what they state, and not more.

| property | instance | what happens |
|---|---|---|
| `AuditJobs!CancelledIsNotScored` | `audit_cancel`, one consumer, one conversation, `Ops <- AskAndCancel` | `runAuditJob` reads the row (`cskh.service.ts:3971`) and later claims it by id: a cancel in between is overwritten and the job is scored |
| `AuditJobs!CancelledHasNoAudits` | the same | `cancelRunningJobs` deletes a job's audits (`:361`) while a scoring call in flight inserts one afterwards |
| `AuditJobs!NoOrphan` | two tenants, `TenantOf <- TwoTenants`, `Ops <- AskAndForce` | `purgeAuditQueueForJobIds` (`redis-queue.service.ts:658`) writes back a reading of the list and drops a job that another tenant pushed meanwhile |
| `AuditJobs!NoOrphan` | `"loop error"` | a query throws between the pop and the claim (`cskh.service.ts:3971`): the loop catches it, the item is gone and the row stays queued |
| `AuditJobs!RunningHasRunner` without `stranded` | `audit_crash` | a boot whose clean-up throws or finds the database read-only goes on (`:234-241`, `:264-271`); an exception in the catch block of a run (`:4718`) leaves its row running |
| `AuditJobs!NoOrphan` | `audit_cancel` with `"crash worker"`; with `"crash api"` | the boot's purge drops a row pushed since the boot began; a handler that stops between `createJob` and the LPUSH (`cskh.controller.ts:812`) leaves a row nobody holds |
| `AuditJobs!DoneMeansAllScored` | one job, sessions `{"run"}`, `{"pause"}`, `{"run"}`, `Faults = {"redis api", "aging"}` | a consumer of an inline run leaves because of a pause, another request's stale release forgets the flag, and the scan goes on and ends as done with what it found unscored |
| `AuditJobs!OneRunner`, `PausedOnlyWhenAsked` | one job, `"lost reply"` | an LPUSH took effect although its call failed: handler and worker run the same job, and one is paused by the other's cancel |
| `AuditScan!FoundAll` without `dropped` | as `services` | the scan returns at the first older conversation (`facebook-graph.service.ts:498-512`) and drops the candidates before it in the same batch, although `:310` says it stops early at a conversation older than the day |
| `Backfill!CancelHolds` | one job, one page, one session that starts and cancels | `persistBackfillJob` (`cskh-inbox.service.ts:586`, `:613`) asks whether the job is cancelled and then writes `running` by id over a cancel |
| `Backfill!CancelStops` | two pages, `Inline = {r1}`, `Redis = FALSE` | `cancelAllBackfill` (`:5870`) resets the flags and the job id before an inline run has looked at them: the run goes on |
| `Backfill!RunningIsCarried` | one session that starts, `"push error"` | LPUSH throws, the inline fallback is refused (`:6041`) and the row stays running |
| `Backfill!FreeWhenIdle` | `"run error"` | the query of the pages (`:6114`) throws outside the try block: the process believes it is running for ever |
| `Backfill!SavedWasScanned` | two jobs, `Inline = {r1, r2}`, `Redis = FALSE` | two inline jobs both pass the guard (`:6071`) and share one memory |
| `Backfill!SavedWasScanned` | `Redis = TRUE`, two sessions: `{"start"}` and `{"pause", "cancel"}` | a resume writes `running` by the id it read over a cancel; the scan has stopped on the cancelled row by then, and the check after it finds the row running and counts the page as done |
| `GraphSlots!SyncAnnounced` | one caller, one sync, one rotation | `clearInboxSyncActive` keeps the time of the last write (`cskh-redis-signals.service.ts:149`, `:166`): the next sync is not announced |
| `AdsSlots!PausedWhenLimited` | as `ads_line` | limits are checked before the wait for a slot (`facebook-ads.service.ts:296`): queued requests are sent while the account is paused |
| `InboxThread!UnreadExact` | `"redeliver"` | the count is incremented (`cskh-inbox.service.ts:1587`) before the message is looked up by its mid |
| `InboxThread!NeedsReplyRight`, `PreviewRight` | `"reorder"` or a reply in flight | each event writes last message and flag by itself (`:1577-1591`): the older one may write last |
| `InboxThread!RepliesTold`, `OneRowPerMessage` | `"db error"` | the update of a row whose reply Facebook took throws (`:5014`): it is shown as failed |
| `InboxThread!UnseenIsUnread` | staff list or open | the correction of the list reads the last message and zeroes the count by id (`:3361`) |
| `InboxThread!UnseenIsUnread`, `PreviewRight` | instance "everybody" with `MaxMsgs = 3` | a sync lists the thread, a message comes in, and the sync's write of the conversation takes count and preview from its old listing (`:6448-6526`) |
| `InboxThread!PreviewRight` | refresh or ad | the refresh writes the preview of the listing it has read (`:3956`) over a newer one; an ad click is no message but has a preview |
| `InboxThread!RepliesTold`, `OneRowPerMessage` | "refreshed" with two senders; or with a customer who uses the words of the reply | the refresh gives the pending row of one reply, found by time or by its text alone (`:4551`, `:4567-4573`), the mid of another message: that message can end without a row, and the reply without its own mid |
| `InboxThread!TextKept` | "refreshed" with two messages of the customer | a row found by its time takes another message's text |
| `InboxThread!StaffKept`, `AwaitingUnlabeled` | two members of staff claim | look-up and write of the staff label are apart (`cskh-inbox-labels.service.ts:618-645`); when the insert of the second fails (`:711`), after its deletion of the first's label (`:703`), a claimed conversation is nobody's |
| `CommentThread!ShowsNewest` | two writers | the thread's last comment is that of the last writer |
| `CommentThread!CountedOnce` | `"redeliver"` | the increment is decided two awaits before the write (`cskh-facebook-comments.service.ts:688`) |
| `CommentThread!NoEmptyThread`, `OneThreadPerPerson` | `"anonymous"` | without an author the key is the comment's (`:474-476`) |
| `WorkerLists!LabelServed`, `SlowServed` | as `worker_lists` | syncs are popped before labels (`redis-queue.service.ts:568`), messages before audits: a list that refills starves the one behind it |
| `WorkerLists!RedisReturns` | the breaker trips | a connection that was given up is not opened again |
| `Realtime!EmittedEverywhere`, `EmittedOnce` | `"no redis"`, `"slow echo"` | two updates within 5 s share a key (`cskh-inbox-realtime.service.ts:244`); a late echo is emitted again |
| `Realtime!IntentIsNewest` | two processes | the event of an older analysis is the last |
| `PancakeToken!ListOfToken` | as `services` | the snapshot of the old token's pages, which looked the row up before the connect (`pancake.service.ts:103-111`, `:248`), is written into the new token's row: staff are shown the pages of another token until the list is loaded again |
| `PancakeToken!NewestIsStored`, `SnapshotThere` | two callers rejected at once; a refused list | the earlier token is stored last (`:403`); the snapshot is not there although it was loaded once (`:375`) |
| `PancakeLeads!SyncHeals` without `born` | as `services` | the list of customers is cut at `maxPages` (`pancake.service.ts:1221`, `:1237`) and the pass over the conversations makes the row, with the tag as a label and the default stage (`:1617-1640`) |
| `PancakeLeads!AlwaysAgrees`, `PhonesKept`, `NoFollowedCustomer` | two writers | stage and labels, phones and the follow-up mark are written from rows read before an await (`:1166`, `:1920`) |
| `SapoSync!ProductsCaughtUp`; `CustomersCaughtUp` | as `services`; `"newest first"` | the list moves between two pages, and the import resumes where its count points to |
| `StockOrders!NeverOversold`, `AllDeducted`, `CatalogFresh` | as `services` | the sum of the warehouses is checked, one warehouse must hold the quantity (`sapo-order.service.ts:100`): an order is made without stock, or two decrement one row below zero |
| `OmsOrders!OneOrder`, `OneCustomer` | as `services` | a lost reply or a second press makes a second order |
| `OmsSuggest!NamedIsSuggested` | as `services` | a product whose full name the customer wrote is left out when another word follows it, which the match takes for a part of the name (`oms-product-match.util.ts:203-239`) |
| `PageConnect!LinkKept` without `Held` | as `services` | metadata read before the repair is written back without the link (`LinkRestored`: until the next sync) |
| `PageConnect!StatusSettles`, `OffStaysOff`, `HintKept`, `NewestTokenUsed` | as `services` | a restart leaves the session running (`cskh.service.ts:3223`); refresh and connect overwrite what staff, hints or a newer connect wrote (`:2362`) |
| `AdSpend!SpendKept`, `SpendGrows`, `MissIsKnown`, `ConnectSeen` | as `services` | a failed sync writes null over a spend (`cskh.service.ts:1165-1183`); an older answer lowers it; an account is kept as a miss after a failed search (`facebook-ads.service.ts:164`, `:800`) |
| `AdChat!RefreshWins`; `PostOfAd`; `NewestClick` | two viewers; two ads; `"guessed"`, `"resolves"` | a view that began before a refresh stores its older answer after it (`cskh.service.ts:1640`); the post's address stays when a newer click has none, or is written after it (`cskh-inbox.service.ts:1993`, `cskh.service.ts:1663`); an ad found in an old message is written over a newer click (`cskh.service.ts:1596`) |
| `InboxListing!ScrollFromAsk`, `LabelsShown` | `"mixed"` | a shared load started earlier, or without labels (`cskh-inbox.service.ts:2521-2536`), answers a later viewer |
| `MonitorJob!OwnPlatform`, `WaitsAlike`, `EndKept`, `OneMonitor` | as `services` | the plain list forgets the platform (`cskh.service.ts:3688`) and judges by the last message only; the boot's failure is overwritten (`:3575-3594`); nothing keeps a second monitor out (`cskh.controller.ts:721`) |
| `PageStats!TotalsGrow`, `NumbersFollow`, `NumbersOfPages`, `LiteTrue` | as `services` | an older refresh writes last (`:2158`), and it writes no row for a page without messages; the bump comes before the refresh (`cskh-inbox.service.ts:6242`, `:6256`); the key of the numbers is the count of pages (`cskh.service.ts:2055`); removing a page leaves the cached plain list as it is (`:2582`) |
| `InboxRounds!OneRotation`, `RoundAlone`, `RoundRobin`; `OneRound` without `bare` | as `services`; two tenants | both flags are set several awaits after their test (`cskh-inbox.service.ts:3088` and `:3103`, `:3247`, `:3213`); one cursor serves all tenants (`:3280`) |
| `InboxRounds!InstagramRead` | `"capability"`, two accounts | the first account by name is chosen also while it is left alone (`:3108-3112`): the round reads none though another could be read |
| `InboxMedia!PhotoOnce`, `OwnPhoto`, `AllShown` | albums without URLs in the webhook, tasks at once | the album's window is 15 s (`:4674`, `:4744`), that of the rows 8 s (`:4578`): a photo shows twice, and another not at all |
| `InboxMedia!PhotoOnce`, `OwnPhoto`, `AllShown` | photos within 5 s, beside a refresh | the row is found by time alone (`:4545`) and takes the neighbour's photo |
| `InboxMedia!PhotoOnce`; `AllShown` | photos 10 s apart without URLs; the same with tasks at once | the two windows again: one photo for two rows |
| `InboxMedia!OwnPhoto`, `TextStays`; `SweepReaches` | a text near an album; the same beside a refresh | a row found by time may be a text (`:4593-4604`) |
| `InboxMedia!SweepReaches` | `"unresolved"` | rows Graph cannot resolve fill every batch (`:4165`) |
| `AuditLink!PreviewForward`, `MetaKept`, `GraphIdReal`, `OwnAudit` | as `services` | the preview is written from an old transcript (`:6864-6870`, `:7077-7085`); metadata is written back whole (`:6932-6940`); an id of the table is stored as Graph's (`:6848`); audits are matched by name (`:7129-7131`) |
| `Translations!TongueTrue`; `TranslationKept`, `NothingGivenUp` without `omitted` | as `services` | a failed detection is stored as Vietnamese (`ai.service.ts:495`, `:512`); a text the service left out is stored as its own translation, also over a translation (`:462-472`) |

Also seen while modelling: the API stopping between `createJob` and `LPUSH` leaves a
queued row until the stale release or a worker boot; a pause during a fetch in which
everything was scored before ends the job as done (`cskh.service.ts:4636`).

## 7. Abstractions

- *Audit*: one age limit instead of several (a row is older than all of them or than
  none); a session whose request runs the job inline is busy until the run ends,
  though the code detaches it; what a conversation contains is left out, a run finds up
  to `MaxConv` new ones; dates and page filters are checked before the model begins.  An
  exception in a consumer that nobody waits for yet is an unhandled rejection and ends the
  process (`Crash`), as does one outside the `try` of an inline run, which is not awaited.
  *Scan*: Graph's cursor is the time of the last conversation listed.  *Links*: name,
  picture and the content of an intent are left out.
- *Backfill*: the loops of a cancel over several jobs are one step each; the Redis read
  and the row read of the cancel check are one step; whether Redis exists is fixed for a
  deployment (`Redis`), single pushes may fail; all tenants have the same pages; the
  cached reading expires only for a process that runs the job; restarts are not combined with
  inline runs (a restarted process and a second inline run mix their memories, section
  6); a page scan that outlives its timeout is not followed.
- *Graph slots*: the 120 s a low request yields may end at any time, since the signal it
  reads may be stale; cooldowns of the rotation are a nondeterministic skip; the
  inbox-hot signal is left out.
- *Ads*: only `graphGet`; a limit ends at any time.  *Spend*: the search that fills the
  hint from the session and from the row are one; one ad set, whose campaign spends
  alike.  *Ad of a conversation*: the ad's picture, the count of its conversations and a
  click that names no ad are left out, the page has its token, and the page's estimate
  is only why there is one or none (its search is `AdSpend`).
- *Inbox thread*: the three look-ups of `persistGraphMessage` are one read; the delivery
  status of the customer's messages and the limits of lists and of Graph's pages are
  left out.  *Lists*: all filters are one key.  *Media*: previews are left out, the
  webhook's look-up and insert are one step, Graph holds all messages from the start.
  *Translations*: texts are their kinds.
  *Rounds*: when Redis fails the lock of the catch-up lets everybody through, which is left
  out.  *Realtime*: events of labels are left out.
- *Comments*: edits, post rows and publications are left out; the sync is of one post; the
  inbox can be written (an error of `upsertInboxThread` or `mirrorToInbox` is only logged, and
  such a comment is not shown).
- *Worker lists*: the webhook list, which nothing pushes to, is left out; the audit and
  backfill lists are one.
- *Pancake*: one customer is one row; last message and type are left out; a queued sync
  of all pages drops its platforms and limit, as the code does; a lead that has a
  conversation is among those the sync reads (40 pages of each type).
- *Sapo*: a product has one variant; a line without a variant whose SKU is not stored is
  skipped; the shop lists the oldest first; collections, the order's link to its customer and
  unpublishing are left out.  *Page connections*: `canMessage` is true.
- *Page numbers*: one number per page.

## 8. Not modelled

Authentication, users, the media library and the administration of labels read or
write one row per request, with uniqueness by the database.  Insight and product
analytics read and add up.  The Prisma set-up and the wiring keep no state of the
program; parsing and formatting (phones, messages, products) are pure functions of
their input, of which only the suggestion of products is modelled because its score is
an algorithm of its own.  Of modelled components the following is left out: manual
saves of a page's settings and TikTok's pages (`cskh.service.ts:2381-2551`), the
webhook list and the heartbeat of the worker, the backfill's scope `empty` and mode
`all`, and code nothing calls.  PROJECT.json lists every component with its reason.
