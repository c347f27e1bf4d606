----------------------------- MODULE WorkerLists -----------------------------
(***************************************************************************)
(* The lists of the one worker (src/src/cskh/redis/redis-queue.service.ts) *)
(* beside audits and backfills, which have modules of their own: intents   *)
(* that customers' messages push, Pancake jobs that staff ask for, with    *)
(* their dedup keys; and the two Redis clients of the worker with the      *)
(* circuit breaker (cskh-redis-client.ts, cskh-redis-circuit.ts).          *)
(***************************************************************************)
EXTENDS Integers, Sequences, FiniteSets, Functions

CONSTANTS
    SyncPages,      \* pages of which a Pancake sync is asked for
    LabelPages,     \* pages whose leads are to be labelled
    MaxIntents,     \* bound: intents waiting
    MaxJobs,        \* bound: Pancake jobs of one kind waiting
    QueueFaults     \* subset of {"push fails", "analysis fails", "outage", "quota"}

Kinds == {"sync", "label"}
Pages == SyncPages \cup LabelPages

VARIABLES
    intents,        \* how many intents wait
    jobs,           \* the Pancake lists: pages, oldest first
    slow,           \* audit or backfill job waiting
    keys,           \* dedup keys that have not expired
    pushing,        \* requests that have set their key and not pushed yet
    worker,         \* what the worker does
    client,         \* status of the main and of the blocking client
    circuit         \* the breaker of the worker's process

queueVars == <<intents, jobs, slow, keys, pushing, worker, client, circuit>>

Idle    == [pc |-> "idle"]
Ready(c) == client[c] = "ready" /\ circuit = "closed"

---------------------------------------------------------------------------
\* enqueuePancakeSync, enqueuePancakeAutoLabel: the key first; a second request within its
\* time is answered "queued" as well.
Ask(kind, p) ==
    /\ p \in (IF kind = "sync" THEN SyncPages ELSE LabelPages)
    /\ <<kind, p>> \notin keys
    /\ keys' = keys \cup {<<kind, p>>}
    /\ pushing' = pushing \cup {<<kind, p>>}
    /\ UNCHANGED <<intents, jobs, slow, worker, client, circuit>>

Push(kind, p) ==
    /\ <<kind, p>> \in pushing
    /\ Len(jobs[kind]) < MaxJobs
    /\ pushing' = pushing \ {<<kind, p>>}
    /\ jobs' = [jobs EXCEPT ![kind] = Append(@, p)]
    /\ UNCHANGED <<intents, slow, keys, worker, client, circuit>>

\* LPUSH throws: the caller hears of it, the key stays.
PushFails(kind, p) ==
    /\ "push fails" \in QueueFaults
    /\ <<kind, p>> \in pushing
    /\ pushing' = pushing \ {<<kind, p>>}
    /\ UNCHANGED <<intents, jobs, slow, keys, worker, client, circuit>>

KeyExpires(kind, p) ==
    /\ <<kind, p>> \in keys \ pushing
    /\ keys' = keys \ {<<kind, p>>}
    /\ UNCHANGED <<intents, jobs, slow, pushing, worker, client, circuit>>

\* enqueueIntent, for every customer's message that is published (without Redis the analysis
\* runs where the message was ingested, and no list knows of it).
EnqueueIntent ==
    /\ intents < MaxIntents
    /\ intents' = intents + 1
    /\ UNCHANGED <<jobs, slow, keys, pushing, worker, client, circuit>>

SlowJob ==
    /\ ~slow
    /\ slow' = TRUE
    /\ UNCHANGED <<intents, jobs, keys, pushing, worker, client, circuit>>

---------------------------------------------------------------------------
\* runUnifiedQueueWorker: BRPOP takes from the first list that has something.
CanPop == worker = Idle /\ Ready("main") /\ Ready("blocking")

PopIntent ==
    /\ CanPop /\ intents > 0
    /\ intents' = intents - 1
    /\ worker' = [pc |-> "intent"]
    /\ UNCHANGED <<jobs, slow, keys, pushing, client, circuit>>

Take(kind) == /\ jobs' = [jobs EXCEPT ![kind] = Tail(@)]
              /\ worker' = [pc |-> "job", kind |-> kind, page |-> Head(jobs[kind])]

PopJob(kind) ==
    /\ CanPop /\ intents = 0
    /\ jobs[kind] # <<>>
    /\ kind = "label" => jobs["sync"] = <<>>
    /\ Take(kind)
    /\ UNCHANGED <<intents, slow, keys, pushing, client, circuit>>

PopSlow ==
    /\ CanPop /\ intents = 0
    /\ \A kind \in Kinds : jobs[kind] = <<>>
    /\ slow
    /\ slow' = FALSE
    /\ worker' = [pc |-> "slow"]
    /\ UNCHANGED <<intents, jobs, keys, pushing, client, circuit>>

\* The analysis ends, at the latest 30 s after a busy inbox has held it up.
AnalysisEnds ==
    /\ worker.pc = "intent"
    /\ worker' = [pc |-> "one more"]
    /\ UNCHANGED <<intents, jobs, slow, keys, pushing, client, circuit>>

\* An error skips what follows the job; the loop sleeps for 3 s.
AnalysisFails ==
    /\ "analysis fails" \in QueueFaults
    /\ worker.pc = "intent"
    /\ worker' = [pc |-> "sleep"]
    /\ UNCHANGED <<intents, jobs, slow, keys, pushing, client, circuit>>

\* Mutant of TryRunOnePancakeJob: the worker goes back to BRPOP at once.
TryRunNoPancakeJob ==
    /\ worker.pc = "one more"
    /\ worker' = Idle
    /\ UNCHANGED <<intents, jobs, slow, keys, pushing, client, circuit>>

\* After an intent one Pancake job gets its turn, whatever else waits.
TryRunOnePancakeJob ==
    /\ worker.pc = "one more"
    /\ \/ ~Ready("main") /\ worker' = Idle /\ jobs' = jobs
       \/ Ready("main") /\ jobs["sync"] # <<>> /\ Take("sync")
       \/ Ready("main") /\ jobs["sync"] = <<>> /\ jobs["label"] # <<>> /\ Take("label")
       \/ Ready("main") /\ (\A kind \in Kinds : jobs[kind] = <<>>) /\ worker' = Idle /\ jobs' = jobs
    /\ UNCHANGED <<intents, slow, keys, pushing, client, circuit>>

JobEnds ==
    /\ worker.pc \in {"job", "slow", "sleep"}
    /\ worker' = Idle
    /\ UNCHANGED <<intents, jobs, slow, keys, pushing, client, circuit>>

---------------------------------------------------------------------------
\* A connection breaks.  Two attempts to connect again follow (retryStrategy); then, or if
\* the circuit is open, the client has ended and nothing revives it.
ConnectionLost(c) ==
    /\ "outage" \in QueueFaults
    /\ client[c] = "ready"
    /\ client' = [client EXCEPT ![c] = "retry 1"]
    /\ UNCHANGED <<intents, jobs, slow, keys, pushing, worker, circuit>>

Reconnect(c) ==
    /\ client[c] \in {"retry 1", "retry 2"}
    /\ circuit = "closed"
    /\ client' = [client EXCEPT ![c] = "ready"]
    /\ UNCHANGED <<intents, jobs, slow, keys, pushing, worker, circuit>>

RetryFails(c) ==
    /\ client[c] \in {"retry 1", "retry 2"}
    /\ client' = [client EXCEPT ![c] = IF @ = "retry 1" /\ circuit = "closed" THEN "retry 2" ELSE "end"]
    /\ UNCHANGED <<intents, jobs, slow, keys, pushing, worker, circuit>>

\* onRedisQuotaTripped: an answer with the quota error of the provider opens the circuit for
\* half an hour; the worker is at rest meanwhile.
QuotaTrips ==
    /\ "quota" \in QueueFaults
    /\ \E c \in DOMAIN client : Ready(c)
    /\ circuit' = "open"
    /\ UNCHANGED <<intents, jobs, slow, keys, pushing, worker, client>>

CircuitCloses ==
    /\ circuit = "open"
    /\ circuit' = "closed"
    /\ UNCHANGED <<intents, jobs, slow, keys, pushing, worker, client>>

---------------------------------------------------------------------------
Init ==
    /\ intents = 0 /\ slow = FALSE
    /\ jobs = [kind \in Kinds |-> <<>>]
    /\ keys = {} /\ pushing = {}
    /\ worker = Idle
    /\ client = [c \in {"main", "blocking"} |-> "ready"]
    /\ circuit = "closed"

Work == PopIntent \/ (\E kind \in Kinds : PopJob(kind)) \/ PopSlow
        \/ AnalysisEnds \/ TryRunOnePancakeJob \/ JobEnds

Requests == \/ \E kind \in Kinds, p \in Pages :
                  Ask(kind, p) \/ Push(kind, p) \/ PushFails(kind, p) \/ KeyExpires(kind, p)
            \/ EnqueueIntent \/ SlowJob

Redis == \/ \E c \in DOMAIN client : ConnectionLost(c) \/ Reconnect(c) \/ RetryFails(c)
         \/ QuotaTrips \/ CircuitCloses

Next == Work \/ AnalysisFails \/ Requests \/ Redis

\* The worker's loop goes on while its clients are ready, half an hour ends, and a client
\* that may connect does so or gives up.  Nothing is assumed of the requests.
Fairness == /\ WF_queueVars(Work)
            /\ WF_queueVars(CircuitCloses)
            /\ \A c \in {"main", "blocking"} : WF_queueVars(Reconnect(c) \/ RetryFails(c))

Spec == Init /\ [][Next]_queueVars /\ Fairness

---------------------------------------------------------------------------
Running(kind, p) == worker.pc = "job" /\ worker.kind = kind /\ worker.page = p
Connected     == \A c \in DOMAIN client : Ready(c)
Well          == Connected /\ worker.pc # "sleep"

\* A Pancake sync that was pushed is run, although every customer's message is served before
\* it ("tranh thủ 1 job Pancake để không đói queue", runUnifiedQueueWorker): connections may
\* break, the quota may run out and analyses may fail, as long as all goes well in the end.
SyncServed == <>[]Well => \A p \in Pages : (p \in Range(jobs["sync"])) ~> Running("sync", p)

\* The same of labels: syncs of many pages may keep them waiting.
LabelServed == <>[]Well => \A p \in Pages : (p \in Range(jobs["label"])) ~> Running("label", p)

\* Audits and backfills come last.
SlowServed == <>[]Well => (slow ~> worker.pc = "slow")

\* The worker gets Redis back: a message of the breaker speaks of a pause of half an hour.
RedisReturns == []<>~Connected => []<>Connected
=============================================================================
