----------------------------- MODULE GraphSlots -----------------------------
(***************************************************************************)
(* The Graph slots of one process (GraphApiCoordinatorService): requests   *)
(* of two priorities share a few slots, and while an inbox sync is in      *)
(* progress no low one is admitted.  The callers are the audit's and the   *)
(* backfill's fetches (low) and webhook enrichment, sending and catch-up   *)
(* (high); the syncs are syncFromGraph and the rotating sync of all pages, *)
(* whose own requests go through the same slots.  A signal in Redis tells  *)
(* the other process that a sync is in progress.                           *)
(***************************************************************************)
EXTENDS Naturals, FiniteSets

CONSTANTS
  Callers,    \* requests made outside a sync, one at a time each
  Syncs,      \* calls of syncFromGraph
  Rotations,  \* calls of maybeRotatingSyncAllPages
  SyncKinds,  \* what syncFromGraph is asked for: "light" or "full"
  MaxHigh, MaxLow, MaxTotal,
  SlowPages   \* whether a page may take longer than the signals last

ASSUME GraphSlotsConstants ==
  /\ IsFiniteSet(Callers) /\ IsFiniteSet(Syncs) /\ IsFiniteSet(Rotations)
  /\ Callers \cap Syncs = {} /\ Callers \cap Rotations = {} /\ Syncs \cap Rotations = {}
  /\ SyncKinds \subseteq {"light", "full"} /\ SlowPages \in BOOLEAN
  /\ MaxHigh \in Nat /\ MaxLow \in Nat /\ MaxTotal \in Nat

Scans == Syncs \cup Rotations
Actors == Callers \cup Scans
Priorities == {"high", "low"}

VARIABLES
  pc, prio,   \* per actor: where it is, the priority of its request
  kind,       \* per scan: "light" or "full"
  high, low,  \* activeHigh, activeLow
  depth,      \* inboxSyncDepth
  rotating,   \* backgroundInboxSyncRunning
  until,      \* inboxSyncUntil lies in the future
  recent,     \* lastInboxSyncRedisWrite is less than 60 s old
  key         \* INBOX_SYNC_KEY is set in Redis

slots == <<high, low>>
signals == <<until, recent, key>>
vars == <<pc, prio, kind, high, low, depth, rotating, until, recent, key>>

RequestPcs == {"yield", "acquire", "hold"}
ScanPcs == RequestPcs \cup {"mark", "page"}

TypeOK ==
  /\ pc \in [Actors -> ScanPcs \cup {"idle", "check", "list", "clear"}]
  /\ \A c \in Callers : pc[c] \in RequestPcs \cup {"idle"}
  /\ \A s \in Syncs : pc[s] \notin {"check", "list"}
  /\ prio \in [Actors -> Priorities]
  /\ kind \in [Scans -> {"light", "full"}]
  /\ high \in Nat /\ low \in Nat /\ depth \in Nat
  /\ rotating \in BOOLEAN /\ until \in BOOLEAN /\ recent \in BOOLEAN /\ key \in BOOLEAN

Init ==
  /\ pc = [a \in Actors |-> "idle"]
  /\ prio = [a \in Actors |-> "high"]
  /\ kind = [s \in Scans |-> "light"]
  /\ high = 0 /\ low = 0 /\ depth = 0
  /\ rotating = FALSE /\ until = FALSE /\ recent = FALSE /\ key = FALSE

-----------------------------------------------------------------------------
\* graphRequest.  A low request first yields to the inbox, for 120 s at most
\* and as far as the signals it reads are up to date: so it may go on at any
\* time.
Ask(a, p) ==
  /\ prio' = [prio EXCEPT ![a] = p]
  /\ pc' = [pc EXCEPT ![a] = IF p = "low" THEN "yield" ELSE "acquire"]

Request(c) ==
  /\ pc[c] = "idle"
  /\ \E p \in Priorities : Ask(c, p)
  /\ UNCHANGED <<kind, high, low, depth, rotating, until, recent, key>>

YieldEnds(a) ==
  /\ pc[a] = "yield"
  /\ pc' = [pc EXCEPT ![a] = "acquire"]
  /\ UNCHANGED <<prio, kind, high, low, depth, rotating, until, recent, key>>

MaxLowNow == IF depth > 0 THEN 0 ELSE MaxLow

\* Mutant of CanAcquire: the total is checked with one slot to spare.
CanAcquireOneMore(p) ==
  /\ high + low <= MaxTotal
  /\ IF p = "high" THEN high <= MaxHigh ELSE low < MaxLowNow

\* Mutant of CanAcquire: low requests may fill all the slots.
CanAcquireAllLow(p) ==
  /\ high + low < MaxTotal
  /\ p = "high" => high < MaxHigh
  /\ p = "low" => depth = 0

CanAcquire(p) ==
  /\ high + low < MaxTotal
  /\ IF p = "high" THEN high < MaxHigh ELSE low < MaxLowNow

\* The loop of acquire finds room: the test and the count are one step.
Acquire(a) ==
  /\ pc[a] = "acquire" /\ CanAcquire(prio[a])
  /\ IF prio[a] = "high" THEN high' = high + 1 /\ UNCHANGED low
                         ELSE low' = low + 1 /\ UNCHANGED high
  /\ pc' = [pc EXCEPT ![a] = "hold"]
  /\ UNCHANGED <<prio, kind, depth, rotating, until, recent, key>>

Dec(n) == IF n = 0 THEN 0 ELSE n - 1

\* Mutant of Release: the closure gives every slot back as a high one.
ReleaseHighOnly(a) ==
  /\ pc[a] = "hold"
  /\ high' = Dec(high) /\ UNCHANGED low
  /\ pc' = [pc EXCEPT ![a] = IF a \in Callers THEN "idle" ELSE "page"]
  /\ UNCHANGED <<prio, kind, depth, rotating, until, recent, key>>

\* Mutant of Release: a request that fails keeps its slot.
ReleaseLeaks(a) ==
  /\ pc[a] = "hold"
  /\ IF prio[a] = "high" THEN high' \in {high, Dec(high)} /\ UNCHANGED low
                         ELSE low' \in {low, Dec(low)} /\ UNCHANGED high
  /\ pc' = [pc EXCEPT ![a] = IF a \in Callers THEN "idle" ELSE "page"]
  /\ UNCHANGED <<prio, kind, depth, rotating, until, recent, key>>

\* Mutant of Release: every caller goes on as if it were a scan.
ReleaseToPage(a) ==
  /\ pc[a] = "hold"
  /\ IF prio[a] = "high" THEN high' = Dec(high) /\ UNCHANGED low
                         ELSE low' = Dec(low) /\ UNCHANGED high
  /\ pc' = [pc EXCEPT ![a] = "page"]
  /\ UNCHANGED <<prio, kind, depth, rotating, until, recent, key>>

\* The request has been answered or has failed, after up to three attempts.
Release(a) ==
  /\ pc[a] = "hold"
  /\ IF prio[a] = "high" THEN high' = Dec(high) /\ UNCHANGED low
                         ELSE low' = Dec(low) /\ UNCHANGED high
  /\ pc' = [pc EXCEPT ![a] = IF a \in Callers THEN "idle" ELSE "page"]
  /\ UNCHANGED <<prio, kind, depth, rotating, until, recent, key>>

-----------------------------------------------------------------------------
\* syncFromGraph: skipped while a sync is in progress.
SyncBegin(s) ==
  /\ pc[s] = "idle" /\ depth = 0
  /\ \E k \in SyncKinds : kind' = [kind EXCEPT ![s] = k]
  /\ depth' = depth + 1
  /\ pc' = [pc EXCEPT ![s] = "mark"]
  /\ UNCHANGED <<prio, high, low, rotating, until, recent, key>>

\* maybeRotatingSyncAllPages: the flag, the signal and the page list are
\* looked at in turn, with awaits between them.
RotationCheck(r) ==
  /\ pc[r] = "idle" /\ ~ rotating
  /\ pc' = [pc EXCEPT ![r] = "check"]
  /\ UNCHANGED <<prio, kind, high, low, depth, rotating, until, recent, key>>

RotationAsk(r) ==
  /\ pc[r] = "check" /\ ~ until
  /\ pc' = [pc EXCEPT ![r] = "list"]
  /\ UNCHANGED <<prio, kind, high, low, depth, rotating, until, recent, key>>

\* An audit is running, a sync is signalled, webhooks wait, or no page.
RotationSkips(r) ==
  /\ pc[r] \in {"check", "list"}
  /\ pc' = [pc EXCEPT ![r] = "idle"]
  /\ UNCHANGED <<prio, kind, high, low, depth, rotating, until, recent, key>>

RotationBegin(r) ==
  /\ pc[r] = "list"
  /\ rotating' = TRUE
  /\ depth' = depth + 1
  /\ kind' = [kind EXCEPT ![r] = "light"]
  /\ pc' = [pc EXCEPT ![r] = "mark"]
  /\ UNCHANGED <<prio, high, low, until, recent, key>>

\* markInboxSyncActive: Redis is written at most once in 60 s.
Mark(s) ==
  /\ pc[s] = "mark"
  /\ until' = TRUE /\ recent' = TRUE
  /\ key' = (key \/ ~ recent)
  /\ pc' = [pc EXCEPT ![s] = "page"]
  /\ UNCHANGED <<prio, kind, high, low, depth, rotating>>

\* A page's requests: a full sync lists the conversations with low priority.
PageRequest(s) ==
  /\ pc[s] = "page"
  /\ \E p \in Priorities : (p = "low" => kind[s] = "full") /\ Ask(s, p)
  /\ UNCHANGED <<kind, high, low, depth, rotating, until, recent, key>>

NextPage(s) ==
  /\ pc[s] = "page" /\ s \in Syncs
  /\ pc' = [pc EXCEPT ![s] = "mark"]
  /\ UNCHANGED <<prio, kind, high, low, depth, rotating, until, recent, key>>

\* Mutant of ScanEnds: a flag where the depth is needed.
ScanEndsResets(s) ==
  /\ pc[s] = "page"
  /\ depth' = 0
  /\ rotating' = (rotating /\ s \notin Rotations)
  /\ pc' = [pc EXCEPT ![s] = "clear"]
  /\ UNCHANGED <<prio, kind, high, low, until, recent, key>>

\* The finally block: the last page is through, or webhooks break it off.
ScanEnds(s) ==
  /\ pc[s] = "page"
  /\ depth' = Dec(depth)
  /\ rotating' = (rotating /\ s \notin Rotations)
  /\ pc' = [pc EXCEPT ![s] = "clear"]
  /\ UNCHANGED <<prio, kind, high, low, until, recent, key>>

\* clearInboxSyncActive leaves the time of the last write alone.
Clear(s) ==
  /\ pc[s] = "clear"
  /\ until' = FALSE /\ key' = FALSE
  /\ pc' = [pc EXCEPT ![s] = "idle"]
  /\ UNCHANGED <<prio, kind, high, low, depth, rotating, recent>>

\* Time passes: 60 s since the last write, or the 120 s a signal lasts.
WriteAges ==
  /\ recent /\ recent' = FALSE
  /\ UNCHANGED <<pc, prio, kind, high, low, depth, rotating, until, key>>

InScan == {s \in Scans : pc[s] \in ScanPcs}

SignalExpires ==
  /\ SlowPages \/ InScan = {}
  /\ \/ until /\ until' = FALSE /\ UNCHANGED key
     \/ key /\ key' = FALSE /\ UNCHANGED until
  /\ UNCHANGED <<pc, prio, kind, high, low, depth, rotating, recent>>

ScanStep(s) == Mark(s) \/ PageRequest(s) \/ NextPage(s) \/ ScanEnds(s) \/ Clear(s)
Slot(a) == YieldEnds(a) \/ Acquire(a) \/ Release(a)

Next ==
  \/ \E c \in Callers : Request(c)
  \/ \E a \in Actors : Slot(a)
  \/ \E s \in Syncs : SyncBegin(s)
  \/ \E r \in Rotations : RotationCheck(r) \/ RotationAsk(r) \/ RotationSkips(r) \/ RotationBegin(r)
  \/ \E s \in Scans : ScanStep(s)
  \/ WriteAges \/ SignalExpires

Spec == Init /\ [][Next]_vars

\* A waiting request polls (every 40 or 150 ms), so it is admitted if there
\* stays room; a request is answered or times out; a scan has finitely many
\* pages with finitely many requests, hence strong fairness of its end.
FairSpec ==
  /\ Spec
  /\ \A a \in Actors : WF_vars(YieldEnds(a)) /\ WF_vars(Acquire(a)) /\ WF_vars(Release(a))
  /\ \A s \in Scans : WF_vars(ScanStep(s)) /\ SF_vars(ScanEnds(s))

-----------------------------------------------------------------------------
Holding(p) == {a \in Actors : pc[a] = "hold" /\ prio[a] = p}

\* The counters are what they count: no slot is lost or given back twice,
\* and no sync stays counted, whatever ends a request or a scan.
Counted ==
  /\ high = Cardinality(Holding("high"))
  /\ low = Cardinality(Holding("low"))
  /\ depth = Cardinality(InScan)

\* maxHigh, maxLow and maxTotal bound the requests in flight.
Limits ==
  /\ Cardinality(Holding("high")) <= MaxHigh
  /\ Cardinality(Holding("low")) <= MaxLow
  /\ Cardinality(Holding("high")) + Cardinality(Holding("low")) <= MaxTotal

\* With room for both classes, low requests never keep a high one waiting:
\* one that is refused waits for MaxHigh others of its own class.
HighWaitsForHigh ==
  MaxHigh + MaxLow <= MaxTotal =>
    \A a \in Actors : pc[a] = "acquire" /\ prio[a] = "high" /\ ~ CanAcquire("high") =>
      Cardinality(Holding("high")) >= MaxHigh

\* "low ... bị throttle khi inbox đang sync": no low request is admitted from
\* the begin of any sync to its end, however syncs overlap.
LowYields ==
  [][\A a \in Actors : prio[a] = "low" /\ pc[a] = "acquire" /\ pc'[a] = "hold" => InScan = {}]_vars

\* Every sync ends.
SyncEnds == \A s \in Scans : (s \in InScan) ~> (s \notin InScan)

\* A high request is served.
HighServed ==
  \A c \in Callers : (pc[c] = "acquire" /\ prio[c] = "high") ~> (pc[c] = "hold")

\* The other process is told of a sync in progress.
SyncAnnounced == (\E s \in Scans : pc[s] \in {"page", "yield", "acquire", "hold"}) => key

=============================================================================
