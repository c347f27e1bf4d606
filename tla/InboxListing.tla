---------------------------- MODULE InboxListing ----------------------------
(***************************************************************************)
(* The list of conversations the staff scroll through, and the numbers     *)
(* above it (CskhInboxService): the first page comes from a cache, from a  *)
(* load already in flight or from the database; the next pages follow a    *)
(* cursor, the time and id of the last row shown.  Messages meanwhile move *)
(* conversations to the top.  The numbers are counted one at a time, with  *)
(* a cache and one load in flight per month.                               *)
(*                                                                         *)
(* A conversation is a number, its id; times are abstract.  Filters, the   *)
(* tenant and the page are one key of the cache, which leaves out whether  *)
(* labels are wanted.  ListFaults: "busy" (the database is short of        *)
(* connections), "timeout" (a query fails), "mixed" (some viewers want     *)
(* labels, some do not).                                                   *)
(***************************************************************************)
EXTENDS Integers, Sequences, FiniteSets
CONSTANTS Convs, PageSize, Viewers, MaxTime, Months, Counters, ListFaults

VARIABLES
  lastAt,    \* cskh_inbox_conversations.lastMessageAt
  listed,    \* conversationListCache: the entry of the key
  loading,   \* conversationListInflight: the viewer whose load is awaited
  viewer,    \* the staff at their lists
  counts,    \* conversationStatsCache: the entry of each month is "fresh", "old" or "none"
  counting,  \* conversationStatsInflight: the job of each month is "none", "queued" or "running"
  tail,      \* conversationStatsTail: the months to be counted, in order
  counter    \* the month each request for the numbers waits for
listingVars == <<lastAt, listed, loading, viewer, counts, counting, tail, counter>>
walkVars == <<lastAt, listed, loading, viewer>>
countVars == <<counts, counting, tail, counter>>

\* A page of the list; moved are the conversations with a message since its query.
Top == [id |-> 0, time |-> MaxTime + 1]
NoPage == [items |-> <<>>, more |-> FALSE, cursor |-> Top, labels |-> TRUE, moved |-> {}]
\* A viewer's walk: shown so far, the cursor, the page in hand; moved since the query of the first
\* page, asked since the viewer asked; poor if a page was not a full answer.
NoWalk == [at |-> "idle", want |-> TRUE, cursor |-> Top, shown |-> <<>>, page |-> NoPage,
           moved |-> {}, asked |-> {}, plain |-> FALSE, poor |-> FALSE]
Init ==
  /\ lastAt \in [Convs -> 0..1]
  /\ listed = [page |-> NoPage, fresh |-> FALSE] /\ loading = "none"
  /\ viewer = [v \in Viewers |-> NoWalk]
  /\ counts = [m \in Months |-> "none"] /\ counting = [m \in Months |-> "none"]
  /\ tail = <<>> /\ counter = [c \in Counters |-> "none"]

At(v, what) == viewer[v].at = what
Set(v, rec) == viewer' = [viewer EXCEPT ![v] = rec]
\* The order of the list, and what lies below a cursor (buildListConversationWhere).
Above(c, d) == lastAt[c] > lastAt[d] \/ (lastAt[c] = lastAt[d] /\ c > d)
BelowTime(cursor, c) == lastAt[c] < cursor.time    \* a bug: the id does not break the tie
Below(cursor, c) == lastAt[c] < cursor.time \/ (lastAt[c] = cursor.time /\ c < cursor.id)
Ranked(S) == CHOOSE f \in [1..Cardinality(S) -> S] : \A i, j \in DOMAIN f : i < j => Above(f[i], f[j])
\* One query; it takes a row more than the page shows.
Query(cursor, labels) ==
  LET rows == Ranked({c \in Convs : Below(cursor, c)})
      items == IF Len(rows) > PageSize THEN SubSeq(rows, 1, PageSize) ELSE rows
      last == items[Len(items)]
  IN [items |-> items, more |-> Len(rows) > PageSize, labels |-> labels, moved |-> {},
      cursor |-> IF items = <<>> THEN Top ELSE [id |-> last, time |-> lastAt[last]]]

\* A message moves its conversation to the top; two may have one time.
Message(c) ==
  /\ \E t \in {lastAt[d] : d \in Convs} \union {lastAt[d] + 1 : d \in Convs} :
       /\ \A d \in Convs : t >= lastAt[d]
       /\ t <= MaxTime
       /\ lastAt' = [lastAt EXCEPT ![c] = t]
  /\ listed' = [listed EXCEPT !.page.moved = @ \union {c}]
  /\ viewer' = [v \in Viewers |-> IF At(v, "idle") THEN viewer[v]
                                  ELSE [viewer[v] EXCEPT !.moved = @ \union {c}, !.asked = @ \union {c},
                                                         !.page.moved = @ \union {c}]]
  /\ UNCHANGED <<loading>> /\ UNCHANGED countVars

\* A walk receives a page.
Take(walk, page, poor) ==
  [walk EXCEPT !.at = IF page.more THEN "reading" ELSE "done", !.shown = @ \o page.items, !.cursor = page.cursor,
               !.moved = IF walk.cursor = Top THEN page.moved ELSE @, !.page = NoPage,
               !.plain = @ \/ (walk.want /\ ~page.labels), !.poor = @ \/ poor]
\* listConversations without a cursor: the fresh entry; the entry or nothing while the database is
\* busy; the load in flight; or a load of its own.
ListFirst(v) ==
  /\ At(v, "idle")
  /\ \E want \in (IF "mixed" \in ListFaults THEN BOOLEAN ELSE {TRUE}) :
       LET me == [NoWalk EXCEPT !.at = "asked", !.want = want] IN
       IF listed.fresh THEN Set(v, Take(me, listed.page, FALSE)) /\ UNCHANGED loading
       ELSE \/ "busy" \in ListFaults /\ Set(v, Take(me, listed.page, TRUE)) /\ UNCHANGED loading
            \/ loading # "none" /\ Set(v, [me EXCEPT !.at = "waiting"]) /\ UNCHANGED loading
            \/ loading = "none" /\ Set(v, me) /\ loading' = v
  /\ UNCHANGED <<lastAt, listed>> /\ UNCHANGED countVars
\* With a cursor: always a load of its own.
ListNext(v) ==
  /\ At(v, "reading")
  /\ Set(v, [viewer[v] EXCEPT !.at = "asked"])
  /\ UNCHANGED <<lastAt, listed, loading>> /\ UNCHANGED countVars
\* loadConversationListPage: the query; then labels, viewers and page settings are fetched.
LoadRows(v) ==
  /\ At(v, "asked")
  /\ Set(v, [viewer[v] EXCEPT !.at = "loaded", !.page = Query(viewer[v].cursor, viewer[v].want)])
  /\ UNCHANGED <<lastAt, listed, loading>> /\ UNCHANGED countVars
\* A first page is cached; those who waited for it get it too.
Deliver(v, page, poor) ==
  /\ viewer' = [w \in Viewers |-> IF w = v \/ (loading = v /\ At(w, "waiting"))
                                  THEN Take(viewer[w], page, poor) ELSE viewer[w]]
  /\ loading' = IF loading = v THEN "none" ELSE loading
Loaded(v) ==
  /\ At(v, "loaded")
  /\ listed' = IF viewer[v].cursor = Top THEN [page |-> viewer[v].page, fresh |-> TRUE] ELSE listed
  /\ Deliver(v, viewer[v].page, FALSE)
  /\ UNCHANGED <<lastAt>> /\ UNCHANGED countVars
\* A query that times out is answered with an empty list, which is not cached.
LoadFails(v) ==
  /\ "timeout" \in ListFaults /\ At(v, "asked")
  /\ Deliver(v, NoPage, TRUE)
  /\ UNCHANGED <<lastAt, listed>> /\ UNCHANGED countVars
Leave(v) ==
  /\ viewer[v].at \in {"reading", "done"}
  /\ Set(v, NoWalk)
  /\ UNCHANGED <<lastAt, listed, loading>> /\ UNCHANGED countVars
ListExpires ==
  /\ listed.fresh /\ listed' = [listed EXCEPT !.fresh = FALSE]
  /\ UNCHANGED <<lastAt, loading, viewer>> /\ UNCHANGED countVars

\* getConversationStats: the fresh entry, the job in flight, the old entry while the database is busy,
\* or a job at the end of the line.
AskCounts(c) ==
  /\ counter[c] = "none"
  /\ \E m \in Months :
       /\ counts[m] # "fresh"
       /\ \/ counting[m] # "none" /\ UNCHANGED <<counting, tail>>
          \/ /\ counting[m] = "none"
             /\ counting' = [counting EXCEPT ![m] = "queued"] /\ tail' = Append(tail, m)
       /\ counter' = [counter EXCEPT ![c] = m]
  /\ UNCHANGED counts /\ UNCHANGED walkVars
\* The end of a job: its callers get the numbers or the error; the next job may run.
EndCount(m) ==
  /\ counting' = [counting EXCEPT ![m] = "none"]
  /\ tail' = SelectSeq(tail, LAMBDA n : n # m)
  /\ counter' = [c \in Counters |-> IF counter[c] = m THEN "none" ELSE counter[c]]
\* enqueueConversationStatsCount: a job runs when the one before it has ended; numbers that are fresh
\* by then are not counted again.
RunAnyCount ==    \* a bug: a job does not wait for the one before it
  /\ \E m \in Months : counting[m] = "queued" /\ counting' = [counting EXCEPT ![m] = "running"]
  /\ UNCHANGED <<counts, tail, counter>> /\ UNCHANGED walkVars
RunCount ==
  /\ tail # <<>> /\ counting[Head(tail)] = "queued"
  /\ IF counts[Head(tail)] = "fresh" THEN EndCount(Head(tail))
     ELSE counting' = [counting EXCEPT ![Head(tail)] = "running"] /\ UNCHANGED <<tail, counter>>
  /\ UNCHANGED counts /\ UNCHANGED walkVars
\* computeConversationStats: numbers are cached, an error is not.
Counted(m) ==
  /\ counting[m] = "running"
  /\ \/ counts' = [counts EXCEPT ![m] = "fresh"]
     \/ "timeout" \in ListFaults /\ UNCHANGED counts
  /\ EndCount(m)
  /\ UNCHANGED walkVars
CountsExpire ==
  /\ \E m \in Months : counts[m] = "fresh" /\ counts' = [counts EXCEPT ![m] = "old"]
  /\ UNCHANGED <<counting, tail, counter>> /\ UNCHANGED walkVars

Next ==
  \/ \E c \in Convs : Message(c)
  \/ \E v \in Viewers : \/ ListFirst(v) \/ ListNext(v) \/ LoadRows(v) \/ Loaded(v) \/ LoadFails(v) \/ Leave(v)
  \/ ListExpires
  \/ \E c \in Counters : AskCounts(c)
  \/ RunCount \/ CountsExpire \/ \E m \in Months : Counted(m)
Spec == Init /\ [][Next]_listingVars
-----------------------------------------------------------------------------
Times(v, c) == Cardinality({i \in DOMAIN viewer[v].shown : viewer[v].shown[i] = c})
(* Who scrolls to the end has seen no conversation twice, and has seen every one that had no message
   since the query of the first page. *)
ScrollWhole ==
  \A v \in Viewers : At(v, "done") /\ ~viewer[v].poor
    => \A c \in Convs : Times(v, c) <= 1 /\ (c \notin viewer[v].moved => Times(v, c) = 1)
(* ... every one that had no message since the viewer opened the list. *)
ScrollFromAsk ==
  \A v \in Viewers : At(v, "done") /\ ~viewer[v].poor
    => \A c \in Convs \ viewer[v].asked : Times(v, c) = 1
(* A viewer who wants labels gets them. *)
LabelsShown == \A v \in Viewers : ~viewer[v].plain
(* Comment at cskh-inbox.service.ts:248: only one COUNT at a time; and none without its place in the
   line, nor a request that waits for none. *)
OneCount ==
  /\ \A m \in Months : counting[m] = "running" => tail # <<>> /\ m = Head(tail)
  /\ \A c \in Counters : counter[c] # "none" => counting[counter[c]] # "none"
=============================================================================
