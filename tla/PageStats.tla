------------------------------- MODULE PageStats -----------------------------
(***************************************************************************)
(* The list of pages with their numbers (CskhService.listPages), and the   *)
(* caches behind it: the plain list, the numbers of the pages, the inbound *)
(* messages of a day, and the table of totals the numbers come from.  The  *)
(* worker, after a page's backfill, bumps a time in Redis that makes older *)
(* entries of the API's caches count for nothing, then starts a refresh of *)
(* the totals; the API looks at that time through a memory of its own.     *)
(*                                                                         *)
(* Every page has one number, its messages.  Time is a count of ticks:     *)
(* Memory is how long the API believes the time it read, Keep how long an  *)
(* entry lives.  Counts are sums over all days.  StatDoes: "numbers" (the  *)
(* lists ask for the numbers, and refreshes run), "connect".               *)
(***************************************************************************)
EXTENDS Integers, FiniteSets
CONSTANTS StatPages, Listers, Wants, Memory, Keep, MaxNow, MaxCount, StatDoes

VARIABLES
  now,
  stored,    \* cskh_inbox_messages: how many of each page
  linked,    \* facebook_cskh_config: the tenant's pages
  told,      \* of these, the ones there when the plain list was last cleared
  totals,    \* cskh_page_message_totals: the count of each page, -1 without a row
  bust,      \* Redis: the time of the last bump
  believed,  \* checkCache of the API: the bump it last read, and when
  entries,   \* the API's caches: "lite", "day", and the numbers, by how many pages they are of
  worker,    \* the backfill: what is left of each page's end
  refreshes, \* refreshPageMessageTotals under way: the pages and the counts read
  scheduled, \* pageAdSpendSyncScheduled, and how many syncs started since
  lister     \* the requests for the list
statVars == <<now, stored, linked, told, totals, bust, believed, entries, worker, refreshes, scheduled, lister>>

NoEntry == [at |-> -1, counts |-> [p \in {} |-> 0], blurred |-> FALSE]
Idle == [at |-> "idle", want |-> "lite", pages |-> {}, told |-> {}, asked |-> 0, lite |-> NoEntry, day |-> NoEntry,
         numbers |-> NoEntry, dayAt |-> "none", numbersAt |-> "none", bust |-> 0, dayBust |-> 0]
Sizes == 1..Cardinality(StatPages)
NoNumbers == [n \in Sizes |-> NoEntry]
Init ==
  /\ now = 1 /\ stored = [p \in StatPages |-> 0]
  /\ linked = (IF "connect" \in StatDoes THEN {CHOOSE p \in StatPages : TRUE} ELSE StatPages) /\ told = linked
  /\ totals = [p \in StatPages |-> -1] /\ bust = 0 /\ believed = [value |-> 0, at |-> -Memory]
  /\ entries = [lite |-> NoEntry, day |-> NoEntry, numbers |-> NoNumbers] /\ worker = [p \in StatPages |-> [at |-> "idle", bumped |-> 0, count |-> 0]]
  /\ refreshes = {} /\ scheduled = [at |-> -1, runs |-> 0] /\ lister = [l \in Listers |-> Idle]

Tick == now < MaxNow /\ now' = now + 1
        /\ UNCHANGED <<stored, linked, told, totals, bust, believed, entries, worker, refreshes, scheduled, lister>>
Set(l, rec) == lister' = [lister EXCEPT ![l] = rec]
Live(e) == e.at >= 0 /\ now - e.at < Keep
Counts(S) == [p \in S |-> stored[p]]

\* A page is connected; the sync that did it clears the plain list when it is through.  Removing a
\* page clears nothing.
Connect(p) ==
  /\ "connect" \in StatDoes /\ p \notin linked
  /\ linked' = linked \union {p}
  /\ UNCHANGED <<now, stored, told, totals, bust, believed, entries, worker, refreshes, scheduled, lister>>
ClearLite ==
  /\ ~ linked \subseteq told
  /\ told' = linked /\ entries' = [entries EXCEPT !.lite = NoEntry]
  /\ lister' = [l \in Listers |-> [lister[l] EXCEPT !.lite.blurred = @ \/ lister[l].at = "build"]]
  /\ UNCHANGED <<now, stored, linked, totals, bust, believed, worker, refreshes, scheduled>>
Remove(p) ==
  /\ "connect" \in StatDoes /\ p \in linked /\ Cardinality(linked) > 1
  /\ linked' = linked \ {p} /\ told' = told \ {p}
  /\ UNCHANGED <<now, stored, totals, bust, believed, entries, worker, refreshes, scheduled, lister>>

\* The end of a page's backfill: its messages are stored, the bump is awaited, the refresh is not.
Loading == {l \in Listers : lister[l].dayAt = "load" \/ lister[l].numbersAt = "load"}
SavePage(p) ==
  /\ worker[p].at = "idle" /\ stored[p] < MaxCount
  /\ stored' = [stored EXCEPT ![p] = @ + 1] /\ worker' = [worker EXCEPT ![p].at = "bump"]
  /\ UNCHANGED <<now, linked, told, totals, bust, believed, entries, refreshes, scheduled, lister>>
BumpCaches(p) ==
  /\ worker[p].at = "bump"
  /\ bust' = now
  /\ worker' = [worker EXCEPT ![p] = [at |-> "refresh", bumped |-> now, count |-> stored[p]]]
  /\ lister' = [l \in Listers |-> IF l \in Loading THEN [lister[l] EXCEPT !.day.blurred = TRUE] ELSE lister[l]]
  /\ UNCHANGED <<now, stored, linked, told, totals, believed, entries, refreshes, scheduled>>
Refresh(S) == refreshes' = refreshes \union {[counts |-> Counts(S)]}
RefreshAfter(p) ==
  /\ worker[p].at = "refresh"
  /\ worker' = [worker EXCEPT ![p].at = "idle"]
  /\ IF "numbers" \in StatDoes THEN Refresh({p}) ELSE refreshes' = refreshes
  /\ UNCHANGED <<now, stored, linked, told, totals, bust, believed, entries, scheduled, lister>>
\* The counts are those of the statement's start; a page without messages gets no row. It clears the numbers of the process it runs in.
Refreshed(f) ==
  /\ totals' = [p \in StatPages |-> IF p \in DOMAIN f.counts /\ f.counts[p] > 0 THEN f.counts[p] ELSE totals[p]]
  /\ refreshes' = refreshes \ {f}
  /\ entries' \in {entries, [entries EXCEPT !.numbers = NoNumbers]}
  /\ UNCHANGED <<now, stored, linked, told, bust, believed, worker, scheduled, lister>>

\* listPages: the plain list from its cache or built; the others ask for the numbers and the day at once.
Ask(l) ==
  /\ lister[l].at = "idle"
  /\ \E want \in Wants :
       LET rec == [Idle EXCEPT !.want = want, !.asked = now, !.pages = linked, !.told = told]
           plain == entries.lite
       IN IF want # "lite" THEN Set(l, [rec EXCEPT !.at = "wait", !.dayAt = IF want = "day" THEN "bust" ELSE "done",
                                                 !.numbersAt = IF "numbers" \in StatDoes THEN "bust" ELSE "done"])
          ELSE IF Live(plain) THEN Set(l, [rec EXCEPT !.at = "done", !.lite = plain])
          ELSE Set(l, [rec EXCEPT !.at = "build"])
  /\ UNCHANGED <<now, stored, linked, told, totals, bust, believed, entries, worker, refreshes, scheduled>>
BuildLite(l) ==
  /\ lister[l].at = "build"
  /\ LET e == [at |-> now, counts |-> [p \in lister[l].pages |-> 0], blurred |-> lister[l].lite.blurred]
     IN entries' = [entries EXCEPT !.lite = e] /\ Set(l, [lister[l] EXCEPT !.at = "done", !.lite = e])
  /\ UNCHANGED <<now, stored, linked, told, totals, bust, believed, worker, refreshes, scheduled>>

\* getPageStatsCacheBustAt: what was read less than Memory ago, else Redis.
Believes == now < believed.at + Memory
BustAt == IF Believes THEN believed.value ELSE bust
ReadBust(l) ==
  /\ \/ lister[l].dayAt = "bust" /\ Set(l, [lister[l] EXCEPT !.dayAt = "look", !.dayBust = BustAt])
     \/ lister[l].numbersAt = "bust" /\ Set(l, [lister[l] EXCEPT !.numbersAt = "look", !.bust = BustAt])
  /\ believed' = IF Believes THEN believed ELSE [value |-> bust, at |-> now]
  /\ UNCHANGED <<now, stored, linked, told, totals, bust, entries, worker, refreshes, scheduled>>

\* Mutant of LookDay: the day's entry is used whatever was bumped.
LookDayAny(l) ==
  /\ lister[l].dayAt = "look"
  /\ LET e == entries.day
     IN Set(l, IF Live(e) THEN [lister[l] EXCEPT !.dayAt = "done", !.day = e]
               ELSE [lister[l] EXCEPT !.dayAt = "load", !.day = [at |-> now, counts |-> Counts(lister[l].pages),
                                                                 blurred |-> FALSE]])
  /\ UNCHANGED <<now, stored, linked, told, totals, bust, believed, entries, worker, refreshes, scheduled>>

LookDay(l) ==
  /\ lister[l].dayAt = "look"
  /\ LET e == entries.day
     IN Set(l, IF e.at >= lister[l].dayBust /\ Live(e) THEN [lister[l] EXCEPT !.dayAt = "done", !.day = e]
               ELSE [lister[l] EXCEPT !.dayAt = "load", !.day = [at |-> now, counts |-> Counts(lister[l].pages),
                                                                 blurred |-> FALSE]])
  /\ UNCHANGED <<now, stored, linked, told, totals, bust, believed, entries, worker, refreshes, scheduled>>
LoadedDay(l) ==
  /\ lister[l].dayAt = "load"
  /\ LET e == [lister[l].day EXCEPT !.at = now]
     IN entries' = [entries EXCEPT !.day = e] /\ Set(l, [lister[l] EXCEPT !.dayAt = "done", !.day = e])
  /\ UNCHANGED <<now, stored, linked, told, totals, bust, believed, worker, refreshes, scheduled>>

\* The numbers: an entry younger than the bump, or any while a backfill runs; else the totals, when one
\* of the pages has a row (the others are zero and their refresh starts); else the counts themselves.
Key(l) == Cardinality(lister[l].pages)
BackfillRuns == \E p \in StatPages : worker[p].at # "idle"
LookNumbers(l) ==
  /\ lister[l].numbersAt = "look"
  /\ LET e == entries.numbers[Key(l)]
         known == {p \in lister[l].pages : totals[p] >= 0}
         sums == [p \in lister[l].pages |-> IF p \in known THEN totals[p] ELSE 0]
         got == IF known = {} THEN Counts(lister[l].pages) ELSE sums
         fresh == e.at >= lister[l].bust /\ Live(e)
     IN IF fresh \/ (e.at >= 0 /\ BackfillRuns)
        THEN /\ Set(l, [lister[l] EXCEPT !.numbersAt = "done", !.numbers = [e EXCEPT !.blurred = ~fresh]])
             /\ refreshes' = refreshes
        ELSE /\ Set(l, [lister[l] EXCEPT !.numbersAt = "load", !.numbers = [at |-> now, counts |-> got, blurred |-> FALSE]])
             /\ IF known = lister[l].pages THEN refreshes' = refreshes
                ELSE Refresh(IF known = {} THEN StatPages ELSE lister[l].pages \ known)
  /\ UNCHANGED <<now, stored, linked, told, totals, bust, believed, entries, worker, scheduled>>
LoadedNumbers(l) ==
  /\ lister[l].numbersAt = "load"
  /\ LET e == [lister[l].numbers EXCEPT !.at = now]
     IN entries' = [entries EXCEPT !.numbers[Key(l)] = e] /\ Set(l, [lister[l] EXCEPT !.numbersAt = "done", !.numbers = e])
  /\ UNCHANGED <<now, stored, linked, told, totals, bust, believed, worker, refreshes, scheduled>>

\* A list of a day whose spend is not known starts its sync, at most one in Keep.
Quiet == ~BackfillRuns
SyncNow == [at |-> now, runs |-> IF scheduled.at >= 0 /\ now - scheduled.at < Keep THEN scheduled.runs + 1 ELSE 1]
Schedule ==
  \/ scheduled' = scheduled
  \/ Quiet /\ (scheduled.at < 0 \/ now - scheduled.at >= Keep) /\ scheduled' = SyncNow
Answer(l) ==
  /\ lister[l].at = "wait" /\ lister[l].dayAt = "done" /\ lister[l].numbersAt = "done"
  /\ IF lister[l].want = "day" THEN Schedule ELSE scheduled' = scheduled
  /\ Set(l, [lister[l] EXCEPT !.at = "done"])
  /\ UNCHANGED <<now, stored, linked, told, totals, bust, believed, entries, worker, refreshes>>
Again(l) == lister[l].at = "done" /\ Set(l, Idle)
            /\ UNCHANGED <<now, stored, linked, told, totals, bust, believed, entries, worker, refreshes, scheduled>>

Next ==
  \/ Tick \/ ClearLite
  \/ \E p \in StatPages : Connect(p) \/ Remove(p) \/ SavePage(p) \/ BumpCaches(p) \/ RefreshAfter(p)
  \/ \E f \in refreshes : Refreshed(f)
  \/ \E l \in Listers : \/ Ask(l) \/ BuildLite(l) \/ ReadBust(l) \/ LookDay(l) \/ LoadedDay(l) \/ LookNumbers(l)
                        \/ LoadedNumbers(l) \/ Answer(l) \/ Again(l)
Spec == Init /\ [][Next]_statVars

Answered(l, want) == lister[l].at = "done" /\ lister[l].want = want
\* Who asks later than the API's memory after a bump is shown the day with all that was stored
\* before it, unless the answer is of a load that was under way at the bump, or of the same tick.
DayFollows == \A l \in Listers, p \in StatPages :
  Answered(l, "day") /\ worker[p].bumped > 0 /\ lister[l].asked >= worker[p].bumped + Memory =>
    \/ lister[l].day.blurred \/ lister[l].day.at = worker[p].bumped \/ p \notin DOMAIN lister[l].day.counts
    \/ lister[l].day.counts[p] >= worker[p].count
\* Who asks later than that is shown numbers that were put in the cache after the bump, unless they
\* are shown as they are because a backfill runs.  (They may be older themselves: NumbersFollow.)
NumbersReload == \A l \in Listers, p \in StatPages :
  Answered(l, "plain") /\ worker[p].bumped > 0 /\ lister[l].asked >= worker[p].bumped + Memory
    => lister[l].numbers.blurred \/ lister[l].numbers.at >= worker[p].bumped
\* Who asks for the plain list is shown every page that was connected when it was last cleared,
\* unless the list shown was being built at that time.
PagesFollow == \A l \in Listers : Answered(l, "lite") =>
  lister[l].lite.blurred \/ lister[l].pages \intersect lister[l].told \subseteq DOMAIN lister[l].lite.counts
\* The numbers shown are of the pages asked for.
NumbersOfPages == \A l \in Listers : Answered(l, "plain") => DOMAIN lister[l].numbers.counts = lister[l].pages
\* Who asks after the bump sees the page's messages in its numbers.
NumbersFollow == \A l \in Listers, p \in StatPages :
  Answered(l, "plain") /\ worker[p].bumped > 0 /\ lister[l].asked >= worker[p].bumped + Memory
    /\ p \in DOMAIN lister[l].numbers.counts => lister[l].numbers.counts[p] >= worker[p].count
\* A refresh never puts an older count back.
TotalsGrow == [][\A p \in StatPages : totals'[p] >= totals[p]]_statVars
\* The plain list shows the pages there are.
LiteTrue == \A l \in Listers : Answered(l, "lite") => DOMAIN lister[l].lite.counts \subseteq linked
==============================================================================
