------------------------------ MODULE MonitorJob -----------------------------
(***************************************************************************)
(* The monitor of unanswered customers (POST monitor/run, runMonitorJob):  *)
(* a job without a queue, run by the process that was asked.  It lists the *)
(* conversations of every page, several pages at a time, in one Graph      *)
(* request or, when that fails, by a list and one request for the last     *)
(* message of each; it saves a row for each and adds the numbers up.       *)
(*                                                                         *)
(* A message is [from, text]; text is "words", "closing" (thanks, ok) or   *)
(* "none" (a photo).  MonitorFaults: "list", "plain list", "messages" (the *)
(* Graph requests), "save" (the rows), "boot" (a process starts meanwhile). *)
(***************************************************************************)
EXTENDS Integers, Sequences, FiniteSets
CONSTANTS Monitors, MonitoredPages, PlatformOf, Inboxes, MaxFetch, PageWorkers, MonitorFaults

VARIABLES
  inbox,  \* Graph: the conversations of each page on each platform, newest first
  job,    \* cskh_job_runs: status and summary of each request's job
  run,    \* what each run has in hand
  items   \* cskh_monitor_items
monitorVars == <<inbox, job, run, items>>

NoSums == [total |-> 0, noReply |-> 0, errors |-> 0, pages |-> 0]
Init ==
  /\ inbox \in Inboxes
  /\ job = [m \in Monitors |-> [status |-> "none", told |-> NoSums]]
  /\ run = [m \in Monitors |-> [at |-> "idle", sums |-> NoSums, shown |-> 0, plain |-> {},
                                page |-> [p \in MonitoredPages |-> "todo"],
                                convs |-> [p \in MonitoredPages |-> <<>>]]]
  /\ items = {}

\* The customer wrote last, with words that ask for an answer; without any staff message, at all.
NeedsFollowUp(msgs) ==
  LET staff == {i \in DOMAIN msgs : msgs[i].from = "page"}
  IN IF staff = {} THEN msgs # <<>>
     ELSE msgs[1].from # "page" /\ msgs[1].text = "words"

\* The request looks for a running monitor, then creates one.
AskMonitor(m) ==
  /\ run[m].at = "idle"
  /\ run' = [run EXCEPT ![m].at = IF \E n \in Monitors : job[n].status = "running" THEN "refused" ELSE "create"]
  /\ UNCHANGED <<inbox, job, items>>
CreateMonitor(m) ==
  /\ run[m].at = "create"
  /\ job' = [job EXCEPT ![m].status = "running"]
  /\ run' = [run EXCEPT ![m].at = "scanning"]
  /\ UNCHANGED <<inbox, items>>

At(m, p, what) == run[m].at = "scanning" /\ run[m].page[p] = what
Busy(m) == {p \in MonitoredPages : run[m].page[p] \notin {"todo", "done"}}
TakePage(m, p) ==
  /\ At(m, p, "todo") /\ Cardinality(Busy(m)) < PageWorkers
  /\ run' = [run EXCEPT ![m].page[p] = "list"]
  /\ UNCHANGED <<inbox, job, items>>

\* The page's conversations on a platform, up to the limit.
Listed(p, platform) ==
  LET cs == inbox[p][platform]
  IN SubSeq(cs, 1, IF Len(cs) < MaxFetch THEN Len(cs) ELSE MaxFetch)
ListMonitored(m, p) ==
  /\ At(m, p, "list")
  /\ run' = [run EXCEPT ![m].page[p] = "count", ![m].convs[p] = Listed(p, PlatformOf[p])]
  /\ UNCHANGED <<inbox, job, items>>
ListFails(m, p) ==
  /\ At(m, p, "list") /\ "list" \in MonitorFaults
  /\ run' = [run EXCEPT ![m].page[p] = "plain"]
  /\ UNCHANGED <<inbox, job, items>>
\* The fallback lists Messenger, whatever the page, and reads one message of each conversation.
LastMessage(c) == [c EXCEPT !.msgs = SubSeq(@, 1, 1)]
PlainList(m, p) ==
  /\ At(m, p, "plain")
  /\ \E unread \in IF "messages" \in MonitorFaults THEN SUBSET (1..MaxFetch) ELSE {{}} :
       LET cs == Listed(p, "messenger")
       IN run' = [run EXCEPT ![m].page[p] = "count", ![m].plain = @ \union {p},
                             ![m].convs[p] = [i \in DOMAIN cs |-> IF i \in unread THEN [cs[i] EXCEPT !.msgs = <<>>]
                                                                  ELSE LastMessage(cs[i])]]
  /\ UNCHANGED <<inbox, job, items>>
PlainListFails(m, p) ==
  /\ At(m, p, "plain") /\ "plain list" \in MonitorFaults
  /\ run' = [run EXCEPT ![m].page[p] = "tell", ![m].sums.errors = @ + 1]
  /\ UNCHANGED <<inbox, job, items>>

\* The sums are raised before the rows are saved.
Waiting(cs) == {i \in DOMAIN cs : NeedsFollowUp(cs[i].msgs)}
CountPage(m, p) ==
  /\ At(m, p, "count")
  /\ LET cs == run[m].convs[p]
     IN run' = [run EXCEPT ![m].page[p] = IF cs = <<>> THEN "tell" ELSE "save", ![m].shown = @ + Len(cs),
                           ![m].sums.total = @ + Len(cs), ![m].sums.noReply = @ + Cardinality(Waiting(cs))]
  /\ UNCHANGED <<inbox, job, items>>
SaveRows(m, p) ==
  /\ At(m, p, "save")
  /\ LET cs == run[m].convs[p]
     IN items' = items \union {[job |-> m, page |-> p, at |-> i, platform |-> cs[i].platform,
                                needsReply |-> i \in Waiting(cs)] : i \in DOMAIN cs}
  /\ run' = [run EXCEPT ![m].page[p] = "tell"]
  /\ UNCHANGED <<inbox, job>>
SaveFails(m, p) ==
  /\ At(m, p, "save") /\ "save" \in MonitorFaults
  /\ run' = [run EXCEPT ![m].page[p] = "tell", ![m].sums.errors = @ + 1]
  /\ UNCHANGED <<inbox, job, items>>
\* updateJobProgress writes to a running job only.
Told(m, sums) == IF job[m].status = "running" THEN [job EXCEPT ![m].told = sums] ELSE job
TellPage(m, p) ==
  /\ At(m, p, "tell")
  /\ LET sums == [run[m].sums EXCEPT !.pages = @ + 1]
     IN run' = [run EXCEPT ![m].page[p] = "done", ![m].sums = sums] /\ job' = Told(m, sums)
  /\ UNCHANGED <<inbox, items>>

\* Mutant of EndMonitor: errors do not fail the job.
EndMonitorDone(m) ==
  /\ run[m].at = "scanning" /\ \A p \in MonitoredPages : run[m].page[p] = "done"
  /\ run' = [run EXCEPT ![m].at = IF job[m].status # "running" THEN "over" ELSE "finish"]
  /\ UNCHANGED <<inbox, job, items>>

\* finishJob reads the status, then writes.
EndMonitor(m) ==
  /\ run[m].at = "scanning" /\ \A p \in MonitoredPages : run[m].page[p] = "done"
  /\ run' = [run EXCEPT ![m].at = IF job[m].status # "running" THEN "over"
                                  ELSE IF run[m].shown = 0 /\ run[m].sums.errors > 0 THEN "fail"
                                  ELSE "finish"]
  /\ UNCHANGED <<inbox, job, items>>
FinishMonitor(m) ==
  /\ run[m].at \in {"fail", "finish"}
  /\ job' = [job EXCEPT ![m] = IF run[m].at = "fail" THEN [@ EXCEPT !.status = "failed"]
                               ELSE [status |-> "done", told |-> run[m].sums]]
  /\ run' = [run EXCEPT ![m].at = "over"]
  /\ UNCHANGED <<inbox, items>>

\* Another process starts: every running job is a leftover to it.
OtherBoots(m) ==
  /\ "boot" \in MonitorFaults /\ job[m].status = "running"
  /\ job' = [job EXCEPT ![m].status = "failed"]
  /\ UNCHANGED <<inbox, run, items>>

Next ==
  \/ \E m \in Monitors : AskMonitor(m) \/ CreateMonitor(m) \/ EndMonitor(m) \/ FinishMonitor(m) \/ OtherBoots(m)
  \/ \E m \in Monitors, p \in MonitoredPages :
       \/ TakePage(m, p) \/ ListMonitored(m, p) \/ ListFails(m, p) \/ PlainList(m, p) \/ PlainListFails(m, p)
       \/ CountPage(m, p) \/ SaveRows(m, p) \/ SaveFails(m, p) \/ TellPage(m, p)
  \/ (\A m \in Monitors : run[m].at \in {"refused", "over"}) /\ UNCHANGED monitorVars
Spec == Init /\ [][Next]_monitorVars

TypeOK ==
  /\ \A m \in Monitors : job[m].status \in {"none", "running", "done", "failed"} /\ Cardinality(Busy(m)) <= PageWorkers
  /\ \A i \in items : i.job \in Monitors /\ i.page \in MonitoredPages

RowsOf(m) == {i \in items : i.job = m}
\* When the rows could be saved, a monitor that is done shows as many as it counted, as many of them
\* unanswered as it counted, has gone through every page, and has read some page.
DoneIsShown == \A m \in Monitors : job[m].status = "done" /\ "save" \notin MonitorFaults =>
  /\ Cardinality(RowsOf(m)) = job[m].told.total
  /\ Cardinality({i \in RowsOf(m) : i.needsReply}) = job[m].told.noReply
  /\ job[m].told.pages = Cardinality(MonitoredPages)
  /\ job[m].told.errors < Cardinality(MonitoredPages) \/ RowsOf(m) # {}
\* A page's rows are conversations of its own platform.
OwnPlatform == \A i \in items : i.platform = PlatformOf[i.page]
\* Who waits for an answer is the same however the page was read.
WaitsAlike == \A i \in items : i.needsReply = NeedsFollowUp(Listed(i.page, PlatformOf[i.page])[i.at].msgs)
\* A job that ended keeps its end.
EndKept == [][\A m \in Monitors : job[m].status = "failed" => job'[m].status = "failed"]_monitorVars
OneMonitor == Cardinality({m \in Monitors : job[m].status = "running"}) <= 1
==============================================================================
