--------------------------- MODULE BackfillProofs ---------------------------
(***************************************************************************)
(* Theorems about the full scan of the inbox, for any number of sessions,  *)
(* tenants, jobs and pages.                                                *)
(*                                                                         *)
(* Types: the type invariant holds with Redis or without, whatever the     *)
(* sessions ask for, whatever throws and whichever process restarts.  The  *)
(* proof takes one group of variables at a time, first through the steps   *)
(* of a session, then through those of a run.                              *)
(*                                                                         *)
(* Progress: with Redis, and as long as nobody cancels, the progress that  *)
(* is saved for a job was scanned for it, and a job saved as completed has *)
(* scanned every page.  A cancel breaks the first: a session that resumes  *)
(* writes "running" by the id it read before the cancel, and if the scan   *)
(* stopped on the cancelled row before that write, the check after the     *)
(* scan finds the row running and counts the page as done.  Without Redis  *)
(* sessions of one process share one memory of the job.                    *)
(*                                                                         *)
(* Free: a worker without a run does not believe it has one, so the next   *)
(* job is not skipped, unless a query of the run throws: the handler of an *)
(* error leaves the run without putting its state back.                    *)
(***************************************************************************)
EXTENDS Backfill, TLAPS

-----------------------------------------------------------------------------
\* Types.  An actor that is to read or write the row of its job has one.
Pcs == UserPcs \cup RunnerPcs
Continuations == {"scan", "bottom", "pauseClear", "pauseClearMid", "cancelClear", "cancelClearMid",
                  "idle"}
Locals == [pc : Pcs, op : UserOps \cup {"none"}, cur : Jobs \cup {NoJob},
           seen : SUBSET Jobs, list : SUBSET Pages, todo : SUBSET Pages,
           page : Pages \cup {NoPage}, tgt : Jobs \cup {NoJob}, want : Statuses,
           next : Continuations]
Memory == [job : Jobs \cup {NoJob}, running : BOOLEAN, pause : BOOLEAN, cancel : BOOLEAN,
           done : SUBSET Pages]
Rows == [status : Statuses, tenant : Tenants, saved : SUBSET Pages]
JobPcs == {"read", "flag", "dbRead", "dbWrite"} \cup InRun

\* One part for each group of variables.
ActTyped == act \in [Actors -> Locals]
MemTyped == mem \in [Hosts -> Memory]
RowTyped == row \in [Jobs -> Rows]
SignalsTyped == /\ keys \in [Kinds -> SUBSET Jobs]
                /\ cache \in [Hosts -> [Kinds -> [Jobs -> {"none", "yes", "no"}]]]
RestTyped == /\ queue \in Seq(Jobs) /\ purging \in BOOLEAN
             /\ scanned \in [Jobs -> SUBSET Pages] /\ struck \subseteq Jobs
\* Who is to touch a row has a job, and a scan has a page.
HasJob == \A a \in Actors : act[a].pc \in JobPcs => act[a].cur \in Jobs

Scanning(a) == \/ act[a].pc \in {"scan", "after"}
               \/ act[a].pc \in {"check", "write"} /\ act[a].next = "scan"
HasPage == \A a \in Actors : Scanning(a) => act[a].page \in Pages

\* The typing invariant.
Typed == /\ ActTyped /\ MemTyped /\ RowTyped /\ SignalsTyped /\ RestTyped
         /\ HasJob /\ HasPage

\* The typing below is finer than the type invariant the runs check.
LEMMA TypesTyped == Typed => TypeOK
BY DEF Typed, TypeOK, ActTyped, MemTyped, RowTyped, SignalsTyped, RestTyped, Locals, Memory, Rows,
   Pcs, Continuations, RunnerPcs

\* One field of the locals at a time, and of a process's memory.
LEMMA FieldsTyped ==
  ASSUME NEW l \in Locals
  PROVE  /\ \A x \in Pcs : [l EXCEPT !.pc = x] \in Locals
         /\ \A x \in UserOps : [l EXCEPT !.op = x] \in Locals
         /\ \A x \in Jobs \cup {NoJob} : [l EXCEPT !.cur = x] \in Locals
         /\ \A x \in SUBSET Jobs : [l EXCEPT !.seen = x] \in Locals
         /\ \A x \in SUBSET Pages : [l EXCEPT !.list = x] \in Locals
         /\ \A x \in SUBSET Pages : [l EXCEPT !.todo = x] \in Locals
         /\ \A x \in Pages \cup {NoPage} : [l EXCEPT !.page = x] \in Locals
         /\ \A x \in Jobs \cup {NoJob} : [l EXCEPT !.tgt = x] \in Locals
         /\ \A x \in Statuses : [l EXCEPT !.want = x] \in Locals
         /\ \A x \in Continuations : [l EXCEPT !.next = x] \in Locals
BY DEF Locals

\* What the locals of an actor hold.
LEMMA LocalsRead ==
  ASSUME NEW l \in Locals
  PROVE  /\ l.pc \in Pcs /\ l.cur \in Jobs \cup {NoJob} /\ l.seen \in SUBSET Jobs
         /\ l.list \in SUBSET Pages /\ l.todo \in SUBSET Pages /\ l.page \in Pages \cup {NoPage}
         /\ l.tgt \in Jobs \cup {NoJob} /\ l.want \in Statuses /\ l.next \in Continuations
BY DEF Locals

\* The memory of a process: one field at a time, and what it holds.
LEMMA MemoryTyped ==
  ASSUME NEW m \in Memory
  PROVE  /\ \A x \in Jobs \cup {NoJob} : [m EXCEPT !.job = x] \in Memory
         /\ \A x \in BOOLEAN : /\ [m EXCEPT !.running = x] \in Memory
                               /\ [m EXCEPT !.pause = x] \in Memory
                               /\ [m EXCEPT !.cancel = x] \in Memory
         /\ \A x \in SUBSET Pages : [m EXCEPT !.done = x] \in Memory
         /\ m.job \in Jobs \cup {NoJob} /\ m.done \in SUBSET Pages
         /\ m.pause \in BOOLEAN /\ m.cancel \in BOOLEAN
BY DEF Memory

\* The labels and the statuses the actions name.
LEMMA PcsAre ==
  /\ RunnerPcs \subseteq Pcs /\ InRun \subseteq Pcs /\ Continuations \subseteq RunnerPcs
  /\ {"scan", "bottom", "pauseClear", "pauseClearMid", "cancelClear", "cancelClearMid",
      "idle"} \subseteq Continuations
  /\ {"idle", "read", "clearPause", "clearCancel", "pages", "top", "pauseTop", "check",
      "write", "scan", "after", "finally", "bottom", "pauseBottom", "pauseClear",
      "pauseClearMid", "cancelClear", "cancelClearMid", "catch"} \subseteq RunnerPcs
  /\ {"lookup", "close", "create", "resume", "enqueue", "flag", "dbRead", "dbWrite",
      "signal", "update", "purgeLen", "purgeDel", "clearFlags", "reset"} \subseteq Pcs
  /\ {"running", "paused", "completed", "failed", "cancelled"} \subseteq Statuses
BY DEF Pcs, RunnerPcs, UserPcs, InRun, Statuses, Live, Continuations

\* An actor that rests.
LEMMA BlankTyped == Blank \in Locals /\ Blank.pc = "idle" /\ Blank.cur = NoJob
BY DEF Blank, Locals, Pcs, UserPcs, RunnerPcs, Statuses, Continuations

\* Who acts, and in which process.
LEMMA HostsAre ==
  /\ \A r \in Runners : r \in Actors /\ Host(r) \in Hosts
  /\ \A u \in Users : u \in Actors
  /\ "api" \in Hosts /\ "worker" \in Hosts /\ "pause" \in Kinds /\ "cancel" \in Kinds
BY DEF Actors, Runners, Host, Hosts, Kinds

\* The types hold of empty tables, resting actors and empty lists.
LEMMA TypedInit == Init => Typed
<1> SUFFICES ASSUME Init PROVE Typed
  OBVIOUS
<1>1. ActTyped /\ HasJob
  BY BlankTyped DEF Init, ActTyped, HasJob, JobPcs, InRun
<1>2. HasPage
  BY BlankTyped DEF Init, HasPage, Scanning
<1>3. MemTyped
  BY DEF Init, MemTyped, Memory, Fresh
<1>4. RowTyped
  <2>1. (CHOOSE t \in Tenants : TRUE) \in Tenants
    BY BackfillConstants
  <2> QED BY <2>1 DEF Init, RowTyped, Rows, Statuses
<1>5. SignalsTyped
  BY DEF Init, SignalsTyped
<1>6. RestTyped
  <2>1. <<>> \in Seq(Jobs)
    OBVIOUS
  <2>2. scanned \in [Jobs -> SUBSET Pages] /\ struck \subseteq Jobs /\ purging \in BOOLEAN
    BY DEF Init
  <2>3. queue \in Seq(Jobs)
    BY <2>1 DEF Init
  <2> QED BY <2>2, <2>3 DEF RestTyped
<1> QED BY <1>1, <1>3, <1>4, <1>5, <1>6, <1>2 DEF Typed

-----------------------------------------------------------------------------
\* A step of a runner leaves the other actors alone, and most of them leave
\* its job and its page alone.
Alone(r) == \A a \in Actors : a # r => act'[a] = act[a]
InPlace(r) == Alone(r) /\ act'[r].cur = act[r].cur /\ act'[r].page = act[r].page
                       /\ act'[r].todo = act[r].todo

\* Going to a label.
LEMMA GoMoves ==
  ASSUME ActTyped, NEW r \in Runners, NEW x, Go(r, x)
  PROVE  InPlace(r) /\ act'[r].pc = x /\ act'[r].next = act[r].next
<1>1. r \in Actors /\ act[r] \in Locals
  BY HostsAre DEF ActTyped
<1> DEFINE l == [act[r] EXCEPT !.pc = x]
<1>2. l.pc = x /\ l.cur = act[r].cur /\ l.page = act[r].page /\ l.todo = act[r].todo
        /\ l.next = act[r].next
  BY <1>1 DEF Locals
<1>3. act' = [act EXCEPT ![r] = l]
  BY DEF Go
<1> HIDE DEF l
<1> QED BY <1>1, <1>2, <1>3 DEF ActTyped, InPlace, Alone

\* Being done.
LEMMA QuitMoves ==
  ASSUME ActTyped, NEW r \in Runners, Quit(r)
  PROVE  Alone(r) /\ act'[r] = Blank /\ act'[r].pc = "idle"
BY HostsAre, BlankTyped DEF ActTyped, Quit, Alone

\* saveProgress begins: it looks at the row first, unless the status is final.
LEMMA PersistMoves ==
  ASSUME ActTyped, NEW r \in Runners, NEW s, NEW P, NEW c, Persist(r, s, P, c)
  PROVE  /\ InPlace(r)
         /\ mem[Host(r)].job = NoJob => act'[r].pc = c /\ act'[r].next = act[r].next
         /\ mem[Host(r)].job # NoJob =>
              /\ act'[r].pc = (IF s \in Live THEN "check" ELSE "write")
              /\ act'[r].tgt = mem[Host(r)].job /\ act'[r].want = s
              /\ act'[r].list = P /\ act'[r].next = c
<1>1. r \in Actors /\ act[r] \in Locals
  BY HostsAre DEF ActTyped
<1>2. CASE mem[Host(r)].job = NoJob
  <2>1. Go(r, c)
    BY <1>2 DEF Persist, Go
  <2> QED BY <1>2, <2>1, GoMoves
<1>3. CASE mem[Host(r)].job # NoJob
  <2> DEFINE p == IF s \in Live THEN "check" ELSE "write"
             l == [act[r] EXCEPT !.pc = p, !.tgt = mem[Host(r)].job, !.want = s, !.list = P,
                                 !.next = c]
  <2>1. act' = [act EXCEPT ![r] = l]
    BY <1>3 DEF Persist
  <2>2. /\ l.pc = p /\ l.tgt = mem[Host(r)].job /\ l.want = s /\ l.list = P /\ l.next = c
        /\ l.cur = act[r].cur /\ l.page = act[r].page /\ l.todo = act[r].todo
    <3> HIDE DEF p
    <3> QED BY <1>1 DEF Locals
  <2> HIDE DEF l
  <2> QED BY <1>1, <1>3, <2>1, <2>2 DEF ActTyped, InPlace, Alone
<1> QED BY <1>2, <1>3

\* saveProgress returns: the run goes on at the step after it.
LEMMA SavedMoves ==
  ASSUME ActTyped, NEW r \in Runners, Saved(r)
  PROVE  /\ act[r].next = "idle" => Alone(r) /\ act'[r].pc = "idle"
         /\ act[r].next # "idle" => InPlace(r) /\ act'[r].pc = act[r].next
<1>1. r \in Actors /\ act[r] \in Locals
  BY HostsAre DEF ActTyped
<1>2. CASE act[r].next = "idle"
  <2>1. Quit(r)
    BY <1>2 DEF Saved
  <2> QED BY <1>2, <2>1, QuitMoves
<1>3. CASE act[r].next # "idle"
  <2> DEFINE l == [act[r] EXCEPT !.pc = act[r].next, !.tgt = NoJob, !.want = "none", !.list = {},
                                 !.next = "idle"]
  <2>1. act' = [act EXCEPT ![r] = l]
    BY <1>3 DEF Saved
  <2>2. l.pc = act[r].next /\ l.cur = act[r].cur /\ l.page = act[r].page
          /\ l.todo = act[r].todo
    BY <1>1 DEF Locals
  <2> HIDE DEF l
  <2> QED BY <1>1, <1>3, <2>1, <2>2 DEF ActTyped, InPlace, Alone
<1> QED BY <1>2, <1>3

\* The flags of a run that stops are cleared: it saves its progress, or it is over.
LEMMA ClearedMoves ==
  ASSUME ActTyped, NEW r \in Runners, NEW mid, Cleared(r, mid)
  PROVE  \/ Alone(r) /\ act'[r].pc = "idle"
         \/ /\ mem[Host(r)].job # NoJob /\ InPlace(r) /\ act'[r].pc = "check"
            /\ act'[r].tgt = mem[Host(r)].job /\ act'[r].want = "running"
            /\ act'[r].list = mem[Host(r)].done /\ act'[r].next = "idle"
<1>1. r \in Actors /\ act[r] \in Locals
  BY HostsAre DEF ActTyped
<1>2. CASE Quit(r)
  BY <1>2, QuitMoves
<1>3. CASE ~ Quit(r)
  <2> DEFINE l == [act[r] EXCEPT !.pc = "check", !.tgt = mem[Host(r)].job, !.want = "running",
                                 !.list = mem[Host(r)].done, !.next = "idle"]
  <2>1. act' = [act EXCEPT ![r] = l] /\ mem[Host(r)].job # NoJob
    BY <1>3 DEF Cleared
  <2>2. /\ l.pc = "check" /\ l.tgt = mem[Host(r)].job /\ l.want = "running"
        /\ l.list = mem[Host(r)].done /\ l.next = "idle"
        /\ l.cur = act[r].cur /\ l.page = act[r].page /\ l.todo = act[r].todo
    BY <1>1 DEF Locals
  <2> HIDE DEF l
  <2> QED BY <1>1, <2>1, <2>2 DEF ActTyped, InPlace, Alone
<1> QED BY <1>2, <1>3

\* Saving progress: what it asks of the arguments.
LEMMA PersistTyped ==
  ASSUME ActTyped, MemTyped, NEW r \in Runners, NEW s \in Statuses, NEW P \in SUBSET Pages,
         NEW c \in Continuations, Persist(r, s, P, c)
  PROVE  ActTyped'
<1> USE HostsAre
<1>1. CASE mem[Host(r)].job = NoJob
  BY <1>1, FieldsTyped, PcsAre DEF Persist, ActTyped
<1>2. CASE mem[Host(r)].job # NoJob
  <2> DEFINE p == IF s \in Live THEN "check" ELSE "write"
             l == [act[r] EXCEPT !.pc = p, !.tgt = mem[Host(r)].job, !.want = s, !.list = P,
                                 !.next = c]
  <2>1. p \in Pcs
    BY PcsAre
  <2>2. mem[Host(r)].job \in Jobs \cup {NoJob}
    BY MemoryTyped DEF MemTyped
  <2>3. l \in Locals
    <3> HIDE DEF p
    <3> QED BY <2>1, <2>2, FieldsTyped DEF ActTyped
  <2>4. act' = [act EXCEPT ![r] = l]
    BY <1>2 DEF Persist, ActTyped
  <2> QED BY <2>3, <2>4 DEF ActTyped
<1> QED BY <1>1, <1>2

\* Saving is over: the runner goes on where it was, or quits.
LEMMA SavedTyped ==
  ASSUME ActTyped, NEW r \in Runners, Saved(r)
  PROVE  ActTyped'
<1> USE HostsAre
<1>1. CASE act[r].next = "idle"
  BY <1>1, BlankTyped DEF Saved, Quit, ActTyped
<1>2. CASE act[r].next # "idle"
  <2> DEFINE l == [act[r] EXCEPT !.pc = act[r].next, !.tgt = NoJob, !.want = "none", !.list = {},
                                 !.next = "idle"]
  <2>1. act[r] \in Locals /\ act[r].next \in Pcs /\ "none" \in Statuses
    BY LocalsRead, PcsAre DEF ActTyped, Statuses
  <2>2. l \in Locals
    BY <2>1, FieldsTyped, PcsAre
  <2>3. act' = [act EXCEPT ![r] = l]
    BY <1>2 DEF Saved, ActTyped
  <2> QED BY <2>2, <2>3 DEF ActTyped
<1> QED BY <1>1, <1>2

\* A pause is written: the runner saves what it had done, or quits.
LEMMA ClearedTyped ==
  ASSUME ActTyped, MemTyped, NEW r \in Runners, NEW mid \in BOOLEAN, Cleared(r, mid)
  PROVE  ActTyped'
<1> USE HostsAre
<1>1. CASE ~ mid \/ mem[Host(r)].job = NoJob
  BY <1>1, BlankTyped DEF Cleared, Quit, ActTyped
<1>2. CASE mid /\ mem[Host(r)].job # NoJob
  <2> DEFINE l == [act[r] EXCEPT !.pc = "check", !.tgt = mem[Host(r)].job, !.want = "running",
                                 !.list = mem[Host(r)].done, !.next = "idle"]
  <2>1. act[r] \in Locals /\ mem[Host(r)].job \in Jobs \cup {NoJob}
          /\ mem[Host(r)].done \in SUBSET Pages
    BY MemoryTyped DEF ActTyped, MemTyped
  <2>2. l \in Locals
    BY <2>1, FieldsTyped, PcsAre
  <2>3. act' = [act EXCEPT ![r] = l]
    BY <1>2 DEF Cleared, ActTyped
  <2> QED BY <2>2, <2>3 DEF ActTyped
<1> QED BY <1>1, <1>2

\* The locals through every step of a session.
LEMMA SessionLocals ==
  ASSUME ActTyped, MemTyped, RowTyped, HasJob, NEW u \in Users,
         Request(u) \/ SessionStep(u) \/ PushRefused(u)
  PROVE  ActTyped'
<1> USE HostsAre, FieldsTyped, PcsAre, LocalsRead, BlankTyped DEF ActTyped
<1> /\ mem["api"].job \in Jobs \cup {NoJob}
    /\ \A j \in Jobs : row[j].saved \in SUBSET Pages
  BY MemoryTyped DEF MemTyped, RowTyped, Rows
<1>1. CASE StartFind(u)
  <2>1. PICK k \in UserOps : act' = [act EXCEPT ![u] = [@ EXCEPT !.op = k,
                                                    !.pc = IF k = "force" THEN "close"
                                                           ELSE "lookup"]]
    BY <1>1 DEF StartFind, UserOps
  <2>2. (IF k = "force" THEN "close" ELSE "lookup") \in Pcs
    OBVIOUS
  <2> QED BY <2>1, <2>2
<1>2. CASE Lookup(u)
  <2>1. ASSUME NEW j \in Jobs, act' = [act EXCEPT ![u] = [@ EXCEPT !.cur = j, !.pc = "resume"]]
        PROVE  ActTyped'
    BY <2>1
  <2>2. ASSUME Go(u, "create") PROVE ActTyped'
    BY <2>2 DEF Go
  <2> QED BY <1>2, <2>1, <2>2 DEF Lookup, InStatus, Visible
<1>3. CASE Resume(u)
  BY <1>3 DEF Resume
<1>4. CASE ClosePaused(u)
  BY <1>4 DEF ClosePaused, Go
<1>5. CASE Create(u)
  <2>1. PICK j \in Jobs : act' = [act EXCEPT ![u] = [@ EXCEPT !.cur = j, !.pc = "enqueue"]]
    BY <1>5 DEF Create
  <2> QED BY <2>1
<1>6. CASE OutOfIds(u)
  BY <1>6 DEF OutOfIds, Quit
<1>7. CASE Enqueue(u)
  BY <1>7 DEF Enqueue, Quit
<1>8. CASE RunInline(u)
  <2>1. CASE act[u].cur = NoJob
    BY <1>8, <2>1 DEF RunInline, Quit
  <2>2. CASE act[u].cur # NoJob
    <3>1. PICK r \in Inline : act' = [act EXCEPT ![u] = Blank,
                                          ![r] = [Blank EXCEPT !.pc = "read",
                                                               !.cur = act[u].cur]]
      BY <1>8, <2>2 DEF RunInline
    <3>2. [Blank EXCEPT !.pc = "read", !.cur = act[u].cur] \in Locals
      OBVIOUS
    <3> QED BY <3>1, <3>2
  <2> QED BY <2>1, <2>2
<1>9. CASE PushRefused(u)
  BY <1>9 DEF PushRefused, Quit
<1>10. CASE PauseFind(u)
  <2>1. PICK j \in Jobs : act' = [act EXCEPT ![u] = [@ EXCEPT !.op = "pause", !.cur = j,
                                                                 !.pc = "flag"]]
    BY <1>10 DEF PauseFind
  <2>2. "pause" \in UserOps /\ "flag" \in Pcs
    BY DEF UserOps
  <2> QED BY <2>1, <2>2
<1>11. CASE PauseFlag(u)
  BY <1>11 DEF PauseFlag, Go
<1>12. CASE PauseRead(u)
  <2>1. act[u].cur \in Jobs
    BY <1>12 DEF PauseRead, At, HasJob, JobPcs
  <2>2. row[act[u].cur].saved \in SUBSET Pages
    BY <2>1
  <2> QED BY <1>12, <2>2 DEF PauseRead
<1>13. CASE PauseWrite(u)
  BY <1>13 DEF PauseWrite, Quit
<1>14. CASE CancelFind(u)
  <2>1. InStatus(u, Live) \in SUBSET Jobs /\ "cancel" \in UserOps
    BY DEF InStatus, Visible, UserOps
  <2> QED BY <1>14, <2>1 DEF CancelFind
<1>15. CASE CancelSignal(u)
  BY <1>15 DEF CancelSignal, Go
<1>16. CASE CancelUpdate(u)
  BY <1>16 DEF CancelUpdate, Go
<1>17. CASE PurgeLen(u)
  BY <1>17 DEF PurgeLen, Go
<1>18. CASE PurgeDel(u)
  BY <1>18 DEF PurgeDel, Go
<1>19. CASE ClearPauses(u)
  BY <1>19 DEF ClearPauses, Go
<1>20. CASE Reset(u)
  BY <1>20 DEF Reset, Quit
<1> QED BY <1>1, <1>2, <1>3, <1>4, <1>5, <1>6, <1>7, <1>8, <1>9, <1>10, <1>11, <1>12, <1>13, <1>14,
           <1>15, <1>16, <1>17, <1>18, <1>19, <1>20 DEF Request, SessionStep

\* The locals through every step of a run.
LEMMA RunLocals ==
  ASSUME ActTyped, MemTyped, RowTyped, HasJob, NEW r \in Runners,
         RunnerStep(r) \/ ScanStep(r) \/ ScanProgress(r) \/ RunThrows(r) \/ ListThrows(r)
  PROVE  ActTyped'
<1> USE HostsAre, FieldsTyped, PcsAre, LocalsRead, BlankTyped, PersistTyped, SavedTyped,
        ClearedTyped DEF ActTyped
<1> mem[Host(r)].job \in Jobs \cup {NoJob} /\ mem[Host(r)].done \in SUBSET Pages
  BY MemoryTyped DEF MemTyped
<1>1. CASE ReadRow(r)
  <2>1. CASE Quit(r)
    BY <2>1 DEF Quit
  <2>2. CASE act' = [act EXCEPT ![r] = [@ EXCEPT !.todo = Pages \ row[act[r].cur].saved,
                                              !.pc = "clearPause"]]
    <3> Pages \ row[act[r].cur].saved \in SUBSET Pages
      OBVIOUS
    <3> QED BY <2>2
  <2> QED BY <1>1, <2>1, <2>2 DEF ReadRow
<1>2. CASE ClearOldPause(r)
  BY <1>2 DEF ClearOldPause, Go
<1>3. CASE ClearOldCancel(r)
  BY <1>3 DEF ClearOldCancel, Go
<1>4. CASE ListPages(r)
  BY <1>4 DEF ListPages, Go
<1>5. CASE Top(r)
  <2>1. CASE CancelledNow(Host(r))
    BY <1>5, <2>1 DEF Top, AskCancel, FinishCancel
  <2>2. CASE ~ CancelledNow(Host(r))
    BY <1>5, <2>2 DEF Top, AskCancel, Go
  <2> QED BY <2>1, <2>2
<1>6. CASE Bottom(r)
  <2>1. CASE CancelledNow(Host(r))
    BY <1>6, <2>1 DEF Bottom, AskCancel, FinishCancel
  <2>2. CASE ~ CancelledNow(Host(r))
    BY <1>6, <2>2 DEF Bottom, AskCancel, Go
  <2> QED BY <2>1, <2>2
<1>7. CASE NextPage(r)
  <2>1. CASE Requested(Host(r), "pause")
    BY <1>7, <2>1 DEF NextPage, FinishPause
  <2>2. CASE ~ Requested(Host(r), "pause") /\ mem[Host(r)].job = NoJob
    <3>1. PICK p \in Pages : act' = [act EXCEPT ![r] = [@ EXCEPT !.page = p, !.pc = "scan"]]
      BY <1>7, <2>2 DEF NextPage
    <3> QED BY <3>1
  <2>3. CASE ~ Requested(Host(r), "pause") /\ mem[Host(r)].job # NoJob
    <3>1. PICK p \in Pages : act' = [act EXCEPT ![r] = [@ EXCEPT !.page = p, !.pc = "check",
                                                                 !.tgt = mem[Host(r)].job,
                                                                 !.want = "running",
                                                                 !.list = mem[Host(r)].done,
                                                                 !.next = "scan"]]
      BY <1>7, <2>3 DEF NextPage
    <3> DEFINE l == [act[r] EXCEPT !.page = p, !.pc = "check", !.tgt = mem[Host(r)].job,
                       !.want = "running", !.list = mem[Host(r)].done, !.next = "scan"]
    <3>2. l \in Locals
      OBVIOUS
    <3>3. act' = [act EXCEPT ![r] = l]
      BY <3>1
    <3> QED BY <3>2, <3>3
  <2> QED BY <2>1, <2>2, <2>3
<1>8. CASE PersistCheck(r)
  <2>1. CASE Saved(r)
    BY <2>1
  <2>2. CASE ~ Saved(r)
    <3>1. act' = [act EXCEPT ![r] = [act[r] EXCEPT !.tgt = mem[Host(r)].job, !.pc = "write"]]
      BY <1>8, <2>2 DEF PersistCheck
    <3> QED BY <3>1
  <2> QED BY <2>1, <2>2
<1>9. CASE PersistWrite(r)
  BY <1>9 DEF PersistWrite
<1>10. CASE After(r)
  <2>1. ASSUME FinishCancel(r, "cancelClearMid") \/ FinishPause(r, "pauseClearMid") PROVE ActTyped'
    BY <2>1 DEF FinishCancel, FinishPause
  <2>2. ASSUME Go(r, "finally") PROVE ActTyped'
    BY <2>2 DEF Go
  <2> QED BY <1>10, <2>1, <2>2 DEF After
<1>11. CASE Finally(r)
  BY <1>11 DEF Finally
<1>12. CASE PauseBottom(r)
  <2>1. CASE Requested(Host(r), "pause")
    BY <1>12, <2>1 DEF PauseBottom, FinishPause
  <2>2. CASE ~ Requested(Host(r), "pause")
    <3>1. act[r].todo \ {act[r].page} \in SUBSET Pages
      OBVIOUS
    <3>2. act' = [act EXCEPT ![r] = [act[r] EXCEPT !.todo = act[r].todo \ {act[r].page},
                                                   !.page = NoPage, !.pc = "top"]]
      BY <1>12, <2>2 DEF PauseBottom
    <3> QED BY <3>1, <3>2
  <2> QED BY <2>1, <2>2
<1>13. CASE PauseCleared(r)
  BY <1>13 DEF PauseCleared
<1>14. CASE CancelCleared(r)
  BY <1>14 DEF CancelCleared
<1>15. CASE Complete(r)
  BY <1>15 DEF Complete, Quit
<1>16. CASE Catch(r)
  BY <1>16 DEF Catch, Quit
<1>17. CASE ScanStops(r)
  BY <1>17 DEF ScanStops, Go
<1>18. CASE ScanEnds(r)
  BY <1>18 DEF ScanEnds, Go
<1>19. CASE ScanFails(r)
  BY <1>19 DEF ScanFails, Go
<1>20. CASE ScanProgress(r)
  BY <1>20 DEF ScanProgress
<1>21. CASE RunThrows(r)
  BY <1>21 DEF RunThrows, Go
<1>22. CASE ListThrows(r)
  BY <1>22 DEF ListThrows, Quit
<1> QED BY <1>1, <1>2, <1>3, <1>4, <1>5, <1>6, <1>7, <1>8, <1>9, <1>10, <1>11, <1>12, <1>13, <1>14,
           <1>15, <1>16, <1>17, <1>18, <1>19, <1>20, <1>21, <1>22 DEF RunnerStep, ScanStep

\* What a process learns when it asks for a flag.
LEMMA MemAfterTyped ==
  ASSUME MemTyped, NEW h \in Hosts
  PROVE  MemAfter(h, "pause") \in [Hosts -> Memory] /\ MemAfter(h, "cancel") \in [Hosts -> Memory]
<1>1. Requested(h, "pause") \in BOOLEAN /\ Requested(h, "cancel") \in BOOLEAN
  BY DEF Requested, Flagged, MemTyped, Memory, Kinds
<1>2. [mem EXCEPT ![h].pause = Requested(h, "pause")] \in [Hosts -> Memory]
  BY <1>1, MemoryTyped DEF MemTyped
<1>3. [mem EXCEPT ![h].cancel = Requested(h, "cancel")] \in [Hosts -> Memory]
  BY <1>1, MemoryTyped DEF MemTyped
<1> QED BY <1>2, <1>3 DEF MemAfter

\* Two fields of a process's memory.
LEMMA TwoFields ==
  ASSUME NEW M \in [Hosts -> Memory], NEW h \in Hosts
  PROVE  /\ [M EXCEPT ![h] = [@ EXCEPT !.pause = TRUE, !.running = FALSE]] \in [Hosts -> Memory]
         /\ [M EXCEPT ![h] = [@ EXCEPT !.pause = FALSE, !.cancel = FALSE]] \in [Hosts -> Memory]
         /\ [M EXCEPT ![h].running = FALSE] \in [Hosts -> Memory]
         /\ [M EXCEPT ![h].pause = FALSE] \in [Hosts -> Memory]
<1> DEFINE k == [M[h] EXCEPT !.pause = TRUE, !.running = FALSE]
           l == [M[h] EXCEPT !.pause = FALSE, !.cancel = FALSE]
           m == [M[h] EXCEPT !.running = FALSE]
           n == [M[h] EXCEPT !.pause = FALSE]
<1>1. k \in Memory /\ l \in Memory /\ m \in Memory /\ n \in Memory
  BY MemoryTyped
<1>2. /\ [M EXCEPT ![h] = [@ EXCEPT !.pause = TRUE, !.running = FALSE]] = [M EXCEPT ![h] = k]
      /\ [M EXCEPT ![h] = [@ EXCEPT !.pause = FALSE, !.cancel = FALSE]] = [M EXCEPT ![h] = l]
      /\ [M EXCEPT ![h].running = FALSE] = [M EXCEPT ![h] = m]
      /\ [M EXCEPT ![h].pause = FALSE] = [M EXCEPT ![h] = n]
  OBVIOUS
<1> HIDE DEF k, l, m, n
<1> QED BY <1>1, <1>2

\* The memory of the processes through every step of a session.
LEMMA SessionMemory ==
  ASSUME ActTyped, MemTyped, NEW u \in Users,
         Request(u) \/ SessionStep(u) \/ PushRefused(u)
  PROVE  MemTyped'
<1> USE HostsAre, MemoryTyped, LocalsRead DEF MemTyped, ActTyped
<1> Fresh \in Memory
  BY DEF Fresh, Memory
<1>1. CASE StartFind(u)
  BY <1>1, TwoFields DEF StartFind
<1>2. CASE Lookup(u)
  <2>1. ASSUME NEW j \in Jobs, mem' = [mem EXCEPT !["api"].job = j] PROVE MemTyped'
    BY <2>1
  <2> QED BY <1>2, <2>1 DEF Lookup, InStatus, Visible
<1>3. CASE Resume(u)
  BY <1>3 DEF Resume
<1>4. CASE ClosePaused(u)
  BY <1>4 DEF ClosePaused, Go
<1>5. CASE Create(u)
  BY <1>5 DEF Create
<1>6. CASE OutOfIds(u)
  BY <1>6 DEF OutOfIds, Quit
<1>7. CASE Enqueue(u)
  BY <1>7 DEF Enqueue, Quit
<1>8. CASE RunInline(u)
  BY <1>8 DEF RunInline, Quit, Runners, Actors
<1>9. CASE PushRefused(u)
  BY <1>9 DEF PushRefused, Quit
<1>10. CASE PauseFind(u)
  BY <1>10 DEF PauseFind
<1>11. CASE PauseFlag(u)
  BY <1>11 DEF PauseFlag, Go
<1>12. CASE PauseRead(u)
  BY <1>12 DEF PauseRead
<1>13. CASE PauseWrite(u)
  BY <1>13 DEF PauseWrite, Quit
<1>14. CASE CancelFind(u)
  BY <1>14 DEF CancelFind, InStatus, Visible
<1>15. CASE CancelSignal(u)
  BY <1>15 DEF CancelSignal, Go
<1>16. CASE CancelUpdate(u)
  BY <1>16 DEF CancelUpdate, Go
<1>17. CASE PurgeLen(u)
  BY <1>17 DEF PurgeLen, Go
<1>18. CASE PurgeDel(u)
  BY <1>18 DEF PurgeDel, Go
<1>19. CASE ClearPauses(u)
  BY <1>19 DEF ClearPauses, Go
<1>20. CASE Reset(u)
  BY <1>20 DEF Reset, Quit
<1> QED BY <1>1, <1>2, <1>3, <1>4, <1>5, <1>6, <1>7, <1>8, <1>9, <1>10, <1>11, <1>12, <1>13, <1>14,
           <1>15, <1>16, <1>17, <1>18, <1>19, <1>20 DEF Request, SessionStep

\* The memory of the processes through every step of a run.
LEMMA RunMemory ==
  ASSUME ActTyped, MemTyped, RowTyped, HasJob, HasPage, NEW r \in Runners,
         RunnerStep(r) \/ ScanStep(r) \/ ScanProgress(r) \/ RunThrows(r) \/ ListThrows(r)
  PROVE  MemTyped'
<1> USE HostsAre DEF MemTyped, ActTyped
<1>1. CASE ReadRow(r)
  <2>1. CASE UNCHANGED mem
    BY <2>1
  <2>2. CASE mem' = [mem EXCEPT ![Host(r)] = [@ EXCEPT !.job = act[r].cur,
                                                       !.done = row[act[r].cur].saved,
                                                       !.pause = FALSE]]
    <3>1. act[r].cur \in Jobs
      BY <1>1 DEF ReadRow, At, HasJob, JobPcs
    <3>2. row[act[r].cur].saved \in SUBSET Pages
      BY <3>1 DEF RowTyped, Rows
    <3> QED BY <2>2, <3>1, <3>2, MemoryTyped
  <2> QED BY <1>1, <2>1, <2>2 DEF ReadRow
<1>2. CASE ClearOldPause(r)
  BY <1>2 DEF ClearOldPause
<1>3. CASE ClearOldCancel(r)
  BY <1>3, MemoryTyped DEF ClearOldCancel
<1>4. CASE ListPages(r)
  BY <1>4 DEF ListPages
<1>5. CASE Top(r)
  <2>1. CASE mem' = [MemAfter(Host(r), "cancel") EXCEPT ![Host(r)].running = FALSE]
    BY <2>1, TwoFields, MemAfterTyped
  <2>2. CASE mem' = MemAfter(Host(r), "cancel")
    BY <2>2, TwoFields, MemAfterTyped
  <2> QED BY <1>5, <2>1, <2>2 DEF Top, AskCancel, FinishCancel
<1>6. CASE Bottom(r)
  <2>1. CASE mem' = [MemAfter(Host(r), "cancel") EXCEPT ![Host(r)].running = FALSE]
    BY <2>1, TwoFields, MemAfterTyped
  <2>2. CASE mem' = MemAfter(Host(r), "cancel")
    BY <2>2, TwoFields, MemAfterTyped
  <2> QED BY <1>6, <2>1, <2>2 DEF Bottom, AskCancel, FinishCancel
<1>7. CASE NextPage(r)
  <2>1. CASE mem' = [mem EXCEPT ![Host(r)] = [@ EXCEPT !.pause = TRUE, !.running = FALSE]]
    BY <2>1, TwoFields, MemAfterTyped
  <2>2. CASE UNCHANGED mem
    BY <2>2, TwoFields, MemAfterTyped
  <2> QED BY <1>7, <2>1, <2>2 DEF NextPage, FinishPause
<1>8. CASE PersistCheck(r)
  BY <1>8, MemAfterTyped DEF PersistCheck
<1>9. CASE PersistWrite(r)
  BY <1>9 DEF PersistWrite
<1>10. CASE After(r)
  <2>1. mem[Host(r)].done \cup {act[r].page} \in SUBSET Pages
    BY <1>10, MemoryTyped DEF After, At, HasPage, Scanning
  <2>2. MemAfter(Host(r), "cancel")[Host(r)].done = mem[Host(r)].done
    BY DEF MemAfter, Memory
  <2>3. CASE mem' = [MemAfter(Host(r), "cancel") EXCEPT ![Host(r)].running = FALSE]
    BY <2>3, TwoFields, MemAfterTyped
  <2>4. CASE mem' = [mem EXCEPT ![Host(r)] = [@ EXCEPT !.pause = TRUE, !.running = FALSE]]
    BY <2>4, TwoFields
  <2>5. CASE mem' = [MemAfter(Host(r), "cancel") EXCEPT ![Host(r)].done = @ \cup {act[r].page}]
    <3>1. MemAfter(Host(r), "cancel") \in [Hosts -> Memory]
      BY MemAfterTyped
    <3> QED BY <2>1, <2>2, <2>5, <3>1, MemoryTyped
  <2> QED BY <1>10, <2>3, <2>4, <2>5 DEF After, FinishCancel, FinishPause
<1>11. CASE Finally(r)
  BY <1>11 DEF Finally
<1>12. CASE PauseBottom(r)
  <2>1. CASE mem' = [mem EXCEPT ![Host(r)] = [@ EXCEPT !.pause = TRUE, !.running = FALSE]]
    BY <2>1, TwoFields, MemAfterTyped
  <2>2. CASE UNCHANGED mem
    BY <2>2, TwoFields, MemAfterTyped
  <2> QED BY <1>12, <2>1, <2>2 DEF PauseBottom, FinishPause
<1>13. CASE PauseCleared(r)
  <2>1. CASE mem' = [mem EXCEPT ![Host(r)].pause = FALSE]
    BY <2>1, TwoFields, MemAfterTyped
  <2> QED BY <1>13, <2>1 DEF PauseCleared
<1>14. CASE CancelCleared(r)
  <2>1. CASE mem' = [mem EXCEPT ![Host(r)] = [@ EXCEPT !.pause = FALSE, !.cancel = FALSE]]
    BY <2>1, TwoFields, MemAfterTyped
  <2> QED BY <1>14, <2>1 DEF CancelCleared
<1>15. CASE Complete(r)
  BY <1>15, MemoryTyped DEF Complete
<1>16. CASE Catch(r)
  <2>1. CASE mem' = [mem EXCEPT ![Host(r)].running = FALSE]
    BY <2>1, TwoFields, MemAfterTyped
  <2>2. CASE mem' = MemAfter(Host(r), "cancel")
    BY <2>2, TwoFields, MemAfterTyped
  <2> QED BY <1>16, <2>1, <2>2 DEF Catch
<1>17. CASE ScanStops(r)
  BY <1>17, MemAfterTyped DEF ScanStops, Kinds
<1>18. CASE ScanEnds(r)
  BY <1>18 DEF ScanEnds
<1>19. CASE ScanFails(r)
  <2>1. mem[Host(r)].done \cup {act[r].page} \in SUBSET Pages
    BY <1>19, MemoryTyped DEF ScanFails, At, HasPage, Scanning
  <2> QED BY <1>19, <2>1, MemoryTyped DEF ScanFails
<1>20. CASE ScanProgress(r)
  BY <1>20 DEF ScanProgress
<1>21. CASE RunThrows(r)
  BY <1>21 DEF RunThrows
<1>22. CASE ListThrows(r)
  BY <1>22 DEF ListThrows
<1> QED BY <1>1, <1>2, <1>3, <1>4, <1>5, <1>6, <1>7, <1>8, <1>9, <1>10, <1>11, <1>12, <1>13, <1>14,
           <1>15, <1>16, <1>17, <1>18, <1>19, <1>20, <1>21, <1>22 DEF RunnerStep, ScanStep

\* What a process keeps of the answer when it asks for a flag.
LEMMA CacheTyped ==
  ASSUME SignalsTyped, MemTyped, NEW h \in Hosts
  PROVE  /\ CacheAfter(h, "pause") \in [Hosts -> [Kinds -> [Jobs -> {"none", "yes", "no"}]]]
         /\ CacheAfter(h, "cancel") \in [Hosts -> [Kinds -> [Jobs -> {"none", "yes", "no"}]]]
<1> USE DEF SignalsTyped, Kinds
<1>1. ASSUME NEW b \in {"yes", "no"}, NEW k \in Kinds, NEW j \in Jobs
      PROVE  [cache EXCEPT ![h][k][j] = b] \in [Hosts -> [Kinds -> [Jobs -> {"none", "yes", "no"}]]]
  OBVIOUS
<1>2. mem[h].job \in Jobs \cup {NoJob}
  BY MemoryTyped DEF MemTyped
<1> HIDE DEF SignalsTyped
<1>3. ASSUME NEW k \in Kinds, mem[h].job \in Jobs
      PROVE  \/ CacheAfter(h, k) = cache
             \/ CacheAfter(h, k) = [cache EXCEPT ![h][k][mem[h].job] = "yes"]
             \/ CacheAfter(h, k) = [cache EXCEPT ![h][k][mem[h].job] = "no"]
  BY DEF CacheAfter
<1>4. ASSUME NEW k \in Kinds, mem[h].job = NoJob PROVE CacheAfter(h, k) = cache
  BY <1>4 DEF CacheAfter
<1>5. ASSUME NEW k \in Kinds
      PROVE  CacheAfter(h, k) \in [Hosts -> [Kinds -> [Jobs -> {"none", "yes", "no"}]]]
  <2>1. CASE mem[h].job = NoJob
    BY <1>4, <2>1 DEF SignalsTyped
  <2>2. CASE mem[h].job \in Jobs
    <3>1. cache \in [Hosts -> [Kinds -> [Jobs -> {"none", "yes", "no"}]]]
      BY DEF SignalsTyped
    <3>2. [cache EXCEPT ![h][k][mem[h].job] = "yes"] \in
             [Hosts -> [Kinds -> [Jobs -> {"none", "yes", "no"}]]]
      BY <1>1, <2>2
    <3>3. [cache EXCEPT ![h][k][mem[h].job] = "no"] \in
             [Hosts -> [Kinds -> [Jobs -> {"none", "yes", "no"}]]]
      BY <1>1, <2>2
    <3> QED BY <1>3, <2>2, <3>1, <3>2, <3>3
  <2> QED BY <1>2, <2>1, <2>2
<1> QED BY <1>5 DEF Kinds

\* Setting and clearing flags in Redis.
LEMMA FlagsTyped ==
  ASSUME SignalsTyped, NEW h \in Hosts, NEW k \in Kinds
  PROVE  /\ \A J : ClearFlag(h, k, J) => SignalsTyped'
         /\ \A j \in Jobs : SetFlag(h, k, j) => SignalsTyped'
<1>1. ASSUME NEW J, ClearFlag(h, k, J) PROVE SignalsTyped'
  BY <1>1 DEF ClearFlag, SignalsTyped
<1>2. ASSUME NEW j \in Jobs, SetFlag(h, k, j) PROVE SignalsTyped'
  <2>1. cache' \in [Hosts -> [Kinds -> [Jobs -> {"none", "yes", "no"}]]]
    BY <1>2 DEF SetFlag, SignalsTyped
  <2>2. keys' \in [Kinds -> SUBSET Jobs]
    BY <1>2 DEF SetFlag, SignalsTyped
  <2> QED BY <2>1, <2>2 DEF SignalsTyped
<1> QED BY <1>1, <1>2

\* One or two columns of a row at a time.
LEMMA RowFields ==
  ASSUME NEW R \in Rows
  PROVE  /\ R.saved \in SUBSET Pages
         /\ \A s \in Statuses : /\ [R EXCEPT !.status = s] \in Rows
                                /\ \A P \in SUBSET Pages :
                                     [R EXCEPT !.status = s, !.saved = P] \in Rows
         /\ \A P \in SUBSET Pages : [R EXCEPT !.saved = P] \in Rows
BY DEF Rows

\* updateMany of the status of some rows.
LEMMA StatusTyped ==
  ASSUME RowTyped, NEW J, NEW s \in Statuses, SetStatus(J, s)
  PROVE  RowTyped'
BY RowFields DEF RowTyped, SetStatus

\* The rows through every step of a session.
LEMMA SessionRows ==
  ASSUME ActTyped, RowTyped, NEW u \in Users,
         Request(u) \/ SessionStep(u) \/ PushRefused(u)
  PROVE  RowTyped'
<1> USE HostsAre, PcsAre
<1>1. CASE StartFind(u)
  BY <1>1 DEF StartFind, RowTyped
<1>2. CASE Lookup(u)
  BY <1>2 DEF Lookup, RowTyped
<1>3. CASE Resume(u)
  BY <1>3, RowFields DEF Resume, RowTyped
<1>4. CASE ClosePaused(u)
  BY <1>4, StatusTyped DEF ClosePaused
<1>5. CASE Create(u)
  <2>1. ASSUME NEW j \in Jobs,
               row' = [row EXCEPT ![j] = [status |-> "running", tenant |-> TenantOf[u],
                                         saved |-> {}]]
        PROVE  RowTyped'
    <3>1. [status |-> "running", tenant |-> TenantOf[u], saved |-> {}] \in Rows
      BY BackfillConstants DEF Rows
    <3> QED BY <2>1, <3>1 DEF RowTyped
  <2> QED BY <1>5, <2>1 DEF Create
<1>6. CASE OutOfIds(u)
  BY <1>6 DEF OutOfIds, RowTyped
<1>7. CASE Enqueue(u)
  BY <1>7 DEF Enqueue, RowTyped
<1>8. CASE RunInline(u)
  BY <1>8 DEF RunInline, RowTyped
<1>9. CASE PushRefused(u)
  BY <1>9 DEF PushRefused, RowTyped
<1>10. CASE PauseFind(u)
  BY <1>10 DEF PauseFind, RowTyped
<1>11. CASE PauseFlag(u)
  BY <1>11 DEF PauseFlag, RowTyped
<1>12. CASE PauseRead(u)
  BY <1>12 DEF PauseRead, RowTyped
<1>13. CASE PauseWrite(u)
  <2>1. act[u].list \in SUBSET Pages
    BY LocalsRead DEF ActTyped
  <2> QED BY <1>13, <2>1, RowFields DEF PauseWrite, RowTyped
<1>14. CASE CancelFind(u)
  BY <1>14 DEF CancelFind, RowTyped
<1>15. CASE CancelSignal(u)
  BY <1>15 DEF CancelSignal, RowTyped
<1>16. CASE CancelUpdate(u)
  BY <1>16, StatusTyped DEF CancelUpdate
<1>17. CASE PurgeLen(u)
  BY <1>17 DEF PurgeLen, RowTyped
<1>18. CASE PurgeDel(u)
  BY <1>18 DEF PurgeDel, RowTyped
<1>19. CASE ClearPauses(u)
  BY <1>19 DEF ClearPauses, RowTyped
<1>20. CASE Reset(u)
  BY <1>20 DEF Reset, RowTyped
<1> QED BY <1>1, <1>2, <1>3, <1>4, <1>5, <1>6, <1>7, <1>8, <1>9, <1>10, <1>11, <1>12, <1>13, <1>14,
           <1>15, <1>16, <1>17, <1>18, <1>19, <1>20 DEF Request, SessionStep

\* The flags, the list and the history through every step of a session.
LEMMA SessionSignals ==
  ASSUME ActTyped, SignalsTyped, RestTyped, HasJob, NEW u \in Users,
         Request(u) \/ SessionStep(u) \/ PushRefused(u)
  PROVE  SignalsTyped' /\ RestTyped'
<1> USE HostsAre, PcsAre
<1>1. CASE StartFind(u)
  BY <1>1 DEF StartFind, SignalsTyped, RestTyped
<1>2. CASE Lookup(u)
  BY <1>2 DEF Lookup, SignalsTyped, RestTyped
<1>3. CASE Resume(u)
  BY <1>3 DEF Resume, SignalsTyped, RestTyped
<1>4. CASE ClosePaused(u)
  BY <1>4 DEF ClosePaused, SignalsTyped, RestTyped
<1>5. CASE Create(u)
  BY <1>5 DEF Create, SignalsTyped, RestTyped
<1>6. CASE OutOfIds(u)
  BY <1>6 DEF OutOfIds, SignalsTyped, RestTyped
<1>7. CASE Enqueue(u)
  <2>1. act[u].cur # NoJob => act[u].cur \in Jobs
    BY LocalsRead DEF ActTyped
  <2> QED BY <1>7, <2>1 DEF Enqueue, RestTyped, SignalsTyped
<1>8. CASE RunInline(u)
  BY <1>8 DEF RunInline, SignalsTyped, RestTyped
<1>9. CASE PushRefused(u)
  BY <1>9 DEF PushRefused, SignalsTyped, RestTyped
<1>10. CASE PauseFind(u)
  BY <1>10 DEF PauseFind, SignalsTyped, RestTyped
<1>11. CASE PauseFlag(u)
  <2>1. act[u].cur \in Jobs
    BY <1>11 DEF PauseFlag, At, HasJob, JobPcs
  <2> QED BY <1>11, <2>1, FlagsTyped DEF PauseFlag, RestTyped
<1>12. CASE PauseRead(u)
  BY <1>12 DEF PauseRead, SignalsTyped, RestTyped
<1>13. CASE PauseWrite(u)
  BY <1>13 DEF PauseWrite, SignalsTyped, RestTyped
<1>14. CASE CancelFind(u)
  BY <1>14 DEF CancelFind, SignalsTyped, RestTyped
<1>15. CASE CancelSignal(u)
  <2>1. act[u].seen \in SUBSET Jobs
    BY LocalsRead DEF ActTyped
  <2> QED BY <1>15, <2>1 DEF CancelSignal, SignalsTyped, RestTyped
<1>16. CASE CancelUpdate(u)
  BY <1>16 DEF CancelUpdate, SignalsTyped, RestTyped
<1>17. CASE PurgeLen(u)
  BY <1>17 DEF PurgeLen, SignalsTyped, RestTyped
<1>18. CASE PurgeDel(u)
  BY <1>18 DEF PurgeDel, SignalsTyped, RestTyped
<1>19. CASE ClearPauses(u)
  BY <1>19, FlagsTyped DEF ClearPauses, RestTyped
<1>20. CASE Reset(u)
  <2>1. SignalsTyped'
    BY <1>20, FlagsTyped DEF Reset
  <2>2. act[u].seen \in SUBSET Jobs
    BY LocalsRead DEF ActTyped
  <2> QED BY <1>20, <2>1, <2>2 DEF Reset, RestTyped
<1> QED BY <1>1, <1>2, <1>3, <1>4, <1>5, <1>6, <1>7, <1>8, <1>9, <1>10, <1>11, <1>12, <1>13, <1>14,
           <1>15, <1>16, <1>17, <1>18, <1>19, <1>20 DEF Request, SessionStep

\* The rows, the flags, the list and the history through every step of a run.
LEMMA RunRest ==
  ASSUME ActTyped, MemTyped, RowTyped, SignalsTyped, RestTyped, HasPage, NEW r \in Runners,
         RunnerStep(r) \/ ScanStep(r) \/ ScanProgress(r) \/ RunThrows(r) \/ ListThrows(r)
  PROVE  RowTyped' /\ SignalsTyped' /\ RestTyped'
<1> USE HostsAre, PcsAre
<1>1. CASE ReadRow(r)
  BY <1>1 DEF ReadRow, RowTyped, SignalsTyped, RestTyped
<1>2. CASE ClearOldPause(r)
  <2>1. SignalsTyped'
    BY <1>2, FlagsTyped DEF ClearOldPause
  <2> QED BY <1>2, <2>1 DEF ClearOldPause, RowTyped, RestTyped
<1>3. CASE ClearOldCancel(r)
  <2>1. SignalsTyped'
    BY <1>3, FlagsTyped DEF ClearOldCancel
  <2> QED BY <1>3, <2>1 DEF ClearOldCancel, RowTyped, RestTyped
<1>4. CASE ListPages(r)
  BY <1>4 DEF ListPages, RowTyped, SignalsTyped, RestTyped
<1>5. CASE Top(r)
  BY <1>5, CacheTyped DEF Top, AskCancel, RowTyped, SignalsTyped, RestTyped
<1>6. CASE Bottom(r)
  BY <1>6, CacheTyped DEF Bottom, AskCancel, RowTyped, SignalsTyped, RestTyped
<1>7. CASE NextPage(r)
  BY <1>7, CacheTyped DEF NextPage, RowTyped, SignalsTyped, RestTyped
<1>8. CASE PersistCheck(r)
  BY <1>8, CacheTyped DEF PersistCheck, RowTyped, SignalsTyped, RestTyped
<1>9. CASE PersistWrite(r)
  <2>1. act[r].list \in SUBSET Pages /\ act[r].want \in Statuses
    BY LocalsRead DEF ActTyped
  <2>2. RowTyped'
    BY <1>9, <2>1, RowFields DEF PersistWrite, RowTyped
  <2> QED BY <1>9, <2>2 DEF PersistWrite, SignalsTyped, RestTyped
<1>10. CASE After(r)
  BY <1>10, CacheTyped DEF After, RowTyped, SignalsTyped, RestTyped
<1>11. CASE Finally(r)
  BY <1>11 DEF Finally, RowTyped, SignalsTyped, RestTyped
<1>12. CASE PauseBottom(r)
  BY <1>12, CacheTyped DEF PauseBottom, RowTyped, SignalsTyped, RestTyped
<1>13. CASE PauseCleared(r)
  <2>1. SignalsTyped'
    BY <1>13, FlagsTyped DEF PauseCleared
  <2> QED BY <1>13, <2>1 DEF PauseCleared, RowTyped, RestTyped
<1>14. CASE CancelCleared(r)
  <2>1. SignalsTyped'
    BY <1>14 DEF CancelCleared, SignalsTyped
  <2> QED BY <1>14, <2>1 DEF CancelCleared, RowTyped, RestTyped
<1>15. CASE Complete(r)
  BY <1>15 DEF Complete, RowTyped, SignalsTyped, RestTyped
<1>16. CASE Catch(r)
  BY <1>16, CacheTyped DEF Catch, RowTyped, SignalsTyped, RestTyped
<1>17. CASE ScanStops(r)
  <2>1. PICK k \in Kinds : cache' = CacheAfter(Host(r), k)
    BY <1>17 DEF ScanStops
  <2> QED BY <1>17, <2>1, CacheTyped DEF ScanStops, RowTyped, SignalsTyped, RestTyped, Kinds
<1>18. CASE ScanEnds(r)
  <2>1. act[r].page \in Pages
    BY <1>18 DEF ScanEnds, At, HasPage, Scanning
  <2> QED BY <1>18, <2>1 DEF ScanEnds, RowTyped, SignalsTyped, RestTyped
<1>19. CASE ScanFails(r)
  <2>1. act[r].page \in Pages
    BY <1>19 DEF ScanFails, At, HasPage, Scanning
  <2> QED BY <1>19, <2>1 DEF ScanFails, RowTyped, SignalsTyped, RestTyped
<1>20. CASE ScanProgress(r)
  BY <1>20 DEF ScanProgress, RowTyped, SignalsTyped, RestTyped
<1>21. CASE RunThrows(r)
  BY <1>21 DEF RunThrows, RowTyped, SignalsTyped, RestTyped
<1>22. CASE ListThrows(r)
  BY <1>22 DEF ListThrows, RowTyped, SignalsTyped, RestTyped
<1> QED BY <1>1, <1>2, <1>3, <1>4, <1>5, <1>6, <1>7, <1>8, <1>9, <1>10, <1>11, <1>12, <1>13, <1>14,
           <1>15, <1>16, <1>17, <1>18, <1>19, <1>20, <1>21, <1>22 DEF RunnerStep, ScanStep

\* Whoever is to touch the row of its job has one, through a session's steps.
LEMMA SessionHas ==
  ASSUME ActTyped, MemTyped, HasJob, HasPage, NEW u \in Users,
         Request(u) \/ SessionStep(u) \/ PushRefused(u)
  PROVE  HasJob' /\ HasPage'
<1> USE HostsAre
        DEF ActTyped, Locals, HasJob, HasPage, Scanning, JobPcs, InRun, RunnerPcs, At, Blank
<1>1. CASE StartFind(u)
  BY <1>1 DEF StartFind
<1>2. CASE Lookup(u)
  <2>1. ASSUME NEW j \in Jobs, act' = [act EXCEPT ![u] = [@ EXCEPT !.cur = j, !.pc = "resume"]]
        PROVE  HasJob' /\ HasPage'
    BY <2>1
  <2>2. ASSUME Go(u, "create") PROVE HasJob' /\ HasPage'
    BY <2>2 DEF Go
  <2> QED BY <1>2, <2>1, <2>2 DEF Lookup, InStatus, Visible
<1>3. CASE Resume(u)
  BY <1>3 DEF Resume
<1>4. CASE ClosePaused(u)
  BY <1>4 DEF ClosePaused, Go
<1>5. CASE Create(u)
  BY <1>5 DEF Create
<1>6. CASE OutOfIds(u)
  BY <1>6 DEF OutOfIds, Quit
<1>7. CASE Enqueue(u)
  BY <1>7 DEF Enqueue, Quit
<1>8. CASE RunInline(u)
  <2>1. CASE act[u].cur = NoJob
    BY <1>8, <2>1 DEF RunInline, Quit
  <2>2. CASE act[u].cur # NoJob
    <3>1. PICK r \in Inline : act' = [act EXCEPT ![u] = Blank,
                                          ![r] = [Blank EXCEPT !.pc = "read",
                                                               !.cur = act[u].cur]]
      BY <1>8, <2>2 DEF RunInline
    <3>2. u # r /\ r \in Actors
      BY BackfillConstants DEF Actors, Runners
    <3>3. act[u].cur \in Jobs
      BY <2>2
    <3> QED BY <3>1, <3>2, <3>3
  <2> QED BY <2>1, <2>2
<1>9. CASE PushRefused(u)
  BY <1>9 DEF PushRefused, Quit
<1>10. CASE PauseFind(u)
  <2>1. mem["api"].job \in Jobs \cup {NoJob}
    BY MemoryTyped DEF MemTyped
  <2>2. PICK j \in Jobs : act' = [act EXCEPT ![u] = [@ EXCEPT !.op = "pause", !.cur = j,
                                                                 !.pc = "flag"]]
    BY <1>10, <2>1 DEF PauseFind
  <2> QED BY <2>2
<1>11. CASE PauseFlag(u)
  BY <1>11 DEF PauseFlag, Go
<1>12. CASE PauseRead(u)
  BY <1>12 DEF PauseRead
<1>13. CASE PauseWrite(u)
  BY <1>13 DEF PauseWrite, Quit
<1>14. CASE CancelFind(u)
  <2>1. act'[u].pc = "signal" /\ \A a \in Actors : a # u => act'[a] = act[a]
    BY <1>14 DEF CancelFind
  <2> QED BY <2>1
<1>15. CASE CancelSignal(u)
  BY <1>15 DEF CancelSignal, Go
<1>16. CASE CancelUpdate(u)
  BY <1>16 DEF CancelUpdate, Go
<1>17. CASE PurgeLen(u)
  BY <1>17 DEF PurgeLen, Go
<1>18. CASE PurgeDel(u)
  BY <1>18 DEF PurgeDel, Go
<1>19. CASE ClearPauses(u)
  BY <1>19 DEF ClearPauses, Go
<1>20. CASE Reset(u)
  BY <1>20 DEF Reset, Quit
<1> QED BY <1>1, <1>2, <1>3, <1>4, <1>5, <1>6, <1>7, <1>8, <1>9, <1>10, <1>11, <1>12, <1>13, <1>14,
           <1>15, <1>16, <1>17, <1>18, <1>19, <1>20 DEF Request, SessionStep

\* It is enough that a runner that moves keeps to its job, and to its page
\* while it scans.
LEMMA HasKept ==
  ASSUME HasJob, HasPage, NEW r \in Runners, Alone(r),
         act'[r].pc \in JobPcs => act'[r].cur \in Jobs,
         (act'[r].pc \in {"scan", "after"} \/ (act'[r].pc \in {"check", "write"}
                                               /\ act'[r].next = "scan")) => act'[r].page \in Pages
  PROVE  HasJob' /\ HasPage'
BY DEF HasJob, HasPage, Scanning, Alone

\* The same through the steps of a run, whose scans have a page.
LEMMA RunHas ==
  ASSUME ActTyped, HasJob, HasPage, NEW r \in Runners,
         RunnerStep(r) \/ ScanStep(r) \/ ScanProgress(r) \/ RunThrows(r) \/ ListThrows(r)
  PROVE  HasJob' /\ HasPage'
<1>1. /\ r \in Actors /\ act[r] \in Locals /\ act[r].next \in Continuations
      /\ act[r].pc \in JobPcs => act[r].cur \in Jobs
      /\ Scanning(r) => act[r].page \in Pages
  BY HostsAre, LocalsRead DEF ActTyped, HasJob, HasPage
<1>2. ASSUME NEW x, Go(r, x), act[r].pc \in JobPcs,
             x \in {"scan", "after"} \/ (x \in {"check", "write"} /\ act[r].next = "scan")
               => Scanning(r)
      PROVE  HasJob' /\ HasPage'
  <2>1. InPlace(r) /\ act'[r].pc = x /\ act'[r].next = act[r].next
    BY <1>2, GoMoves
  <2> QED BY <1>1, <1>2, <2>1, HasKept DEF InPlace
<1>3. ASSUME Quit(r) PROVE HasJob' /\ HasPage'
  <2>1. Alone(r) /\ act'[r].pc = "idle"
    BY <1>3, QuitMoves
  <2> QED BY <2>1, HasKept DEF JobPcs, InRun
<1>4. ASSUME NEW s, NEW P, NEW c \in Continuations, Persist(r, s, P, c), act[r].pc \in JobPcs,
             c = "scan" => act[r].page \in Pages
      PROVE  HasJob' /\ HasPage'
  <2>1. /\ InPlace(r)
        /\ \/ act'[r].pc = c /\ act'[r].next = act[r].next
           \/ act'[r].pc \in {"check", "write"} /\ act'[r].next = c
    BY <1>4, PersistMoves
  <2>2. CASE act'[r].pc \in {"check", "write"} /\ act'[r].next = c
    BY <1>1, <1>4, <2>1, <2>2, HasKept DEF InPlace
  <2>3. CASE act'[r].pc = c
    BY <1>1, <1>4, <2>1, <2>3, HasKept DEF InPlace, Continuations
  <2> QED BY <2>1, <2>2, <2>3
<1>5. ASSUME Saved(r), act[r].pc \in {"check", "write"} PROVE HasJob' /\ HasPage'
  <2>1. CASE act[r].next = "idle"
    <3>1. Alone(r) /\ act'[r].pc = "idle"
      BY <1>5, <2>1, SavedMoves
    <3> QED BY <3>1, HasKept DEF JobPcs, InRun
  <2>2. CASE act[r].next # "idle"
    <3>1. InPlace(r) /\ act'[r].pc = act[r].next
      BY <1>5, <2>2, SavedMoves
    <3>2. act[r].next \notin {"after", "check", "write"} /\ act[r].cur \in Jobs
            /\ (act[r].next = "scan" => act[r].page \in Pages)
      BY <1>1, <1>5 DEF Continuations, Scanning, JobPcs, InRun, RunnerPcs
    <3> QED BY <3>1, <3>2, HasKept DEF InPlace
  <2> QED BY <2>1, <2>2
<1>6. ASSUME NEW mid, Cleared(r, mid), act[r].pc \in JobPcs PROVE HasJob' /\ HasPage'
  <2>1. Alone(r)
          /\ (act'[r].pc = "idle" \/ (/\ act'[r].pc = "check" /\ act'[r].next = "idle"
                                     /\ act'[r].cur = act[r].cur))
    BY <1>6, ClearedMoves DEF InPlace
  <2> QED BY <1>1, <1>6, <2>1, HasKept DEF JobPcs, InRun
<1> USE DEF At, JobPcs, InRun, RunnerPcs
<1>7. CASE ReadRow(r)
  <2>1. CASE Quit(r)
    BY <2>1, <1>3
  <2>2. CASE ~ Quit(r)
    <3> DEFINE l == [act[r] EXCEPT !.todo = Pages \ row[act[r].cur].saved, !.pc = "clearPause"]
    <3>1. act' = [act EXCEPT ![r] = l] /\ act[r].pc = "read"
      BY <1>7, <2>2 DEF ReadRow
    <3>2. l.pc = "clearPause" /\ l.cur = act[r].cur
      BY <1>1 DEF Locals
    <3> HIDE DEF l
    <3>3. Alone(r) /\ act'[r].pc = "clearPause" /\ act'[r].cur = act[r].cur
      BY <1>1, <3>1, <3>2 DEF Alone, ActTyped
    <3> QED BY <1>1, <3>1, <3>3, HasKept
  <2> QED BY <2>1, <2>2
<1>8. CASE ClearOldPause(r)
  BY <1>8, <1>2 DEF ClearOldPause
<1>9. CASE ClearOldCancel(r)
  BY <1>9, <1>2 DEF ClearOldCancel
<1>10. CASE ListPages(r)
  BY <1>10, <1>2 DEF ListPages
<1>11. CASE Top(r)
  BY <1>11, <1>2, <1>4 DEF Top, AskCancel, FinishCancel, Continuations
<1>12. CASE Bottom(r)
  BY <1>12, <1>2, <1>4 DEF Bottom, AskCancel, FinishCancel, Continuations
<1>13. CASE NextPage(r)
  <2>1. CASE Requested(Host(r), "pause")
    BY <1>13, <2>1, <1>4 DEF NextPage, FinishPause, Continuations
  <2>2. CASE ~ Requested(Host(r), "pause")
    <3>1. PICK p \in act[r].todo :
            IF mem[Host(r)].job = NoJob
            THEN act' = [act EXCEPT ![r] = [@ EXCEPT !.page = p, !.pc = "scan"]]
            ELSE act' = [act EXCEPT ![r] = [@ EXCEPT !.page = p, !.pc = "check",
                                                     !.tgt = mem[Host(r)].job,
                                                     !.want = "running",
                                                     !.list = mem[Host(r)].done,
                                                     !.next = "scan"]]
      BY <1>13, <2>2 DEF NextPage
    <3> DEFINE m == [act[r] EXCEPT !.page = p, !.pc = "scan"]
               n == [act[r] EXCEPT !.page = p, !.pc = "check", !.tgt = mem[Host(r)].job,
                                   !.want = "running", !.list = mem[Host(r)].done,
                                   !.next = "scan"]
    <3>2. m.page = p /\ m.cur = act[r].cur /\ n.page = p /\ n.cur = act[r].cur
      BY <1>1 DEF Locals
    <3>3. act' = [act EXCEPT ![r] = m] \/ act' = [act EXCEPT ![r] = n]
      BY <3>1
    <3> HIDE DEF m, n
    <3>4. PICK l : /\ act' = [act EXCEPT ![r] = l] /\ l.page = p /\ l.cur = act[r].cur
      BY <3>2, <3>3
    <3>5. Alone(r) /\ act'[r].page = p /\ act'[r].cur = act[r].cur
      BY <1>1, <3>4 DEF Alone, ActTyped
    <3>6. p \in Pages /\ act[r].pc = "pauseTop"
      BY <1>1, <1>13, LocalsRead DEF NextPage
    <3> QED BY <1>1, <3>5, <3>6, HasKept
  <2> QED BY <2>1, <2>2
<1>14. CASE PersistCheck(r)
  <2>1. CASE Saved(r)
    BY <1>14, <2>1, <1>5 DEF PersistCheck
  <2>2. CASE ~ Saved(r)
    <3> DEFINE l == [act[r] EXCEPT !.tgt = mem[Host(r)].job, !.pc = "write"]
    <3>1. act' = [act EXCEPT ![r] = l] /\ act[r].pc = "check"
      BY <1>14, <2>2 DEF PersistCheck
    <3>2. l.pc = "write" /\ l.cur = act[r].cur /\ l.page = act[r].page /\ l.next = act[r].next
      BY <1>1 DEF Locals
    <3> HIDE DEF l
    <3>3. /\ Alone(r) /\ act'[r].pc = "write" /\ act'[r].cur = act[r].cur
          /\ act'[r].page = act[r].page /\ act'[r].next = act[r].next
      BY <1>1, <3>1, <3>2 DEF Alone, ActTyped
    <3> QED BY <1>1, <3>1, <3>3, HasKept DEF Scanning
  <2> QED BY <2>1, <2>2
<1>15. CASE PersistWrite(r)
  BY <1>15, <1>5 DEF PersistWrite
<1>16. CASE After(r)
  BY <1>16, <1>2, <1>4 DEF After, FinishCancel, FinishPause, Continuations
<1>17. CASE Finally(r)
  BY <1>17, <1>4 DEF Finally, Continuations
<1>18. CASE PauseBottom(r)
  <2>1. CASE Requested(Host(r), "pause")
    BY <1>18, <2>1, <1>4 DEF PauseBottom, FinishPause, Continuations
  <2>2. CASE ~ Requested(Host(r), "pause")
    <3>1. PICK l : act' = [act EXCEPT ![r] = l] /\ l.pc = "top" /\ l.cur = act[r].cur
      BY <1>1, <1>18, <2>2 DEF PauseBottom, Locals
    <3>2. Alone(r) /\ act'[r].pc = "top" /\ act'[r].cur = act[r].cur
      BY <1>1, <3>1 DEF Alone, ActTyped
    <3>3. act[r].pc = "pauseBottom"
      BY <1>18 DEF PauseBottom
    <3> QED BY <1>1, <3>2, <3>3, HasKept
  <2> QED BY <2>1, <2>2
<1>19. CASE PauseCleared(r)
  <2>1. PICK mid \in BOOLEAN : Cleared(r, mid) /\ act[r].pc \in JobPcs
    BY <1>19 DEF PauseCleared
  <2> QED BY <2>1, <1>6
<1>20. CASE CancelCleared(r)
  <2>1. PICK mid \in BOOLEAN : Cleared(r, mid) /\ act[r].pc \in JobPcs
    BY <1>20 DEF CancelCleared
  <2> QED BY <2>1, <1>6
<1>21. CASE Complete(r)
  BY <1>21, <1>3, <1>4 DEF Complete, Continuations
<1>22. CASE Catch(r)
  BY <1>22, <1>3, <1>4 DEF Catch, Continuations
<1>23. CASE ScanStops(r)
  BY <1>23, <1>2 DEF ScanStops, Scanning
<1>24. CASE ScanEnds(r)
  BY <1>24, <1>2 DEF ScanEnds, Scanning
<1>25. CASE ScanFails(r)
  BY <1>25, <1>2 DEF ScanFails
<1>26. CASE ScanProgress(r)
  BY <1>26, <1>1, <1>4 DEF ScanProgress, Continuations, Scanning
<1>27. CASE RunThrows(r)
  BY <1>27, <1>2 DEF RunThrows
<1>28. CASE ListThrows(r)
  BY <1>28, <1>3 DEF ListThrows
<1> QED BY <1>7, <1>8, <1>9, <1>10, <1>11, <1>12, <1>13, <1>14, <1>15, <1>16, <1>17, <1>18, <1>19,
           <1>20, <1>21, <1>22, <1>23, <1>24, <1>25, <1>26, <1>27, <1>28 DEF RunnerStep, ScanStep

\* The list, the poller, expiring entries and restarts.
LEMMA OthersTyped ==
  ASSUME Typed, Pop \/ Poll \/ CacheExpires \/ (\E h \in Hosts : Restart(h)) \/ BootPurge
  PROVE  Typed'
<1> USE HostsAre DEF Typed
<1>1. CASE Pop
  <2>1. Worker \in Actors /\ Head(queue) \in Jobs /\ Tail(queue) \in Seq(Jobs)
    BY <1>1 DEF Pop, RestTyped, Actors, Runners
  <2> DEFINE l == [Blank EXCEPT !.pc = "read", !.cur = Head(queue)]
  <2>2. l \in Locals /\ l.pc = "read" /\ l.cur = Head(queue)
    <3>1. l \in Locals
      BY <2>1, BlankTyped, FieldsTyped, PcsAre
    <3> QED BY <3>1 DEF Blank
  <2>3. act' = [act EXCEPT ![Worker] = l]
    BY <1>1 DEF Pop
  <2> HIDE DEF l
  <2>4. ActTyped'
    BY <2>1, <2>2, <2>3 DEF ActTyped
  <2>5. HasJob' /\ HasPage'
    BY <2>1, <2>2, <2>3 DEF ActTyped, HasJob, HasPage, Scanning
  <2> QED BY <1>1, <2>1, <2>4, <2>5 DEF Pop, MemTyped, RowTyped, SignalsTyped, RestTyped
<1>2. CASE Poll
  <2>1. PICK r \in Runners : /\ mem' = MemAfter(Host(r), "pause")
                             /\ cache' = CacheAfter(Host(r), "pause")
                             /\ UNCHANGED <<row, queue, keys, act, purging, scanned, struck>>
    BY <1>2 DEF Poll
  <2>2. MemTyped' /\ SignalsTyped'
    BY <2>1, MemAfterTyped, CacheTyped DEF MemTyped, SignalsTyped
  <2> QED BY <2>1, <2>2 DEF ActTyped, RowTyped, RestTyped, HasJob, HasPage, Scanning
<1>3. CASE CacheExpires
  <2>1. \A h \in Hosts : mem[h].job \in Jobs \cup {NoJob}
    BY MemoryTyped DEF MemTyped
  <2>2. PICK r \in Runners, k \in Kinds :
          /\ mem[Host(r)].job # NoJob
          /\ cache' = [cache EXCEPT ![Host(r)][k][mem[Host(r)].job] = "none"]
    BY <1>3 DEF CacheExpires
  <2>3. Host(r) \in Hosts /\ mem[Host(r)].job \in Jobs
    BY <2>1, <2>2, HostsAre
  <2>4. cache' \in [Hosts -> [Kinds -> [Jobs -> {"none", "yes", "no"}]]]
    BY <2>2, <2>3 DEF SignalsTyped
  <2> QED BY <1>3, <2>4 DEF CacheExpires, ActTyped, MemTyped, RowTyped, SignalsTyped, RestTyped,
             HasJob, HasPage, Scanning
<1>4. ASSUME NEW h \in Hosts, Restart(h) PROVE Typed'
  <2>1. RowTyped'
    BY <1>4, StatusTyped, PcsAre DEF Restart
  <2>2. MemTyped'
    <3> Fresh \in Memory
      BY DEF Fresh, Memory
    <3> QED BY <1>4 DEF Restart, MemTyped
  <2>3. SignalsTyped' /\ RestTyped'
    BY <1>4 DEF Restart, SignalsTyped, RestTyped
  <2>4. ActTyped' /\ HasJob' /\ HasPage'
    BY <1>4, BlankTyped DEF Restart, ActTyped, HasJob, HasPage, Scanning, JobPcs, InRun
  <2> QED BY <2>1, <2>2, <2>3, <2>4
<1>5. CASE BootPurge
  <2>1. <<>> \in Seq(Jobs)
    OBVIOUS
  <2> QED BY <1>5, <2>1 DEF BootPurge, ActTyped, MemTyped, RowTyped, SignalsTyped, RestTyped,
             HasJob, HasPage, Scanning
<1> QED BY <1>1, <1>2, <1>3, <1>4, <1>5

\* Every step keeps the types.
LEMMA TypedStep ==
  ASSUME Typed, [Next]_vars
  PROVE  Typed'
<1>1. ASSUME NEW u \in Users, Request(u) \/ SessionStep(u) \/ PushRefused(u) PROVE Typed'
  BY <1>1, SessionLocals, SessionMemory, SessionRows, SessionSignals, SessionHas DEF Typed
<1>2. ASSUME NEW r \in Runners,
             RunnerStep(r) \/ ScanStep(r) \/ ScanProgress(r) \/ RunThrows(r) \/ ListThrows(r)
      PROVE  Typed'
  BY <1>2, RunLocals, RunMemory, RunRest, RunHas DEF Typed
<1>3. CASE UNCHANGED vars
  BY <1>3 DEF vars, Typed, ActTyped, MemTyped, RowTyped, SignalsTyped, RestTyped, HasJob, HasPage,
     Scanning
<1> QED BY <1>1, <1>2, <1>3, OthersTyped DEF Next

\* Every variable keeps its type, whatever the requests, the faults and the
\* restarts.
LEMMA AlwaysTyped == Spec => []Typed
BY TypedInit, TypedStep, PTL DEF Spec

\* The type invariant of the backfill, with Redis or without, whatever requests
\* come, whatever is refused or throws and whichever process restarts.
THEOREM TypeCorrect == Spec => []TypeOK
BY AlwaysTyped, TypesTyped, PTL

-----------------------------------------------------------------------------
\* Progress, with Redis and no cancel: the only runner is the worker, no flag
\* asks for a cancel, and a session that pauses writes back what it read.
CalmPcs == UserPcs \ {"signal", "update", "purgeLen", "purgeDel", "clearFlags", "reset"}
NoCanceller ==
  /\ \A r \in Inline : act[r].pc = "idle"
  /\ \A u \in Users : act[u].pc \in CalmPcs
  /\ keys["cancel"] = {}
  /\ \A h \in Hosts : ~ mem[h].cancel /\ \A j \in Jobs : cache[h]["cancel"][j] # "yes"

\* A session that is about to save read pages that were scanned for its job.
SessionsHonest ==
  \A u \in Users : act[u].pc = "dbWrite" =>
    act[u].cur \in Jobs /\ act[u].list \subseteq scanned[act[u].cur]

\* The worker's run.  A page is over when it was scanned to its end; while it
\* is under way the job is neither paused nor cancelled, so that what stops
\* the scan is a pause, which the run will see.
W == act[Worker]
Memo == mem["worker"]
Saving == W.pc \in {"check", "write"}
OnPage == \/ W.pc \in {"clearPause", "clearCancel", "pages", "top", "pauseTop"}
          \/ W.pc \in {"scan", "after"} \/ (Saving /\ W.next = "scan")
PageOver == W.pc \in {"finally", "bottom", "pauseBottom"} \/ (Saving /\ W.next = "bottom")
Stopped == row[W.cur].status \in {"paused", "cancelled"}

\* What the run counts as done it scanned, and what it did not scan it has to do.
RunCovers ==
  W.pc \in InRun =>
    /\ Memo.job = W.cur /\ Memo.done \subseteq scanned[W.cur]
    /\ Pages \subseteq scanned[W.cur] \cup W.todo
    /\ W.pc = "after" => W.page \in scanned[W.cur] \/ Memo.pause
    /\ PageOver => W.page \in scanned[W.cur]

\* What the run is about to save was scanned, all of it if it is to complete.
SavingIsHonest ==
  Saving => /\ W.tgt = W.cur /\ W.list \subseteq scanned[W.cur]
            /\ W.next \in {"scan", "bottom", "pauseClear", "pauseClearMid", "cancelClear",
                           "cancelClearMid", "idle"}
            /\ W.want = "completed" => scanned[W.cur] = Pages

\* A page under way belongs to a job that runs; a stop after it is a pause that
\* the run remembers.
StopIsSeen ==
  /\ OnPage => ~ Stopped /\ (Saving => W.want = "running")
  /\ PageOver /\ (Stopped \/ (Saving /\ W.want # "running")) => Memo.pause

\* The run's part of the invariant.
RunInv == RunCovers /\ SavingIsHonest /\ StopIsSeen

\* The inductive invariant.
ProgressInv == /\ Typed /\ NoCanceller /\ SessionsHonest /\ RunInv
               /\ SavedWasScanned /\ CompletedCoversAll

\* The theorems' hypothesis: the jobs go through Redis, and nobody cancels.
NoCancels == Redis /\ \A u \in Users : "cancel" \notin Ops[u]

\* While nobody cancels, asking for the cancel flag changes nothing.
LEMMA NeverAsked ==
  ASSUME Typed, NoCanceller, NEW h \in Hosts
  PROVE  /\ ~ Requested(h, "cancel") /\ MemAfter(h, "cancel") = mem
         /\ CancelledNow(h) => mem[h].job \in Jobs /\ row[mem[h].job].status = "cancelled"
         /\ \A g \in Hosts, j \in Jobs : CacheAfter(h, "cancel")[g]["cancel"][j] # "yes"
         /\ \A g \in Hosts, j \in Jobs : CacheAfter(h, "pause")[g]["cancel"][j] # "yes"
<1>1. mem[h] \in Memory /\ mem[h].job \in Jobs \cup {NoJob} /\ ~ mem[h].cancel
  BY MemoryTyped DEF Typed, MemTyped, NoCanceller
<1>2. ~ Requested(h, "cancel")
  BY <1>1 DEF Requested, Flagged, NoCanceller
<1>3. MemAfter(h, "cancel") = mem
  <2>1. [mem EXCEPT ![h].cancel = FALSE] = mem
    BY <1>1 DEF Typed, MemTyped, Memory
  <2>2. Requested(h, "cancel") = FALSE
    BY <1>1, <1>2 DEF Requested
  <2> QED BY <2>1, <2>2 DEF MemAfter
<1>4. \A g \in Hosts, j \in Jobs : CacheAfter(h, "cancel")[g]["cancel"][j] # "yes"
  BY <1>1 DEF CacheAfter, Flagged, NoCanceller, Typed, SignalsTyped, Kinds
<1>5. \A g \in Hosts, j \in Jobs : CacheAfter(h, "pause")[g]["cancel"][j] # "yes"
  BY <1>1 DEF CacheAfter, Flagged, NoCanceller, Typed, SignalsTyped, Kinds
<1> QED BY <1>1, <1>2, <1>3, <1>4, <1>5 DEF CancelledNow

\* Saving in the middle of a run, and what follows it.
LEMMA InTheRun ==
  ASSUME Typed, RunInv, W.pc \in InRun
  PROVE  /\ Worker \in Runners /\ Worker \in Actors /\ Host(Worker) = "worker"
         /\ W \in Locals /\ W.cur \in Jobs /\ Memo.job = W.cur /\ Memo.job # NoJob
         /\ Memo \in Memory
BY BackfillConstants, HostsAre DEF Typed, ActTyped, MemTyped, HasJob, JobPcs, RunInv, RunCovers, W,
   Memo, Runners, Host

\* The same, of the worker in the middle of a run.
LEMMA PersistDoes ==
  ASSUME Typed, RunInv, W.pc \in InRun, NEW s, NEW P, NEW c, Persist(Worker, s, P, c)
  PROVE  /\ W'.pc = (IF s \in Live THEN "check" ELSE "write")
         /\ W'.tgt = W.cur /\ W'.want = s /\ W'.list = P /\ W'.next = c
         /\ W'.cur = W.cur /\ W'.todo = W.todo /\ W'.page = W.page
         /\ \A a \in Actors : a # Worker => act'[a] = act[a]
BY InTheRun, PersistMoves DEF Typed, W, Memo, InPlace, Alone

LEMMA SavedDoes ==
  ASSUME Typed, RunInv, W.pc \in InRun, Saved(Worker)
  PROVE  /\ W.next = "idle" => W'.pc = "idle"
         /\ W.next # "idle" => W'.pc = W.next /\ W'.cur = W.cur /\ W'.todo = W.todo
                                /\ W'.page = W.page
         /\ \A a \in Actors : a # Worker => act'[a] = act[a]
BY InTheRun, SavedMoves DEF Typed, W, Memo, InPlace, Alone

LEMMA ClearedDoes ==
  ASSUME Typed, RunInv, W.pc \in InRun, NEW mid, Cleared(Worker, mid)
  PROVE  /\ \/ W'.pc = "idle"
            \/ /\ W'.pc = "check" /\ W'.tgt = W.cur /\ W'.want = "running" /\ W'.list = Memo.done
               /\ W'.next = "idle" /\ W'.cur = W.cur /\ W'.todo = W.todo /\ W'.page = W.page
         /\ \A a \in Actors : a # Worker => act'[a] = act[a]
BY InTheRun, ClearedMoves DEF Typed, W, Memo, InPlace, Alone

\* Without a run there is nothing to keep.
LEMMA IdleRun ==
  ASSUME W'.pc \notin InRun
  PROVE  RunInv'
BY DEF RunInv, RunCovers, SavingIsHonest, StopIsSeen, OnPage, PageOver, Saving, InRun, RunnerPcs

\* The worker takes up a job with the pages saved for it.
LEMMA RunBegins ==
  ASSUME ProgressInv, ReadRow(Worker)
  PROVE  RunInv'
<1>1. /\ act \in [Actors -> Locals] /\ mem \in [Hosts -> Memory] /\ Worker \in Actors
      /\ W.cur \in Jobs /\ Host(Worker) = "worker" /\ "worker" \in Hosts
  BY HostsAre DEF ProgressInv, Typed, ActTyped, MemTyped, HasJob, JobPcs, ReadRow, At, W, Runners,
     Host
<1>2. CASE Quit(Worker)
  BY <1>1, <1>2, IdleRun DEF Quit, Blank, W, InRun
<1>3. CASE ~ Quit(Worker)
  <2>1. /\ W'.pc = "clearPause" /\ W'.cur = W.cur /\ W'.todo = Pages \ row[W.cur].saved
        /\ Memo'.job = W.cur /\ Memo'.done = row[W.cur].saved
        /\ row[W.cur].status = "running" /\ UNCHANGED <<row, scanned>>
    <3> DEFINE l == [W EXCEPT !.todo = Pages \ row[W.cur].saved, !.pc = "clearPause"]
               m == [Memo EXCEPT !.job = W.cur, !.done = row[W.cur].saved, !.pause = FALSE]
    <3>1. /\ act' = [act EXCEPT ![Worker] = l] /\ mem' = [mem EXCEPT !["worker"] = m]
          /\ row[W.cur].status = "running" /\ UNCHANGED <<row, scanned>>
      BY <1>1, <1>3 DEF ReadRow, W, Memo
    <3>2. l.pc = "clearPause" /\ l.cur = W.cur /\ l.todo = Pages \ row[W.cur].saved
      BY <1>1 DEF W, Locals
    <3>3. m.job = W.cur /\ m.done = row[W.cur].saved
      BY <1>1 DEF Memo, Memory
    <3>4. W' = l /\ Memo' = m
      <4> HIDE DEF l, m
      <4> QED BY <1>1, <3>1 DEF W, Memo
    <3> HIDE DEF l, m
    <3> QED BY <3>1, <3>2, <3>3, <3>4
  <2>2. row[W.cur].saved \subseteq scanned[W.cur]
    BY <1>1 DEF ProgressInv, SavedWasScanned
  <2> QED BY <2>1, <2>2 DEF RunInv, RunCovers, SavingIsHonest, StopIsSeen, OnPage, PageOver,
             Saving, Stopped, InRun, RunnerPcs
<1> QED BY <1>2, <1>3

\* The steps of a run keep what is saved within what was scanned.
LEMMA RunGoesOn ==
  ASSUME ProgressInv, W.pc \in InRun,
         \/ RunnerStep(Worker) \/ ScanStep(Worker) \/ ScanProgress(Worker)
         \/ RunThrows(Worker) \/ ListThrows(Worker)
  PROVE  RunInv'
<1> DEFINE Rest == /\ UNCHANGED <<row, scanned>>
                   /\ Memo'.job = Memo.job /\ Memo'.done = Memo.done
           Moves(label) == /\ W'.pc = label /\ W'.cur = W.cur
                           /\ W'.todo = W.todo /\ W'.page = W.page
                           /\ W'.next = W.next
           Saves == /\ W'.pc \in {"check", "write"} /\ W'.cur = W.cur /\ W'.todo = W.todo
                    /\ W'.page = W.page /\ W'.tgt = W.cur /\ W'.list = Memo.done
<1>1. /\ Typed /\ NoCanceller /\ RunInv
      /\ act \in [Actors -> Locals] /\ mem \in [Hosts -> Memory] /\ W \in Locals /\ Memo \in Memory
      /\ Worker \in Actors /\ W.cur \in Jobs /\ Memo.job = W.cur /\ Memo.job # NoJob
      /\ Host(Worker) = "worker" /\ "worker" \in Hosts /\ row[W.cur] \in Rows
      /\ scanned[W.cur] \in SUBSET Pages
  BY InTheRun, HostsAre DEF ProgressInv, Typed, ActTyped, MemTyped, RowTyped, RestTyped
<1>2. /\ MemAfter("worker", "cancel") = mem /\ ~ Requested("worker", "cancel")
      /\ CancelledNow("worker") => row[W.cur].status = "cancelled"
      /\ row[W.cur].status = "cancelled" => CancelledNow("worker")
  BY <1>1, NeverAsked DEF CancelledNow, Memo
<1>3. ASSUME NEW label, Go(Worker, label) PROVE Moves(label)
  BY <1>1, <1>3 DEF Go, W, Locals
<1>4. ASSUME NEW s, NEW c, Persist(Worker, s, Memo.done, c)
      PROVE  Saves /\ W'.want = s /\ W'.next = c
  BY <1>1, <1>4, PersistDoes, ProgressInv DEF ProgressInv, Live
<1>5. ASSUME Quit(Worker) PROVE RunInv'
  BY <1>1, <1>5, IdleRun DEF Quit, Blank, W, InRun
<1> HIDE DEF Rest, Moves, Saves
<1> USE <1>1 DEF RunInv, RunCovers, SavingIsHonest, StopIsSeen, OnPage, PageOver, Stopped, Saving,
        InRun, RunnerPcs, At
<1>6. CASE ReadRow(Worker)
  BY <1>6, RunBegins
<1>7. CASE ClearOldPause(Worker) \/ ListPages(Worker) \/ ClearOldCancel(Worker)
  <2>1. Rest
    BY <1>7 DEF ClearOldPause, ListPages, ClearOldCancel, Memo, Memory, Rest
  <2>2. CASE W.pc = "clearPause" /\ Go(Worker, "clearCancel")
    BY <2>1, <2>2, <1>3 DEF Rest, Moves
  <2>3. CASE W.pc = "pages" /\ Go(Worker, "top")
    BY <2>1, <2>3, <1>3 DEF Rest, Moves
  <2>4. CASE W.pc = "clearCancel" /\ Go(Worker, "pages")
    BY <2>1, <2>4, <1>3 DEF Rest, Moves
  <2> QED BY <1>7, <2>2, <2>3, <2>4 DEF ClearOldPause, ListPages, ClearOldCancel, W
<1>8. CASE ListThrows(Worker)
  BY <1>8, <1>5 DEF ListThrows
<1>9. ASSUME NEW here, NEW there, NEW c, AskCancel(Worker, here, there, c),
             <<here, there, c>> \in {<<"top", "pauseTop", "cancelClear">>,
                                    <<"bottom", "pauseBottom", "cancelClear">>}
      PROVE  RunInv'
  <2>1. CASE CancelledNow("worker")
    <3>1. Rest /\ Persist(Worker, "cancelled", Memo.done, "cancelClear")
      BY <1>9, <1>2, <2>1 DEF AskCancel, FinishCancel, Memo, Memory, Rest
    <3> QED BY <3>1, <1>4 DEF Rest, Saves
  <2>2. CASE ~ CancelledNow("worker")
    <3>1. mem' = mem /\ UNCHANGED <<row, scanned>> /\ Moves(there) /\ W.pc = here
      BY <1>9, <1>2, <1>3, <2>2 DEF AskCancel, W
    <3> QED BY <1>9, <3>1 DEF Moves, Memo
  <2> QED BY <2>1, <2>2
<1>10. CASE Top(Worker) \/ Bottom(Worker)
  BY <1>9, <1>10 DEF Top, Bottom
<1>11. ASSUME NEW c, c \in {"pauseClear", "pauseClearMid"}, FinishPause(Worker, c),
             UNCHANGED <<row, scanned>>
      PROVE  RunInv'
  <2>1. Rest /\ Persist(Worker, "paused", Memo.done, c)
    BY <1>11 DEF FinishPause, Memo, Memory, Rest
  <2> QED BY <1>11, <2>1, <1>4 DEF Rest, Saves
<1>12. CASE NextPage(Worker)
  <2>1. CASE Requested("worker", "pause")
    BY <1>12, <2>1, <1>11 DEF NextPage
  <2>2. CASE ~ Requested("worker", "pause")
    <3>1. PICK p \in act[Worker].todo :
            IF mem[Host(Worker)].job = NoJob
            THEN act' = [act EXCEPT ![Worker] = [@ EXCEPT !.page = p, !.pc = "scan"]]
            ELSE act' = [act EXCEPT ![Worker] = [@ EXCEPT !.page = p, !.pc = "check",
                                                          !.tgt = mem[Host(Worker)].job,
                                                          !.want = "running",
                                                          !.list = mem[Host(Worker)].done,
                                                          !.next = "scan"]]
      BY <1>12, <2>2 DEF NextPage
    <3> DEFINE l == [W EXCEPT !.page = p, !.pc = "check", !.tgt = W.cur, !.want = "running",
                              !.list = Memo.done, !.next = "scan"]
    <3>2. act' = [act EXCEPT ![Worker] = l]
      BY <3>1 DEF W, Memo
    <3>3. /\ l.pc = "check" /\ l.cur = W.cur /\ l.todo = W.todo /\ l.tgt = W.cur
          /\ l.want = "running" /\ l.list = Memo.done /\ l.next = "scan"
      BY DEF Locals
    <3>4. W' = l
      <4> HIDE DEF l
      <4> QED BY <3>2 DEF W
    <3> HIDE DEF l
    <3>5. /\ W'.pc = "check" /\ W'.cur = W.cur /\ W'.todo = W.todo /\ W'.tgt = W.cur
          /\ W'.want = "running" /\ W'.list = Memo.done /\ W'.next = "scan"
      BY <3>3, <3>4
    <3>6. mem' = mem /\ UNCHANGED <<row, scanned>> /\ W.pc = "pauseTop"
      BY <1>12, <2>2 DEF NextPage, W
    <3> QED BY <3>5, <3>6 DEF Memo
  <2> QED BY <2>1, <2>2
<1>13. CASE PersistCheck(Worker)
  <2>1. mem' = mem /\ UNCHANGED <<row, scanned>> /\ W.pc = "check"
    BY <1>13, <1>2 DEF PersistCheck, W
  <2>2. CASE CancelledNow("worker")
    <3>1. Stopped
      BY <1>2, <2>2
    <3>2. Saved(Worker)
      BY <1>13, <2>2 DEF PersistCheck
    <3> QED BY <2>1, <3>1, <3>2, SavedDoes DEF Memo
  <2>3. CASE ~ CancelledNow("worker")
    <3>1. /\ W'.pc = "write" /\ W'.cur = W.cur /\ W'.todo = W.todo /\ W'.page = W.page
          /\ W'.tgt = W.cur /\ W'.list = W.list /\ W'.want = W.want /\ W'.next = W.next
      <4> DEFINE l == [W EXCEPT !.tgt = W.cur, !.pc = "write"]
      <4>1. act' = [act EXCEPT ![Worker] = l]
        BY <1>13, <2>3 DEF PersistCheck, W, Memo
      <4>2. /\ l.pc = "write" /\ l.cur = W.cur /\ l.todo = W.todo /\ l.page = W.page
            /\ l.tgt = W.cur /\ l.list = W.list /\ l.want = W.want /\ l.next = W.next
        BY DEF Locals
      <4>3. W' = l
        <5> HIDE DEF l
        <5> QED BY <4>1 DEF W
      <4> HIDE DEF l
      <4> QED BY <4>2, <4>3
    <3> QED BY <2>1, <3>1 DEF Memo
  <2> QED BY <2>2, <2>3
<1>14. CASE PersistWrite(Worker)
  <2>1. mem' = mem /\ scanned' = scanned /\ W.pc = "write" /\ Saved(Worker)
    BY <1>14 DEF PersistWrite, W
  <2>2. row' = [row EXCEPT ![W.cur] = [@ EXCEPT !.status = W.want, !.saved = W.list]]
    BY <1>14, <2>1 DEF PersistWrite, W
  <2>3. row'[W.cur].status = W.want
    BY <2>2 DEF Typed, RowTyped, Rows
  <2> QED BY <2>1, <2>3, SavedDoes DEF Memo
<1>15. CASE After(Worker)
  <2>1. CASE FinishCancel(Worker, "cancelClearMid")
    <3>1. Rest /\ Persist(Worker, "cancelled", Memo.done, "cancelClearMid")
      BY <1>15, <1>2, <2>1 DEF After, FinishCancel, Memo, Memory, Rest
    <3> QED BY <3>1, <1>4 DEF Rest, Saves
  <2>2. CASE FinishPause(Worker, "pauseClearMid")
    BY <1>15, <2>2, <1>11 DEF After
  <2>3. CASE ~ FinishCancel(Worker, "cancelClearMid") /\ ~ FinishPause(Worker, "pauseClearMid")
    <3>1. /\ Moves("finally") /\ UNCHANGED <<row, scanned>> /\ W.pc = "after" /\ ~ Memo.pause
          /\ Memo'.job = Memo.job /\ Memo'.done = Memo.done \cup {W.page}
      BY <1>15, <1>2, <1>3, <2>3 DEF After, W, Memo, Memory
    <3> QED BY <3>1 DEF Moves
  <2> QED BY <2>1, <2>2, <2>3
<1>16. CASE Finally(Worker)
  <2>1. /\ Persist(Worker, IF Memo.pause THEN "paused" ELSE "running", Memo.done, "bottom")
        /\ mem' = mem /\ UNCHANGED <<row, scanned>> /\ W.pc = "finally"
    BY <1>16 DEF Finally, W, Memo
  <2> QED BY <2>1, <1>4 DEF Saves, Memo
<1>17. CASE PauseBottom(Worker)
  <2>1. CASE FinishPause(Worker, "pauseClear")
    BY <1>17, <2>1, <1>11 DEF PauseBottom
  <2>2. CASE ~ FinishPause(Worker, "pauseClear")
    <3>1. /\ W'.pc = "top" /\ W'.cur = W.cur /\ W'.todo = W.todo \ {W.page} /\ W.pc = "pauseBottom"
          /\ UNCHANGED <<row, scanned>> /\ mem' = mem /\ ~ Memo.pause
      <4> DEFINE l == [W EXCEPT !.todo = W.todo \ {W.page}, !.page = NoPage, !.pc = "top"]
      <4>1. /\ act' = [act EXCEPT ![Worker] = l] /\ W.pc = "pauseBottom"
            /\ UNCHANGED <<row, scanned>> /\ mem' = mem
        BY <1>17, <2>2 DEF PauseBottom, W
      <4>2. l.pc = "top" /\ l.cur = W.cur /\ l.todo = W.todo \ {W.page}
        BY DEF Locals
      <4>3. W' = l
        <5> HIDE DEF l
        <5> QED BY <4>1 DEF W
      <4>4. ~ Memo.pause
        BY <1>17, <2>2 DEF PauseBottom, Requested, Memo
      <4> HIDE DEF l
      <4> QED BY <4>1, <4>2, <4>3, <4>4
    <3> QED BY <3>1 DEF Memo
  <2> QED BY <2>1, <2>2
<1>18. CASE PauseCleared(Worker) \/ CancelCleared(Worker)
  <2>1. /\ UNCHANGED <<row, scanned>> /\ \E mid : Cleared(Worker, mid)
        /\ \/ mem' = [mem EXCEPT !["worker"].pause = FALSE]
           \/ mem' = [mem EXCEPT !["worker"] = [@ EXCEPT !.pause = FALSE, !.cancel = FALSE]]
    BY <1>18 DEF PauseCleared, CancelCleared
  <2>2. \/ Memo' = [Memo EXCEPT !.pause = FALSE]
        \/ Memo' = [Memo EXCEPT !.pause = FALSE, !.cancel = FALSE]
    BY <2>1 DEF Memo
  <2>3. Memo'.job = Memo.job /\ Memo'.done = Memo.done
    BY <2>2 DEF Memory
  <2>4. Rest /\ \E mid : Cleared(Worker, mid)
    BY <2>1, <2>3 DEF Rest
  <2> QED BY <2>4, ClearedDoes DEF Rest
<1>19. CASE Complete(Worker)
  <2>1. Rest /\ Persist(Worker, "completed", Memo.done, "idle") /\ W.todo = {}
    BY <1>19 DEF Complete, W, Memo, Memory, Rest
  <2>2. scanned[W.cur] = Pages
    BY <2>1
  <2> QED BY <2>1, <2>2, <1>4 DEF Rest, Saves
<1>20. CASE Catch(Worker)
  <2>1. CASE Quit(Worker)
    BY <2>1, <1>5
  <2>2. CASE ~ Quit(Worker)
    <3>1. Rest /\ Persist(Worker, "failed", Memo.done, "idle")
      BY <1>20, <2>2 DEF Catch, Memo, Memory, Rest
    <3> QED BY <3>1, <1>4 DEF Rest, Saves
  <2> QED BY <2>1, <2>2
<1>21. CASE ScanStops(Worker)
  <2>1. ~ CancelledNow("worker") /\ W.pc = "scan" /\ Go(Worker, "after")
          /\ UNCHANGED <<row, scanned>>
    BY <1>21, <1>2 DEF ScanStops, W
  <2>2. Memo'.job = Memo.job /\ Memo'.done = Memo.done /\ Memo'.pause
    BY <1>21, <2>1 DEF ScanStops, MemAfter, Kinds, Memo, Memory
  <2> QED BY <2>1, <2>2, <1>3 DEF Moves
<1>22. CASE ScanEnds(Worker)
  <2>1. /\ Moves("after") /\ mem' = mem /\ row' = row /\ W.pc = "scan"
        /\ scanned'[W.cur] = scanned[W.cur] \cup {W.page}
    BY <1>22, <1>3 DEF ScanEnds, W, Typed, RestTyped
  <2> QED BY <2>1 DEF Moves, Memo
<1>23. CASE ScanFails(Worker)
  <2>1. /\ Moves("finally") /\ row' = row /\ W.pc = "scan"
        /\ scanned'[W.cur] = scanned[W.cur] \cup {W.page}
        /\ Memo'.job = Memo.job /\ Memo'.done = Memo.done \cup {W.page}
    BY <1>23, <1>3 DEF ScanFails, W, Typed, RestTyped, Memo, Memory
  <2> QED BY <2>1 DEF Moves
<1>24. CASE ScanProgress(Worker)
  <2>1. Persist(Worker, "running", Memo.done, "scan") /\ mem' = mem
          /\ UNCHANGED <<row, scanned>> /\ W.pc = "scan"
    BY <1>24 DEF ScanProgress, W, Memo
  <2> QED BY <2>1, <1>4 DEF Saves, Memo
<1>25. CASE RunThrows(Worker)
  <2>1. Moves("catch") /\ mem' = mem /\ UNCHANGED <<row, scanned>>
    BY <1>25, <1>3 DEF RunThrows
  <2> QED BY <2>1 DEF Moves, Memo
<1> QED BY <1>6, <1>7, <1>8, <1>10, <1>12, <1>13, <1>14, <1>15, <1>16, <1>17, <1>18, <1>19, <1>20,
           <1>21, <1>22, <1>23, <1>24, <1>25 DEF RunnerStep, ScanStep

\* What the worker's steps leave alone.
LEMMA WorkerFrames ==
  ASSUME Typed, NoCanceller, NEW r \in {Worker},
         RunnerStep(r) \/ ScanStep(r) \/ ScanProgress(r) \/ RunThrows(r) \/ ListThrows(r)
  PROVE  /\ \A a \in Actors : a # Worker => act'[a] = act[a]
         /\ \A j \in Jobs : scanned[j] \subseteq scanned'[j]
         /\ UNCHANGED row \/ PersistWrite(Worker)
         /\ keys'["cancel"] = {}
<1> USE DEF ActTyped, Typed, RestTyped, SignalsTyped, NoCanceller
<1>1. CASE ReadRow(r)
  BY <1>1 DEF ReadRow, Quit
<1>2. CASE ClearOldPause(r)
  BY <1>2 DEF ClearOldPause, Go, ClearFlag
<1>3. CASE ClearOldCancel(r)
  BY <1>3 DEF ClearOldCancel, Go, ClearFlag
<1>4. CASE ListPages(r)
  BY <1>4 DEF ListPages, Go
<1>5. CASE Top(r)
  BY <1>5 DEF Top, AskCancel, FinishCancel, Persist, Go
<1>6. CASE Bottom(r)
  BY <1>6 DEF Bottom, AskCancel, FinishCancel, Persist, Go
<1>7. CASE NextPage(r)
  BY <1>7 DEF NextPage, FinishPause, Persist
<1>8. CASE PersistCheck(r)
  BY <1>8 DEF PersistCheck, Saved, Quit
<1>9. CASE PersistWrite(r)
  BY <1>9 DEF PersistWrite, Saved, Quit
<1>10. CASE After(r)
  BY <1>10 DEF After, FinishCancel, FinishPause, Persist, Go
<1>11. CASE Finally(r)
  BY <1>11 DEF Finally, Persist
<1>12. CASE PauseBottom(r)
  BY <1>12 DEF PauseBottom, FinishPause, Persist
<1>13. CASE PauseCleared(r)
  BY <1>13 DEF PauseCleared, Cleared, Quit, ClearFlag
<1>14. CASE CancelCleared(r)
  <2>1. keys'["cancel"] = {}
    BY <1>14 DEF CancelCleared, Kinds
  <2>2. UNCHANGED <<row, scanned>> /\ \E mid : Cleared(r, mid)
    BY <1>14 DEF CancelCleared
  <2> QED BY <2>1, <2>2 DEF Cleared, Quit
<1>15. CASE Complete(r)
  BY <1>15 DEF Complete, Persist, Quit
<1>16. CASE Catch(r)
  BY <1>16 DEF Catch, Persist, Quit
<1>17. CASE ScanStops(r)
  BY <1>17 DEF ScanStops, Go
<1>18. CASE ScanEnds(r)
  BY <1>18 DEF ScanEnds, Go
<1>19. CASE ScanFails(r)
  BY <1>19 DEF ScanFails, Go
<1>20. CASE ScanProgress(r)
  BY <1>20 DEF ScanProgress, Persist
<1>21. CASE RunThrows(r)
  BY <1>21 DEF RunThrows, Go
<1>22. CASE ListThrows(r)
  BY <1>22 DEF ListThrows, Quit
<1> QED BY <1>1, <1>2, <1>3, <1>4, <1>5, <1>6, <1>7, <1>8, <1>9, <1>10, <1>11, <1>12, <1>13, <1>14,
           <1>15, <1>16, <1>17, <1>18, <1>19, <1>20, <1>21, <1>22 DEF RunnerStep, ScanStep

\* The worker never learns of a cancel.
LEMMA WorkerAsks ==
  ASSUME Typed, NoCanceller, NEW r \in {Worker},
         RunnerStep(r) \/ ScanStep(r) \/ ScanProgress(r) \/ RunThrows(r) \/ ListThrows(r)
  PROVE  \A h \in Hosts : ~ mem'[h].cancel /\ \A j \in Jobs : cache'[h]["cancel"][j] # "yes"
<1>1. /\ Host(r) \in Hosts /\ mem \in [Hosts -> Memory] /\ MemAfter(Host(r), "cancel") = mem
      /\ \A h \in Hosts : ~ mem[h].cancel /\ \A j \in Jobs : cache[h]["cancel"][j] # "yes"
      /\ cache \in [Hosts -> [Kinds -> [Jobs -> {"none", "yes", "no"}]]]
      /\ Kinds = {"pause", "cancel"}
      /\ "pause" \in Kinds /\ "cancel" \in Kinds
      /\ \A g \in Hosts, j \in Jobs : CacheAfter(Host(r), "cancel")[g]["cancel"][j] # "yes"
      /\ \A g \in Hosts, j \in Jobs : CacheAfter(Host(r), "pause")[g]["cancel"][j] # "yes"
  BY HostsAre, NeverAsked DEF Typed, MemTyped, SignalsTyped, NoCanceller, Kinds, Runners
<1> USE <1>1 DEF Memory
<1>2. CASE ReadRow(r)
  <2>1. cache' \in {cache, CacheAfter(Host(r), "cancel"), CacheAfter(Host(r), "pause")}
    BY <1>2 DEF ReadRow
  <2>2. \/ mem' = mem
        \/ mem' = [mem EXCEPT ![Host(r)] = [@ EXCEPT !.job = act[r].cur,
                                                     !.done = row[act[r].cur].saved,
                                                     !.pause = FALSE]]
    BY <1>2 DEF ReadRow
  <2>3. ASSUME mem' = mem PROVE \A h \in Hosts : ~ mem'[h].cancel
    BY <2>3
  <2>4. ASSUME mem' = [mem EXCEPT ![Host(r)] = [@ EXCEPT !.job = act[r].cur,
                                                         !.done = row[act[r].cur].saved,
                                                         !.pause = FALSE]]
        PROVE  \A h \in Hosts : ~ mem'[h].cancel
    BY <2>4
  <2> QED BY <2>1, <2>2, <2>3, <2>4
<1>3. CASE ClearOldPause(r)
  BY <1>3 DEF ClearOldPause, ClearFlag
<1>4. CASE ClearOldCancel(r)
  BY <1>4 DEF ClearOldCancel, ClearFlag
<1>5. CASE ListPages(r)
  BY <1>5 DEF ListPages
<1>6. CASE Top(r)
  <2>1. cache' \in {cache, CacheAfter(Host(r), "cancel"), CacheAfter(Host(r), "pause")}
    BY <1>6 DEF Top, AskCancel
  <2>2. \/ mem' = mem
        \/ mem' = [mem EXCEPT ![Host(r)].running = FALSE]
    BY <1>6 DEF Top, AskCancel, FinishCancel
  <2>3. ASSUME mem' = mem PROVE \A h \in Hosts : ~ mem'[h].cancel
    BY <2>3
  <2>4. ASSUME mem' = [mem EXCEPT ![Host(r)].running = FALSE]
        PROVE  \A h \in Hosts : ~ mem'[h].cancel
    BY <2>4
  <2> QED BY <2>1, <2>2, <2>3, <2>4
<1>7. CASE Bottom(r)
  <2>1. cache' \in {cache, CacheAfter(Host(r), "cancel"), CacheAfter(Host(r), "pause")}
    BY <1>7 DEF Bottom, AskCancel
  <2>2. \/ mem' = mem
        \/ mem' = [mem EXCEPT ![Host(r)].running = FALSE]
    BY <1>7 DEF Bottom, AskCancel, FinishCancel
  <2>3. ASSUME mem' = mem PROVE \A h \in Hosts : ~ mem'[h].cancel
    BY <2>3
  <2>4. ASSUME mem' = [mem EXCEPT ![Host(r)].running = FALSE]
        PROVE  \A h \in Hosts : ~ mem'[h].cancel
    BY <2>4
  <2> QED BY <2>1, <2>2, <2>3, <2>4
<1>8. CASE NextPage(r)
  <2>1. cache' \in {cache, CacheAfter(Host(r), "cancel"), CacheAfter(Host(r), "pause")}
    BY <1>8 DEF NextPage
  <2>2. \/ mem' = mem
        \/ mem' = [mem EXCEPT ![Host(r)] = [@ EXCEPT !.pause = TRUE, !.running = FALSE]]
    BY <1>8 DEF NextPage, FinishPause
  <2>3. ASSUME mem' = mem PROVE \A h \in Hosts : ~ mem'[h].cancel
    BY <2>3
  <2>4. ASSUME mem' = [mem EXCEPT ![Host(r)] = [@ EXCEPT !.pause = TRUE, !.running = FALSE]]
        PROVE  \A h \in Hosts : ~ mem'[h].cancel
    BY <2>4
  <2> QED BY <2>1, <2>2, <2>3, <2>4
<1>9. CASE PersistCheck(r)
  BY <1>9 DEF PersistCheck
<1>10. CASE PersistWrite(r)
  BY <1>10 DEF PersistWrite
<1>11. CASE After(r)
  <2>1. cache' \in {cache, CacheAfter(Host(r), "cancel"), CacheAfter(Host(r), "pause")}
    BY <1>11 DEF After
  <2>2. \/ mem' = [mem EXCEPT ![Host(r)].running = FALSE]
        \/ mem' = [mem EXCEPT ![Host(r)] = [@ EXCEPT !.pause = TRUE, !.running = FALSE]]
        \/ mem' = [mem EXCEPT ![Host(r)].done = @ \cup {act[r].page}]
    BY <1>11 DEF After, FinishCancel, FinishPause
  <2>3. ASSUME mem' = [mem EXCEPT ![Host(r)].running = FALSE]
        PROVE  \A h \in Hosts : ~ mem'[h].cancel
    BY <2>3
  <2>4. ASSUME mem' = [mem EXCEPT ![Host(r)] = [@ EXCEPT !.pause = TRUE, !.running = FALSE]]
        PROVE  \A h \in Hosts : ~ mem'[h].cancel
    BY <2>4
  <2>5. ASSUME mem' = [mem EXCEPT ![Host(r)].done = @ \cup {act[r].page}]
        PROVE  \A h \in Hosts : ~ mem'[h].cancel
    BY <2>5
  <2> QED BY <2>1, <2>2, <2>3, <2>4, <2>5
<1>12. CASE Finally(r)
  BY <1>12 DEF Finally
<1>13. CASE PauseBottom(r)
  <2>1. cache' \in {cache, CacheAfter(Host(r), "cancel"), CacheAfter(Host(r), "pause")}
    BY <1>13 DEF PauseBottom
  <2>2. \/ mem' = mem
        \/ mem' = [mem EXCEPT ![Host(r)] = [@ EXCEPT !.pause = TRUE, !.running = FALSE]]
    BY <1>13 DEF PauseBottom, FinishPause
  <2>3. ASSUME mem' = mem PROVE \A h \in Hosts : ~ mem'[h].cancel
    BY <2>3
  <2>4. ASSUME mem' = [mem EXCEPT ![Host(r)] = [@ EXCEPT !.pause = TRUE, !.running = FALSE]]
        PROVE  \A h \in Hosts : ~ mem'[h].cancel
    BY <2>4
  <2> QED BY <2>1, <2>2, <2>3, <2>4
<1>14. CASE PauseCleared(r)
  BY <1>14 DEF PauseCleared, ClearFlag
<1>15. CASE CancelCleared(r)
  BY <1>15 DEF CancelCleared
<1>16. CASE Complete(r)
  BY <1>16 DEF Complete
<1>17. CASE Catch(r)
  <2>1. cache' \in {cache, CacheAfter(Host(r), "cancel"), CacheAfter(Host(r), "pause")}
    BY <1>17 DEF Catch
  <2>2. \/ mem' = mem
        \/ mem' = [mem EXCEPT ![Host(r)].running = FALSE]
    BY <1>17 DEF Catch
  <2>3. ASSUME mem' = mem PROVE \A h \in Hosts : ~ mem'[h].cancel
    BY <2>3
  <2>4. ASSUME mem' = [mem EXCEPT ![Host(r)].running = FALSE]
        PROVE  \A h \in Hosts : ~ mem'[h].cancel
    BY <2>4
  <2> QED BY <2>1, <2>2, <2>3, <2>4
<1>18. CASE ScanStops(r)
  BY <1>18 DEF ScanStops, MemAfter
<1>19. CASE ScanEnds(r)
  BY <1>19 DEF ScanEnds
<1>20. CASE ScanFails(r)
  BY <1>20 DEF ScanFails
<1>21. CASE ScanProgress(r)
  BY <1>21 DEF ScanProgress
<1>22. CASE RunThrows(r)
  BY <1>22 DEF RunThrows
<1>23. CASE ListThrows(r)
  BY <1>23 DEF ListThrows
<1> QED BY <1>2, <1>3, <1>4, <1>5, <1>6, <1>7, <1>8, <1>9, <1>10, <1>11, <1>12, <1>13, <1>14,
           <1>15, <1>16, <1>17, <1>18, <1>19, <1>20, <1>21, <1>22, <1>23 DEF RunnerStep, ScanStep

\* What a session does when nobody cancels: it asks nobody to cancel, and it
\* leaves the worker's run and the history of the scans alone.
LEMMA SessionFrames ==
  ASSUME Typed, NoCanceller, NoCancels, NEW u \in Users,
         Request(u) \/ SessionStep(u) \/ PushRefused(u)
  PROVE  /\ \A a \in Actors : a # u => act'[a] = act[a]
         /\ act'[u].pc \in CalmPcs /\ keys'["cancel"] = {}
         /\ mem'["worker"] = mem["worker"] /\ scanned' = scanned
<1>1. /\ u \in Actors /\ act[u].pc \in CalmPcs /\ keys["cancel"] = {} /\ Redis
      /\ act \in [Actors -> Locals] /\ mem \in [Hosts -> Memory]
      /\ keys \in [Kinds -> SUBSET Jobs] /\ "cancel" \in Kinds /\ "cancel" \notin Ops[u]
  BY HostsAre DEF NoCanceller, NoCancels, Typed, ActTyped, MemTyped, SignalsTyped
<1> USE <1>1 DEF Locals, CalmPcs, UserPcs, At
<1>2. CASE StartFind(u)
  BY <1>2 DEF StartFind
<1>3. CASE PauseFind(u)
  BY <1>3 DEF PauseFind
<1>4. CASE CancelFind(u)
  BY <1>4 DEF CancelFind
<1>5. CASE Lookup(u)
  <2>1. ASSUME NEW j \in Jobs, mem' = [mem EXCEPT !["api"].job = j],
               act' = [act EXCEPT ![u] = [@ EXCEPT !.cur = j, !.pc = "resume"]]
        PROVE  /\ \A a \in Actors : a # u => act'[a] = act[a]
               /\ act'[u].pc \in CalmPcs /\ mem'["worker"] = mem["worker"]
    BY <2>1
  <2>2. ASSUME Go(u, "create"), UNCHANGED mem PROVE /\ \A a \in Actors : a # u => act'[a] = act[a]
               /\ act'[u].pc \in CalmPcs /\ mem'["worker"] = mem["worker"]
    BY <2>2 DEF Go
  <2> QED BY <1>5, <2>1, <2>2 DEF Lookup, InStatus, Visible
<1>6. CASE Resume(u)
  BY <1>6 DEF Resume
<1>7. CASE ClosePaused(u)
  BY <1>7 DEF ClosePaused, Go
<1>8. CASE Create(u)
  BY <1>8 DEF Create
<1>9. CASE OutOfIds(u)
  BY <1>9 DEF OutOfIds, Quit, Blank
<1>10. CASE Enqueue(u)
  BY <1>10 DEF Enqueue, Quit, Blank
<1>11. CASE RunInline(u)
  BY <1>11 DEF RunInline
<1>12. CASE PauseFlag(u)
  BY <1>12 DEF PauseFlag, SetFlag, Go
<1>13. CASE PauseRead(u)
  BY <1>13 DEF PauseRead
<1>14. CASE PauseWrite(u)
  BY <1>14 DEF PauseWrite, Quit, Blank
<1>15. CASE CancelSignal(u)
  BY <1>15 DEF CancelSignal
<1>16. CASE CancelUpdate(u)
  BY <1>16 DEF CancelUpdate
<1>17. CASE PurgeLen(u)
  BY <1>17 DEF PurgeLen
<1>18. CASE PurgeDel(u)
  BY <1>18 DEF PurgeDel
<1>19. CASE ClearPauses(u)
  BY <1>19 DEF ClearPauses
<1>20. CASE Reset(u)
  BY <1>20 DEF Reset
<1>21. CASE PushRefused(u)
  BY <1>21 DEF PushRefused, Quit, Blank
<1> QED BY <1>2, <1>3, <1>4, <1>5, <1>6, <1>7, <1>8, <1>9, <1>10, <1>11, <1>12, <1>13, <1>14,
           <1>15, <1>16, <1>17, <1>18, <1>19, <1>20, <1>21 DEF Request, SessionStep

\* No session asks the worker to cancel.
LEMMA SessionAsks ==
  ASSUME Typed, NoCanceller, NoCancels, NEW u \in Users,
         Request(u) \/ SessionStep(u) \/ PushRefused(u)
  PROVE  \A h \in Hosts : ~ mem'[h].cancel /\ \A j \in Jobs : cache'[h]["cancel"][j] # "yes"
<1>1. /\ act[u].pc \in CalmPcs /\ Redis /\ mem \in [Hosts -> Memory] /\ "cancel" \notin Ops[u]
      /\ \A h \in Hosts : ~ mem[h].cancel /\ \A j \in Jobs : cache[h]["cancel"][j] # "yes"
      /\ cache \in [Hosts -> [Kinds -> [Jobs -> {"none", "yes", "no"}]]]
      /\ "pause" \in Kinds /\ "cancel" \in Kinds /\ "api" \in Hosts
  BY HostsAre DEF NoCanceller, NoCancels, Typed, MemTyped, SignalsTyped
<1> USE <1>1 DEF CalmPcs, UserPcs, At, Memory
<1>2. CASE StartFind(u)
  BY <1>2 DEF StartFind
<1>3. CASE PauseFind(u)
  BY <1>3 DEF PauseFind
<1>4. CASE CancelFind(u)
  BY <1>4 DEF CancelFind
<1>5. CASE Lookup(u)
  <2>1. ASSUME NEW j \in Jobs, mem' = [mem EXCEPT !["api"].job = j]
        PROVE  \A h \in Hosts : ~ mem'[h].cancel
    BY <2>1
  <2>2. (mem' = mem \/ \E j \in Jobs : mem' = [mem EXCEPT !["api"].job = j]) /\ cache' = cache
    BY <1>5 DEF Lookup, InStatus, Visible
  <2>3. \A h \in Hosts : ~ mem'[h].cancel
    BY <2>1, <2>2
  <2> QED BY <2>2, <2>3
<1>6. CASE Resume(u)
  BY <1>6 DEF Resume
<1>7. CASE ClosePaused(u)
  BY <1>7 DEF ClosePaused
<1>8. CASE Create(u)
  BY <1>8 DEF Create
<1>9. CASE OutOfIds(u)
  BY <1>9 DEF OutOfIds
<1>10. CASE Enqueue(u)
  BY <1>10 DEF Enqueue
<1>11. CASE RunInline(u)
  BY <1>11 DEF RunInline
<1>12. CASE PauseFlag(u)
  BY <1>12 DEF PauseFlag, SetFlag
<1>13. CASE PauseRead(u)
  BY <1>13 DEF PauseRead
<1>14. CASE PauseWrite(u)
  BY <1>14 DEF PauseWrite
<1>15. CASE CancelSignal(u)
  BY <1>15 DEF CancelSignal
<1>16. CASE CancelUpdate(u)
  BY <1>16 DEF CancelUpdate
<1>17. CASE PurgeLen(u)
  BY <1>17 DEF PurgeLen
<1>18. CASE PurgeDel(u)
  BY <1>18 DEF PurgeDel
<1>19. CASE ClearPauses(u)
  BY <1>19 DEF ClearPauses
<1>20. CASE Reset(u)
  BY <1>20 DEF Reset
<1>21. CASE PushRefused(u)
  BY <1>21 DEF PushRefused
<1> QED BY <1>2, <1>3, <1>4, <1>5, <1>6, <1>7, <1>8, <1>9, <1>10, <1>11, <1>12, <1>13, <1>14,
           <1>15, <1>16, <1>17, <1>18, <1>19, <1>20, <1>21 DEF Request, SessionStep

\* What a session writes to the rows: pages that were scanned, and of the
\* statuses "running", or "cancelled" over "paused".
LEMMA SessionWrites ==
  ASSUME Typed, NoCanceller, NoCancels, SessionsHonest, SavedWasScanned, NEW u \in Users,
         Request(u) \/ SessionStep(u) \/ PushRefused(u), NEW j \in Jobs
  PROVE  /\ row'[j].saved \subseteq scanned[j]
         /\ \/ row'[j].status \in {row[j].status, "running"}
            \/ row'[j].status = "cancelled" /\ row[j].status = "paused"
<1>1. /\ u \in Actors /\ act[u].pc \in CalmPcs /\ Redis /\ "cancel" \notin Ops[u]
      /\ row \in [Jobs -> Rows] /\ row[j].saved \subseteq scanned[j]
  BY HostsAre DEF NoCanceller, NoCancels, Typed, RowTyped, SavedWasScanned
<1> USE <1>1 DEF CalmPcs, UserPcs, At
<1>2. CASE StartFind(u)
  BY <1>2 DEF StartFind
<1>3. CASE PauseFind(u)
  BY <1>3 DEF PauseFind
<1>4. CASE CancelFind(u)
  BY <1>4 DEF CancelFind
<1>5. CASE Lookup(u)
  BY <1>5 DEF Lookup
<1>6. CASE Resume(u)
  BY <1>6 DEF Resume, Rows
<1>7. CASE ClosePaused(u)
  <2>1. \/ row'[j] = row[j]
        \/ /\ row[j].status = "paused"
           /\ row'[j] = [row[j] EXCEPT !.status = "cancelled"]
    BY <1>7 DEF ClosePaused, SetStatus, InStatus, Visible
  <2> QED BY <2>1 DEF Rows
<1>8. CASE Create(u)
  BY <1>8 DEF Create
<1>9. CASE OutOfIds(u)
  BY <1>9 DEF OutOfIds
<1>10. CASE Enqueue(u)
  BY <1>10 DEF Enqueue
<1>11. CASE RunInline(u)
  BY <1>11 DEF RunInline
<1>12. CASE PauseFlag(u)
  BY <1>12 DEF PauseFlag
<1>13. CASE PauseRead(u)
  BY <1>13 DEF PauseRead
<1>14. CASE PauseWrite(u)
  <2>1. act[u].list \subseteq scanned[act[u].cur]
    BY <1>14 DEF PauseWrite, SessionsHonest
  <2> QED BY <1>14, <2>1 DEF PauseWrite, Rows
<1>15. CASE CancelSignal(u)
  BY <1>15 DEF CancelSignal
<1>16. CASE CancelUpdate(u)
  BY <1>16 DEF CancelUpdate
<1>17. CASE PurgeLen(u)
  BY <1>17 DEF PurgeLen
<1>18. CASE PurgeDel(u)
  BY <1>18 DEF PurgeDel
<1>19. CASE ClearPauses(u)
  BY <1>19 DEF ClearPauses
<1>20. CASE Reset(u)
  BY <1>20 DEF Reset
<1>21. CASE PushRefused(u)
  BY <1>21 DEF PushRefused
<1> QED BY <1>2, <1>3, <1>4, <1>5, <1>6, <1>7, <1>8, <1>9, <1>10, <1>11, <1>12, <1>13, <1>14,
           <1>15, <1>16, <1>17, <1>18, <1>19, <1>20, <1>21 DEF Request, SessionStep

\* A session that is about to write has read pages that were scanned.
LEMMA SessionReads ==
  ASSUME Typed, NoCanceller, NoCancels, SessionsHonest, SavedWasScanned, NEW u \in Users,
         Request(u) \/ SessionStep(u) \/ PushRefused(u), act'[u].pc = "dbWrite"
  PROVE  act'[u].cur \in Jobs /\ act'[u].list \subseteq scanned[act'[u].cur]
<1>1. /\ u \in Actors /\ act[u].pc \in CalmPcs /\ Redis /\ "cancel" \notin Ops[u]
      /\ act \in [Actors -> Locals]
  BY HostsAre DEF NoCanceller, NoCancels, Typed, ActTyped
<1> USE <1>1 DEF CalmPcs, UserPcs, At
<1>2. CASE StartFind(u)
  BY <1>2 DEF StartFind, Locals
<1>3. CASE PauseFind(u)
  BY <1>3 DEF PauseFind, Locals
<1>4. CASE CancelFind(u)
  BY <1>4 DEF CancelFind, Locals
<1>5. CASE Lookup(u)
  <2>1. ASSUME NEW j \in Jobs, mem' = [mem EXCEPT !["api"].job = j],
               act' = [act EXCEPT ![u] = [@ EXCEPT !.cur = j, !.pc = "resume"]]
        PROVE  FALSE
    BY <2>1
  <2>2. ASSUME Go(u, "create"), UNCHANGED mem PROVE FALSE
    BY <2>2 DEF Go
  <2> QED BY <1>5, <2>1, <2>2 DEF Lookup, InStatus, Visible
<1>6. CASE Resume(u)
  BY <1>6 DEF Resume, Locals
<1>7. CASE ClosePaused(u)
  BY <1>7 DEF ClosePaused, Locals, Go
<1>8. CASE Create(u)
  BY <1>8 DEF Create, Locals
<1>9. CASE OutOfIds(u)
  BY <1>9 DEF OutOfIds, Locals, Quit, Blank
<1>10. CASE Enqueue(u)
  BY <1>10 DEF Enqueue, Locals, Quit, Blank
<1>11. CASE RunInline(u)
  BY <1>11 DEF RunInline, Locals
<1>12. CASE PauseFlag(u)
  BY <1>12 DEF PauseFlag, Locals, SetFlag, Go
<1>13. CASE PauseRead(u)
  <2>1. act[u].cur \in Jobs
    BY <1>13 DEF PauseRead, Typed, HasJob, JobPcs
  <2> QED BY <1>13, <2>1 DEF PauseRead, SavedWasScanned, Locals
<1>14. CASE PauseWrite(u)
  BY <1>14 DEF PauseWrite, Locals, Quit, Blank
<1>15. CASE CancelSignal(u)
  BY <1>15 DEF CancelSignal, Locals
<1>16. CASE CancelUpdate(u)
  BY <1>16 DEF CancelUpdate, Locals
<1>17. CASE PurgeLen(u)
  BY <1>17 DEF PurgeLen, Locals
<1>18. CASE PurgeDel(u)
  BY <1>18 DEF PurgeDel, Locals
<1>19. CASE ClearPauses(u)
  BY <1>19 DEF ClearPauses, Locals
<1>20. CASE Reset(u)
  BY <1>20 DEF Reset, Locals
<1>21. CASE PushRefused(u)
  BY <1>21 DEF PushRefused, Locals, Quit, Blank
<1> QED BY <1>2, <1>3, <1>4, <1>5, <1>6, <1>7, <1>8, <1>9, <1>10, <1>11, <1>12, <1>13, <1>14,
           <1>15, <1>16, <1>17, <1>18, <1>19, <1>20, <1>21 DEF Request, SessionStep

\* So the run's conditions hold on: a stop of its job by a session is a pause
\* that became a cancel.
LEMMA SessionKeeps ==
  ASSUME ProgressInv, NoCancels, NEW u \in Users,
         Request(u) \/ SessionStep(u) \/ PushRefused(u)
  PROVE  NoCanceller' /\ SessionsHonest' /\ RunInv' /\ SavedWasScanned' /\ CompletedCoversAll'
<1> USE DEF ProgressInv
<1>1. /\ u # Worker /\ u \notin Inline /\ Worker \in Actors
      /\ Inline \subseteq Actors /\ Users \subseteq Actors
  BY BackfillConstants DEF Actors, Runners
<1>2. NoCanceller'
  BY <1>1, SessionFrames, SessionAsks DEF NoCanceller, CalmPcs
<1>3. SessionsHonest'
  BY <1>1, SessionFrames, SessionReads DEF SessionsHonest
<1>4. RunInv'
  <2>1. W' = W /\ Memo' = Memo /\ scanned' = scanned
    BY <1>1, SessionFrames DEF W, Memo
  <2>2. W.pc \in InRun => W.cur \in Jobs
    BY <1>1 DEF Typed, HasJob, JobPcs, W
  <2>3. W.pc \in InRun /\ Stopped' => Stopped
    BY <2>1, <2>2, SessionWrites DEF Stopped
  <2> QED BY <2>1, <2>3 DEF RunInv, RunCovers, SavingIsHonest, StopIsSeen, OnPage, PageOver,
             Saving, InRun, RunnerPcs
<1>5. SavedWasScanned'
  BY SessionFrames, SessionWrites DEF SavedWasScanned
<1>6. CompletedCoversAll'
  BY SessionFrames, SessionWrites DEF CompletedCoversAll
<1> QED BY <1>2, <1>3, <1>4, <1>5, <1>6

\* What the worker writes was scanned, and all of it when it writes "completed".
LEMMA WorkerKeeps ==
  ASSUME ProgressInv, NEW r \in Runners,
         RunnerStep(r) \/ ScanStep(r) \/ ScanProgress(r) \/ RunThrows(r) \/ ListThrows(r)
  PROVE  NoCanceller' /\ SessionsHonest' /\ RunInv' /\ SavedWasScanned' /\ CompletedCoversAll'
<1> USE DEF ProgressInv
<1>1. /\ Worker \in Actors /\ Worker \notin Users /\ Worker \notin Inline
      /\ Inline \subseteq Actors /\ Users \subseteq Actors
  BY BackfillConstants DEF Actors, Runners
<1>2. r = Worker /\ act[r].pc # "idle"
  BY DEF NoCanceller, Runners, RunnerStep, ScanStep, ReadRow, ClearOldPause, ClearOldCancel,
     ListPages, Top, NextPage, PersistCheck, PersistWrite, After, Finally, Bottom, PauseBottom,
     PauseCleared, CancelCleared, Complete, Catch, ScanStops, ScanEnds, ScanFails, ScanProgress,
     RunThrows, ListThrows, AskCancel, At
<1>3. NoCanceller'
  BY <1>1, <1>2, WorkerFrames, WorkerAsks DEF NoCanceller
<1>4. SessionsHonest'
  <2>1. ASSUME NEW u \in Users, act'[u].pc = "dbWrite"
        PROVE  act'[u].cur \in Jobs /\ act'[u].list \subseteq scanned'[act'[u].cur]
    <3>1. act'[u] = act[u]
      BY <1>1, <1>2, WorkerFrames
    <3>2. act[u].cur \in Jobs /\ act[u].list \subseteq scanned[act[u].cur]
      BY <2>1, <3>1 DEF SessionsHonest
    <3> QED BY <1>2, <3>1, <3>2, WorkerFrames
  <2> QED BY <2>1 DEF SessionsHonest
<1>5. RunInv'
  <2>1. CASE W.pc \in InRun
    BY <1>2, <2>1, RunGoesOn
  <2>2. CASE W.pc = "read"
    <3>1. ReadRow(Worker)
      BY <1>2, <2>2 DEF W, RunnerStep, ScanStep, ClearOldPause, ClearOldCancel, ListPages, Top,
         NextPage, PersistCheck, PersistWrite, After, Finally, Bottom, PauseBottom, PauseCleared,
         CancelCleared, Complete, Catch, ScanStops, ScanEnds, ScanFails, ScanProgress, RunThrows,
         ListThrows, AskCancel, At
    <3> QED BY <3>1, RunBegins
  <2>3. CASE W.pc \notin InRun \cup {"read"}
    BY <1>2, <2>3 DEF W, InRun, RunnerPcs, RunnerStep, ScanStep, ReadRow, ClearOldPause,
       ClearOldCancel, ListPages, Top, NextPage, PersistCheck, PersistWrite, After, Finally,
       Bottom, PauseBottom, PauseCleared, CancelCleared, Complete, Catch, ScanStops, ScanEnds,
       ScanFails, ScanProgress, RunThrows, ListThrows, AskCancel, At
  <2> QED BY <2>1, <2>2, <2>3
<1>6. CASE UNCHANGED row
  <2>1. \A j \in Jobs : scanned[j] \subseteq scanned'[j] /\ scanned'[j] \in SUBSET Pages
    BY <1>2, WorkerFrames, TypedStep DEF Typed, RestTyped, Next
  <2> QED BY <1>3, <1>4, <1>5, <1>6, <2>1 DEF SavedWasScanned, CompletedCoversAll
<1>7. CASE PersistWrite(Worker)
  <2>1. /\ W.tgt = W.cur /\ W.cur \in Jobs /\ W.list \subseteq scanned[W.cur]
        /\ W.want = "completed" => scanned[W.cur] = Pages
    <3>1. W.pc = "write" /\ W.pc \in InRun
      BY <1>7 DEF PersistWrite, At, W, InRun, RunnerPcs
    <3> QED BY <3>1, InTheRun DEF RunInv, SavingIsHonest, Saving
  <2>2. /\ row' = [row EXCEPT ![W.cur] = [@ EXCEPT !.status = W.want, !.saved = W.list]]
        /\ scanned' = scanned
    BY <1>7, <2>1 DEF PersistWrite, W
  <2>3. \A j \in Jobs : \/ row'[j].status = row[j].status /\ row'[j].saved = row[j].saved
                        \/ j = W.cur /\ row'[j].status = W.want /\ row'[j].saved = W.list
    BY <2>1, <2>2 DEF Typed, RowTyped, Rows
  <2>4. SavedWasScanned' /\ CompletedCoversAll'
    BY <2>1, <2>2, <2>3 DEF SavedWasScanned, CompletedCoversAll
  <2> QED BY <1>3, <1>4, <1>5, <2>4
<1> QED BY <1>2, <1>6, <1>7, WorkerFrames

\* The steps of nobody in particular.
LEMMA OthersKeep ==
  ASSUME ProgressInv, Pop \/ Poll \/ CacheExpires \/ (\E h \in Hosts : Restart(h)) \/ BootPurge
  PROVE  NoCanceller' /\ SessionsHonest' /\ RunInv' /\ SavedWasScanned' /\ CompletedCoversAll'
<1> USE DEF ProgressInv
<1>1. /\ Worker \in Actors /\ Worker \notin Users /\ Worker \notin Inline
      /\ Inline \subseteq Actors /\ Users \subseteq Actors /\ act \in [Actors -> Locals]
      /\ mem \in [Hosts -> Memory] /\ row \in [Jobs -> Rows] /\ Blank.pc = "idle"
      /\ "pause" \in Kinds /\ "cancel" \in Kinds /\ "worker" \in Hosts
      /\ cache \in [Hosts -> [Kinds -> [Jobs -> {"none", "yes", "no"}]]]
  BY BackfillConstants, BlankTyped, HostsAre DEF Actors, Runners, Typed, ActTyped, MemTyped,
     RowTyped, SignalsTyped
<1>2. CASE Pop
  <2>1. W'.pc = "read" /\ \A a \in Actors : a # Worker => act'[a] = act[a]
    BY <1>1, <1>2 DEF Pop, W, Blank
  <2>2. UNCHANGED <<row, keys, cache, mem, scanned>>
    BY <1>2 DEF Pop
  <2>3. RunInv'
    BY <2>1, IdleRun DEF InRun
  <2> QED BY <1>1, <2>1, <2>2, <2>3 DEF NoCanceller, SessionsHonest, SavedWasScanned,
             CompletedCoversAll
<1>3. CASE Poll
  <2>1. PICK r \in Runners : /\ act[r].pc \in InRun
                             /\ mem' = MemAfter(Host(r), "pause")
                             /\ cache' = CacheAfter(Host(r), "pause")
    BY <1>3 DEF Poll
  <2>2. UNCHANGED <<row, keys, act, scanned>>
    BY <1>3 DEF Poll
  <2>3. r = Worker /\ Host(r) = "worker" /\ Requested("worker", "pause")
    BY <1>3, <2>1 DEF Runners, NoCanceller, InRun, Host, Poll
  <2>4. /\ \A h \in Hosts : mem'[h].cancel = mem[h].cancel
        /\ Memo'.job = Memo.job /\ Memo'.done = Memo.done /\ (Memo.pause => Memo'.pause)
    BY <1>1, <2>1, <2>3 DEF MemAfter, Memory, Memo
  <2>5. \A g \in Hosts, j \in Jobs : cache'[g]["cancel"][j] # "yes"
    BY <1>1, <2>1, <2>3, NeverAsked
  <2>6. NoCanceller'
    BY <2>2, <2>4, <2>5 DEF NoCanceller
  <2>7. RunInv'
    BY <2>2, <2>4 DEF RunInv, RunCovers, SavingIsHonest, StopIsSeen, OnPage, PageOver, Saving,
       Stopped, W
  <2> QED BY <2>2, <2>7, <2>6 DEF SessionsHonest, SavedWasScanned, CompletedCoversAll
<1>4. CASE CacheExpires
  <2>1. UNCHANGED <<row, keys, mem, act, scanned>>
    BY <1>4 DEF CacheExpires
  <2>2. \A h \in Hosts, j \in Jobs : cache'[h]["cancel"][j] # "yes"
    BY <1>1, <1>4 DEF CacheExpires, NoCanceller
  <2> QED BY <2>1, <2>2 DEF NoCanceller, SessionsHonest, SavedWasScanned, CompletedCoversAll,
             RunInv, RunCovers, SavingIsHonest, StopIsSeen, OnPage, PageOver, Saving, Stopped, W,
             Memo
<1>5. ASSUME NEW h \in Hosts, Restart(h)
      PROVE  NoCanceller' /\ SessionsHonest' /\ RunInv' /\ SavedWasScanned' /\ CompletedCoversAll'
  <2>1. /\ \A a \in Actors : act'[a] = IF Host(a) = h THEN Blank ELSE act[a]
        /\ UNCHANGED <<keys, scanned>>
    BY <1>5 DEF Restart
  <2>2. \A j \in Jobs : \/ row'[j] = row[j]
                        \/ /\ row[j].status = "running"
                           /\ row'[j] = [row[j] EXCEPT !.status = "failed"]
    BY <1>5 DEF Restart, SetStatus
  <2>3. \A j \in Jobs : /\ row'[j].saved = row[j].saved
                        /\ row'[j].status = row[j].status \/ row'[j].status = "failed"
    BY <1>1, <2>2 DEF Rows
  <2>4. \A g \in Hosts : /\ g # h => mem'[g] = mem[g]
                         /\ ~ mem'[g].cancel
                         /\ \A j \in Jobs : cache'[g]["cancel"][j] # "yes"
    BY <1>1, <1>5 DEF Restart, Fresh, NoCanceller
  <2>5. NoCanceller'
    BY <1>1, <2>1, <2>4 DEF NoCanceller, CalmPcs, UserPcs
  <2>6. SessionsHonest'
    BY <1>1, <2>1 DEF SessionsHonest
  <2>7. RunInv'
    <3>1. CASE h = "worker"
      BY <1>1, <2>1, <3>1, IdleRun DEF W, Host, InRun
    <3>2. CASE h # "worker"
      <4>1. W' = W /\ Memo' = Memo
        BY <1>1, <2>1, <2>4, <3>2 DEF W, Memo, Host
      <4>2. W.pc \in InRun => W.cur \in Jobs
        BY <1>1 DEF Typed, HasJob, JobPcs, W
      <4>3. W.pc \in InRun /\ Stopped' => Stopped
        BY <4>1, <4>2, <2>3 DEF Stopped
      <4> QED BY <2>1, <4>1, <4>3 DEF RunInv, RunCovers, SavingIsHonest, StopIsSeen, OnPage,
                 PageOver, Saving, InRun, RunnerPcs
    <3> QED BY <3>1, <3>2
  <2>8. SavedWasScanned' /\ CompletedCoversAll'
    BY <2>1, <2>3 DEF SavedWasScanned, CompletedCoversAll
  <2> QED BY <2>5, <2>6, <2>7, <2>8
<1>6. CASE BootPurge
  BY <1>6 DEF BootPurge, NoCanceller, SessionsHonest, SavedWasScanned, CompletedCoversAll, RunInv,
     RunCovers, SavingIsHonest, StopIsSeen, OnPage, PageOver, Saving, Stopped, W, Memo
<1> QED BY <1>2, <1>3, <1>4, <1>5, <1>6

\* Nothing runs and nothing is saved at first.
LEMMA ProgressInit == Init => ProgressInv
<1> SUFFICES ASSUME Init PROVE ProgressInv
  OBVIOUS
<1>1. \A a \in Actors : act[a].pc = "idle"
  BY BlankTyped DEF Init
<1>2. NoCanceller
  BY <1>1, HostsAre DEF Init, NoCanceller, CalmPcs, UserPcs, Fresh, Actors, Runners
<1>3. SessionsHonest
  BY <1>1, HostsAre DEF SessionsHonest
<1>4. RunInv
  BY <1>1, HostsAre DEF RunInv, RunCovers, SavingIsHonest, StopIsSeen, OnPage, PageOver, Saving, W,
     InRun, Actors, Runners
<1>5. SavedWasScanned /\ CompletedCoversAll
  BY DEF Init, SavedWasScanned, CompletedCoversAll
<1> QED BY <1>2, <1>3, <1>4, <1>5, TypedInit DEF ProgressInv

\* One case for each kind of actor.
LEMMA ProgressStep ==
  ASSUME ProgressInv, NoCancels, [Next]_vars
  PROVE  ProgressInv'
<1>1. Typed'
  BY TypedStep DEF ProgressInv
<1>2. CASE \E u \in Users : Request(u) \/ SessionStep(u) \/ PushRefused(u)
  BY <1>1, <1>2, SessionKeeps DEF ProgressInv
<1>3. CASE \E r \in Runners : \/ RunnerStep(r) \/ ScanStep(r) \/ ScanProgress(r)
                              \/ RunThrows(r) \/ ListThrows(r)
  BY <1>1, <1>3, WorkerKeeps DEF ProgressInv
<1>4. CASE Pop \/ Poll \/ CacheExpires \/ (\E h \in Hosts : Restart(h)) \/ BootPurge
  BY <1>1, <1>4, OthersKeep DEF ProgressInv
<1>5. CASE UNCHANGED vars
  BY <1>1, <1>5 DEF vars, ProgressInv, NoCanceller, SessionsHonest, SavedWasScanned,
     CompletedCoversAll, RunInv, RunCovers, SavingIsHonest, StopIsSeen, OnPage, PageOver, Saving,
     Stopped, W, Memo
<1> QED BY <1>2, <1>3, <1>4, <1>5 DEF Next

\* The inductive invariant of the runs without a cancel.
LEMMA AlwaysProgress == ASSUME NoCancels PROVE Spec => []ProgressInv
BY ProgressInit, ProgressStep, PTL DEF Spec

\* Progress is honest: whatever the pauses, resumptions, failing pages and
\* restarts of either process, a page counts as completed in the row only if
\* its scan ran to its end.
THEOREM SavedIsScanned == ASSUME NoCancels PROVE Spec => []SavedWasScanned
BY AlwaysProgress, PTL DEF ProgressInv

\* A job is saved as completed only when every page was scanned for it: a page
\* that was paused in the middle, or failed, is scanned again or left out of done.
THEOREM CompletedIsWhole == ASSUME NoCancels PROVE Spec => []CompletedCoversAll
BY AlwaysProgress, PTL DEF ProgressInv

-----------------------------------------------------------------------------
\* A worker without a run, whoever cancels, forces or pauses meanwhile and
\* whichever process restarts.  A run gives up "running" before its last save,
\* so from then on, and until the next run has cleared the old flags, it is off.
Closing == {"pauseClear", "pauseClearMid", "cancelClear", "cancelClearMid"}
RunOver == \/ W.pc \in {"idle", "read", "clearPause", "clearCancel"} \cup Closing
           \/ Saving /\ W.next \in Closing \cup {"idle"}
FreeInv == W.pc # "catch" /\ (RunOver => ~ Memo.running)

\* The theorem's hypothesis: no query of a run throws.  One that does leaves the
\* run before its state is put back (ListThrows, RunThrows and Catch).
NoRunError == "run error" \notin Faults

\* A process's word that it has a run, once it has asked for a flag.
LEMMA AskedRunning ==
  ASSUME MemTyped, NEW h \in Hosts, NEW g \in Hosts
  PROVE  /\ MemAfter(h, "pause")[g].running = mem[g].running
         /\ MemAfter(h, "cancel")[g].running = mem[g].running
BY DEF MemTyped, Memory, MemAfter

\* The sessions leave the worker's run and its memory alone.
LEMMA SessionsAway ==
  ASSUME Typed, NEW u \in Users, Request(u) \/ SessionStep(u) \/ PushRefused(u)
  PROVE  W' = W /\ Memo' = Memo
<1>1. /\ Worker \in Actors /\ u \in Actors /\ u # Worker /\ Worker \notin Inline
      /\ act \in [Actors -> Locals] /\ mem \in [Hosts -> Memory]
      /\ "api" \in Hosts /\ "worker" \in Hosts
  BY BackfillConstants, HostsAre DEF Actors, Runners, Typed, ActTyped, MemTyped
<1> USE <1>1 DEF W, Memo, Go, Quit
<1>2. CASE StartFind(u)
  BY <1>2 DEF StartFind
<1>3. CASE Lookup(u)
  <2>1. ASSUME NEW j \in Jobs, mem' = [mem EXCEPT !["api"].job = j],
               act' = [act EXCEPT ![u] = [@ EXCEPT !.cur = j, !.pc = "resume"]]
        PROVE  W' = W /\ Memo' = Memo
    BY <2>1
  <2>2. ASSUME Go(u, "create"), UNCHANGED mem PROVE W' = W /\ Memo' = Memo
    BY <2>2
  <2> QED BY <1>3, <2>1, <2>2 DEF Lookup, InStatus, Visible
<1>4. CASE Resume(u)
  BY <1>4 DEF Resume
<1>5. CASE ClosePaused(u)
  BY <1>5 DEF ClosePaused
<1>6. CASE Create(u)
  BY <1>6 DEF Create
<1>7. CASE OutOfIds(u)
  BY <1>7 DEF OutOfIds
<1>8. CASE Enqueue(u)
  BY <1>8 DEF Enqueue
<1>9. CASE RunInline(u)
  BY <1>9 DEF RunInline
<1>10. CASE PushRefused(u)
  BY <1>10 DEF PushRefused
<1>11. CASE PauseFind(u)
  BY <1>11 DEF PauseFind
<1>12. CASE PauseFlag(u)
  BY <1>12 DEF PauseFlag
<1>13. CASE PauseRead(u)
  BY <1>13 DEF PauseRead
<1>14. CASE PauseWrite(u)
  BY <1>14 DEF PauseWrite
<1>15. CASE CancelFind(u)
  BY <1>15 DEF CancelFind
<1>16. CASE CancelSignal(u)
  BY <1>16 DEF CancelSignal
<1>17. CASE CancelUpdate(u)
  BY <1>17 DEF CancelUpdate
<1>18. CASE PurgeLen(u)
  BY <1>18 DEF PurgeLen
<1>19. CASE PurgeDel(u)
  BY <1>19 DEF PurgeDel
<1>20. CASE ClearPauses(u)
  BY <1>20 DEF ClearPauses
<1>21. CASE Reset(u)
  BY <1>21 DEF Reset
<1> QED BY <1>2, <1>3, <1>4, <1>5, <1>6, <1>7, <1>8, <1>9, <1>10, <1>11, <1>12, <1>13, <1>14,
           <1>15, <1>16, <1>17, <1>18, <1>19, <1>20, <1>21 DEF Request, SessionStep

\* Nor does a job that the API process runs touch them.
LEMMA InlineAway ==
  ASSUME Typed, NEW r \in Inline,
         RunnerStep(r) \/ ScanStep(r) \/ ScanProgress(r) \/ RunThrows(r) \/ ListThrows(r)
  PROVE  W' = W /\ Memo' = Memo
<1>1. /\ Worker \in Actors /\ r \in Runners /\ r \in Actors /\ r # Worker /\ Host(r) = "api"
      /\ act \in [Actors -> Locals] /\ mem \in [Hosts -> Memory]
      /\ "api" \in Hosts /\ "worker" \in Hosts
  BY BackfillConstants, HostsAre DEF Actors, Runners, Typed, ActTyped, MemTyped, Host
<1>2. MemAfter("api", "pause")["worker"] = Memo /\ MemAfter("api", "cancel")["worker"] = Memo
  BY <1>1 DEF MemAfter, Memo
<1>3. MemAfter("api", "cancel") \in [Hosts -> Memory]
  BY <1>1, MemAfterTyped DEF MemTyped
<1> USE <1>1, <1>2, <1>3 DEF W, Memo, Go, Quit, Persist, Saved, Cleared, AskCancel, FinishCancel,
                            FinishPause
<1>4. CASE ReadRow(r)
  BY <1>4 DEF ReadRow
<1>5. CASE ClearOldPause(r)
  BY <1>5 DEF ClearOldPause
<1>6. CASE ClearOldCancel(r)
  BY <1>6 DEF ClearOldCancel
<1>7. CASE ListPages(r)
  BY <1>7 DEF ListPages
<1>8. CASE Top(r)
  BY <1>8 DEF Top
<1>9. CASE Bottom(r)
  BY <1>9 DEF Bottom
<1>10. CASE NextPage(r)
  BY <1>10 DEF NextPage
<1>11. CASE PersistCheck(r)
  BY <1>11 DEF PersistCheck
<1>12. CASE PersistWrite(r)
  BY <1>12 DEF PersistWrite
<1>13. CASE After(r)
  BY <1>13 DEF After
<1>14. CASE Finally(r)
  BY <1>14 DEF Finally
<1>15. CASE PauseBottom(r)
  BY <1>15 DEF PauseBottom
<1>16. CASE PauseCleared(r)
  BY <1>16 DEF PauseCleared
<1>17. CASE CancelCleared(r)
  BY <1>17 DEF CancelCleared
<1>18. CASE Complete(r)
  BY <1>18 DEF Complete
<1>19. CASE Catch(r)
  BY <1>19 DEF Catch
<1>20. CASE ScanStops(r)
  BY <1>20 DEF Kinds, ScanStops
<1>21. CASE ScanEnds(r)
  BY <1>21 DEF ScanEnds
<1>22. CASE ScanFails(r)
  BY <1>22 DEF ScanFails
<1>23. CASE ScanProgress(r)
  BY <1>23 DEF ScanProgress
<1>24. CASE RunThrows(r)
  BY <1>24 DEF RunThrows
<1>25. CASE ListThrows(r)
  BY <1>25 DEF ListThrows
<1> QED BY <1>4, <1>5, <1>6, <1>7, <1>8, <1>9, <1>10, <1>11, <1>12, <1>13, <1>14, <1>15, <1>16,
           <1>17, <1>18, <1>19, <1>20, <1>21, <1>22, <1>23, <1>24, <1>25 DEF RunnerStep, ScanStep

\* The worker's own steps.
LEMMA WorkerFree ==
  ASSUME Typed, FreeInv, NoRunError,
         \/ RunnerStep(Worker) \/ ScanStep(Worker) \/ ScanProgress(Worker)
         \/ RunThrows(Worker) \/ ListThrows(Worker)
  PROVE  FreeInv'
<1>1. /\ Worker \in Runners /\ Worker \in Actors /\ Host(Worker) = "worker"
      /\ ActTyped /\ MemTyped /\ W \in Locals /\ Memo \in Memory /\ "worker" \in Hosts
      /\ act \in [Actors -> Locals] /\ mem \in [Hosts -> Memory]
  BY HostsAre DEF Runners, Host, Typed, ActTyped, MemTyped, W, Memo
<1>2. MemAfter("worker", "cancel") \in [Hosts -> Memory]
      /\ MemAfter("worker", "cancel")["worker"].running = Memo.running
      /\ MemAfter("worker", "pause")["worker"].running = Memo.running
  BY <1>1, MemAfterTyped, AskedRunning DEF Memo
<1> DEFINE Off == ~ Memo'.running
           Kept == Memo'.running = Memo.running
\* Where a step may lead.
<1>3. ASSUME NEW x, Go(Worker, x) PROVE W'.pc = x
  BY <1>1, <1>3, GoMoves DEF W
<1>4. ASSUME Quit(Worker) PROVE W'.pc = "idle"
  BY <1>1, <1>4, QuitMoves DEF W
<1>5. ASSUME NEW s, NEW P, NEW c, Persist(Worker, s, P, c)
      PROVE  W'.pc = c \/ (W'.pc \in {"check", "write"} /\ W'.next = c)
  BY <1>1, <1>5, PersistMoves DEF W
<1>6. ASSUME Saved(Worker) PROVE W'.pc = W.next
  BY <1>1, <1>6, SavedMoves DEF W
<1>7. ASSUME NEW mid, Cleared(Worker, mid)
      PROVE  W'.pc = "idle" \/ (W'.pc = "check" /\ W'.next = "idle")
  BY <1>1, <1>7, ClearedMoves DEF W
\* With the state off every label but that of the catch block will do.
<1>8. Off /\ W'.pc # "catch" => FreeInv'
  BY DEF FreeInv
<1>9. CASE ReadRow(Worker)
  <2>1. CASE Quit(Worker) /\ UNCHANGED mem
    BY <1>9, <1>4, <1>8, <2>1 DEF ReadRow, At, FreeInv, RunOver, W, Memo
  <2>2. CASE ~ (Quit(Worker) /\ UNCHANGED mem)
    <3>1. ~ Memo.running /\ act' = [act EXCEPT ![Worker] = [@ EXCEPT
                                      !.todo = Pages \ row[W.cur].saved, !.pc = "clearPause"]]
      BY <1>1, <1>9, <2>2 DEF ReadRow, W, Memo
    <3> DEFINE k == [Memo EXCEPT !.job = W.cur, !.done = row[W.cur].saved, !.pause = FALSE]
    <3>2. mem' = [mem EXCEPT !["worker"] = k] /\ k.running = Memo.running
      BY <1>1, <1>9, <2>2 DEF ReadRow, W, Memo, Memory
    <3>3. Off
      BY <1>1, <3>1, <3>2 DEF Memo
    <3>4. W'.pc = "clearPause"
      BY <1>1, <3>1 DEF W, Locals
    <3> QED BY <1>8, <3>3, <3>4
  <2> QED BY <2>1, <2>2
<1>10. CASE ClearOldPause(Worker)
  BY <1>1, <1>10, <1>3, <1>8 DEF ClearOldPause, At, FreeInv, RunOver, W, Memo
<1>11. CASE ClearOldCancel(Worker)
  BY <1>11, <1>3 DEF ClearOldCancel, FreeInv, RunOver, Closing, Saving
<1>12. CASE ListPages(Worker)
  BY <1>12, <1>3 DEF ListPages, FreeInv, RunOver, Closing, Saving
<1>13. CASE Top(Worker)
  <2>1. CASE FinishCancel(Worker, "cancelClear")
    <3>1. Off
      BY <1>1, <1>2, <2>1 DEF FinishCancel, Memo, Memory
    <3>2. W'.pc # "catch"
      BY <1>5, <2>1 DEF FinishCancel
    <3> QED BY <1>8, <3>1, <3>2
  <2>2. CASE Go(Worker, "pauseTop")
    BY <1>3, <2>2 DEF FreeInv, RunOver, Closing, Saving
  <2> QED BY <1>13, <2>1, <2>2 DEF Top, AskCancel
<1>14. CASE Bottom(Worker)
  <2>1. CASE FinishCancel(Worker, "cancelClear")
    <3>1. Off
      BY <1>1, <1>2, <2>1 DEF FinishCancel, Memo, Memory
    <3>2. W'.pc # "catch"
      BY <1>5, <2>1 DEF FinishCancel
    <3> QED BY <1>8, <3>1, <3>2
  <2>2. CASE Go(Worker, "pauseBottom")
    BY <1>3, <2>2 DEF FreeInv, RunOver, Closing, Saving
  <2> QED BY <1>14, <2>1, <2>2 DEF Bottom, AskCancel
<1>15. CASE NextPage(Worker)
  <2>1. CASE FinishPause(Worker, "pauseClear")
    <3>1. Off
      BY <1>1, <2>1 DEF FinishPause, Memo, Memory
    <3>2. W'.pc # "catch"
      BY <1>5, <2>1 DEF FinishPause
    <3> QED BY <1>8, <3>1, <3>2
  <2>2. ASSUME NEW p, act' = [act EXCEPT ![Worker] = [@ EXCEPT !.page = p, !.pc = "scan"]]
        PROVE  FreeInv'
    <3>1. W'.pc = "scan"
      BY <1>1, <2>2 DEF W, Locals
    <3> QED BY <3>1 DEF FreeInv, RunOver, Closing, Saving
  <2>3. ASSUME NEW p, act' = [act EXCEPT ![Worker] = [@ EXCEPT !.page = p, !.pc = "check",
                                !.tgt = Memo.job, !.want = "running", !.list = Memo.done,
                                !.next = "scan"]]
        PROVE  FreeInv'
    <3> DEFINE d == [W EXCEPT !.page = p, !.pc = "check", !.tgt = Memo.job, !.want = "running",
                              !.list = Memo.done, !.next = "scan"]
    <3>1. act' = [act EXCEPT ![Worker] = d] /\ d.pc = "check" /\ d.next = "scan"
      BY <1>1, <2>3 DEF W, Locals
    <3>2. W'.pc = "check" /\ W'.next = "scan"
      <4> HIDE DEF d
      <4> QED BY <1>1, <3>1 DEF W
    <3> QED BY <3>2 DEF FreeInv, RunOver, Closing, Saving
  <2> QED BY <1>1, <1>15, <2>1, <2>2, <2>3 DEF NextPage, W, Memo
<1>16. CASE PersistCheck(Worker)
  <2>1. Kept
    BY <1>1, <1>2, <1>16 DEF PersistCheck, Memo
  <2>2. CASE Saved(Worker)
    <3>1. W.next # "catch" /\ (W.next \in {"idle"} \cup Closing \/ W'.pc \in {"scan", "bottom"})
      BY <1>1, <1>6, <2>2, LocalsRead DEF Continuations, Closing
    <3> QED BY <1>16, <1>6, <2>1, <2>2, <3>1 DEF PersistCheck, At, FreeInv, RunOver, Closing,
               Saving, W
  <2>3. CASE act' = [act EXCEPT ![Worker] = [@ EXCEPT !.tgt = Memo.job, !.pc = "write"]]
    <3>1. W'.pc = "write" /\ W'.next = W.next
      BY <1>1, <2>3 DEF W, Locals
    <3> QED BY <1>16, <2>1, <3>1 DEF PersistCheck, At, FreeInv, RunOver, Closing, Saving, W
  <2> QED BY <1>1, <1>16, <2>2, <2>3 DEF PersistCheck, Memo
<1>17. CASE PersistWrite(Worker)
  <2>1. W.next # "catch" /\ (W.next \in {"idle"} \cup Closing \/ W.next \in {"scan", "bottom"})
    BY <1>1, LocalsRead DEF Continuations, Closing
  <2>2. W'.pc = W.next /\ Kept
    BY <1>6, <1>17 DEF PersistWrite, Memo
  <2> QED BY <1>17, <2>1, <2>2 DEF PersistWrite, At, FreeInv, RunOver, Closing, Saving, W
<1>18. CASE After(Worker)
  <2>1. CASE FinishCancel(Worker, "cancelClearMid")
    <3>1. Off
      BY <1>1, <1>2, <2>1 DEF FinishCancel, Memo, Memory
    <3>2. W'.pc # "catch"
      BY <1>5, <2>1 DEF FinishCancel
    <3> QED BY <1>8, <3>1, <3>2
  <2>2. CASE FinishPause(Worker, "pauseClearMid")
    <3>1. Off
      BY <1>1, <2>2 DEF FinishPause, Memo, Memory
    <3>2. W'.pc # "catch"
      BY <1>5, <2>2 DEF FinishPause
    <3> QED BY <1>8, <3>1, <3>2
  <2>3. CASE Go(Worker, "finally")
    BY <1>3, <2>3 DEF FreeInv, RunOver, Closing, Saving
  <2> QED BY <1>18, <2>1, <2>2, <2>3 DEF After
<1>19. CASE Finally(Worker)
  <2>1. W'.pc = "bottom" \/ (W'.pc \in {"check", "write"} /\ W'.next = "bottom")
    BY <1>5, <1>19 DEF Finally
  <2> QED BY <2>1 DEF FreeInv, RunOver, Closing, Saving
<1>20. CASE PauseBottom(Worker)
  <2>1. CASE FinishPause(Worker, "pauseClear")
    <3>1. Off
      BY <1>1, <2>1 DEF FinishPause, Memo, Memory
    <3>2. W'.pc # "catch"
      BY <1>5, <2>1 DEF FinishPause
    <3> QED BY <1>8, <3>1, <3>2
  <2>2. CASE act' = [act EXCEPT ![Worker] = [@ EXCEPT !.todo = W.todo \ {W.page},
                                                       !.page = NoPage, !.pc = "top"]]
    BY <1>1, <2>2 DEF W, Locals, FreeInv, RunOver, Closing, Saving
  <2> QED BY <1>1, <1>20, <2>1, <2>2 DEF PauseBottom, W
<1>21. CASE PauseCleared(Worker)
  <2>1. W.pc \in Closing /\ Kept
    BY <1>1, <1>21 DEF PauseCleared, At, Closing, W, Memo, Memory
  <2>2. W'.pc # "catch"
    BY <1>7, <1>21 DEF PauseCleared
  <2> QED BY <1>8, <2>1, <2>2 DEF FreeInv, RunOver
<1>22. CASE CancelCleared(Worker)
  <2>1. W.pc \in Closing /\ Kept
    BY <1>1, <1>22 DEF CancelCleared, At, Closing, W, Memo, Memory
  <2>2. W'.pc # "catch"
    BY <1>7, <1>22 DEF CancelCleared
  <2> QED BY <1>8, <2>1, <2>2 DEF FreeInv, RunOver
<1>23. CASE Complete(Worker)
  <2>1. Off
    BY <1>1, <1>23 DEF Complete, Memo, Memory
  <2>2. W'.pc # "catch"
    BY <1>4, <1>5, <1>23 DEF Complete
  <2> QED BY <1>8, <2>1, <2>2
<1>24. CASE Catch(Worker)
  BY <1>24 DEF Catch, At, FreeInv, W
<1>25. CASE ScanStops(Worker)
  BY <1>25, <1>3 DEF ScanStops, FreeInv, RunOver, Closing, Saving
<1>26. CASE ScanEnds(Worker)
  BY <1>26, <1>3 DEF ScanEnds, FreeInv, RunOver, Closing, Saving
<1>27. CASE ScanFails(Worker)
  BY <1>27, <1>3 DEF ScanFails, FreeInv, RunOver, Closing, Saving
<1>28. CASE ScanProgress(Worker)
  <2>1. W'.pc = "scan" \/ (W'.pc \in {"check", "write"} /\ W'.next = "scan")
    BY <1>5, <1>28 DEF ScanProgress
  <2> QED BY <2>1 DEF FreeInv, RunOver, Closing, Saving
<1>29. CASE RunThrows(Worker)
  BY <1>29 DEF RunThrows, NoRunError
<1>30. CASE ListThrows(Worker)
  BY <1>30 DEF ListThrows, NoRunError
<1> QED BY <1>9, <1>10, <1>11, <1>12, <1>13, <1>14, <1>15, <1>16, <1>17, <1>18, <1>19, <1>20,
           <1>21, <1>22, <1>23, <1>24, <1>25, <1>26, <1>27, <1>28, <1>29, <1>30 DEF RunnerStep,
           ScanStep

LEMMA FreeInit == Init => FreeInv
BY HostsAre, BlankTyped DEF Init, FreeInv, W, Memo, Fresh, Actors, Runners

\* One case for each kind of actor.
LEMMA FreeStep ==
  ASSUME Typed, FreeInv, NoRunError, [Next]_vars
  PROVE  FreeInv'
<1>1. W' = W /\ Memo' = Memo => FreeInv'
  BY DEF FreeInv, RunOver, Saving
<1>2. /\ Worker \in Actors /\ "worker" \in Hosts /\ act \in [Actors -> Locals]
      /\ mem \in [Hosts -> Memory] /\ MemTyped
  BY HostsAre DEF Actors, Runners, Typed, ActTyped, MemTyped
<1>3. ASSUME NEW u \in Users, Request(u) \/ SessionStep(u) \/ PushRefused(u) PROVE FreeInv'
  BY <1>1, <1>3, SessionsAway
<1>4. ASSUME NEW r \in Runners,
             RunnerStep(r) \/ ScanStep(r) \/ ScanProgress(r) \/ RunThrows(r) \/ ListThrows(r)
      PROVE  FreeInv'
  <2>1. CASE r \in Inline
    BY <1>1, <1>4, <2>1, InlineAway
  <2>2. CASE r = Worker
    BY <1>4, <2>2, WorkerFree
  <2> QED BY <2>1, <2>2 DEF Runners
<1>5. CASE Pop
  <2>1. W'.pc = "read" /\ Memo' = Memo /\ W.pc = "idle"
    BY <1>2, <1>5 DEF Pop, At, W, Memo, Blank
  <2> QED BY <2>1 DEF FreeInv, RunOver
<1>6. CASE Poll
  <2>1. Memo'.running = Memo.running /\ W' = W
    BY <1>2, <1>6, HostsAre, AskedRunning DEF Poll, W, Memo
  <2> QED BY <2>1 DEF FreeInv, RunOver, Saving
<1>7. CASE CacheExpires \/ BootPurge \/ UNCHANGED vars
  BY <1>1, <1>7 DEF CacheExpires, BootPurge, vars, W, Memo
<1>8. ASSUME NEW h \in Hosts, Restart(h) PROVE FreeInv'
  <2>1. CASE h = "worker"
    <3>1. W' = Blank /\ ~ Memo'.running
      BY <1>2, <1>8, <2>1 DEF Restart, W, Memo, Host, Fresh
    <3> QED BY <3>1, BlankTyped DEF FreeInv
  <2>2. CASE h # "worker"
    BY <1>1, <1>2, <1>8, <2>2 DEF Restart, W, Memo, Host
  <2> QED BY <2>1, <2>2
<1> QED BY <1>3, <1>4, <1>5, <1>6, <1>7, <1>8 DEF Next

\* The invariant of the runs that do not throw.
LEMMA AlwaysFree == ASSUME NoRunError PROVE Spec => [](Typed /\ FreeInv)
BY TypedInit, TypedStep, FreeInit, FreeStep, PTL DEF Spec

\* A worker that is free, or has just taken a job from the list, does not think
\* it has a run (backfillState.running): neither a cancel in the middle of a
\* page, nor a pause, nor a restart leaves it set, so the job is not skipped
\* (executeBackfillJob, finishBackfillPause, finishBackfillCancel).
THEOREM WorkerIsFree == ASSUME NoRunError PROVE Spec => []FreeWhenIdle
<1>1. FreeInv => FreeWhenIdle
  BY DEF FreeInv, RunOver, FreeWhenIdle, W, Memo
<1> QED BY <1>1, AlwaysFree, PTL

=============================================================================
