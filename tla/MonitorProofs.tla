--------------------------- MODULE MonitorProofs ----------------------------
(***************************************************************************)
(* What a monitor tells is what it saved, for any number of monitors side  *)
(* by side, of pages and of conversations on them, whichever request of    *)
(* Graph fails and whichever process starts meanwhile.                     *)
(*                                                                         *)
(* The sums are raised page by page before the rows are saved, so the      *)
(* invariant compares them with the rows of the pages that were counted,   *)
(* saved or not; in the end these are all pages.                           *)
(***************************************************************************)
EXTENDS MonitorJob, FiniteSetTheorems, SequenceTheorems, TLAPS

IsList(cs) == \E S : cs \in Seq(S)

\* The rows can be saved; runMonitorJob refuses to run without a page; what Graph lists is a list.
RowsSaved == "save" \notin MonitorFaults
MonitorConstants ==
  /\ IsFiniteSet(MonitoredPages) /\ MonitoredPages # {}
  /\ MaxFetch \in Nat /\ RowsSaved
  /\ \A box \in Inboxes, p \in MonitoredPages :
       /\ IsList(box[p]["messenger"])
       /\ IsList(box[p][PlatformOf[p]])

Stages == {"todo", "list", "plain", "count", "save", "tell", "done"}
Sums == [{"total", "noReply", "errors", "pages"} -> Nat]
IsRun(d) == d = [f \in {"at", "sums", "shown", "plain", "page", "convs"} |-> d[f]]

\* A monitor's record, field by field.
RunTyped(d) ==
  /\ IsRun(d)
  /\ d.sums \in Sums /\ d.shown \in Nat
  /\ d.page \in [MonitoredPages -> Stages]
  /\ d.convs = [p \in MonitoredPages |-> d.convs[p]]
  /\ \A p \in MonitoredPages : /\ IsList(d.convs[p])
                               /\ d.page[p] \in {"todo", "list", "plain"} => d.convs[p] = <<>>

\* The rows of a page, and of several.
Row(m, p, cs, i) == [job |-> m, page |-> p, at |-> i, platform |-> cs[i].platform,
                     needsReply |-> i \in Waiting(cs)]
PageRows(m, p, cs) == {Row(m, p, cs, i) : i \in DOMAIN cs}
AllRows(m, d, P) == UNION {PageRows(m, p, d.convs[p]) : p \in P}
Unanswered(X) == {x \in X : x.needsReply}

Counted(d) == {p \in MonitoredPages : d.page[p] \in {"save", "tell", "done"}}
Stored(d) == {p \in MonitoredPages : d.page[p] \in {"tell", "done"}}
Done(d) == {p \in MonitoredPages : d.page[p] = "done"}

\* The sums are those of the pages that were counted.
SumsTrue(m, d) ==
  /\ IsFiniteSet(AllRows(m, d, Counted(d)))
  /\ d.sums.total = Cardinality(AllRows(m, d, Counted(d))) /\ d.shown = d.sums.total
  /\ d.sums.noReply = Cardinality(Unanswered(AllRows(m, d, Counted(d))))
  /\ d.sums.pages = Cardinality(Done(d))
Through(d) == Done(d) = MonitoredPages /\ (d.shown > 0 \/ d.sums.errors = 0)

MonitorInv ==
  /\ inbox \in Inboxes
  /\ job = [m \in Monitors |-> job[m]]
  /\ \A m \in Monitors : job[m] = [status |-> job[m].status, told |-> job[m].told]
  /\ run = [m \in Monitors |-> run[m]]
  /\ \A m \in Monitors : /\ RunTyped(run[m]) /\ SumsTrue(m, run[m])
                         /\ RowsOf(m) = AllRows(m, run[m], Stored(run[m]))
                         /\ run[m].at = "finish" => Through(run[m])
                         /\ job[m].status = "done" => /\ run[m].at = "over" /\ Through(run[m])
                                                      /\ job[m].told = run[m].sums

-----------------------------------------------------------------------------
\* The rows of a page are as many as its conversations, those that wait as
\* many as wait (buildMonitorItem).
LEMMA RowsCount ==
  ASSUME NEW m, NEW p, NEW cs, IsList(cs)
  PROVE  /\ IsFiniteSet(PageRows(m, p, cs)) /\ Cardinality(PageRows(m, p, cs)) = Len(cs)
         /\ Cardinality(Unanswered(PageRows(m, p, cs))) = Cardinality(Waiting(cs))
         /\ Len(cs) \in Nat /\ Cardinality(Waiting(cs)) \in Nat
         /\ cs = <<>> => Len(cs) = 0 /\ PageRows(m, p, cs) = {}
<1>1. PICK S : cs \in Seq(S)
  BY DEF IsList
<1>2. DOMAIN cs = 1..Len(cs) /\ Len(cs) \in Nat
  BY <1>1, LenProperties
<1>3. IsFiniteSet(DOMAIN cs) /\ Cardinality(DOMAIN cs) = Len(cs)
  <2>1. \A n \in Nat : IsFiniteSet(1..n) /\ Cardinality(1..n) = n
    BY FS_Interval
  <2> QED BY <1>2, <2>1
<1>4. Waiting(cs) \in SUBSET DOMAIN cs
  BY DEF Waiting
<1>5. IsFiniteSet(Waiting(cs)) /\ Cardinality(Waiting(cs)) \in Nat
  BY <1>3, <1>4, FS_Subset, FS_CardinalityType
<1>6. \A i \in DOMAIN cs : /\ Row(m, p, cs, i).at = i
                           /\ Row(m, p, cs, i).needsReply <=> i \in Waiting(cs)
  BY DEF Row
<1> DEFINE f == [i \in DOMAIN cs |-> Row(m, p, cs, i)]
           w == [i \in Waiting(cs) |-> Row(m, p, cs, i)]
<1>7. ExistsBijection(DOMAIN cs, PageRows(m, p, cs))
  <2>1. f \in [DOMAIN cs -> PageRows(m, p, cs)]
    BY DEF PageRows
  <2>2. \A i, j \in DOMAIN cs : f[i] = f[j] => i = j
    BY <1>6
  <2>3. \A x \in PageRows(m, p, cs) : \E i \in DOMAIN cs : f[i] = x
    BY DEF PageRows
  <2> HIDE DEF f
  <2> QED BY <2>1, <2>2, <2>3 DEF ExistsBijection, Bijection, Injection, Surjection, IsInjective
<1>8. ExistsBijection(Waiting(cs), Unanswered(PageRows(m, p, cs)))
  <2>1. w \in [Waiting(cs) -> Unanswered(PageRows(m, p, cs))]
    BY <1>4, <1>6 DEF PageRows, Unanswered
  <2>2. \A i, j \in Waiting(cs) : w[i] = w[j] => i = j
    BY <1>4, <1>6
  <2>3. \A x \in Unanswered(PageRows(m, p, cs)) : \E i \in Waiting(cs) : w[i] = x
    BY <1>6 DEF PageRows, Unanswered
  <2> HIDE DEF w
  <2> QED BY <2>1, <2>2, <2>3 DEF ExistsBijection, Bijection, Injection, Surjection, IsInjective
<1>9. /\ IsFiniteSet(PageRows(m, p, cs)) /\ Cardinality(PageRows(m, p, cs)) = Len(cs)
      /\ Cardinality(Unanswered(PageRows(m, p, cs))) = Cardinality(Waiting(cs))
  BY <1>3, <1>5, <1>7, <1>8, FS_Bijection
<1>10. cs = <<>> => Len(cs) = 0 /\ PageRows(m, p, cs) = {}
  BY <1>2 DEF PageRows
<1> QED BY <1>2, <1>5, <1>9, <1>10

\* Rows of one more page.
LEMMA OneMore ==
  ASSUME NEW m, NEW d, NEW P, NEW p, p \notin P, IsList(d.convs[p]),
         IsFiniteSet(AllRows(m, d, P))
  PROVE  /\ IsFiniteSet(AllRows(m, d, P \cup {p}))
         /\ Cardinality(AllRows(m, d, P \cup {p}))
              = Cardinality(AllRows(m, d, P)) + Len(d.convs[p])
         /\ Cardinality(Unanswered(AllRows(m, d, P \cup {p})))
              = Cardinality(Unanswered(AllRows(m, d, P))) + Cardinality(Waiting(d.convs[p]))
<1> DEFINE cs == d.convs[p]  X == AllRows(m, d, P)  Y == AllRows(m, d, P \cup {p})
           Z == PageRows(m, p, cs)
<1>1. Y = X \cup Z
  BY DEF AllRows
<1>2. X \cap Z = {}
  BY DEF AllRows, PageRows, Row
<1>3. /\ IsFiniteSet(Z) /\ Cardinality(Z) = Len(cs)
      /\ Cardinality(Unanswered(Z)) = Cardinality(Waiting(cs))
      /\ Len(cs) \in Nat /\ Cardinality(Waiting(cs)) \in Nat
  BY RowsCount
<1>4. /\ Unanswered(Y) = Unanswered(X) \cup Unanswered(Z)
      /\ Unanswered(X) \cap Unanswered(Z) = {}
      /\ Unanswered(X) \in SUBSET X /\ Unanswered(Z) \in SUBSET Z
  BY <1>1, <1>2 DEF Unanswered
<1>5. IsFiniteSet(Unanswered(X)) /\ IsFiniteSet(Unanswered(Z))
  BY <1>3, <1>4, FS_Subset
<1>6. /\ IsFiniteSet(X \cup Z)
      /\ Cardinality(X \cup Z) = Cardinality(X) + Cardinality(Z) - Cardinality(X \cap Z)
      /\ Cardinality(Unanswered(X) \cup Unanswered(Z))
           = Cardinality(Unanswered(X)) + Cardinality(Unanswered(Z))
             - Cardinality(Unanswered(X) \cap Unanswered(Z))
  BY <1>3, <1>5, FS_Union
<1>7. Cardinality(X) \in Nat /\ Cardinality(Unanswered(X)) \in Nat /\ Cardinality({}) = 0
  BY <1>5, FS_CardinalityType, FS_EmptySet
<1> HIDE DEF X, Y, Z, cs
<1>8. IsFiniteSet(Y) /\ Cardinality(Y) = Cardinality(X) + Len(cs)
  <2>1. /\ Cardinality(Y) = Cardinality(X) + Cardinality(Z) - Cardinality({})
        /\ IsFiniteSet(Y)
    BY <1>1, <1>2, <1>6
  <2> QED BY <1>3, <1>7, <2>1
<1>9. Cardinality(Unanswered(Y)) = Cardinality(Unanswered(X)) + Cardinality(Waiting(cs))
  <2>1. Cardinality(Unanswered(Y))
          = Cardinality(Unanswered(X)) + Cardinality(Unanswered(Z)) - Cardinality({})
    BY <1>4, <1>6
  <2> QED BY <1>3, <1>7, <2>1
<1> QED BY <1>8, <1>9 DEF X, Y, cs

\* Where two records have counted the same pages with the same conversations,
\* their rows are the same.
LEMMA SameRows ==
  ASSUME NEW m, NEW d, NEW e, NEW P, \A p \in P : e.convs[p] = d.convs[p]
  PROVE  AllRows(m, e, P) = AllRows(m, d, P)
BY DEF AllRows

-----------------------------------------------------------------------------
\* What a step does to the record of the monitor that takes it, as a whole.

\* A page that is not counted moves on to a stage before the count, with
\* other conversations if it is listed.
Lists(d, e, p, x, cs) ==
  /\ p \in MonitoredPages /\ d.page[p] \in {"todo", "list", "plain"}
  /\ x \in {"list", "plain", "count"} /\ (x # "count" => cs = <<>>) /\ IsList(cs)
  /\ e.at = d.at /\ e.sums = d.sums /\ e.shown = d.shown
  /\ e.page = [d.page EXCEPT ![p] = x] /\ e.convs = [d.convs EXCEPT ![p] = cs]

LEMMA ListsKeep ==
  ASSUME NEW m, NEW d, RunTyped(d), SumsTrue(m, d), NEW e, NEW p, NEW x, NEW cs,
         Lists(d, e, p, x, cs),
         IsRun(e)
  PROVE  /\ RunTyped(e) /\ SumsTrue(m, e)
         /\ AllRows(m, e, Stored(e)) = AllRows(m, d, Stored(d))
<1> USE DEF Lists
<1>1. /\ \A q \in MonitoredPages : q # p => e.page[q] = d.page[q] /\ e.convs[q] = d.convs[q]
      /\ e.page[p] = x /\ e.convs[p] = cs /\ e.page \in [MonitoredPages -> Stages]
      /\ e.convs = [q \in MonitoredPages |-> e.convs[q]]
  BY DEF RunTyped, Stages
<1>2. RunTyped(e)
  BY <1>1 DEF RunTyped
<1>3. Counted(e) = Counted(d) /\ Stored(e) = Stored(d) /\ Done(e) = Done(d)
        /\ p \notin Counted(d) /\ p \notin Stored(d)
  BY <1>1 DEF Counted, Stored, Done
<1>4. /\ AllRows(m, e, Counted(d)) = AllRows(m, d, Counted(d))
      /\ AllRows(m, e, Stored(d)) = AllRows(m, d, Stored(d))
  BY <1>1, <1>3, SameRows DEF Counted, Stored
<1> QED BY <1>2, <1>3, <1>4 DEF SumsTrue

\* A counted page moves on.
Moves(d, e, p, x) ==
  /\ p \in MonitoredPages /\ d.page[p] \in {"save", "tell"} /\ x \in {"tell", "done"}
  /\ e.at = d.at /\ e.shown = d.shown /\ e.convs = d.convs
  /\ e.page = [d.page EXCEPT ![p] = x]

LEMMA MovesKeep ==
  ASSUME NEW m, NEW d, RunTyped(d), SumsTrue(m, d), NEW e, NEW p, NEW x, Moves(d, e, p, x),
         IsRun(e),
         IF x = "done" THEN e.sums = [d.sums EXCEPT !.pages = @ + 1] ELSE e.sums = d.sums,
         IsFiniteSet(MonitoredPages)
  PROVE  RunTyped(e) /\ SumsTrue(m, e)
<1> USE DEF Moves
<1>1. /\ \A q \in MonitoredPages : q # p => e.page[q] = d.page[q]
      /\ e.page[p] = x /\ e.page \in [MonitoredPages -> Stages]
  BY DEF RunTyped, Stages
<1>2. /\ e.sums \in Sums
      /\ e.sums.total = d.sums.total /\ e.sums.noReply = d.sums.noReply
      /\ e.sums.errors = d.sums.errors
      /\ e.sums.pages = IF x = "done" THEN d.sums.pages + 1 ELSE d.sums.pages
  BY DEF RunTyped, Sums
<1>3. RunTyped(e)
  BY <1>1, <1>2 DEF RunTyped
<1>4. Counted(e) = Counted(d)
  BY <1>1 DEF Counted
<1>5. AllRows(m, e, Counted(d)) = AllRows(m, d, Counted(d))
  BY SameRows
<1>6. e.sums.pages = Cardinality(Done(e))
  <2>1. IsFiniteSet(Done(d)) /\ p \notin Done(d)
    BY FS_Subset DEF Done
  <2>2. Done(e) = IF x = "done" THEN Done(d) \cup {p} ELSE Done(d)
    BY <1>1 DEF Done
  <2>3. Cardinality(Done(d) \cup {p}) = Cardinality(Done(d)) + 1
    BY <2>1, FS_AddElement
  <2> QED BY <1>2, <2>2, <2>3 DEF SumsTrue
<1> QED BY <1>2, <1>3, <1>4, <1>5, <1>6 DEF SumsTrue

\* A page is counted: its conversations, or none if it could not be listed.
Counts(d, e, p, x) ==
  /\ p \in MonitoredPages /\ d.page[p] \in {"plain", "count"} /\ x \in {"save", "tell"}
  /\ x = "tell" => d.convs[p] = <<>>
  /\ e.at = d.at /\ e.convs = d.convs /\ e.page = [d.page EXCEPT ![p] = x]
  /\ e.shown = d.shown + Len(d.convs[p])
  /\ e.sums.total = d.sums.total + Len(d.convs[p])
  /\ e.sums.noReply = d.sums.noReply + Cardinality(Waiting(d.convs[p]))
  /\ e.sums.pages = d.sums.pages

LEMMA CountsKeep ==
  ASSUME NEW m, NEW d, RunTyped(d), SumsTrue(m, d), NEW e, NEW p, NEW x, Counts(d, e, p, x),
         e.sums \in Sums,
         IsRun(e)
  PROVE  /\ RunTyped(e) /\ SumsTrue(m, e)
         /\ AllRows(m, e, Stored(e)) = AllRows(m, d, Stored(d))
<1> USE DEF Counts
<1>1. /\ \A q \in MonitoredPages : q # p => e.page[q] = d.page[q]
      /\ e.page[p] = x /\ e.page \in [MonitoredPages -> Stages]
  BY DEF RunTyped, Stages
<1>2. IsList(d.convs[p])
  BY DEF RunTyped
<1>3. Len(d.convs[p]) \in Nat /\ (x = "tell" => PageRows(m, p, d.convs[p]) = {})
  BY <1>2, RowsCount
<1>4. RunTyped(e)
  BY <1>1, <1>3 DEF RunTyped
<1>5. /\ Counted(e) = Counted(d) \cup {p} /\ p \notin Counted(d) /\ Done(e) = Done(d)
      /\ Stored(e) = IF x = "tell" THEN Stored(d) \cup {p} ELSE Stored(d)
  BY <1>1 DEF Counted, Stored, Done
<1>6. \A P : AllRows(m, e, P) = AllRows(m, d, P)
  BY SameRows
<1>7. AllRows(m, e, Stored(e)) = AllRows(m, d, Stored(d))
  BY <1>3, <1>5, <1>6 DEF AllRows
<1>8. ASSUME NEW Q, p \notin Q, IsFiniteSet(AllRows(m, d, Q))
      PROVE  /\ IsFiniteSet(AllRows(m, d, Q \cup {p}))
             /\ Cardinality(AllRows(m, d, Q \cup {p}))
                  = Cardinality(AllRows(m, d, Q)) + Len(d.convs[p])
             /\ Cardinality(Unanswered(AllRows(m, d, Q \cup {p})))
                  = Cardinality(Unanswered(AllRows(m, d, Q))) + Cardinality(Waiting(d.convs[p]))
  BY ONLY <1>2, <1>8, OneMore
<1>9. SumsTrue(m, e)
  BY <1>5, <1>6, <1>8 DEF SumsTrue
<1> QED BY <1>4, <1>7, <1>9

-----------------------------------------------------------------------------
\* The steps.  A monitor leaves the others' records and rows alone.
Frame(m) ==
  /\ \A n \in Monitors \ {m} : run'[n] = run[n] /\ job'[n] = job[n] /\ RowsOf(n)' = RowsOf(n)
  /\ run' = [n \in Monitors |-> run'[n]] /\ job' = [n \in Monitors |-> job'[n]]
  /\ job'[m] = [status |-> job'[m].status, told |-> job'[m].told]
  /\ inbox' = inbox

\* What the record of one monitor must satisfy.
One(m, d, j, rows) ==
  /\ RunTyped(d) /\ SumsTrue(m, d) /\ rows = AllRows(m, d, Stored(d))
  /\ d.at = "finish" => Through(d)
  /\ j.status = "done" => d.at = "over" /\ Through(d) /\ j.told = d.sums

LEMMA OneKeeps ==
  ASSUME MonitorInv, NEW m \in Monitors, Frame(m), One(m, run'[m], job'[m], RowsOf(m)')
  PROVE  MonitorInv'
BY DEF MonitorInv, Frame, One

\* The job m becomes y and tells z; the run of m gets to x.
Gets(m, y, z) == job' = [job EXCEPT ![m] = [status |-> y, told |-> z]]
Goes(m, x) == run' = [run EXCEPT ![m].at = x] /\ items' = items /\ inbox' = inbox
\* What the run has in hand becomes d, and the rows of X are saved.
Works(m, d, X) ==
  /\ run' = [run EXCEPT ![m] = d]
  /\ items' = items \cup X /\ (\A i \in X : i.job = m) /\ inbox' = inbox

\* The tables of the monitors.
LEMMA MonitorFrame ==
  ASSUME MonitorInv, NEW m \in Monitors, NEW d, NEW y, NEW z, NEW X, Works(m, d, X), Gets(m, y, z)
  PROVE  /\ Frame(m) /\ run'[m] = d /\ job'[m].status = y /\ job'[m].told = z
         /\ RowsOf(m)' = RowsOf(m) \cup X
<1> USE DEF Works, Gets
<1>1. run'[m] = d /\ \A n \in Monitors \ {m} : run'[n] = run[n]
  BY DEF MonitorInv
<1>2. run' = [n \in Monitors |-> run'[n]]
  BY DEF MonitorInv
<1>3. /\ job' = [n \in Monitors |-> job'[n]] /\ \A n \in Monitors \ {m} : job'[n] = job[n]
      /\ job'[m] = [status |-> job'[m].status, told |-> job'[m].told]
  BY DEF MonitorInv
<1>4. \A n \in Monitors \ {m} : RowsOf(n)' = RowsOf(n)
  BY DEF RowsOf
<1>5. job'[m].status = y /\ job'[m].told = z /\ RowsOf(m)' = RowsOf(m) \cup X
  BY DEF MonitorInv, RowsOf
<1> QED BY <1>1, <1>2, <1>3, <1>4, <1>5 DEF Frame

LEMMA JobSteps ==
  ASSUME MonitorInv, NEW m \in Monitors
  PROVE  /\ job' = job => Gets(m, job[m].status, job[m].told)
         /\ \A y : job' = [job EXCEPT ![m].status = y] => Gets(m, y, job[m].told)
         /\ \A z : job' = [job EXCEPT ![m].told = z] => Gets(m, job[m].status, z)
<1>1. job = [n \in Monitors |-> job[n]] /\ job[m] = [status |-> job[m].status, told |-> job[m].told]
  BY DEF MonitorInv
<1>2. \A y : /\ [job[m] EXCEPT !.status = y] = [status |-> y, told |-> job[m].told]
             /\ [job[m] EXCEPT !.told = y] = [status |-> job[m].status, told |-> y]
  BY <1>1
<1> QED BY <1>1, <1>2 DEF Gets

\* Only the place of the run changes.
LEMMA AtKeeps ==
  ASSUME NEW m, NEW d, RunTyped(d), NEW x
  PROVE  LET e == [d EXCEPT !.at = x] IN
         /\ e.at = x /\ e.sums = d.sums /\ e.shown = d.shown /\ e.page = d.page /\ e.convs = d.convs
         /\ RunTyped(e) /\ (SumsTrue(m, d) => SumsTrue(m, e))
         /\ AllRows(m, e, Stored(e)) = AllRows(m, d, Stored(d)) /\ (Through(d) => Through(e))
<1> DEFINE e == [d EXCEPT !.at = x]
<1>1. /\ e.at = x /\ e.sums = d.sums /\ e.shown = d.shown /\ e.page = d.page
      /\ e.convs = d.convs
      /\ IsRun(e)
  BY DEF RunTyped, IsRun
<1> HIDE DEF e
<1>2. RunTyped(e)
  BY <1>1 DEF RunTyped
<1>3. Counted(e) = Counted(d) /\ Stored(e) = Stored(d) /\ Done(e) = Done(d)
  BY <1>1 DEF Counted, Stored, Done
<1>4. \A P : AllRows(m, e, P) = AllRows(m, d, P)
  BY <1>1, SameRows
<1> QED BY <1>1, <1>2, <1>3, <1>4 DEF e, SumsTrue, Through

\* A request, the end of a run, and the boot of another process.
LEMMA RequestsKeep ==
  ASSUME MonitorInv, NEW m \in Monitors,
         \/ AskMonitor(m) \/ CreateMonitor(m) \/ EndMonitor(m) \/ FinishMonitor(m)
         \/ OtherBoots(m)
  PROVE  MonitorInv'
<1>1. One(m, run[m], job[m], RowsOf(m)) /\ RunTyped(run[m])
  BY DEF MonitorInv, One
<1>2. ASSUME NEW x, NEW y, NEW z, Goes(m, x), Gets(m, y, z),
             x = "finish" => Through(run[m]),
             y = "done" => x = "over" /\ Through(run[m]) /\ z = run[m].sums
      PROVE  MonitorInv'
  <2> DEFINE d == [run[m] EXCEPT !.at = x]
  <2>1. Works(m, d, {})
    BY <1>2 DEF Goes, Works
  <2> HIDE DEF d
  <2>2. /\ Frame(m) /\ run'[m] = d /\ job'[m].status = y /\ job'[m].told = z
        /\ RowsOf(m)' = RowsOf(m) \cup {}
    BY <1>2, <2>1, MonitorFrame
  <2>3. /\ d.at = x /\ d.sums = run[m].sums /\ RunTyped(d) /\ SumsTrue(m, d)
        /\ AllRows(m, d, Stored(d)) = AllRows(m, run[m], Stored(run[m]))
        /\ Through(run[m]) => Through(d)
    BY <1>1, AtKeeps DEF d, One
  <2>4. One(m, d, job'[m], RowsOf(m)')
    BY <1>1, <1>2, <2>2, <2>3 DEF One
  <2> QED BY <2>2, <2>4, OneKeeps
<1>3. CASE AskMonitor(m)
  <2>1. PICK x \in {"refused", "create"} : run' = [run EXCEPT ![m].at = x]
    BY <1>3 DEF AskMonitor
  <2>2. Goes(m, x) /\ Gets(m, job[m].status, job[m].told) /\ job[m].status # "done"
    BY <1>1, <1>3, <2>1, JobSteps DEF AskMonitor, One, Goes
  <2> QED BY <1>2, <2>1, <2>2
<1>4. CASE CreateMonitor(m)
  <2>1. Goes(m, "scanning") /\ Gets(m, "running", job[m].told)
    BY <1>4, JobSteps DEF CreateMonitor, Goes
  <2> QED BY <1>2, <2>1
<1>5. CASE EndMonitor(m)
  <2>1. PICK x : Goes(m, x) /\ (x = "finish" => ~ (run[m].shown = 0 /\ run[m].sums.errors > 0))
    <3>1. CASE job[m].status # "running"
      <4>1. Goes(m, "over")
        BY <1>5, <3>1 DEF EndMonitor, Goes
      <4> QED BY <4>1
    <3>2. CASE job[m].status = "running" /\ run[m].shown = 0 /\ run[m].sums.errors > 0
      <4>1. Goes(m, "fail")
        BY <1>5, <3>2 DEF EndMonitor, Goes
      <4> QED BY <4>1
    <3>3. CASE job[m].status = "running" /\ ~ (run[m].shown = 0 /\ run[m].sums.errors > 0)
      <4>1. Goes(m, "finish")
        BY <1>5, <3>3 DEF EndMonitor, Goes
      <4> QED BY <3>3, <4>1
    <3> QED BY <3>1, <3>2, <3>3
  <2>2. x = "finish" => Through(run[m])
    BY <1>1, <1>5, <2>1 DEF EndMonitor, Through, Done, RunTyped, Sums
  <2>3. Gets(m, job[m].status, job[m].told) /\ job[m].status # "done"
    BY <1>1, <1>5, JobSteps DEF EndMonitor, One
  <2> QED BY <1>2, <2>1, <2>2, <2>3
<1>6. CASE FinishMonitor(m)
  <2>1. CASE run[m].at = "fail"
    <3>1. Goes(m, "over") /\ Gets(m, "failed", job[m].told)
      <4>1. job' = [job EXCEPT ![m].status = "failed"]
        BY <1>6, <2>1 DEF FinishMonitor
      <4> QED BY <1>6, <4>1, JobSteps DEF FinishMonitor, Goes
    <3> QED BY <1>2, <3>1
  <2>2. CASE run[m].at = "finish"
    <3>1. Goes(m, "over") /\ Gets(m, "done", run[m].sums) /\ Through(run[m])
      BY <1>1, <1>6, <2>2 DEF FinishMonitor, Goes, Gets, One
    <3> QED BY <1>2, <3>1
  <2> QED BY <1>6, <2>1, <2>2 DEF FinishMonitor
<1>7. CASE OtherBoots(m)
  <2>1. Goes(m, run[m].at) /\ Gets(m, "failed", job[m].told)
    <3>1. run' = [run EXCEPT ![m].at = run[m].at]
      BY <1>7 DEF OtherBoots, MonitorInv, RunTyped, IsRun
    <3> QED BY <1>7, <3>1, JobSteps DEF OtherBoots, Goes
  <2> QED BY <1>1, <1>2, <2>1 DEF One
<1> QED BY <1>3, <1>4, <1>5, <1>6, <1>7

\* What Graph answers is a list.
LEMMA ListedIsList ==
  ASSUME MonitorConstants, NEW p \in MonitoredPages, inbox \in Inboxes,
         NEW platform \in {"messenger", PlatformOf[p]}
  PROVE  IsList(Listed(p, platform))
<1>1. PICK S : inbox[p][platform] \in Seq(S)
  BY DEF MonitorConstants, IsList
<1>2. PICK n \in Nat : n <= Len(inbox[p][platform]) /\ Listed(p, platform) = SubSeq(inbox[p][platform], 1, n)
  BY <1>1 DEF Listed, MonitorConstants
<1>3. SubSeq(inbox[p][platform], 1, n) \in Seq(S)
  BY <1>1, <1>2
<1> QED BY <1>2, <1>3 DEF IsList

\* A list of as many.
LEMMA AsLong ==
  ASSUME NEW cs, IsList(cs), NEW f, DOMAIN f = DOMAIN cs, f = [i \in DOMAIN cs |-> f[i]]
  PROVE  IsList(f)
<1>1. PICK S : cs \in Seq(S)
  BY DEF IsList
<1>2. DOMAIN cs = 1..Len(cs) /\ Len(cs) \in Nat
  BY <1>1, LenProperties
<1>3. f \in [1..Len(cs) -> {f[i] : i \in DOMAIN cs}]
  BY <1>2
<1>4. f \in Seq({f[i] : i \in DOMAIN cs})
  BY <1>2, <1>3, SeqDef
<1> QED BY <1>4 DEF IsList

\* The record of a run at work on a page.
HasInHand(e, d, page, convs, sums, shown) ==
  /\ IsRun(e) /\ e.at = d.at /\ e.page = page /\ e.convs = convs /\ e.sums = sums
  /\ e.shown = shown

LEMMA RunSteps ==
  ASSUME MonitorInv, NEW m \in Monitors
  PROVE  /\ RunTyped(run[m]) /\ SumsTrue(m, run[m])
         /\ RowsOf(m) = AllRows(m, run[m], Stored(run[m]))
BY DEF MonitorInv

LEMMA WorkKeeps ==
  ASSUME MonitorInv, NEW m \in Monitors, NEW e, NEW X, NEW z, Works(m, e, X),
         Gets(m, job[m].status, z), run[m].at = "scanning", e.at = "scanning",
         RunTyped(e), SumsTrue(m, e), RowsOf(m) \cup X = AllRows(m, e, Stored(e))
  PROVE  MonitorInv'
<1>1. job[m].status # "done"
  BY DEF MonitorInv
<1>2. /\ Frame(m) /\ run'[m] = e /\ job'[m].status = job[m].status
      /\ RowsOf(m)' = RowsOf(m) \cup X
  BY MonitorFrame
<1>3. One(m, run'[m], job'[m], RowsOf(m)')
  BY <1>1, <1>2 DEF One
<1> QED BY <1>2, <1>3, OneKeeps

\* A page is listed, or not.
LEMMA ListingKeeps ==
  ASSUME MonitorInv, NEW m \in Monitors, NEW p, NEW x, NEW cs, job' = job,
         run[m].at = "scanning",
         NEW e, HasInHand(e, run[m], [run[m].page EXCEPT ![p] = x],
                              [run[m].convs EXCEPT ![p] = cs], run[m].sums, run[m].shown),
         Works(m, e, {}), Lists(run[m], e, p, x, cs)
  PROVE  MonitorInv'
<1>1. RunTyped(run[m]) /\ SumsTrue(m, run[m]) /\ RowsOf(m) = AllRows(m, run[m], Stored(run[m]))
  BY RunSteps
<1>2. IsRun(e) /\ e.at = "scanning"
  BY DEF HasInHand, IsRun
<1>3. /\ RunTyped(e) /\ SumsTrue(m, e)
      /\ AllRows(m, e, Stored(e)) = AllRows(m, run[m], Stored(run[m]))
  BY ONLY <1>1, <1>2, Lists(run[m], e, p, x, cs), ListsKeep
<1>4. Gets(m, job[m].status, job[m].told) /\ RowsOf(m) \cup {} = AllRows(m, e, Stored(e))
  BY <1>1, <1>3, JobSteps
<1> QED BY <1>2, <1>3, <1>4, WorkKeeps

\* A page is counted.
LEMMA CountingKeeps ==
  ASSUME MonitorInv, NEW m \in Monitors, NEW p, NEW x, NEW sums \in Sums, NEW shown, job' = job,
         run[m].at = "scanning",
         NEW e, HasInHand(e, run[m], [run[m].page EXCEPT ![p] = x], run[m].convs, sums, shown),
         Works(m, e, {}), Counts(run[m], e, p, x)
  PROVE  MonitorInv'
<1>1. RunTyped(run[m]) /\ SumsTrue(m, run[m]) /\ RowsOf(m) = AllRows(m, run[m], Stored(run[m]))
  BY RunSteps
<1>2. IsRun(e) /\ e.at = "scanning" /\ e.sums \in Sums
  BY DEF HasInHand, IsRun
<1>3. /\ RunTyped(e) /\ SumsTrue(m, e)
      /\ AllRows(m, e, Stored(e)) = AllRows(m, run[m], Stored(run[m]))
  BY ONLY <1>1, <1>2, Counts(run[m], e, p, x), CountsKeep
<1>4. Gets(m, job[m].status, job[m].told) /\ RowsOf(m) \cup {} = AllRows(m, e, Stored(e))
  BY <1>1, <1>3, JobSteps
<1> QED BY <1>2, <1>3, <1>4, WorkKeeps

\* A counted page is saved, or told.
LEMMA MovingKeeps ==
  ASSUME MonitorInv, NEW m \in Monitors, NEW p, NEW x, NEW sums, NEW z, NEW X,
         run[m].at = "scanning", IsFiniteSet(MonitoredPages),
         NEW e, HasInHand(e, run[m], [run[m].page EXCEPT ![p] = x], run[m].convs, sums,
                              run[m].shown),
         Works(m, e, X), Moves(run[m], e, p, x), Gets(m, job[m].status, z),
         IF x = "done" THEN sums = [run[m].sums EXCEPT !.pages = @ + 1] ELSE sums = run[m].sums,
         X = IF run[m].page[p] = "save" THEN PageRows(m, p, run[m].convs[p]) ELSE {}
  PROVE  MonitorInv'
<1>1. RunTyped(run[m]) /\ SumsTrue(m, run[m]) /\ RowsOf(m) = AllRows(m, run[m], Stored(run[m]))
  BY RunSteps
<1>2. /\ IsRun(e)
      /\ e.at = "scanning" /\ e.sums = sums
  BY DEF HasInHand, IsRun
<1>3. RunTyped(e) /\ SumsTrue(m, e)
  <2>1. IF x = "done" THEN e.sums = [run[m].sums EXCEPT !.pages = @ + 1] ELSE e.sums = run[m].sums
    BY <1>2
  <2> QED BY ONLY <1>1, <1>2, <2>1, Moves(run[m], e, p, x), IsFiniteSet(MonitoredPages), MovesKeep
<1>4. RowsOf(m) \cup X = AllRows(m, e, Stored(e))
  <2>1. /\ \A q \in MonitoredPages : q # p => e.page[q] = run[m].page[q]
        /\ e.page[p] = x
    BY <1>1 DEF Moves, RunTyped
  <2>2. Stored(e) = IF run[m].page[p] = "save" THEN Stored(run[m]) \cup {p} ELSE Stored(run[m])
    BY <2>1 DEF Moves, Stored
  <2>3. \A P : AllRows(m, e, P) = AllRows(m, run[m], P)
    <3>1. e.convs = run[m].convs
      BY DEF Moves
    <3> QED BY <3>1, SameRows
  <2>4. AllRows(m, run[m], Stored(run[m]) \cup {p})
          = AllRows(m, run[m], Stored(run[m])) \cup PageRows(m, p, run[m].convs[p])
    BY DEF AllRows
  <2> QED BY <1>1, <2>2, <2>3, <2>4
<1> QED BY <1>2, <1>3, <1>4, WorkKeeps

\* The steps of a page.
LEMMA PagesKeep ==
  ASSUME MonitorConstants, MonitorInv, NEW m \in Monitors, NEW p \in MonitoredPages,
         \/ TakePage(m, p) \/ ListMonitored(m, p) \/ ListFails(m, p) \/ PlainList(m, p)
         \/ PlainListFails(m, p) \/ CountPage(m, p) \/ SaveRows(m, p) \/ SaveFails(m, p)
         \/ TellPage(m, p)
  PROVE  MonitorInv'
<1> DEFINE d == run[m]
<1>1. /\ d.at = "scanning" /\ inbox' = inbox /\ inbox \in Inboxes
      /\ RunTyped(d) /\ IsRun(d)
      /\ IsList(<<>>) /\ IsList(d.convs[p])
      /\ d.page[p] \in {"todo", "list", "plain"} =>
           d.convs[p] = <<>> /\ d.convs = [d.convs EXCEPT ![p] = <<>>]
  <2>1. d.at = "scanning" /\ inbox' = inbox
    BY DEF TakePage, ListMonitored, ListFails, PlainList, PlainListFails, CountPage,
           SaveRows, SaveFails, TellPage, At
  <2>2. IsList(<<>>)
    <3>1. <<>> \in Seq({})
      OBVIOUS
    <3> QED BY <3>1 DEF IsList
  <2>3. d.page[p] \in {"todo", "list", "plain"} =>
           d.convs[p] = <<>> /\ d.convs = [d.convs EXCEPT ![p] = <<>>]
    BY RunSteps DEF RunTyped
  <2> QED BY <2>1, <2>2, <2>3, RunSteps DEF MonitorInv, RunTyped
<1>2. ASSUME NEW x, NEW cs, d.page[p] \in {"todo", "list", "plain"},
             x \in {"list", "plain", "count"}, x # "count" => cs = <<>>, IsList(cs), job' = job,
             NEW e, HasInHand(e, d, [d.page EXCEPT ![p] = x], [d.convs EXCEPT ![p] = cs],
                                  d.sums, d.shown),
             Works(m, e, {})
      PROVE  MonitorInv'
  <2>1. Lists(d, e, p, x, cs)
    BY <1>2 DEF Lists, HasInHand
  <2> QED BY ONLY MonitorInv, m \in Monitors, <1>1, <1>2, <2>1, ListingKeeps
<1>3. CASE TakePage(m, p)
  <2> DEFINE e == [d EXCEPT !.page[p] = "list"]
  <2>1. d.page[p] = "todo"
    BY <1>3 DEF TakePage, At
  <2>2. HasInHand(e, d, [d.page EXCEPT ![p] = "list"], [d.convs EXCEPT ![p] = <<>>], d.sums,
                      d.shown)
    BY <1>1, <2>1 DEF HasInHand, IsRun
  <2>3. Works(m, e, {}) /\ job' = job
    BY <1>3 DEF TakePage, Works
  <2> HIDE DEF e
  <2> QED BY <1>1, <1>2, <2>1, <2>2, <2>3
<1>4. CASE ListMonitored(m, p)
  <2> DEFINE cs == Listed(p, PlatformOf[p])
             e == [d EXCEPT !.page[p] = "count", !.convs[p] = cs]
  <2>1. d.page[p] = "list" /\ IsList(cs)
    BY <1>1, <1>4, ListedIsList DEF ListMonitored, At
  <2> HIDE DEF cs
  <2>2. HasInHand(e, d, [d.page EXCEPT ![p] = "count"], [d.convs EXCEPT ![p] = cs], d.sums,
                      d.shown)
    BY <1>1, <2>1 DEF HasInHand, IsRun
  <2>3. Works(m, e, {}) /\ job' = job
    BY <1>4 DEF ListMonitored, Works, cs
  <2> HIDE DEF e
  <2> QED BY <1>1, <1>2, <2>1, <2>2, <2>3
<1>5. CASE ListFails(m, p)
  <2> DEFINE e == [d EXCEPT !.page[p] = "plain"]
  <2>1. d.page[p] = "list"
    BY <1>5 DEF ListFails, At
  <2>2. HasInHand(e, d, [d.page EXCEPT ![p] = "plain"], [d.convs EXCEPT ![p] = <<>>], d.sums,
                      d.shown)
    BY <1>1, <2>1 DEF HasInHand, IsRun
  <2>3. Works(m, e, {}) /\ job' = job
    BY <1>5 DEF ListFails, Works
  <2> HIDE DEF e
  <2> QED BY <1>1, <1>2, <2>1, <2>2, <2>3
<1>6. CASE PlainList(m, p)
  <2> DEFINE cs == Listed(p, "messenger")
             read(unread) == [i \in DOMAIN cs |-> IF i \in unread THEN [cs[i] EXCEPT !.msgs = <<>>]
                                                  ELSE LastMessage(cs[i])]
  <2>1. PICK unread : run' = [run EXCEPT ![m].page[p] = "count", ![m].plain = @ \union {p},
                                         ![m].convs[p] = read(unread)]
    BY <1>6 DEF PlainList
  <2>2. IsList(cs)
    BY <1>1, ListedIsList
  <2>3. /\ DOMAIN read(unread) = DOMAIN cs
        /\ read(unread) = [i \in DOMAIN cs |-> read(unread)[i]]
    OBVIOUS
  <2> DEFINE rs == read(unread)
  <2> HIDE DEF rs
  <2>4. d.page[p] = "plain" /\ IsList(rs)
    BY <1>6, <2>2, <2>3, AsLong DEF PlainList, At, rs
  <2> DEFINE e == [d EXCEPT !.page[p] = "count", !.plain = @ \union {p}, !.convs[p] = rs]
  <2>5. HasInHand(e, d, [d.page EXCEPT ![p] = "count"], [d.convs EXCEPT ![p] = rs],
                      d.sums, d.shown)
    BY <1>1 DEF HasInHand, IsRun
  <2>6. Works(m, e, {}) /\ job' = job
    <3>1. run' = [run EXCEPT ![m] = e]
      BY <2>1 DEF rs
    <3> HIDE DEF e
    <3> QED BY <1>6, <3>1 DEF PlainList, Works
  <2> HIDE DEF e
  <2> QED BY <1>1, <1>2, <2>4, <2>5, <2>6
<1>7. CASE PlainListFails(m, p)
  <2> DEFINE sums == [d.sums EXCEPT !.errors = @ + 1]
             e == [d EXCEPT !.page[p] = "tell", !.sums.errors = @ + 1]
  <2>1. d.page[p] = "plain" /\ d.convs[p] = <<>>
    BY <1>1, <1>7 DEF PlainListFails, At
  <2>2. /\ Len(d.convs[p]) = 0 /\ Cardinality(Waiting(d.convs[p])) = 0
        /\ sums \in Sums /\ sums.total = d.sums.total /\ sums.noReply = d.sums.noReply
        /\ sums.pages = d.sums.pages /\ d.shown + 0 = d.shown
        /\ d.sums.total + 0 = d.sums.total /\ d.sums.noReply + 0 = d.sums.noReply
    <3>1. Waiting(<<>>) = {} /\ Len(<<>>) = 0
      BY DEF Waiting
    <3>2. Len(d.convs[p]) = 0 /\ Cardinality(Waiting(d.convs[p])) = 0
      BY <2>1, <3>1, FS_EmptySet
    <3> QED BY <1>1, <3>2 DEF RunTyped, Sums
  <2>3. HasInHand(e, d, [d.page EXCEPT ![p] = "tell"], d.convs, sums, d.shown)
    BY <1>1 DEF HasInHand, IsRun
  <2>4. Works(m, e, {}) /\ job' = job
    BY <1>7 DEF PlainListFails, Works
  <2> HIDE DEF e, sums
  <2>5. Counts(d, e, p, "tell")
    BY <2>1, <2>2, <2>3 DEF Counts, HasInHand, IsRun
  <2> QED BY <1>1, <2>2, <2>3, <2>4, <2>5, CountingKeeps
<1>8. CASE CountPage(m, p)
  <2> DEFINE cs == d.convs[p]
             x == IF cs = <<>> THEN "tell" ELSE "save"
             n == Len(cs)
             w == Cardinality(Waiting(cs))
             sums == [d.sums EXCEPT !.total = @ + n, !.noReply = @ + w]
             e == [d EXCEPT !.page[p] = x, !.shown = @ + n,
                            !.sums.total = @ + n, !.sums.noReply = @ + w]
  <2>1. d.page[p] = "count" /\ (x = "tell" => cs = <<>>) /\ x \in {"save", "tell"}
    BY <1>8 DEF CountPage, At
  <2>2. n \in Nat /\ w \in Nat
    BY <1>1, RowsCount
  <2>3. Works(m, e, {}) /\ job' = job
    <3>1. run' = [run EXCEPT ![m].page[p] = x, ![m].shown = @ + n, ![m].sums.total = @ + n,
                             ![m].sums.noReply = @ + w]
      BY <1>8, Zenon DEF CountPage
    <3> HIDE DEF n, w, x
    <3>2. run' = [run EXCEPT ![m] = e]
      BY <3>1
    <3> HIDE DEF e
    <3> QED BY <1>8, <3>2 DEF CountPage, Works
  <2> HIDE DEF n, w, x
  <2>4. /\ sums \in Sums /\ sums.total = d.sums.total + n /\ sums.noReply = d.sums.noReply + w
        /\ sums.pages = d.sums.pages
    <3>1. d.sums \in Sums
      BY <1>1 DEF RunTyped
    <3>2. d.sums.total + n \in Nat /\ d.sums.noReply + w \in Nat
      BY <2>2, <3>1 DEF Sums
    <3> QED BY <3>1, <3>2 DEF Sums
  <2>5. HasInHand(e, d, [d.page EXCEPT ![p] = x], d.convs, sums, d.shown + n)
    BY <1>1, <2>4 DEF HasInHand, IsRun, Sums, RunTyped
  <2> HIDE DEF e, sums
  <2>6. Counts(d, e, p, x)
    BY <2>1, <2>4, <2>5 DEF Counts, HasInHand, IsRun, n, w
  <2> QED BY <1>1, <2>3, <2>4, <2>5, <2>6, CountingKeeps
<1>9. CASE SaveRows(m, p)
  <2> DEFINE X == PageRows(m, p, d.convs[p])
             e == [d EXCEPT !.page[p] = "tell"]
  <2>1. d.page[p] = "save"
    BY <1>9 DEF SaveRows, At
  <2>2. HasInHand(e, d, [d.page EXCEPT ![p] = "tell"], d.convs, d.sums, d.shown)
    BY <1>1 DEF HasInHand, IsRun
  <2>3. \A i \in X : i.job = m
    BY DEF PageRows, Row
  <2>4. Works(m, e, X)
    BY <1>9, <2>3 DEF SaveRows, Works, PageRows, Row
  <2> HIDE DEF e
  <2>5. Moves(d, e, p, "tell") /\ Gets(m, job[m].status, job[m].told)
    BY <1>9, <2>1, <2>2, JobSteps DEF Moves, HasInHand, IsRun, SaveRows
  <2> QED BY <1>1, <2>1, <2>2, <2>4, <2>5, MovingKeeps DEF MonitorConstants
<1>10. ~ SaveFails(m, p)
  BY DEF SaveFails, MonitorConstants, RowsSaved
<1>11. CASE TellPage(m, p)
  <2> DEFINE sums == [d.sums EXCEPT !.pages = @ + 1]
             e == [d EXCEPT !.page[p] = "done", !.sums = sums]
  <2>1. d.page[p] = "tell"
    BY <1>11 DEF TellPage, At
  <2>2. HasInHand(e, d, [d.page EXCEPT ![p] = "done"], d.convs, sums, d.shown)
    BY <1>1 DEF HasInHand, IsRun
  <2>3. Works(m, e, {})
    BY <1>11 DEF TellPage, Works
  <2>4. PICK z : Gets(m, job[m].status, z)
    <3>1. CASE job[m].status = "running"
      <4>1. job' = [job EXCEPT ![m].told = sums]
        BY <1>11, <3>1 DEF TellPage, Told
      <4> QED BY <4>1, JobSteps
    <3>2. CASE job[m].status # "running"
      <4>1. job' = job
        BY <1>11, <3>2 DEF TellPage, Told
      <4> QED BY <4>1, JobSteps
    <3> QED BY <3>1, <3>2
  <2> HIDE DEF e
  <2>5. Moves(d, e, p, "done")
    BY <2>1, <2>2 DEF Moves, HasInHand, IsRun
  <2> QED BY <1>1, <2>1, <2>2, <2>3, <2>4, <2>5, MovingKeeps DEF MonitorConstants
<1> QED BY <1>3, <1>4, <1>5, <1>6, <1>7, <1>8, <1>9, <1>10, <1>11

-----------------------------------------------------------------------------
LEMMA MonitorInit == ASSUME MonitorConstants, Init PROVE MonitorInv
<1>1. \A m \in Monitors : /\ Counted(run[m]) = {} /\ Stored(run[m]) = {} /\ Done(run[m]) = {}
                          /\ run[m].convs = [p \in MonitoredPages |-> <<>>]
  BY DEF Init, Counted, Stored, Done
<1>2. IsList(<<>>)
  <2>1. <<>> \in Seq({})
    OBVIOUS
  <2> QED BY <2>1 DEF IsList
<1>3. NoSums \in Sums
  BY DEF NoSums, Sums
<1>4. \A m \in Monitors : RunTyped(run[m])
  BY <1>1, <1>2, <1>3 DEF Init, RunTyped, IsRun, Stages
<1>5. \A m, d : AllRows(m, d, {}) = {} /\ Unanswered({}) = {}
  BY DEF AllRows, Unanswered
<1>6. \A m \in Monitors : SumsTrue(m, run[m])
  <2>1. IsFiniteSet({}) /\ Cardinality({}) = 0
    BY FS_EmptySet
  <2>2. \A m \in Monitors : /\ run[m].sums.total = 0 /\ run[m].sums.noReply = 0
                            /\ run[m].sums.pages = 0 /\ run[m].shown = 0
    BY DEF Init, NoSums
  <2> QED BY <1>1, <1>5, <2>1, <2>2 DEF SumsTrue
<1>7. \A m \in Monitors : RowsOf(m) = AllRows(m, run[m], Stored(run[m]))
  BY <1>1, <1>5 DEF Init, RowsOf
<1> QED BY <1>4, <1>6, <1>7 DEF Init, MonitorInv

LEMMA MonitorStep == ASSUME MonitorConstants, MonitorInv, [Next]_monitorVars PROVE MonitorInv'
<1>1. CASE UNCHANGED monitorVars
  BY <1>1 DEF monitorVars, MonitorInv, RowsOf
<1>2. ASSUME NEW m \in Monitors,
             \/ AskMonitor(m) \/ CreateMonitor(m) \/ EndMonitor(m) \/ FinishMonitor(m)
             \/ OtherBoots(m)
      PROVE  MonitorInv'
  BY <1>2, RequestsKeep
<1>3. ASSUME NEW m \in Monitors, NEW p \in MonitoredPages,
             \/ TakePage(m, p) \/ ListMonitored(m, p) \/ ListFails(m, p) \/ PlainList(m, p)
             \/ PlainListFails(m, p) \/ CountPage(m, p) \/ SaveRows(m, p) \/ SaveFails(m, p)
             \/ TellPage(m, p)
      PROVE  MonitorInv'
  BY <1>3, PagesKeep
<1> QED BY <1>1, <1>2, <1>3 DEF Next

LEMMA MonitorHolds == ASSUME MonitorConstants, MonitorInv PROVE DoneIsShown
<1>1. SUFFICES ASSUME NEW m \in Monitors, job[m].status = "done"
               PROVE  /\ Cardinality(RowsOf(m)) = job[m].told.total
                      /\ Cardinality({i \in RowsOf(m) : i.needsReply}) = job[m].told.noReply
                      /\ job[m].told.pages = Cardinality(MonitoredPages)
                      /\ \/ job[m].told.errors < Cardinality(MonitoredPages)
                         \/ RowsOf(m) # {}
  BY DEF DoneIsShown, MonitorConstants, RowsSaved
<1> DEFINE d == run[m]
<1>2. /\ RunTyped(d) /\ SumsTrue(m, d) /\ RowsOf(m) = AllRows(m, d, Stored(d))
      /\ Through(d) /\ job[m].told = d.sums
  BY <1>1 DEF MonitorInv
<1>3. Counted(d) = MonitoredPages /\ Stored(d) = MonitoredPages /\ Done(d) = MonitoredPages
  BY <1>2 DEF Through, Counted, Stored, Done
<1>4. /\ Cardinality(RowsOf(m)) = d.sums.total /\ d.shown = d.sums.total
      /\ Cardinality(Unanswered(RowsOf(m))) = d.sums.noReply
      /\ d.sums.pages = Cardinality(MonitoredPages)
  BY <1>2, <1>3 DEF SumsTrue
<1>5. CASE d.shown > 0
  <2>1. RowsOf(m) # {}
    BY <1>4, <1>5, FS_EmptySet
  <2> QED BY <1>2, <1>4, <2>1 DEF Unanswered
<1>6. CASE d.sums.errors = 0
  <2>1. Cardinality(MonitoredPages) \in Nat /\ Cardinality(MonitoredPages) # 0
    BY FS_CardinalityType, FS_EmptySet DEF MonitorConstants
  <2> QED BY <1>2, <1>4, <1>6, <2>1 DEF Unanswered
<1> QED BY <1>2, <1>5, <1>6 DEF Through

\* A monitor that is done shows as many rows as it told, as many of them unanswered, has gone
\* through every page and has read some page (runMonitorJob, finishJob), when rows can be saved.
THEOREM DoneIsTold == ASSUME MonitorConstants PROVE Spec => []DoneIsShown
<1>1. Init => MonitorInv
  BY MonitorInit
<1>2. MonitorInv /\ [Next]_monitorVars => MonitorInv'
  BY MonitorStep
<1>3. MonitorInv => DoneIsShown
  BY MonitorHolds
<1> QED BY <1>1, <1>2, <1>3, PTL DEF Spec
=============================================================================
