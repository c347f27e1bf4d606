---------------------------- MODULE InboxProofs -----------------------------
(***************************************************************************)
(* Theorems about one conversation of the inbox, for any number of         *)
(* webhooks, syncs, replies, refreshes, members of staff and messages.     *)
(*                                                                         *)
(* Labels: whatever else happens, a status label is never removed, and a   *)
(* conversation some member of staff has claimed shows a claim whenever    *)
(* nobody is at work on its labels.                                        *)
(*                                                                         *)
(* Rows: every message is stored once and every reply is told to its       *)
(* customer, in the settings Calm names.  The invariant relates each row   *)
(* to the message it was made for, each row without a mid to the reply     *)
(* that still owns it, and each handler between its read and its write to  *)
(* what it may find by then.                                               *)
(*                                                                         *)
(* The conversation: flag, unread count and preview are those of the       *)
(* thread, in the settings its rules name. The invariants speak of the     *)
(* messages that are caught up with, those whose webhook has written the   *)
(* conversation; the write of a webhook is always that of the last one.    *)
(*                                                                         *)
(* The rules are needed: each of them names a way in which the code stores *)
(* a message twice or leaves the row of the conversation behind.           *)
(***************************************************************************)
EXTENDS InboxThread, FiniteSetTheorems, TLAPS

-----------------------------------------------------------------------------
\* Labels.  The argument about claims needs what a member of staff at work on
\* a label remembers of it.
DeskTrue(d) ==
    /\ d.pc \in {"locked", "clean", "insert"} =>
          /\ d = [pc |-> d.pc, label |-> d.label] /\ d.label \in Labels
          /\ d.pc # "insert" => d.label \in StaffLabels
    /\ d.pc = "list" => \E x, y : d = [pc |-> "list", unread |-> x, awaiting |-> y]

\* Between the two statements of a claim: the others are deleted, ours is to come.
Claiming(u) == desk[u].pc = "insert" /\ desk[u].label \in StaffLabels

\* The invariant of the claims: a claim is there, or is about to be.
ClaimInv ==
    /\ desk = [u \in Staff |-> desk[u]] /\ \A u \in Staff : DeskTrue(desk[u])
    /\ labels \subseteq Labels /\ claimed \in BOOLEAN
    /\ claimed => labels \cap StaffLabels # {} \/ \E u \in Staff : Claiming(u)

-----------------------------------------------------------------------------
\* The thread.

\* The types of the messages, the rows and the locals of the handlers.
Posts == [from : {"customer", "page", "ad"}, text : Texts]
Rows == [state : {"row"}, mid : Mids \cup {0}, from : {"staff", "customer"}, text : Texts, at : Int,
         status : {"pending", "sent"}, of : Mids \cup {0}]
HookPcs == {"upsert", "lookup", "echo", "find", "insert", "ad"}
OwnPcs == {"conversation", "graph", "answer", "taken"}
Sends == {Idle} \cup [pc : {"create"}, text : Texts]
         \cup [pc : {"conversation", "graph"}, text : Texts, row : RowIds]
         \cup [pc : {"answer", "taken"}, text : Texts, row : RowIds, mid : Mids]

\* One part for each group of variables.
FbTyped == /\ fb \in Seq(Posts) /\ Len(fb) <= MaxMsgs /\ delivered \in [Mids -> Nat]
           /\ \A m \in Mids : delivered[m] > 0 => m \in DOMAIN fb
RowsTyped == /\ rows \in [RowIds -> Rows \cup {NoRow, DeletedRow}]
             /\ \E k \in 1..(MaxRows + 1) : Unused = k..MaxRows
HookTyped == hook \in [Hooks -> {Idle} \cup [pc : HookPcs, m : Mids]
                                \cup [pc : {"link"}, m : Mids, row : RowIds]]
SendTyped == send \in [Senders -> Sends]
SyncTyped == /\ sync = [y \in Syncs |-> sync[y]]
             /\ \A y \in Syncs : sync[y].pc \in {"read", "upsert", "insert"} =>
                  sync[y].n \in 0..Len(fb)
RefreshTyped ==
    /\ \/ refresh = Idle
       \/ \E p, l : \E n \in 0..Len(fb), S \in SUBSET DOMAIN fb :
             refresh = [pc |-> p, n |-> n, todo |-> S, last |-> l]
    /\ persist \in [Mids -> {Idle} \cup [pc : {"find", "create"}]
                             \cup [pc : {"update"}, row : RowIds, mid : Mids \cup {0}]]
    /\ \A m \in Mids : persist[m] # Idle => m \in DOMAIN fb
    /\ "refresh" \notin Does => refresh = Idle /\ \A m \in Mids : persist[m] = Idle

ThreadTyped == FbTyped /\ RowsTyped /\ HookTyped /\ SendTyped /\ SyncTyped /\ RefreshTyped

\* A row says which message it was made for, and takes no other's mid.
RowsTrue ==
    \A r \in Stored :
        /\ rows[r].mid \in {0, rows[r].of}
        /\ rows[r].of # 0 => rows[r].of \in DOMAIN fb /\ rows[r].text = fb[rows[r].of].text
        /\ rows[r].mid = 0 => /\ rows[r].from = "staff"
                              /\ rows[r].of # 0 => fb[rows[r].of].from = "page"
        /\ \/ "send" \in Does /\ \E k \in Nat : rows[r].at = 2 * k + 1
           \/ rows[r].mid # 0 /\ rows[r].at = 2 * rows[r].mid

\* At most one row has the mid of a message.
OneRowOfMid == \A q, r \in Stored : rows[q].mid = rows[r].mid /\ rows[r].mid # 0 => q = r

\* A reply under way holds the lock of its text and owns the row it made.
Owns(s, r) == send[s].pc \in OwnPcs /\ send[s].row = r
SendsTrue ==
    \A s \in Senders : send[s] # Idle =>
        /\ send[s].text \in locks /\ "send" \in Does
        /\ \A t \in Senders : send[t] # Idle /\ send[t].text = send[s].text => t = s
        /\ send[s].pc \in OwnPcs => send[s].row \in Stored /\ rows[send[s].row].text = send[s].text
        /\ send[s].pc \in {"conversation", "graph"} => rows[send[s].row].of = 0
        /\ send[s].pc \in {"answer", "taken"} => rows[send[s].row].of = send[s].mid
        /\ send[s].pc = "taken" => RowsOfMid(send[s].mid) \ {send[s].row} # {}

\* A row without a mid belongs to a reply under way.
PendingOwned == \A r \in Stored : rows[r].mid = 0 => \E s \in Senders : Owns(s, r)

\* A message of the page has a row with its mid, or the reply it came from
\* still waits for Graph's answer.
EchoesExpected ==
    "page" \notin Does => \A m \in DOMAIN fb : fb[m].from = "page" =>
        RowsOfMid(m) # {} \/ \E s \in Senders : send[s].pc = "answer" /\ send[s].mid = m

\* Who is about to write a mid into a row has the row of that message.
LinkOk(d) == \/ RowsOfMid(d.m) \ {d.row} # {}
             \/ d.row \in Stored /\ rows[d.row].of = d.m
UpdateOk(m) == \/ persist[m].row \in Stored /\ rows[persist[m].row].of = m
               \/ rows[persist[m].row] = DeletedRow
LinksTrue ==
    /\ \A h \in Hooks : hook[h] # Idle => hook[h].m \in DOMAIN fb
    /\ \A h \in Hooks : hook[h].pc = "echo" => fb[hook[h].m].from = "page"
    /\ \A h \in Hooks : hook[h].pc = "link" => LinkOk(hook[h])
    /\ \A m \in Mids : persist[m].pc = "update" => UpdateOk(m)

\* A delivered message has its row, or a webhook handler that will see to it.
DeliveredHandled ==
    \A m \in DOMAIN fb : delivered[m] > 0 =>
        RowsOfMid(m) # {} \/ \E h \in Hooks : hook[h] # Idle /\ hook[h].m = m

ThreadInv == /\ ThreadTyped /\ RowsTrue /\ OneRowOfMid /\ SendsTrue /\ PendingOwned
             /\ EchoesExpected /\ LinksTrue /\ DeliveredHandled

\* A step after which every row is still there, for the same message ...
RowsKept ==
    /\ RowsTyped' /\ RowsTrue' /\ OneRowOfMid'
    /\ \A r \in RowIds : rows[r] = DeletedRow => rows'[r] = DeletedRow
    /\ \A r \in Stored : /\ r \in Stored' /\ rows'[r].text = rows[r].text
                         /\ rows[r].of \in {0, rows'[r].of} /\ rows[r].mid \in {0, rows'[r].mid}

\* ... and what was added is a copy of a message.
RowsGrow ==
    /\ RowsKept
    /\ \A r \in Stored : rows'[r].of = rows[r].of
    /\ \A r \in Stored' : rows'[r].mid = 0 => r \in Stored

\* Only members of staff touch the labels.
LEMMA LabelsOnlyHere ==
    ASSUME Next
    PROVE  UNCHANGED <<labels, desk, claimed>> \/ DeskNext
<1>1. CASE IngestNext
    BY ZenonT(60), <1>1 DEF IngestNext, IngestElse, FacebookMessage, Deliver, Upsert, AdUpsert,
       AdFind, KnownMid, UnknownMid, EchoFind, EchoLink, FindAgain, Insert, ReadReceipt
<1>2. CASE ReplyNext
    BY ZenonT(60), <1>2 DEF ReplyNext, ReplyElse, SendStart, CreatePending, ReplyConversation,
       Accepted, Refused, Answer, AnswerUnsaved, DropPending, Fail, LockEnds
<1>3. CASE SyncNext
    BY <1>3 DEF SyncNext, SyncElse, SyncFetch, SyncRead, SyncUpsert, SyncInsert, SyncBump,
       RefreshFetch, RefreshBatch, RefreshLink, RefreshEnd, PersistFind, PersistUpdate,
       PersistCreate
<1> QED BY <1>1, <1>2, <1>3 DEF Next

\* Of these only the two writes of a label change the labels.
LEMMA LabelSteps ==
    ASSUME Next
    PROVE  \/ UNCHANGED labels
           \/ \E u \in Staff : LabelClean(u) \/ LabelInsert(u)
<1>1. CASE DeskNext
    BY <1>1 DEF DeskNext, View, ViewWrite, MarkRead, MarkReadWrite, MarkReadAgain, List, ListLook,
       ListClear, Label, LabelLocked, LabelInsertFails, LabelWrite, MarkUnread
<1> QED BY <1>1, LabelsOnlyHere

\* Whatever members of staff do at the same time, a status label is never
\* removed: what toggleConversationLabel deletes are the labels of staff.
THEOREM StatusLabelsStay == Spec => StatusKept
<1>1. ASSUME Next, NEW l \in labels \cap StatusLabels PROVE l \in labels'
    BY <1>1, LabelSteps, InboxConstants DEF LabelClean, LabelInsert, InboxConstants
<1>2. [Next]_vars => (\A l \in labels \cap StatusLabels : l \in labels')
    BY <1>1 DEF vars
<1> QED BY <1>2, PTL DEF Spec, StatusKept

-----------------------------------------------------------------------------
\* Nobody has claimed anything yet.
LEMMA ClaimInit == Init => ClaimInv
<1> SUFFICES ASSUME Init PROVE ClaimInv
    OBVIOUS
<1>1. desk = [u \in Staff |-> Idle] /\ labels = {} /\ claimed = FALSE
    BY DEF Init
<1>2. DeskTrue(Idle)
    BY DEF DeskTrue, Idle
<1> QED BY <1>1, <1>2 DEF ClaimInv

\* The delete and the insert of a claim are two statements; between them the
\* claim is in the hands of the one who makes it.
LEMMA ClaimStep ==
    ASSUME ClaimInv, [Next]_vars
    PROVE  ClaimInv'
<1> USE DEF ClaimInv, Claiming
<1>1. CASE UNCHANGED <<labels, desk, claimed>>
    BY <1>1
<1>2. CASE DeskNext
  <2>1. ASSUME NEW u \in Staff, NEW d, DeskTrue(d), desk[u].pc # "insert",
               desk' = [desk EXCEPT ![u] = d],
               UNCHANGED <<labels, claimed>>
        PROVE  ClaimInv'
    BY <2>1
  <2>2. ASSUME NEW u \in Staff, View(u) \/ ViewWrite(u) \/ MarkRead(u) \/ MarkReadWrite(u)
                                \/ MarkReadAgain(u)
        PROVE  ClaimInv'
    <3>1. PICK d : desk' = [desk EXCEPT ![u] = d]
            /\ d.pc \notin {"locked", "clean", "insert", "list"}
      BY <2>2 DEF View, ViewWrite, MarkRead, MarkReadWrite, MarkReadAgain, Idle
    <3>2. DeskTrue(d)
      BY <3>1 DEF DeskTrue
    <3>3. desk[u].pc # "insert" /\ UNCHANGED <<labels, claimed>>
      BY <2>2 DEF View, ViewWrite, MarkRead, MarkReadWrite, MarkReadAgain, Idle, DeskAt
    <3> QED BY <2>1, <3>1, <3>2, <3>3
  <2>3. ASSUME NEW u \in Staff, List(u)
        PROVE  ClaimInv'
    <3>1. DeskTrue([pc |-> "list", unread |-> conv.unread > 0, awaiting |-> conv.awaiting])
      BY DEF DeskTrue
    <3> QED BY <2>1, <2>3, <3>1 DEF List, Idle
  <2>4. ASSUME NEW u \in Staff, ListLook(u) \/ ListClear(u)
        PROVE  ClaimInv'
    <3>1. DeskTrue(Idle) /\ (desk[u].pc = "list" => DeskTrue([desk[u] EXCEPT !.pc = "clear"]))
      BY DEF DeskTrue, Idle
    <3> QED BY <2>1, <2>4, <3>1 DEF ListLook, ListClear, DeskAt
  <2>5. ASSUME NEW u \in Staff, NEW l \in Labels, Label(u, l)
        PROVE  ClaimInv'
    <3>1. DeskTrue([pc |-> IF l \in StaffLabels THEN "locked" ELSE "insert", label |-> l])
      BY DEF DeskTrue
    <3> QED BY <2>1, <2>5, <3>1 DEF Label, Idle
  <2>6. ASSUME NEW u \in Staff, LabelLocked(u)
        PROVE  ClaimInv'
    <3>1. DeskTrue(Idle) /\ (desk[u].pc = "locked" => DeskTrue([desk[u] EXCEPT !.pc = "clean"]))
      BY DEF DeskTrue, Idle
    <3> QED BY <2>1, <2>6, <3>1 DEF LabelLocked, DeskAt
  <2>7. ASSUME NEW u \in Staff, LabelClean(u)
        PROVE  ClaimInv'
    <3>1. PICK l \in StaffLabels : desk[u] = [pc |-> "clean", label |-> l]
      BY <2>7 DEF LabelClean, DeskAt, DeskTrue
    <3>2. desk' = [desk EXCEPT ![u] = [pc |-> "insert", label |-> l]]
      <4>1. desk' = [desk EXCEPT ![u] = [desk[u] EXCEPT !.pc = "insert"]]
        BY <2>7 DEF LabelClean
      <4>2. [desk[u] EXCEPT !.pc = "insert"] = [pc |-> "insert", label |-> l]
        BY <3>1
      <4> QED BY <4>1, <4>2, Zenon
    <3>3. labels' = labels \ StaffLabels /\ claimed' = claimed
      BY <2>7 DEF LabelClean
    <3>4. DeskTrue([pc |-> "insert", label |-> l])
      BY <3>1 DEF Labels, DeskTrue
    <3>5. Claiming(u)'
      BY <3>1, <3>2
    <3> QED BY <3>2, <3>3, <3>4, <3>5
  <2>8. ASSUME NEW u \in Staff, LabelInsert(u)
        PROVE  ClaimInv'
    <3>1. desk[u].label \in Labels
      BY <2>8 DEF LabelInsert, DeskAt, DeskTrue
    <3>2. /\ desk' = [v \in Staff |-> desk'[v]] /\ \A v \in Staff : v # u => desk'[v] = desk[v]
          /\ DeskTrue(desk'[u])
      BY <2>8 DEF LabelInsert, DeskTrue, Idle
    <3>3. /\ labels' = labels \cup {desk[u].label}
          /\ claimed' = (claimed \/ desk[u].label \in StaffLabels)
      BY <2>8 DEF LabelInsert
    <3> QED BY <3>1, <3>2, <3>3
  <2>11. ASSUME NEW u \in Staff, LabelInsertFails(u)
        PROVE  ClaimInv'
    <3>1. desk[u].label \in Labels /\ DeskTrue(Idle)
      BY <2>11 DEF LabelInsertFails, DeskAt, DeskTrue, Idle
    <3>2. /\ desk' = [v \in Staff |-> desk'[v]] /\ \A v \in Staff : v # u => desk'[v] = desk[v]
          /\ desk'[u] = Idle /\ labels' = labels
          /\ claimed' = (claimed /\ desk[u].label \notin StaffLabels)
      BY <2>11 DEF LabelInsertFails
    <3> QED BY <3>1, <3>2
  <2>9. ASSUME NEW u \in Staff, LabelWrite(u)
        PROVE  ClaimInv'
    BY <2>9, <2>1 DEF LabelWrite, DeskTrue, Idle, DeskAt
  <2>10. CASE MarkUnread
    BY <2>10 DEF MarkUnread
  <2> QED BY <1>2, <2>2, <2>4, <2>5, <2>6, <2>7, <2>8, <2>9, <2>10, <2>11, <2>3
          DEF DeskNext
<1> QED BY <1>1, <1>2, LabelsOnlyHere DEF vars

\* At rest a conversation that some member of staff has claimed shows the
\* label of one of them, whoever deleted and inserted in between, unless the
\* insert of a claim has failed since (toggleConversationLabel).
THEOREM ClaimedStays == Spec => []ClaimKept
<1>1. ClaimInv => ClaimKept
    BY DEF ClaimInv, ClaimKept, AtRest, Working, Claiming, Idle
<1> QED BY <1>1, ClaimInit, ClaimStep, PTL DEF Spec

-----------------------------------------------------------------------------
\* Telling the rows there are from the others.
LEMMA StoredTyped ==
    ASSUME RowsTyped, NEW r \in RowIds
    PROVE  /\ r \in Stored <=> rows[r].state = "row"
           /\ r \in Stored => rows[r] \in Rows
           /\ r \notin Stored => rows[r] \in {NoRow, DeletedRow}
           /\ r \in Unused <=> rows[r] = NoRow
BY DEF RowsTyped, Stored, Unused, Rows, NoRow, DeletedRow

\* Reading the messages Facebook holds.
LEMMA FbRead ==
    ASSUME FbTyped
    PROVE  /\ DOMAIN fb = 1..Len(fb) /\ Len(fb) \in Nat
           /\ \A m \in DOMAIN fb : m \in Mids /\ fb[m] \in Posts /\ fb[m].text \in Texts /\ m # 0
<1>1. fb \in Seq(Posts) /\ Len(fb) <= MaxMsgs /\ MaxMsgs \in Nat
    BY InboxConstants DEF FbTyped, InboxConstants
<1>2. DOMAIN fb = 1..Len(fb) /\ Len(fb) \in Nat /\ \A m \in 1..Len(fb) : fb[m] \in Posts
    BY <1>1
<1>3. \A m \in DOMAIN fb : fb[m].text \in Texts
    BY <1>2 DEF Posts
<1> QED BY <1>1, <1>2, <1>3 DEF Mids

\* The row a message becomes.
LEMMA RowForTyped ==
    ASSUME FbTyped, NEW m \in DOMAIN fb
    PROVE  /\ RowFor(m) \in Rows
           /\ RowFor(m).state = "row" /\ RowFor(m).mid = m /\ RowFor(m).of = m
           /\ RowFor(m).text = fb[m].text /\ RowFor(m).at = 2 * m
<1>1. m \in Mids /\ fb[m].text \in Texts /\ m \in Int
    BY FbRead DEF Mids
<1> QED BY <1>1 DEF RowFor, Rows

\* Leaving the rows alone.
LEMMA StillGrows ==
    ASSUME RowsTyped, RowsTrue, OneRowOfMid, UNCHANGED <<rows, fb>>
    PROVE  RowsGrow
BY StoredTyped DEF RowsGrow, RowsKept, RowsTyped, RowsTrue, OneRowOfMid, Stored, Unused, Rows

\* Rows are written over, and at most one is given the mid of its message.
LEMMA RowsWritten ==
    ASSUME FbTyped, RowsTyped, RowsTrue, OneRowOfMid, fb' = fb,
           rows' = [r \in RowIds |-> rows'[r]],
           \A r \in RowIds \ Stored : rows'[r] = rows[r],
           \A r \in Stored : /\ rows'[r] \in Rows
                             /\ rows'[r].of = rows[r].of /\ rows'[r].text = rows[r].text
                             /\ rows'[r].at = rows[r].at
                             /\ rows'[r].mid = 0 => rows'[r].from = "staff",
           NEW x, \A r \in Stored : r # x => rows'[r].mid = rows[r].mid,
           x \in Stored => \/ rows'[x].mid = rows[x].mid
                           \/ rows'[x].mid = rows[x].of /\ RowsOfMid(rows[x].of) \ {x} = {}
    PROVE  RowsGrow
<1>1. \A r \in RowIds : (r \in Stored' <=> r \in Stored) /\ (r \in Unused' <=> r \in Unused)
    BY StoredTyped DEF Stored, Unused, Rows
<1>2. Stored' = Stored /\ Unused' = Unused /\ Stored \subseteq RowIds
    BY <1>1 DEF Stored, Unused
<1>3. RowsTyped'
    BY <1>2 DEF RowsTyped, Stored
<1>4. RowsTrue'
    BY <1>2 DEF RowsTrue
<1>5. OneRowOfMid'
    BY <1>2 DEF OneRowOfMid, RowsOfMid
<1>6. \A r \in Stored : rows[r].mid \in {0, rows'[r].mid}
    BY DEF RowsTrue
<1>7. \A r \in RowIds : rows[r] = DeletedRow => rows'[r] = DeletedRow
    BY DEF Stored, DeletedRow
<1> QED BY <1>2, <1>3, <1>4, <1>5, <1>6, <1>7 DEF RowsGrow, RowsKept

\* Copies of messages that had no row are added.
LEMMA RowsAdded ==
    ASSUME FbTyped, RowsTyped, RowsTrue, OneRowOfMid, fb' = fb,
           rows' = [r \in RowIds |-> rows'[r]],
           \A r \in RowIds \ Unused : rows'[r] = rows[r],
           NEW f, \A r \in Unused : \/ rows'[r] = NoRow
                                    \/ /\ f[r] \in DOMAIN fb /\ RowsOfMid(f[r]) = {}
                                       /\ rows'[r] = RowFor(f[r]),
           \A q, r \in Unused : rows'[q] # NoRow /\ rows'[r] # NoRow /\ f[q] = f[r] => q = r,
           \E k \in 1..(MaxRows + 1) : Unused' = k..MaxRows
    PROVE  RowsGrow
<1>1. /\ Stored \subseteq RowIds /\ Unused \subseteq RowIds /\ Stored \cap Unused = {}
        /\ Stored' \subseteq RowIds
      /\ \A r \in Stored : rows'[r] = rows[r] /\ rows[r] \in Rows
      /\ \A r \in RowIds \ Unused : r \in Stored' <=> r \in Stored
    BY StoredTyped DEF Stored, Unused, NoRow
<1>2. \A r \in Unused : r \in Stored' => /\ f[r] \in DOMAIN fb /\ RowsOfMid(f[r]) = {}
        /\ rows'[r] = RowFor(f[r])
                                         /\ rows'[r] \in Rows /\ rows'[r] # NoRow
                                         /\ rows'[r].mid = f[r] /\ rows'[r].of = f[r]
                                         /\ rows'[r].mid # 0
                                         /\ rows'[r].text = fb[f[r]].text /\ rows'[r].at = 2 * f[r]
  <2> SUFFICES ASSUME NEW r \in Unused, r \in Stored'
               PROVE  /\ f[r] \in DOMAIN fb /\ RowsOfMid(f[r]) = {} /\ rows'[r] = RowFor(f[r])
                      /\ rows'[r] \in Rows /\ rows'[r] # NoRow
                      /\ rows'[r].mid = f[r] /\ rows'[r].of = f[r] /\ rows'[r].mid # 0
                      /\ rows'[r].text = fb[f[r]].text /\ rows'[r].at = 2 * f[r]
    OBVIOUS
  <2>1. rows'[r] # NoRow
    BY DEF Stored, NoRow
  <2>2. f[r] \in DOMAIN fb /\ RowsOfMid(f[r]) = {} /\ rows'[r] = RowFor(f[r])
    BY <2>1
  <2> QED BY <2>1, <2>2, RowForTyped, FbRead
<1>3. RowsTyped'
  <2>1. \A r \in RowIds : rows'[r] \in Rows \cup {NoRow, DeletedRow}
    <3> SUFFICES ASSUME NEW r \in RowIds PROVE rows'[r] \in Rows \cup {NoRow, DeletedRow}
      OBVIOUS
    <3>1. CASE r \in Unused
      BY <3>1, RowForTyped
    <3>2. CASE r \notin Unused
      BY <3>2 DEF RowsTyped
    <3> QED BY <3>1, <3>2
  <2> QED BY <2>1 DEF RowsTyped
<1>4. RowsTrue'
  <2> SUFFICES ASSUME NEW r \in Stored'
               PROVE  /\ rows'[r].mid \in {0, rows'[r].of}
                      /\ rows'[r].of # 0 => rows'[r].of \in DOMAIN fb
                                             /\ rows'[r].text = fb[rows'[r].of].text
                      /\ rows'[r].mid = 0 => /\ rows'[r].from = "staff"
                                             /\ rows'[r].of # 0 => fb[rows'[r].of].from = "page"
                      /\ ("send" \in Does /\ \E k \in Nat : rows'[r].at = 2 * k + 1)
                         \/ (rows'[r].mid # 0 /\ rows'[r].at = 2 * rows'[r].mid)
    BY DEF RowsTrue
  <2>1. CASE r \in Stored
    BY <1>1, <2>1 DEF RowsTrue
  <2>2. CASE r \notin Stored
    BY <1>1, <1>2, <2>2
  <2> QED BY <2>1, <2>2
<1>5. OneRowOfMid'
  <2> SUFFICES ASSUME NEW q \in Stored', NEW r \in Stored',
                      rows'[q].mid = rows'[r].mid, rows'[r].mid # 0
               PROVE  q = r
    BY DEF OneRowOfMid
  <2>1. CASE q \in Stored /\ r \in Stored
    BY <1>1, <2>1 DEF OneRowOfMid
  <2>2. CASE q \in Stored /\ r \notin Stored
    BY <1>1, <1>2, <2>2 DEF RowsOfMid
  <2>3. CASE q \notin Stored /\ r \in Stored
    BY <1>1, <1>2, <2>3 DEF RowsOfMid
  <2>4. CASE q \notin Stored /\ r \notin Stored
    BY <1>1, <1>2, <2>4
  <2> QED BY <2>1, <2>2, <2>3, <2>4
<1>6. \A r \in RowIds : rows[r] = DeletedRow => rows'[r] = DeletedRow
    BY StoredTyped DEF NoRow, DeletedRow
<1> QED BY <1>1, <1>2, <1>3, <1>4, <1>5, <1>6 DEF RowsGrow, RowsKept

\* What does not write them stays true of the rest of the state.
LEMMA MidsAre == \A m \in Mids : m \in Nat /\ m # 0
<1>1. MaxMsgs \in Nat
    BY InboxConstants DEF InboxConstants
<1> QED BY <1>1 DEF Mids

\* Adding copies keeps what is stored.
LEMMA GrowKept == RowsGrow => RowsKept
BY DEF RowsGrow

\* A message that has a row keeps it.
LEMMA GrowMids ==
    ASSUME RowsKept, NEW m, m # 0
    PROVE  /\ RowsOfMid(m) # {} => RowsOfMid(m)' # {}
           /\ \A r : RowsOfMid(m) \ {r} # {} => RowsOfMid(m)' \ {r} # {}
<1>1. \A q \in RowsOfMid(m) : q \in RowsOfMid(m)'
    BY DEF RowsKept, RowsOfMid
<1> QED BY <1>1

\* Replies under way keep their rows, and no row is left without its reply.
LEMMA GrowSends ==
    ASSUME ThreadInv, RowsGrow, UNCHANGED <<send, locks>>
    PROVE  SendTyped' /\ SendsTrue' /\ PendingOwned'
<1>1. SendTyped /\ SendsTrue /\ PendingOwned
    BY DEF ThreadInv, ThreadTyped
<1>2. SendTyped'
    BY <1>1 DEF SendTyped
<1>3. SendsTrue'
  <2> SUFFICES ASSUME NEW s \in Senders, send[s] # Idle
               PROVE  /\ send[s].text \in locks /\ "send" \in Does
                      /\ \A t \in Senders : send[t] # Idle /\ send[t].text = send[s].text => t = s
                      /\ send[s].pc \in OwnPcs => /\ send[s].row \in Stored'
                                                  /\ rows'[send[s].row].text = send[s].text
                      /\ send[s].pc \in {"conversation", "graph"} => rows'[send[s].row].of = 0
                      /\ send[s].pc \in {"answer", "taken"} => rows'[send[s].row].of = send[s].mid
                      /\ send[s].pc = "taken" => RowsOfMid(send[s].mid)' \ {send[s].row} # {}
    BY DEF SendsTrue
  <2>1. /\ send[s].text \in locks /\ "send" \in Does
        /\ \A t \in Senders : send[t] # Idle /\ send[t].text = send[s].text => t = s
        /\ send[s].pc \in OwnPcs => send[s].row \in Stored /\ rows[send[s].row].text = send[s].text
        /\ send[s].pc \in {"conversation", "graph"} => rows[send[s].row].of = 0
        /\ send[s].pc \in {"answer", "taken"} => rows[send[s].row].of = send[s].mid
        /\ send[s].pc = "taken" => RowsOfMid(send[s].mid) \ {send[s].row} # {}
    BY <1>1 DEF SendsTrue
  <2>2. send[s].pc = "taken" => send[s].mid # 0
    BY <1>1 DEF SendTyped, Sends, Mids, Idle
  <2>3. \A r \in Stored : r \in Stored' /\ rows'[r].of = rows[r].of /\ rows'[r].text = rows[r].text
    BY DEF RowsGrow, RowsKept
  <2>4. send[s].pc = "taken" => RowsOfMid(send[s].mid)' \ {send[s].row} # {}
    BY <2>1, <2>2, GrowMids, GrowKept
  <2> QED BY <2>1, <2>3, <2>4 DEF OwnPcs
<1>4. PendingOwned'
    BY <1>1 DEF PendingOwned, Owns, RowsGrow, RowsKept
<1> QED BY <1>2, <1>3, <1>4

\* A message of the page keeps its row or its reply.
LEMMA GrowEchoes ==
    ASSUME ThreadInv, RowsKept, fb' = fb,
           \A s \in Senders : send[s].pc = "answer" => send'[s] = send[s]
    PROVE  EchoesExpected'
<1>1. \A m \in DOMAIN fb : RowsOfMid(m) # {} => RowsOfMid(m)' # {}
    BY GrowMids, FbRead DEF ThreadInv, ThreadTyped
<1> QED BY <1>1 DEF ThreadInv, EchoesExpected

\* Who is about to write a mid may still do so.
LEMMA GrowLinks ==
    ASSUME ThreadInv, RowsKept
    PROVE  /\ \A d : d.m # 0 /\ LinkOk(d) => LinkOk(d)'
           /\ \A m \in Mids : persist[m].pc = "update" /\ persist'[m] = persist[m] => UpdateOk(m)'
<1>1. ASSUME NEW d, d.m # 0, LinkOk(d) PROVE LinkOk(d)'
    BY <1>1, GrowMids DEF LinkOk, RowsKept
<1>2. ASSUME NEW m \in Mids, persist[m].pc = "update", persist'[m] = persist[m] PROVE UpdateOk(m)'
  <2>1. UpdateOk(m) /\ persist[m].row \in RowIds
    BY <1>2 DEF ThreadInv, LinksTrue, ThreadTyped, RefreshTyped, Idle
  <2>2. m # 0
    BY MidsAre
  <2>3. CASE persist[m].row \in Stored /\ rows[persist[m].row].of = m
    BY <1>2, <2>2, <2>3 DEF UpdateOk, RowsKept
  <2>4. CASE rows[persist[m].row] = DeletedRow
    BY <1>2, <2>1, <2>4 DEF UpdateOk, RowsKept
  <2> QED BY <2>1, <2>3, <2>4 DEF UpdateOk
<1> QED BY <1>1, <1>2

\* A webhook handler moves on with its message, or ends with the message stored.
LEMMA HookStep ==
    ASSUME ThreadInv, RowsGrow, NEW h \in Hooks, hook[h] # Idle, NEW m, hook[h].m = m,
           NEW d, hook' = [hook EXCEPT ![h] = d],
           UNCHANGED <<fb, delivered, send, locks, sync, refresh, persist>>,
           \/ d = Idle /\ RowsOfMid(m)' # {}
           \/ d \in [pc : HookPcs, m : {m}] /\ (d.pc = "echo" => fb[m].from = "page")
           \/ d \in [pc : {"link"}, m : {m}, row : RowIds] /\ LinkOk(d)
    PROVE  ThreadInv'
<1>1. /\ ThreadTyped /\ LinksTrue /\ DeliveredHandled /\ m \in DOMAIN fb
      /\ \A n \in DOMAIN fb : n \in Mids /\ n # 0
    BY FbRead DEF ThreadInv, LinksTrue, ThreadTyped
<1>2. FbTyped' /\ RowsTyped' /\ SyncTyped' /\ RefreshTyped'
    BY <1>1 DEF ThreadTyped, FbTyped, SyncTyped, RefreshTyped, RowsGrow, RowsKept
<1>3. /\ d # Idle => /\ d.m = m /\ (d.pc = "link" => LinkOk(d))
                     /\ d.pc = "echo" => fb[m].from = "page"
      /\ d = Idle => RowsOfMid(m)' # {}
      /\ Idle.pc # "link" /\ Idle.pc # "echo"
    BY DEF HookPcs, Idle
<1>4. HookTyped'
    BY <1>1 DEF ThreadTyped, HookTyped
<1>5. /\ \A g \in Hooks : g # h => hook'[g] = hook[g]
      /\ hook'[h] = d
    BY <1>1 DEF ThreadTyped, HookTyped
<1>6. LinksTrue'
  <2>1. \A g \in Hooks : hook'[g] # Idle => hook'[g].m \in DOMAIN fb
    BY <1>1, <1>3, <1>5 DEF LinksTrue
  <2>2. \A g \in Hooks : hook'[g].pc = "link" => LinkOk(hook'[g])
    BY <1>1, <1>3, <1>5 DEF LinksTrue
  <2>3. \A g \in Hooks : hook'[g].pc = "link" => hook'[g] # Idle
    BY <1>3
  <2>4. \A g \in Hooks : hook'[g].pc = "link" => hook'[g].m # 0
    BY <1>1, <2>1, <2>3
  <2>5. ASSUME NEW g \in Hooks, hook'[g].pc = "link" PROVE LinkOk(hook[g])'
    <3>1. PICK e : e = hook'[g]
      OBVIOUS
    <3>2. LinkOk(e) /\ e.m # 0
      BY <2>2, <2>4, <2>5, <3>1
    <3>3. LinkOk(e)'
      BY <3>2, GrowLinks, GrowKept
    <3> QED BY <3>1, <3>3 DEF LinkOk, RowsOfMid
  <2>6. \A g \in Hooks : hook'[g].pc = "echo" => fb[hook'[g].m].from = "page"
    BY <1>1, <1>3, <1>5 DEF LinksTrue
  <2> QED BY <2>1, <2>5, <2>6, GrowLinks, GrowKept DEF LinksTrue
<1>7. DeliveredHandled'
  <2> SUFFICES ASSUME NEW n \in DOMAIN fb, delivered[n] > 0
               PROVE  RowsOfMid(n)' # {} \/ \E g \in Hooks : hook'[g] # Idle /\ hook'[g].m = n
    BY DEF DeliveredHandled
  <2>1. CASE RowsOfMid(n) # {}
    BY <1>1, <2>1, GrowMids, GrowKept
  <2>2. CASE RowsOfMid(n) = {}
    <3>1. PICK g \in Hooks : hook[g] # Idle /\ hook[g].m = n
      BY <1>1, <2>2 DEF DeliveredHandled
    <3>2. CASE g = h
      BY <1>3, <1>5, <3>1, <3>2
    <3>3. CASE g # h
      BY <1>5, <3>1, <3>3
    <3> QED BY <3>2, <3>3
  <2> QED BY <2>1, <2>2
<1>8. EchoesExpected' /\ SendTyped' /\ SendsTrue' /\ PendingOwned'
    BY GrowEchoes, GrowSends, GrowKept
<1> QED BY <1>2, <1>4, <1>6, <1>7, <1>8 DEF ThreadInv, ThreadTyped, RowsGrow, RowsKept

\* A handler moves on while rows are added, at most.
LEMMA HookMoves ==
    ASSUME HookTyped, NEW h \in Hooks, hook[h].pc \in HookPcs
    PROVE  /\ hook[h] # Idle /\ hook[h].m \in Mids
           /\ \A p : [hook[h] EXCEPT !.pc = p] = [pc |-> p, m |-> hook[h].m]
<1>1. hook[h] \in [pc : HookPcs, m : Mids]
    BY DEF HookTyped, HookPcs, Idle
<1> QED BY <1>1 DEF HookPcs, Idle

\* A message is added at the end of the thread.
LEMMA FbGrows ==
    ASSUME FbTyped, NEW p \in Posts, Len(fb) < MaxMsgs, fb' = Append(fb, p), delivered' = delivered
    PROVE  /\ FbTyped' /\ Len(fb') = Len(fb) + 1 /\ DOMAIN fb' = DOMAIN fb \cup {Len(fb) + 1}
           /\ \A m \in DOMAIN fb : fb'[m] = fb[m]
           /\ fb'[Len(fb) + 1] = p /\ Len(fb) + 1 \in Mids /\ Len(fb) + 1 \notin DOMAIN fb
           /\ delivered[Len(fb) + 1] = 0
<1>1. fb \in Seq(Posts) /\ MaxMsgs \in Nat /\ Len(fb) \in Nat /\ DOMAIN fb = 1..Len(fb)
    BY InboxConstants, FbRead DEF FbTyped, InboxConstants
<1>2. /\ fb' \in Seq(Posts) /\ Len(fb') = Len(fb) + 1 /\ DOMAIN fb' = 1..(Len(fb) + 1)
      /\ \A m \in 1..Len(fb) : fb'[m] = fb[m]
      /\ fb'[Len(fb) + 1] = p
    BY <1>1
<1>3. Len(fb) + 1 \in Mids /\ Len(fb) + 1 \notin DOMAIN fb
    BY <1>1 DEF Mids
<1>4. DOMAIN fb' = DOMAIN fb \cup {Len(fb) + 1}
    BY <1>1, <1>2
<1>5. FbTyped'
    BY <1>1, <1>2, <1>4 DEF FbTyped
<1>6. delivered[Len(fb) + 1] = 0
    BY <1>3 DEF FbTyped
<1> QED BY <1>1, <1>2, <1>3, <1>4, <1>5, <1>6

\* A longer thread leaves what is true of the rows, syncs and refreshes true.
LEMMA LongerThread ==
    ASSUME ThreadInv, NEW p \in Posts, Len(fb) < MaxMsgs, fb' = Append(fb, p),
           delivered' = delivered,
           UNCHANGED <<hook, sync, refresh, persist>>
    PROVE  FbTyped' /\ SyncTyped' /\ RefreshTyped' /\ HookTyped'
<1>1. FbTyped /\ SyncTyped /\ RefreshTyped /\ HookTyped
    BY DEF ThreadInv, ThreadTyped
<1>2. FbTyped' /\ Len(fb') = Len(fb) + 1 /\ Len(fb) \in Nat /\ DOMAIN fb \subseteq DOMAIN fb'
    BY <1>1, FbGrows, FbRead
<1>3. SyncTyped' /\ HookTyped'
    BY <1>1, <1>2 DEF SyncTyped, HookTyped
<1>4. RefreshTyped'
    BY <1>1, <1>2 DEF RefreshTyped
<1> QED BY <1>2, <1>3, <1>4

\* A message is written on Facebook.
LEMMA MessageKeeps ==
    ASSUME ThreadInv, NEW from \in {"customer", "page", "ad"}, NEW text \in Texts,
           FacebookMessage(from, text)
    PROVE  ThreadInv'
<1> DEFINE p == [from |-> from, text |-> text]
<1>1. /\ p \in Posts /\ Len(fb) < MaxMsgs /\ fb' = Append(fb, p) /\ from \in Does
      /\ UNCHANGED <<delivered, rows, hook, locks, send, sync, refresh, persist>>
    BY DEF FacebookMessage, IngestElse, Posts
<1>2. FbTyped' /\ SyncTyped' /\ RefreshTyped' /\ HookTyped'
    BY <1>1, LongerThread
<1>3. /\ DOMAIN fb' = DOMAIN fb \cup {Len(fb) + 1}
      /\ \A m \in DOMAIN fb : fb'[m] = fb[m]
      /\ fb'[Len(fb) + 1].from = from /\ delivered[Len(fb) + 1] = 0
    BY <1>1, FbGrows DEF ThreadInv, ThreadTyped
<1> HIDE DEF p
<1>4. RowsTyped' /\ RowsTrue' /\ OneRowOfMid' /\ SendTyped' /\ SendsTrue' /\ PendingOwned'
  <2>1. RowsTyped' /\ OneRowOfMid' /\ SendTyped' /\ SendsTrue' /\ PendingOwned'
    BY <1>1 DEF ThreadInv, ThreadTyped, RowsTyped, OneRowOfMid, SendTyped, SendsTrue, PendingOwned,
       Stored, Unused, RowsOfMid, Owns
  <2>2. RowsTrue'
    BY <1>1, <1>3 DEF ThreadInv, RowsTrue, Stored
  <2> QED BY <2>1, <2>2
<1>5. EchoesExpected'
    BY <1>1, <1>3 DEF ThreadInv, EchoesExpected, RowsOfMid, Stored
<1>6. LinksTrue'
  <2>1. \A h \in Hooks : /\ hook[h] # Idle => hook[h].m \in DOMAIN fb'
                         /\ hook[h].pc = "echo" => fb'[hook[h].m].from = "page"
    BY <1>3 DEF ThreadInv, LinksTrue, Idle
  <2>2. \A h \in Hooks : hook[h].pc = "link" => LinkOk(hook[h])'
    BY <1>1 DEF ThreadInv, LinksTrue, LinkOk, RowsOfMid, Stored
  <2>3. \A m \in Mids : persist[m].pc = "update" => UpdateOk(m)'
    BY <1>1 DEF ThreadInv, LinksTrue, UpdateOk, Stored
  <2> QED BY <1>1, <2>1, <2>2, <2>3 DEF LinksTrue
<1>7. DeliveredHandled'
    BY <1>1, <1>3 DEF ThreadInv, DeliveredHandled, RowsOfMid, Stored
<1> QED BY <1>2, <1>4, <1>5, <1>6, <1>7 DEF ThreadInv, ThreadTyped

\* A webhook arrives: its handler takes the message up.
LEMMA DeliverKeeps ==
    ASSUME ThreadInv, NEW h \in Hooks, NEW m \in Mids, Deliver(h, m)
    PROVE  ThreadInv'
<1>1. /\ hook[h] = Idle /\ m \in DOMAIN fb /\ delivered' = [delivered EXCEPT ![m] = @ + 1]
      /\ hook' = [hook EXCEPT ![h] = [pc |-> "upsert", m |-> m]]
      /\ UNCHANGED <<fb, rows, locks, send, sync, refresh, persist>>
    BY DEF Deliver, IngestElse
<1>2. FbTyped /\ HookTyped /\ ThreadTyped
    BY DEF ThreadInv, ThreadTyped
<1>3. FbTyped'
    BY <1>1, <1>2 DEF FbTyped
<1>4. HookTyped'
        /\ \A g \in Hooks : hook'[g] = IF g = h THEN [pc |-> "upsert", m |-> m] ELSE hook[g]
    BY <1>1, <1>2 DEF HookTyped, HookPcs
<1>5. RowsTyped' /\ RowsTrue' /\ OneRowOfMid' /\ SendTyped' /\ SendsTrue' /\ PendingOwned'
      /\ EchoesExpected' /\ SyncTyped' /\ RefreshTyped'
    BY <1>1 DEF ThreadInv, ThreadTyped, RowsTyped, OneRowOfMid, SendTyped, SendsTrue, PendingOwned,
       Stored, Unused, RowsOfMid, Owns, RowsTrue, EchoesExpected, SyncTyped, RefreshTyped
<1>6. LinksTrue'
  <2>1. \A g \in Hooks : hook'[g] # Idle => hook'[g].m \in DOMAIN fb
    BY <1>1, <1>4 DEF ThreadInv, LinksTrue
  <2>2. \A g \in Hooks : hook'[g].pc \in {"link", "echo"} => hook'[g] = hook[g]
    BY <1>4
  <2>3. \A g \in Hooks : hook'[g].pc = "link" => LinkOk(hook[g])'
    BY <1>1, <2>2 DEF ThreadInv, LinksTrue, LinkOk, RowsOfMid, Stored
  <2>4. \A n \in Mids : persist'[n].pc = "update" => UpdateOk(n)'
    BY <1>1 DEF ThreadInv, LinksTrue, UpdateOk, Stored
  <2>5. \A g \in Hooks : hook'[g].pc = "echo" => fb[hook'[g].m].from = "page"
    BY <2>2 DEF ThreadInv, LinksTrue
  <2> QED BY <1>1, <2>1, <2>3, <2>4, <2>5 DEF LinksTrue
<1>7. DeliveredHandled'
  <2> SUFFICES ASSUME NEW n \in DOMAIN fb, delivered'[n] > 0
               PROVE  RowsOfMid(n)' # {} \/ \E g \in Hooks : hook'[g] # Idle /\ hook'[g].m = n
    BY <1>1 DEF DeliveredHandled
  <2>1. CASE n = m
    BY <1>4, <2>1 DEF Idle
  <2>2. CASE n # m
    <3>1. delivered[n] > 0
      BY <1>1, <1>2, <2>2 DEF FbTyped
    <3>2. RowsOfMid(n) # {} \/ \E g \in Hooks : hook[g] # Idle /\ hook[g].m = n
      BY <3>1 DEF ThreadInv, DeliveredHandled
    <3>3. RowsOfMid(n)' = RowsOfMid(n)
      BY <1>1 DEF RowsOfMid, Stored
    <3> QED BY <1>1, <1>4, <3>2, <3>3
  <2> QED BY <2>1, <2>2
<1> QED BY <1>3, <1>4, <1>5, <1>6, <1>7 DEF ThreadInv, ThreadTyped

\* The next unused row is the first of those that are left.
LEMMA NextIs ==
    ASSUME RowsTyped, Unused # {}
    PROVE  /\ NextRow \in Unused /\ NextRow \in RowIds
           /\ \E k \in 1..(MaxRows + 1) : /\ Unused = k..MaxRows /\ NextRow = k /\ k \in 1..MaxRows
                                          /\ Unused \ {NextRow} = (k + 1)..MaxRows
<1>1. PICK k \in 1..(MaxRows + 1) : Unused = k..MaxRows
    BY DEF RowsTyped
<1>2. MaxRows \in Nat
    BY InboxConstants DEF InboxConstants
<1>3. k \in Unused /\ k \in 1..MaxRows
    BY <1>1, <1>2
<1>4. \A q \in Unused : k <= q
    BY <1>1, <1>2
<1>5. NextRow \in Unused /\ \A q \in Unused : NextRow <= q
    BY <1>3, <1>4 DEF NextRow
<1>6. NextRow = k
    BY <1>1, <1>2, <1>3, <1>4, <1>5
<1>7. Unused \ {k} = (k + 1)..MaxRows
    BY <1>1, <1>2
<1> QED BY <1>1, <1>3, <1>5, <1>6, <1>7 DEF RowIds

\* One message that has no row is stored.
LEMMA OneAdded ==
    ASSUME FbTyped, RowsTyped, RowsTrue, OneRowOfMid, fb' = fb, NEW m \in DOMAIN fb,
           RowsOfMid(m) = {}, Unused # {}, rows' = [rows EXCEPT ![NextRow] = RowFor(m)]
    PROVE  RowsGrow /\ RowsOfMid(m)' # {}
<1>1. NextRow \in Unused /\ NextRow \in RowIds
    BY NextIs
<1>2. /\ rows' = [r \in RowIds |-> rows'[r]]
      /\ \A r \in RowIds : rows'[r] = IF r = NextRow THEN RowFor(m) ELSE rows[r]
    BY <1>1 DEF RowsTyped
<1>3. RowFor(m).state = "row" /\ RowFor(m).mid = m
    BY RowForTyped
<1>4. \E k \in 1..(MaxRows + 1) : Unused' = k..MaxRows
  <2>1. Unused' = Unused \ {NextRow}
    BY <1>1, <1>2, <1>3 DEF Unused
  <2>2. MaxRows \in Nat
    BY InboxConstants DEF InboxConstants
  <2>3. PICK k \in 1..MaxRows : Unused \ {NextRow} = (k + 1)..MaxRows
    BY NextIs
  <2>4. k + 1 \in 1..(MaxRows + 1)
    BY <2>2
  <2> QED BY <2>1, <2>3, <2>4
<1>5. \A r \in RowIds \ Unused : rows'[r] = rows[r]
    BY <1>1, <1>2
<1> DEFINE f == [r \in RowIds |-> m]
<1>6. \A r \in Unused : \/ rows'[r] = NoRow
                        \/ f[r] \in DOMAIN fb /\ RowsOfMid(f[r]) = {} /\ rows'[r] = RowFor(f[r])
  <2>1. \A r \in Unused : r \in RowIds /\ rows[r] = NoRow
    BY StoredTyped DEF Unused
  <2> QED BY <1>2, <2>1
<1>7. \A q, r \in Unused : rows'[q] # NoRow /\ rows'[r] # NoRow /\ f[q] = f[r] => q = r
  <2>1. \A r \in Unused : r \in RowIds /\ rows[r] = NoRow
    BY StoredTyped DEF Unused
  <2> QED BY <1>2, <2>1
<1> HIDE DEF f
<1>8. RowsGrow
    BY <1>2, <1>4, <1>5, <1>6, <1>7, RowsAdded
<1>9. NextRow \in RowsOfMid(m)' \/ \E r : r \in RowsOfMid(m)'
    BY <1>1, <1>2, <1>3 DEF RowsOfMid, Stored
<1> QED BY <1>8, <1>9

\* The side of rows that have their mid is put right.
LEMMA SideWritten ==
    ASSUME FbTyped, RowsTyped, RowsTrue, OneRowOfMid, fb' = fb,
           rows' = [r \in RowIds |-> rows'[r]],
           \A r \in RowIds : \/ rows'[r] = rows[r]
                             \/ /\ r \in Stored /\ rows[r].mid # 0
                                /\ \E side \in {"staff", "customer"} :
                                     rows'[r] = [rows[r] EXCEPT !.from = side]
    PROVE  RowsGrow
<1>1. \A r \in Stored : r \in RowIds /\ rows[r] \in Rows
    BY StoredTyped DEF Stored
<1>2. \A r \in Stored : /\ rows'[r] \in Rows
                        /\ rows'[r].of = rows[r].of /\ rows'[r].text = rows[r].text
                        /\ rows'[r].at = rows[r].at /\ rows'[r].mid = rows[r].mid
                        /\ rows'[r].mid = 0 => rows'[r].from = "staff"
  <2> SUFFICES ASSUME NEW r \in Stored
               PROVE  /\ rows'[r] \in Rows
                      /\ rows'[r].of = rows[r].of /\ rows'[r].text = rows[r].text
                      /\ rows'[r].at = rows[r].at /\ rows'[r].mid = rows[r].mid
                      /\ rows'[r].mid = 0 => rows'[r].from = "staff"
    OBVIOUS
  <2>1. CASE rows'[r] = rows[r]
    BY <1>1, <2>1 DEF RowsTrue
  <2>2. CASE rows'[r] # rows[r]
    <3>1. PICK side \in {"staff", "customer"} : rows'[r] = [rows[r] EXCEPT !.from = side]
      BY <1>1, <2>2
    <3> QED BY <1>1, <2>2, <3>1 DEF Rows
  <2> QED BY <2>1, <2>2
<1> QED BY <1>2, RowsWritten

\* A row is given the mid of its message.
LEMMA MidWritten ==
    ASSUME FbTyped, RowsTyped, RowsTrue, OneRowOfMid, fb' = fb, NEW r \in Stored,
           NEW m \in DOMAIN fb,
           rows[r].of = m, RowsOfMid(m) \ {r} = {},
           rows' = [rows EXCEPT ![r] = [@ EXCEPT !.mid = m, !.status = "sent"]]
    PROVE  RowsGrow /\ RowsOfMid(m)' # {}
<1>1. r \in RowIds /\ rows[r] \in Rows /\ m \in Mids /\ m # 0
    BY StoredTyped, FbRead DEF Stored
<1>2. /\ rows' = [q \in RowIds |-> rows'[q]] /\ \A q \in RowIds : q # r => rows'[q] = rows[q]
      /\ rows'[r] = [rows[r] EXCEPT !.mid = m, !.status = "sent"]
    BY <1>1 DEF RowsTyped
<1>3. /\ rows'[r] \in Rows /\ rows'[r].state = "row"
      /\ rows'[r].of = m /\ rows'[r].text = rows[r].text /\ rows'[r].at = rows[r].at
      /\ rows'[r].mid = m
    BY <1>1, <1>2 DEF Rows
<1>4. \A q \in Stored : /\ rows'[q] \in Rows
                        /\ rows'[q].of = rows[q].of /\ rows'[q].text = rows[q].text
                        /\ rows'[q].at = rows[q].at /\ (q # r => rows'[q].mid = rows[q].mid)
                        /\ rows'[q].mid = 0 => rows'[q].from = "staff"
  <2> SUFFICES ASSUME NEW q \in Stored
               PROVE  /\ rows'[q] \in Rows
                      /\ rows'[q].of = rows[q].of /\ rows'[q].text = rows[q].text
                      /\ rows'[q].at = rows[q].at /\ (q # r => rows'[q].mid = rows[q].mid)
                      /\ rows'[q].mid = 0 => rows'[q].from = "staff"
    OBVIOUS
  <2>1. q \in RowIds /\ rows[q] \in Rows
    BY StoredTyped DEF Stored
  <2>2. CASE q = r
    BY <1>1, <1>3, <2>2
  <2>3. CASE q # r
    BY <1>2, <2>1, <2>3 DEF RowsTrue
  <2> QED BY <2>2, <2>3
<1>5. RowsGrow
  <2>1. \A q \in RowIds \ Stored : rows'[q] = rows[q]
    BY <1>2
  <2>2. \A q \in Stored : q # r => rows'[q].mid = rows[q].mid
    BY <1>4
  <2>3. rows'[r].mid = rows[r].of /\ RowsOfMid(rows[r].of) \ {r} = {}
    BY <1>3
  <2>4. \A q \in Stored : /\ rows'[q] \in Rows
                          /\ rows'[q].of = rows[q].of /\ rows'[q].text = rows[q].text
                          /\ rows'[q].at = rows[q].at
                          /\ rows'[q].mid = 0 => rows'[q].from = "staff"
    BY <1>4
  <2> QED BY <1>2, <2>1, <2>2, <2>3, <2>4, RowsWritten
<1>6. r \in RowsOfMid(m)'
    BY <1>1, <1>3 DEF RowsOfMid, Stored
<1> QED BY <1>5, <1>6

\* A pending row that is found for a message of the page is that of the reply
\* the message was, or the message has a row already.
LEMMA EchoFound ==
    ASSUME ThreadInv, Calm, NEW m \in DOMAIN fb, fb[m].from = "page",
           NEW r \in PendingToLink(fb[m].text)
    PROVE  r \in Stored /\ (RowsOfMid(m) \ {r} # {} \/ rows[r].of = m)
<1>1. m # 0 /\ fb[m].text # Media
    BY FbRead, InboxConstants DEF ThreadInv, ThreadTyped, Media, InboxConstants
<1>2. r \in Stored /\ rows[r].mid = 0
    BY <1>1 DEF PendingToLink, Newest, Unlinked
<1>3. PICK s \in Senders : Owns(s, r)
    BY <1>2 DEF ThreadInv, PendingOwned
<1>4. /\ send[s] # Idle /\ "send" \in Does /\ send[s].text = rows[r].text
      /\ \A t \in Senders : send[t] # Idle /\ send[t].text = send[s].text => t = s
    BY <1>3 DEF ThreadInv, SendsTrue, Owns, OwnPcs, Idle
<1>5. CASE RowsOfMid(m) # {}
    BY <1>1, <1>2, <1>5 DEF RowsOfMid
<1>6. CASE RowsOfMid(m) = {}
  <2>1. PICK t \in Senders : send[t].pc = "answer" /\ send[t].mid = m
    BY <1>4, <1>6 DEF ThreadInv, EchoesExpected, Calm
  <2> DEFINE q == send[t].row
  <2>2. send[t] # Idle /\ q \in Stored /\ rows[q].text = send[t].text /\ rows[q].of = m
    BY <2>1 DEF ThreadInv, SendsTrue, OwnPcs, Idle
  <2>3. rows[q].mid = 0 /\ rows[q].from = "staff" /\ rows[q].text = fb[m].text
    BY <1>1, <1>6, <2>2 DEF ThreadInv, RowsTrue, RowsOfMid
  <2>4. rows[r].text = fb[m].text
    BY <1>1, <2>2, <2>3 DEF PendingToLink, Newest, Unlinked
  <2>5. t = s
    BY <1>4, <2>2, <2>3, <2>4
  <2> QED BY <1>2, <1>3, <2>2, <2>5 DEF Owns
<1> QED BY <1>2, <1>5, <1>6

\* Every step of a webhook handler keeps the invariant.
LEMMA HookKeeps ==
    ASSUME ThreadInv, Calm, NEW h \in Hooks,
           \/ Upsert(h) \/ AdUpsert(h) \/ AdFind(h) \/ KnownMid(h) \/ UnknownMid(h) \/ EchoFind(h)
           \/ EchoLink(h) \/ FindAgain(h) \/ Insert(h)
    PROVE  ThreadInv'
<1>1. /\ FbTyped /\ RowsTyped /\ RowsTrue /\ OneRowOfMid /\ HookTyped
      /\ UNCHANGED <<fb, delivered, send, locks, sync, refresh, persist>>
    BY DEF ThreadInv, ThreadTyped, Upsert, AdUpsert, AdFind, KnownMid, UnknownMid, EchoFind,
       EchoLink, FindAgain, Insert, IngestElse
<1>2. PICK m : m = hook[h].m
    OBVIOUS
<1>3. hook[h].pc \in HookPcs \cup {"link"} /\ hook[h] # Idle
  <2>1. \/ hook[h].pc = "upsert" \/ hook[h].pc = "ad" \/ hook[h].pc = "lookup"
        \/ hook[h].pc = "echo" \/ hook[h].pc = "link" \/ hook[h].pc = "find" \/ hook[h].pc = "insert"
    BY Zenon DEF Upsert, AdUpsert, AdFind, KnownMid, UnknownMid, EchoFind, EchoLink, FindAgain,
       Insert
  <2> QED BY <2>1 DEF HookPcs, Idle
<1>4. m \in DOMAIN fb /\ m \in Mids /\ m # 0
    BY <1>1, <1>2, <1>3, FbRead DEF ThreadInv, LinksTrue
<1>5. hook[h].pc \in HookPcs => \A p : [hook[h] EXCEPT !.pc = p] = [pc |-> p, m |-> m]
    BY <1>1, <1>2, HookMoves
<1>6. ASSUME rows' = rows PROVE RowsGrow /\ (RowsOfMid(m) # {} => RowsOfMid(m)' # {})
    BY <1>1, <1>6, StillGrows DEF RowsOfMid, Stored
<1>7. ASSUME rows' = rows, NEW p \in HookPcs, hook[h].pc \in HookPcs,
             p = "echo" => fb[m].from = "page",
             hook' = [hook EXCEPT ![h] = [hook[h] EXCEPT !.pc = p]]
      PROVE  ThreadInv'
  <2>1. PICK d : d = [pc |-> p, m |-> m]
    OBVIOUS
  <2>2. /\ hook' = [hook EXCEPT ![h] = d] /\ d \in [pc : HookPcs, m : {m}]
        /\ d.pc = "echo" => fb[m].from = "page"
    BY <1>5, <1>7, <2>1
  <2> QED BY <1>1, <1>2, <1>3, <1>6, <1>7, <2>2, HookStep
<1>8. ASSUME RowsGrow, RowsOfMid(m)' # {}, hook' = [hook EXCEPT ![h] = Idle]
      PROVE  ThreadInv'
    BY <1>1, <1>2, <1>3, <1>8, HookStep
<1>9. CASE Upsert(h) \/ AdUpsert(h) \/ UnknownMid(h)
  <2>1. rows' = rows /\ hook[h].pc \in HookPcs
    BY <1>9 DEF Upsert, AdUpsert, UnknownMid, HookPcs
  <2>2. CASE Upsert(h)
    <3>1. hook' = [hook EXCEPT ![h] = [hook[h] EXCEPT !.pc = "lookup"]]
      BY <2>2 DEF Upsert
    <3> QED BY <1>7, <2>1, <3>1 DEF HookPcs
  <2>3. CASE AdUpsert(h)
    <3>1. hook' = [hook EXCEPT ![h] = [hook[h] EXCEPT !.pc = "ad"]]
      BY <2>3 DEF AdUpsert
    <3> QED BY <1>7, <2>1, <3>1 DEF HookPcs
  <2>4. CASE UnknownMid(h)
    <3>1. PICK p : p = IF fb[m].from = "page" THEN "echo" ELSE "find"
      OBVIOUS
    <3>2. hook' = [hook EXCEPT ![h] = [hook[h] EXCEPT !.pc = p]]
      BY <1>2, <2>4, <3>1 DEF UnknownMid
    <3>3. p \in HookPcs /\ (p = "echo" => fb[m].from = "page")
      BY <3>1 DEF HookPcs
    <3> QED BY <1>7, <2>1, <3>2, <3>3
  <2> QED BY <1>9, <2>2, <2>3, <2>4
<1>10. CASE AdFind(h)
  <2>1. /\ rows' = rows /\ hook[h].pc \in HookPcs
        /\ hook' = [hook EXCEPT ![h] = IF RowsOfMid(m) # {} THEN Idle
                                       ELSE [hook[h] EXCEPT !.pc = "insert"]]
    BY <1>2, <1>10 DEF AdFind, HookPcs
  <2> QED BY <1>6, <1>7, <1>8, <2>1 DEF HookPcs
<1>11. CASE KnownMid(h)
  <2>1. /\ rows' = [r \in RowIds |-> IF r \in RowsOfMid(m)
                                     THEN [rows[r] EXCEPT !.from = RowFor(m).from]
                                     ELSE rows[r]]
        /\ hook' = [hook EXCEPT ![h] = Idle] /\ RowsOfMid(m) # {}
    BY <1>2, <1>11 DEF KnownMid
  <2>2. RowFor(m).from \in {"staff", "customer"}
    BY DEF RowFor
  <2>3. \A r \in RowsOfMid(m) : r \in Stored /\ rows[r].mid # 0
    BY <1>4 DEF RowsOfMid
  <2>4. RowsGrow
    BY <1>1, <2>1, <2>2, <2>3, SideWritten
  <2> QED BY <1>4, <1>8, <2>1, <2>4, GrowMids, GrowKept
<1>12. CASE EchoFind(h)
  <2>1. rows' = rows /\ hook[h].pc = "echo" /\ hook[h].pc \in HookPcs
    BY <1>12 DEF EchoFind, HookPcs
  <2>2. CASE hook' = [hook EXCEPT ![h] = [hook[h] EXCEPT !.pc = "find"]]
    BY <1>7, <2>1, <2>2 DEF HookPcs
  <2>3. CASE \E r \in PendingToLink(fb[m].text) :
               hook' = [hook EXCEPT ![h] = [pc |-> "link", m |-> m, row |-> r]]
    <3>1. PICK r \in PendingToLink(fb[m].text) :
            hook' = [hook EXCEPT ![h] = [pc |-> "link", m |-> m, row |-> r]]
      BY <2>3
    <3>2. fb[m].from = "page"
      BY <1>2, <2>1 DEF ThreadInv, LinksTrue
    <3>3. PICK d : d = [pc |-> "link", m |-> m, row |-> r]
      OBVIOUS
    <3>4. r \in Stored /\ (RowsOfMid(m) \ {r} # {} \/ rows[r].of = m)
      BY <1>4, <3>2, EchoFound
    <3>5. d \in [pc : {"link"}, m : {m}, row : RowIds] /\ LinkOk(d)
      BY <3>3, <3>4 DEF LinkOk, Stored
    <3> QED BY <1>1, <1>2, <1>3, <1>6, <2>1, <3>1, <3>3, <3>5, HookStep
  <2> QED BY <1>2, <1>12, <2>2, <2>3 DEF EchoFind
<1>13. CASE EchoLink(h)
  <2>1. PICK r : r = hook[h].row
    OBVIOUS
  <2>2. RowsOfMid(m) \ {r} # {} \/ (r \in Stored /\ rows[r].of = m)
    BY <1>2, <1>13, <2>1 DEF ThreadInv, LinksTrue, LinkOk, EchoLink
  <2>3. CASE r \notin Stored
    <3>1. rows' = rows /\ hook' = [hook EXCEPT ![h] = Idle] /\ RowsOfMid(m) # {}
      BY <1>13, <2>1, <2>2, <2>3 DEF EchoLink
    <3> QED BY <1>6, <1>8, <3>1
  <2>4. CASE r \in Stored /\ RowsOfMid(m) \ {r} # {}
    <3>1. rows' = rows /\ hook' = [hook EXCEPT ![h] = [pc |-> "find", m |-> m]]
      BY <1>2, <1>13, <2>1, <2>4 DEF EchoLink
    <3>2. PICK d : d = [pc |-> "find", m |-> m]
      OBVIOUS
    <3>3. d \in [pc : HookPcs, m : {m}]
      BY <3>2 DEF HookPcs
    <3> QED BY <1>1, <1>2, <1>3, <1>6, <3>1, <3>2, <3>3, HookStep
  <2>5. CASE r \in Stored /\ RowsOfMid(m) \ {r} = {}
    <3>1. rows' = [rows EXCEPT ![r] = [@ EXCEPT !.mid = m, !.status = "sent"]]
            /\ hook' = [hook EXCEPT ![h] = Idle]
      BY <1>2, <1>13, <2>1, <2>5 DEF EchoLink
    <3>2. RowsGrow /\ RowsOfMid(m)' # {}
      BY <1>1, <1>4, <2>2, <2>5, <3>1, MidWritten
    <3> QED BY <1>8, <3>1, <3>2
  <2> QED BY <2>3, <2>4, <2>5
<1>14. CASE FindAgain(h)
  <2>1. CASE RowsOfMid(m) = {}
    <3>1. rows' = rows /\ hook[h].pc \in HookPcs
            /\ hook' = [hook EXCEPT ![h] = [hook[h] EXCEPT !.pc = "insert"]]
      BY <1>2, <1>14, <2>1 DEF FindAgain, HookPcs
    <3> QED BY <1>7, <3>1 DEF HookPcs
  <2>2. CASE RowsOfMid(m) # {}
    <3>1. PICK r \in RowsOfMid(m) : /\ rows' = [rows EXCEPT ![r].from = RowFor(m).from]
                                    /\ hook' = [hook EXCEPT ![h] = Idle]
      BY <1>2, <1>14, <2>2 DEF FindAgain
    <3>2. RowFor(m).from \in {"staff", "customer"}
      BY DEF RowFor
    <3>3. r \in Stored /\ rows[r].mid # 0 /\ r \in RowIds
      BY <1>4 DEF RowsOfMid, Stored
    <3>4. /\ rows' = [q \in RowIds |-> rows'[q]]
          /\ \A q \in RowIds :
                rows'[q] = IF q = r THEN [rows[r] EXCEPT !.from = RowFor(m).from] ELSE rows[q]
      BY <1>1, <3>1, <3>3 DEF RowsTyped
    <3>5. RowsGrow
      BY <1>1, <3>2, <3>3, <3>4, SideWritten
    <3> QED BY <1>4, <1>8, <2>2, <3>1, <3>5, GrowMids, GrowKept
  <2> QED BY <2>1, <2>2
<1>15. CASE Insert(h)
  <2>1. hook' = [hook EXCEPT ![h] = Idle]
    BY <1>15 DEF Insert
  <2>2. CASE RowsOfMid(m) # {}
    BY <1>2, <1>6, <1>8, <1>15, <2>1, <2>2 DEF Insert
  <2>3. CASE RowsOfMid(m) = {}
    <3>1. Unused # {} /\ rows' = [rows EXCEPT ![NextRow] = RowFor(m)]
      BY <1>2, <1>15, <2>3 DEF Insert
    <3>2. RowsGrow /\ RowsOfMid(m)' # {}
      BY <1>1, <1>4, <2>3, <3>1, OneAdded
    <3> QED BY <1>8, <2>1, <3>2
  <2> QED BY <2>2, <2>3
<1> QED BY <1>9, <1>10, <1>11, <1>12, <1>13, <1>14, <1>15

\* Whoever writes copies of messages at most, and keeps to the rules of its own
\* locals, keeps the thread.
LEMMA ReaderKeeps ==
    ASSUME ThreadInv, RowsGrow, UNCHANGED <<fb, delivered, hook, send, locks>>,
           SyncTyped', RefreshTyped',
           \A m \in Mids : persist'[m].pc = "update" => UpdateOk(m)'
    PROVE  ThreadInv'
<1>1. FbTyped' /\ HookTyped'
    BY DEF ThreadInv, ThreadTyped, FbTyped, HookTyped
<1>2. \A h \in Hooks : hook[h] # Idle => hook[h].m \in DOMAIN fb /\ hook[h].m # 0
    BY FbRead DEF ThreadInv, ThreadTyped, LinksTrue
<1>3. LinksTrue'
  <2>1. ASSUME NEW h \in Hooks, hook[h].pc = "link" PROVE LinkOk(hook[h])'
    <3>1. PICK d : d = hook[h]
      OBVIOUS
    <3>2. LinkOk(d) /\ d.m # 0
      BY <1>2, <2>1, <3>1 DEF ThreadInv, LinksTrue, Idle
    <3>3. LinkOk(d)'
      BY <3>2, GrowLinks, GrowKept
    <3> QED BY <3>1, <3>3 DEF LinkOk, RowsOfMid
  <2> QED BY <2>1 DEF ThreadInv, LinksTrue
<1>4. DeliveredHandled'
  <2>1. \A m \in DOMAIN fb : RowsOfMid(m) # {} => RowsOfMid(m)' # {}
    BY GrowMids, GrowKept, FbRead DEF ThreadInv, ThreadTyped
  <2> QED BY <2>1 DEF ThreadInv, DeliveredHandled
<1> QED BY <1>1, <1>3, <1>4, GrowEchoes, GrowKept, GrowSends DEF ThreadInv, ThreadTyped, RowsGrow,
           RowsKept

\* Whoever does not touch the thread keeps the invariant.
LEMMA OthersKeep ==
    ASSUME ThreadInv,
           UNCHANGED <<fb, delivered, rows, hook, send, locks, sync, refresh, persist>>
    PROVE  ThreadInv'
<1>1. RowsGrow
    BY StillGrows DEF ThreadInv, ThreadTyped
<1>2. SyncTyped' /\ RefreshTyped'
    BY DEF ThreadInv, ThreadTyped, SyncTyped, RefreshTyped
<1>3. \A m \in Mids : persist'[m].pc = "update" => UpdateOk(m)'
    BY <1>1, GrowLinks, GrowKept DEF ThreadInv, LinksTrue
<1> QED BY <1>1, <1>2, <1>3, ReaderKeeps

\* How many members of S come before m: the rows of one insert are numbered so.
Rank(S, m) == Cardinality({k \in S : k < m})

\* Ranks are different and cover an interval.
LEMMA Ranked ==
    ASSUME NEW S, IsFiniteSet(S), S \subseteq Int
    PROVE  /\ \A m \in S : Rank(S, m) \in 0..(Cardinality(S) - 1)
           /\ \A m, n \in S : Rank(S, m) = Rank(S, n) => m = n
<1> DEFINE Below(m) == {k \in S : k < m}
<1>1. \A m \in S : IsFiniteSet(Below(m)) /\ Cardinality(Below(m)) \in Nat
    BY FS_Subset, FS_CardinalityType
<1>2. \A m \in S : Cardinality(Below(m)) \in 0..(Cardinality(S) - 1)
  <2> SUFFICES ASSUME NEW m \in S PROVE Cardinality(Below(m)) \in 0..(Cardinality(S) - 1)
    OBVIOUS
  <2>1. Below(m) \in SUBSET S /\ m \notin Below(m)
    OBVIOUS
  <2>2. Cardinality(Below(m)) <= Cardinality(S) /\ Cardinality(Below(m)) # Cardinality(S)
    BY <2>1, FS_Subset
  <2> QED BY <1>1, <2>2, FS_CardinalityType
<1>3. ASSUME NEW m \in S, NEW n \in S, m < n PROVE Cardinality(Below(m)) # Cardinality(Below(n))
  <2>1. m \in Below(n) /\ m \notin Below(m)
    BY <1>3
  <2>2. ASSUME NEW k \in Below(m) PROVE k \in Below(n)
    <3>1. k \in S /\ k < m /\ k \in Int /\ m \in Int /\ n \in Int
      OBVIOUS
    <3> QED BY <1>3, <3>1
  <2>3. Below(m) \in SUBSET Below(n)
    BY <2>2
  <2> HIDE DEF Below
  <2> QED BY <1>1, <2>1, <2>3, FS_Subset
<1>4. \A m, n \in S : Cardinality(Below(m)) = Cardinality(Below(n)) => m = n
    BY <1>3
<1> QED BY <1>2, <1>4 DEF Rank

\* A sync stores the messages that have no row yet, each once.
LEMMA CopiesAdded ==
    ASSUME FbTyped, RowsTyped, RowsTrue, OneRowOfMid, fb' = fb, NEW ms \in SUBSET DOMAIN fb,
           Cardinality(Unused) >= Cardinality({m \in ms : RowsOfMid(m) = {}}), rows' = WithRows(ms)
    PROVE  RowsGrow
<1> DEFINE new == {m \in ms : RowsOfMid(m) = {}}
           n == Cardinality(new)
<1>1. new \subseteq DOMAIN fb /\ new \subseteq Int /\ IsFiniteSet(new) /\ n \in Nat
  <2>1. DOMAIN fb = 1..Len(fb) /\ Len(fb) \in Nat
    BY FbRead
  <2>2. IsFiniteSet(1..Len(fb))
    BY <2>1, FS_Interval
  <2>3. new \in SUBSET (1..Len(fb))
    BY <2>1
  <2>4. IsFiniteSet(new)
    BY <2>2, <2>3, FS_Subset
  <2>5. new \subseteq Int
    BY <2>3
  <2> QED BY <2>1, <2>3, <2>4, <2>5, FS_CardinalityType
<1>2. rows' = [r \in RowIds |-> IF \E m \in new : NextRow + Rank(new, m) = r
                                THEN RowFor(CHOOSE m \in new : NextRow + Rank(new, m) = r)
                                ELSE rows[r]]
    BY DEF WithRows, Rank
<1>3. \A m \in new : RowsOfMid(m) = {}
    OBVIOUS
<1>4. Cardinality(Unused) >= n
    OBVIOUS
<1> HIDE DEF new
<1>5. CASE new = {}
  <2>1. rows' = rows
    BY <1>2, <1>5 DEF RowsTyped
  <2> QED BY <2>1, StillGrows
<1>6. CASE new # {}
  <2>1. n > 0 /\ Unused # {}
    BY <1>1, <1>4, <1>6, FS_EmptySet
  <2>2. PICK k \in 1..MaxRows : Unused = k..MaxRows /\ NextRow = k
    BY <2>1, NextIs
  <2>3. MaxRows \in Nat /\ k + n - 1 <= MaxRows /\ k + n \in 1..(MaxRows + 1)
    <3>1. MaxRows \in Nat
      BY InboxConstants DEF InboxConstants
    <3>2. MaxRows \in Nat /\ k \in Int /\ k >= 1 /\ k <= MaxRows
      BY <3>1
    <3>3. Cardinality(Unused) = MaxRows - k + 1
      BY <2>2, <3>2, FS_Interval
    <3> QED BY <1>1, <1>4, <3>2, <3>3
  <2> DEFINE rowOf == [m \in new |-> k + Rank(new, m)]
             f == [r \in RowIds |-> CHOOSE m \in new : rowOf[m] = r]
             T == k..(k + n - 1)
  <2>4. rowOf \in Injection(new, T)
    <3>1. rowOf \in [new -> T]
      BY <1>1, <2>3, Ranked
    <3>2. \A m, x \in new : rowOf[m] = rowOf[x] => m = x
      BY <1>1, <2>3, Ranked
    <3> QED BY <3>1, <3>2 DEF Injection, IsInjective
  <2>5. IsFiniteSet(T) /\ Cardinality(T) = n
    <3>1. k \in Int /\ k + n - 1 \in Int /\ ~ k > k + n - 1
      BY <1>1, <2>1, <2>3
    <3> QED BY <1>1, <3>1, FS_Interval
  <2>6. rowOf \in Surjection(new, T)
    BY <2>4, <2>5, FS_Injection
  <2>7. \A r \in T : \E m \in new : rowOf[m] = r
    BY <2>6 DEF Surjection
  <2>8. \A m \in new : rowOf[m] \in T
    BY <2>6 DEF Surjection
  <2>9. T \subseteq Unused /\ Unused \subseteq RowIds
    BY <1>1, <2>2, <2>3 DEF RowIds
  <2>10. \A r \in RowIds : rows'[r] = IF \E m \in new : rowOf[m] = r THEN RowFor(f[r]) ELSE rows[r]
    BY <1>2, <2>2
  <2> HIDE DEF rowOf
  <2>11. \A r \in T : f[r] \in new /\ rowOf[f[r]] = r /\ rows'[r] = RowFor(f[r])
    BY <2>7, <2>9, <2>10
  <2> HIDE DEF f
  <2>12. \A r \in RowIds \ T : rows'[r] = rows[r]
    BY <2>8, <2>10
  <2>13. \A r \in Unused : rows[r] = NoRow
    BY <2>9, StoredTyped
  <2>14. Unused' = (k + n)..MaxRows
    <3>1. \A r \in T : rows'[r].state = "row"
      BY <1>1, <2>11, RowForTyped
    <3>2. Unused' = Unused \ T
      BY <2>9, <2>12, <3>1 DEF Unused
    <3> QED BY <1>1, <2>2, <2>3, <3>2
  <2> HIDE DEF T
  <2>15. \A r \in Unused : \/ rows'[r] = NoRow
                           \/ f[r] \in DOMAIN fb /\ RowsOfMid(f[r]) = {} /\ rows'[r] = RowFor(f[r])
    BY <1>1, <1>3, <2>9, <2>11, <2>12, <2>13
  <2>16. \A q, r \in Unused : rows'[q] # NoRow /\ rows'[r] # NoRow /\ f[q] = f[r] => q = r
    BY <2>9, <2>11, <2>12, <2>13
  <2>17. \A r \in RowIds \ Unused : rows'[r] = rows[r]
    BY <2>9, <2>12
  <2>18. rows' = [r \in RowIds |-> rows'[r]]
    BY <1>2
  <2> QED BY <2>3, <2>14, <2>15, <2>16, <2>17, <2>18, RowsAdded
<1> QED BY <1>5, <1>6

\* Every step of a sync keeps the invariant.
LEMMA SyncKeeps ==
    ASSUME ThreadInv, NEW y \in Syncs,
           SyncFetch(y) \/ SyncRead(y) \/ SyncUpsert(y) \/ SyncInsert(y) \/ SyncBump(y)
    PROVE  ThreadInv'
<1>1. /\ FbTyped /\ RowsTyped /\ RowsTrue /\ OneRowOfMid /\ SyncTyped /\ RefreshTyped
      /\ UNCHANGED <<fb, delivered, hook, send, locks, refresh, persist>>
    BY DEF ThreadInv, ThreadTyped, SyncFetch, SyncRead, SyncUpsert, SyncInsert, SyncBump, SyncElse
<1>2. RefreshTyped'
    BY <1>1 DEF RefreshTyped
<1>3. sync[y].pc \in {"read", "upsert", "insert"} => sync[y].n \in 0..Len(fb)
    BY <1>1 DEF SyncTyped
<1>4. SyncTyped'
  <2>1. ASSUME NEW d, sync' = [sync EXCEPT ![y] = d],
               d.pc \in {"read", "upsert", "insert"} => d.n \in 0..Len(fb)
        PROVE  SyncTyped'
    BY <1>1, <2>1 DEF SyncTyped
  <2>2. CASE SyncFetch(y)
    <3>1. PICK d : d = [pc |-> "read", n |-> Len(fb)]
      OBVIOUS
    <3>2. d.n \in 0..Len(fb)
      BY <1>1, <3>1, FbRead
    <3>3. sync' = [sync EXCEPT ![y] = d]
      BY <2>2, <3>1 DEF SyncFetch
    <3> QED BY <2>1, <3>2, <3>3
  <2>3. CASE SyncRead(y)
    <3>1. PICK d : d = IF conv.made /\ 2 * Max(Listed(sync[y].n)) <= conv.lastAt THEN Idle
                       ELSE [pc |-> "upsert", n |-> sync[y].n, at |-> conv.lastAt]
      OBVIOUS
    <3>2. sync' = [sync EXCEPT ![y] = d] /\ sync[y].n \in 0..Len(fb)
      BY <1>3, <2>3, <3>1 DEF SyncRead
    <3>3. d.pc \in {"read", "upsert", "insert"} => d.n \in 0..Len(fb)
      BY <3>1, <3>2 DEF Idle
    <3> QED BY <2>1, <3>2, <3>3
  <2>4. CASE SyncUpsert(y)
    <3>1. PICK d : d = [pc |-> "insert", n |-> sync[y].n]
      OBVIOUS
    <3>2. sync' = [sync EXCEPT ![y] = d] /\ sync[y].n \in 0..Len(fb)
      BY <1>3, <2>4, <3>1 DEF SyncUpsert
    <3> QED BY <2>1, <3>1, <3>2
  <2>5. CASE SyncInsert(y) \/ SyncBump(y)
    <3>1. PICK d \in {Idle, [pc |-> "bump"]} : sync' = [sync EXCEPT ![y] = d]
      BY <2>5 DEF SyncInsert, SyncBump
    <3>2. d.pc \notin {"read", "upsert", "insert"}
      BY DEF Idle
    <3> QED BY <2>1, <3>1, <3>2
  <2> QED BY <2>2, <2>3, <2>4, <2>5
<1>5. RowsGrow
  <2>1. CASE rows' = rows
    BY <1>1, <2>1, StillGrows
  <2>2. CASE SyncInsert(y)
    <3>1. Listed(sync[y].n) \in SUBSET DOMAIN fb
      BY <1>1, <1>3, <2>2, FbRead DEF Listed, SyncInsert
    <3> QED BY <1>1, <2>2, <3>1, CopiesAdded DEF SyncInsert
  <2> QED BY <2>1, <2>2 DEF SyncFetch, SyncRead, SyncUpsert, SyncBump
<1>6. \A m \in Mids : persist'[m].pc = "update" => UpdateOk(m)'
    BY <1>1, <1>5, GrowLinks, GrowKept DEF ThreadInv, LinksTrue
<1> QED BY <1>1, <1>2, <1>4, <1>5, <1>6, ReaderKeeps

\* A reply moves on.
LEMMA ReplyStep ==
    ASSUME ThreadInv, RowsKept, NEW s \in Senders, NEW d \in Sends, send' = [send EXCEPT ![s] = d],
           UNCHANGED <<delivered, hook, sync, refresh, persist>>,
           FbTyped', SyncTyped', RefreshTyped', EchoesExpected',
           DOMAIN fb \subseteq DOMAIN fb', \A m \in DOMAIN fb : fb'[m] = fb[m],
           \A m \in DOMAIN fb' \ DOMAIN fb : delivered[m] = 0,
           \A t \in Senders : t # s /\ send[t] # Idle =>
               send[t].text \in locks' /\ (d # Idle => send[t].text # d.text),
           \A t \in Senders, r \in Stored : t # s /\ Owns(t, r) => rows'[r].of = rows[r].of,
           d # Idle => d.text \in locks' /\ "send" \in Does,
           d.pc \in OwnPcs => d.row \in Stored' /\ rows'[d.row].text = d.text,
           d.pc \in {"conversation", "graph"} => rows'[d.row].of = 0,
           d.pc \in {"answer", "taken"} => rows'[d.row].of = d.mid,
           d.pc = "taken" => RowsOfMid(d.mid)' \ {d.row} # {},
           \A r \in Stored' : rows'[r].mid = 0 =>
               \/ d.pc \in OwnPcs /\ d.row = r
               \/ r \in Stored /\ ~ Owns(s, r)
    PROVE  ThreadInv'
<1>1. ThreadTyped /\ SendsTrue /\ PendingOwned /\ LinksTrue /\ DeliveredHandled
    BY DEF ThreadInv
<1>2. SendTyped' /\ HookTyped'
    BY <1>1 DEF ThreadTyped, SendTyped, HookTyped
<1>3. send'[s] = d /\ \A t \in Senders : t # s => send'[t] = send[t]
    BY <1>1 DEF ThreadTyped, SendTyped
<1>4. SendsTrue'
  <2>1. \A t \in Senders : send'[t] # Idle =>
            \A x \in Senders : send'[x] # Idle /\ send'[x].text = send'[t].text => x = t
    BY <1>1, <1>3 DEF SendsTrue
  <2>2. ASSUME NEW t \in Senders, t # s, send[t] # Idle
        PROVE  /\ send[t].text \in locks' /\ "send" \in Does
               /\ send[t].pc \in OwnPcs => send[t].row \in Stored'
                                            /\ rows'[send[t].row].text = send[t].text
               /\ send[t].pc \in {"conversation", "graph"} => rows'[send[t].row].of = 0
               /\ send[t].pc \in {"answer", "taken"} => rows'[send[t].row].of = send[t].mid
               /\ send[t].pc = "taken" => RowsOfMid(send[t].mid)' \ {send'[t].row} # {}
    <3>1. /\ send[t].text \in locks' /\ "send" \in Does
          /\ send[t].pc \in OwnPcs => send[t].row \in Stored
                                       /\ rows[send[t].row].text = send[t].text
          /\ send[t].pc \in {"conversation", "graph"} => rows[send[t].row].of = 0
          /\ send[t].pc \in {"answer", "taken"} => rows[send[t].row].of = send[t].mid
          /\ send[t].pc = "taken" => RowsOfMid(send[t].mid) \ {send[t].row} # {}
      BY <1>1, <2>2 DEF SendsTrue
    <3>2. send[t].pc \in OwnPcs => /\ send[t].row \in Stored'
                                   /\ rows'[send[t].row].text = rows[send[t].row].text
                                   /\ rows'[send[t].row].of = rows[send[t].row].of
      BY <2>2, <3>1 DEF RowsKept, Owns
    <3>3. PICK m, r : m = send[t].mid /\ r = send[t].row
      OBVIOUS
    <3>4. send[t].pc = "taken" => m # 0
      BY <1>1, <3>3, MidsAre DEF ThreadTyped, SendTyped, Sends, Idle
    <3>5. send[t].pc = "taken" => RowsOfMid(m)' \ {r} # {}
      BY <3>1, <3>3, <3>4, GrowMids
    <3>6. send[t].pc = "taken" => RowsOfMid(send[t].mid)' \ {send'[t].row} # {}
      BY <1>3, <2>2, <3>3, <3>5 DEF RowsOfMid
    <3> QED BY <3>1, <3>2, <3>6 DEF OwnPcs
  <2>3. d.pc = "taken" => RowsOfMid(send[s].mid)' \ {send'[s].row} # {}
    <3>1. PICK m, r : m = d.mid /\ r = d.row
      OBVIOUS
    <3>2. d.pc = "taken" => RowsOfMid(m)' \ {r} # {}
      BY <3>1 DEF RowsOfMid
    <3> QED BY <1>3, <3>1, <3>2 DEF RowsOfMid
  <2>4. ASSUME NEW t \in Senders, send'[t] # Idle
        PROVE  /\ send'[t].text \in locks' /\ "send" \in Does
               /\ send'[t].pc \in OwnPcs => send'[t].row \in Stored'
                                             /\ rows'[send'[t].row].text = send'[t].text
               /\ send'[t].pc \in {"conversation", "graph"} => rows'[send'[t].row].of = 0
               /\ send'[t].pc \in {"answer", "taken"} => rows'[send'[t].row].of = send'[t].mid
               /\ send'[t].pc = "taken" => RowsOfMid(send[t].mid)' \ {send'[t].row} # {}
    <3>1. CASE t = s
      BY <1>3, <2>3, <2>4, <3>1
    <3>2. CASE t # s
      BY <1>3, <2>2, <2>4, <3>2
    <3> QED BY <3>1, <3>2
  <2> QED BY <2>1, <2>4 DEF SendsTrue
<1>5. PendingOwned'
  <2> SUFFICES ASSUME NEW r \in Stored', rows'[r].mid = 0
               PROVE  \E t \in Senders : send'[t].pc \in OwnPcs /\ send'[t].row = r
    BY DEF PendingOwned, Owns
  <2>1. CASE d.pc \in OwnPcs /\ d.row = r
    BY <1>3, <2>1
  <2>2. CASE r \in Stored /\ ~ Owns(s, r)
    <3>1. rows[r].mid = 0
      BY <2>2 DEF RowsKept
    <3>2. PICK t \in Senders : Owns(t, r)
      BY <1>1, <2>2, <3>1 DEF PendingOwned
    <3> QED BY <1>3, <2>2, <3>2 DEF Owns
  <2> QED BY <2>1, <2>2
<1>6. LinksTrue'
  <2>1. ASSUME NEW h \in Hooks, hook[h].pc = "link" PROVE LinkOk(hook[h])'
    <3>1. PICK e : e = hook[h]
      OBVIOUS
    <3>2. LinkOk(e) /\ e.m # 0
      BY <1>1, <2>1, <3>1, FbRead DEF LinksTrue, Idle, ThreadTyped
    <3>3. LinkOk(e)'
      BY <3>2, GrowLinks
    <3> QED BY <3>1, <3>3 DEF LinkOk, RowsOfMid
  <2>2. \A h \in Hooks : /\ hook[h] # Idle => hook[h].m \in DOMAIN fb'
                         /\ hook[h].pc = "echo" => fb'[hook[h].m].from = "page"
    BY <1>1 DEF LinksTrue, Idle
  <2>3. \A m \in Mids : persist[m].pc = "update" => UpdateOk(m)'
    BY GrowLinks DEF LinksTrue
  <2> QED BY <2>1, <2>2, <2>3 DEF LinksTrue
<1>7. DeliveredHandled'
  <2>1. \A m \in DOMAIN fb : RowsOfMid(m) # {} => RowsOfMid(m)' # {}
    BY <1>1, GrowMids, FbRead DEF ThreadTyped
  <2>2. \A m \in DOMAIN fb' : delivered[m] > 0 => m \in DOMAIN fb
    OBVIOUS
  <2> QED BY <1>1, <2>1, <2>2 DEF DeliveredHandled
<1> QED BY <1>2, <1>4, <1>5, <1>6, <1>7 DEF ThreadInv, ThreadTyped, RowsKept

\* What the locals of a reply hold.
LEMMA SendRead ==
    ASSUME ThreadInv, NEW s \in Senders, send[s] # Idle
    PROVE  /\ send[s].text \in Texts /\ send[s].pc \in {"create"} \cup OwnPcs
           /\ send[s].pc \in OwnPcs => send[s].row \in RowIds
           /\ send[s].pc \in {"conversation", "graph"} =>
                 send[s] = [pc |-> send[s].pc, text |-> send[s].text, row |-> send[s].row]
           /\ send[s].pc \in {"answer", "taken"} =>
                 /\ send[s].mid \in Mids /\ send[s].mid # 0
                 /\ send[s] = [pc |-> send[s].pc, text |-> send[s].text, row |-> send[s].row,
                               mid |-> send[s].mid]
<1>1. send[s] \in Sends
    BY DEF ThreadInv, ThreadTyped, SendTyped
<1>2. CASE send[s] \in [pc : {"create"}, text : Texts]
    BY <1>2 DEF OwnPcs
<1>3. CASE send[s] \in [pc : {"conversation", "graph"}, text : Texts, row : RowIds]
    BY <1>3 DEF OwnPcs
<1>4. CASE send[s] \in [pc : {"answer", "taken"}, text : Texts, row : RowIds, mid : Mids]
    BY <1>4, MidsAre DEF OwnPcs
<1> QED BY <1>1, <1>2, <1>3, <1>4 DEF Sends

\* What a step of a reply takes for granted of the rest.
LEMMA ReplyOthers ==
    ASSUME ThreadInv
    PROVE  /\ FbTyped /\ RowsTyped /\ RowsTrue /\ OneRowOfMid /\ SendsTrue
           /\ UNCHANGED <<delivered, fb>> => FbTyped'
           /\ UNCHANGED <<sync, fb>> => SyncTyped'
           /\ UNCHANGED <<refresh, persist, fb>> => RefreshTyped'
           /\ UNCHANGED <<rows, fb>> => RowsKept /\ Stored' = Stored
<1>1. UNCHANGED <<rows, fb>> => RowsKept
    BY StillGrows, GrowKept DEF ThreadInv, ThreadTyped
<1> QED BY <1>1 DEF ThreadInv, ThreadTyped, FbTyped, SyncTyped, RefreshTyped, Stored

\* A reply begins when no reply with its text is under way.
LEMMA SendStartKeeps ==
    ASSUME ThreadInv, Calm, NEW s \in Senders, NEW text \in Texts \cup {Media}, SendStart(s, text)
    PROVE  ThreadInv'
<1>1. /\ send[s] = Idle /\ text \in Texts /\ text \notin locks /\ "send" \in Does
      /\ locks' = locks \cup {text}
      /\ UNCHANGED <<fb, delivered, rows, hook, sync, refresh, persist>>
    BY DEF SendStart, ReplyElse, Calm, Media
<1>2. PICK d : d = [pc |-> "create", text |-> text]
    OBVIOUS
<1>3. send' = [send EXCEPT ![s] = d] /\ d \in Sends /\ d.pc \notin OwnPcs /\ d.text = text
      /\ d.pc = "create"
    BY <1>1, <1>2 DEF SendStart, Sends, OwnPcs
<1>4. EchoesExpected'
    BY <1>1, <1>3, ReplyOthers, GrowEchoes DEF ThreadInv, ThreadTyped, SendTyped, Idle
<1>5. \A t \in Senders : t # s /\ send[t] # Idle => send[t].text \in locks' /\ send[t].text # text
    BY <1>1 DEF ThreadInv, SendsTrue
<1>6. ~ Owns(s, s) /\ \A r : ~ Owns(s, r)
    BY <1>1 DEF Owns, OwnPcs, Idle
<1>7. \A r \in Stored' : r \in Stored
    BY <1>1, ReplyOthers
<1> QED BY <1>1, <1>3, <1>4, <1>5, <1>6, <1>7, ReplyOthers, ReplyStep DEF OwnPcs

\* A lock runs out when the reply it was for is over.
LEMMA LockEndsKeeps ==
    ASSUME ThreadInv, NEW text \in Texts, LockEnds(text)
    PROVE  ThreadInv'
<1>1. /\ locks' = locks \ {text} /\ \A s \in Senders : send[s] # Idle => send[s].text # text
      /\ UNCHANGED <<fb, delivered, rows, send, hook, sync, refresh, persist>>
    BY DEF LockEnds, ReplyElse
<1>2. SendsTrue'
    BY <1>1 DEF ThreadInv, SendsTrue, RowsOfMid, Stored
<1>3. ThreadTyped'
    BY <1>1 DEF ThreadInv, ThreadTyped, FbTyped, RowsTyped, HookTyped, SendTyped, SyncTyped,
       RefreshTyped, Stored, Unused
<1>4. RowsTrue' /\ OneRowOfMid' /\ PendingOwned' /\ EchoesExpected' /\ DeliveredHandled'
    BY <1>1 DEF ThreadInv, RowsTrue, OneRowOfMid, PendingOwned, EchoesExpected, DeliveredHandled,
       RowsOfMid, Stored, Owns
<1>5. LinksTrue'
    BY <1>1 DEF ThreadInv, LinksTrue, LinkOk, UpdateOk, RowsOfMid, Stored
<1> QED BY <1>2, <1>3, <1>4, <1>5 DEF ThreadInv

\* A reply asks for its conversation.
LEMMA ConversationKeeps ==
    ASSUME ThreadInv, NEW s \in Senders, ReplyConversation(s)
    PROVE  ThreadInv'
<1>1. /\ send[s].pc = "conversation" /\ send' = [send EXCEPT ![s] = [send[s] EXCEPT !.pc = "graph"]]
      /\ UNCHANGED <<fb, delivered, rows, locks, hook, sync, refresh, persist>> /\ send[s] # Idle
    BY DEF ReplyConversation, ReplyElse, Idle
<1>2. PICK d : d = [pc |-> "graph", text |-> send[s].text, row |-> send[s].row]
    OBVIOUS
<1>3. send[s] = [pc |-> "conversation", text |-> send[s].text, row |-> send[s].row]
    BY <1>1, SendRead
<1>4. [send[s] EXCEPT !.pc = "graph"] = d
    BY <1>2, <1>3
<1>5. /\ send' = [send EXCEPT ![s] = d] /\ d \in Sends
      /\ d.pc = "graph" /\ d.text = send[s].text /\ d.row = send[s].row
    BY <1>1, <1>2, <1>4, SendRead DEF Sends, OwnPcs
<1>6. EchoesExpected'
    BY <1>1, <1>5, ReplyOthers, GrowEchoes DEF ThreadInv, ThreadTyped, SendTyped
<1>7. /\ \A t \in Senders : t # s /\ send[t] # Idle => send[t].text \in locks'
        /\ send[t].text # d.text
      /\ d.text \in locks' /\ "send" \in Does
      /\ d.row \in Stored /\ rows[d.row].text = d.text /\ rows[d.row].of = 0
    BY <1>1, <1>5, ReplyOthers DEF SendsTrue, OwnPcs
<1>8. \A r : Owns(s, r) => d.row = r
    BY <1>5 DEF Owns
<1> QED BY ZenonT(60), <1>1, <1>5, <1>6, <1>7, <1>8, ReplyOthers, ReplyStep DEF OwnPcs

\* A reply stores its row, still without a mid.
LEMMA CreateKeeps ==
    ASSUME ThreadInv, NEW s \in Senders, CreatePending(s)
    PROVE  ThreadInv'
<1>1. /\ send[s].pc = "create" /\ Unused # {} /\ send[s] # Idle
      /\ UNCHANGED <<fb, delivered, locks, hook, sync, refresh, persist>>
    BY DEF CreatePending, ReplyElse, Idle
<1>2. PICK row : row = [state |-> "row", mid |-> 0, from |-> "staff", text |-> send[s].text,
                        at |-> Now, status |-> "pending", of |-> 0]
    OBVIOUS
<1>3. PICK k \in 1..MaxRows : Unused = k..MaxRows /\ NextRow = k /\ Unused \ {k} = (k + 1)..MaxRows
    BY <1>1, NextIs, ReplyOthers
<1>4. PICK d : d = [pc |-> "conversation", text |-> send[s].text, row |-> k]
    OBVIOUS
<1>5. /\ send' = [send EXCEPT ![s] = d] /\ d \in Sends
      /\ d.pc = "conversation" /\ d.text = send[s].text /\ d.row = k
    BY <1>1, <1>3, <1>4, SendRead DEF Sends, CreatePending, RowIds
<1>6. /\ rows' = [rows EXCEPT ![k] = row] /\ k \in RowIds /\ rows[k] = NoRow /\ k \notin Stored
    <2>1. k \in Unused /\ k \in RowIds
      BY <1>3 DEF RowIds
    <2> QED BY <1>2, <1>3, <2>1, StoredTyped, ReplyOthers DEF CreatePending, Stored, NoRow
<1>7. row \in Rows /\ row.state = "row" /\ row.mid = 0 /\ row.of = 0 /\ row.from = "staff"
      /\ row.text = send[s].text /\ row.at = 2 * Len(fb) + 1 /\ row # NoRow
  <2>1. send[s].text \in Texts
    BY <1>1, SendRead
  <2>2. Now = 2 * Len(fb) + 1 /\ Now \in Int
    BY FbRead, ReplyOthers DEF Now
  <2> QED BY <1>2, <2>1, <2>2 DEF Rows, NoRow
<1>8. /\ rows' = [r \in RowIds |-> rows'[r]]
      /\ \A r \in RowIds : rows'[r] = IF r = k THEN row ELSE rows[r]
    BY <1>6, ReplyOthers DEF RowsTyped
<1>9. Stored' = Stored \cup {k} /\ Unused' = Unused \ {k}
    BY <1>6, <1>7, <1>8 DEF Stored, Unused
<1>10. RowsKept
  <2>1. RowsTyped'
    <3>1. MaxRows \in Nat
      BY InboxConstants DEF InboxConstants
    <3>2. k + 1 \in 1..(MaxRows + 1)
      BY <1>3, <3>1
    <3> QED BY <1>3, <1>7, <1>8, <1>9, <3>2, ReplyOthers DEF RowsTyped
  <2>2. Len(fb) \in Nat
    BY FbRead, ReplyOthers
  <2>3. RowsTrue'
    <3>1. "send" \in Does
      BY <1>1, ReplyOthers DEF SendsTrue
    <3> QED BY <1>1, <1>6, <1>7, <1>8, <1>9, <2>2, <3>1, ReplyOthers DEF RowsTrue, Stored
  <2>4. OneRowOfMid'
    BY <1>6, <1>7, <1>8, <1>9, ReplyOthers DEF OneRowOfMid, Stored
  <2>5. \A r \in RowIds : rows[r] = DeletedRow => rows'[r] = DeletedRow
    BY <1>6, <1>8 DEF NoRow, DeletedRow
  <2>6. \A r \in Stored : r \in Stored' /\ rows'[r] = rows[r]
    BY <1>6, <1>8, <1>9 DEF Stored
  <2> QED BY <2>1, <2>3, <2>4, <2>5, <2>6 DEF RowsKept
<1>11. EchoesExpected'
    BY <1>1, <1>5, <1>10, GrowEchoes DEF ThreadInv, ThreadTyped, SendTyped
<1>12. /\ \A t \in Senders : t # s /\ send[t] # Idle => send[t].text \in locks'
         /\ send[t].text # d.text
       /\ d.text \in locks' /\ "send" \in Does
    BY <1>1, <1>5, ReplyOthers DEF SendsTrue
<1>13. \A r : ~ Owns(s, r)
    BY <1>1 DEF Owns, OwnPcs
<1>14. /\ d.row \in Stored' /\ rows'[d.row].text = d.text /\ rows'[d.row].of = 0
       /\ \A r \in Stored : rows'[r].of = rows[r].of
       /\ \A r \in Stored' : r = d.row \/ r \in Stored
    BY <1>5, <1>6, <1>7, <1>8, <1>9 DEF Stored
<1> QED BY <1>1, <1>5, <1>10, <1>11, <1>12, <1>13, <1>14, ReplyOthers, ReplyStep DEF OwnPcs

\* Facebook takes a reply: the row it came from is that of the message now.
LEMMA AcceptedKeeps ==
    ASSUME ThreadInv, Calm, NEW s \in Senders, Accepted(s)
    PROVE  ThreadInv'
<1>1. /\ send[s].pc = "graph" /\ send[s] # Idle /\ Len(fb) < MaxMsgs
      /\ UNCHANGED <<delivered, locks, hook, sync, refresh, persist>>
    BY DEF Accepted, ReplyElse, Idle
<1>2. PICK m, r, text : m = Len(fb) + 1 /\ r = send[s].row /\ text = send[s].text
    OBVIOUS
<1>3. PICK p : p = [from |-> "page", text |-> text]
    OBVIOUS
<1>4. r \in Stored /\ rows[r].text = text /\ rows[r].of = 0 /\ text \in locks /\ "send" \in Does
    BY <1>1, <1>2, ReplyOthers DEF SendsTrue, OwnPcs
<1>5. r \in RowIds /\ text \in Texts /\ rows[r] \in Rows
    BY <1>1, <1>2, <1>4, SendRead, StoredTyped, ReplyOthers DEF OwnPcs
<1>6. p \in Posts /\ fb' = Append(fb, p)
    BY <1>2, <1>3, <1>5 DEF Posts, Accepted
<1>7. /\ FbTyped' /\ DOMAIN fb' = DOMAIN fb \cup {m} /\ \A n \in DOMAIN fb : fb'[n] = fb[n]
      /\ fb'[m] = p /\ m \in Mids /\ m \notin DOMAIN fb /\ delivered[m] = 0 /\ m # 0
    BY <1>1, <1>2, <1>6, FbGrows, ReplyOthers, MidsAre
<1>8. SyncTyped' /\ RefreshTyped'
    BY <1>1, <1>6, LongerThread
<1>9. PICK d : d = [pc |-> "answer", text |-> text, row |-> r, mid |-> m]
    OBVIOUS
<1>10. /\ send' = [send EXCEPT ![s] = d] /\ d \in Sends
       /\ d.pc = "answer" /\ d.text = text /\ d.row = r /\ d.mid = m
    BY <1>2, <1>5, <1>7, <1>9 DEF Sends, Accepted
<1>11. /\ rows' = [q \in RowIds |-> rows'[q]]
       /\ \A q \in RowIds : rows'[q] = IF q = r THEN [rows[r] EXCEPT !.of = m] ELSE rows[q]
    BY <1>2, <1>4, <1>5, ReplyOthers DEF Accepted, RowsTyped
<1>12. /\ rows'[r] \in Rows /\ rows'[r].state = "row" /\ rows'[r].of = m /\ rows'[r].text = text
       /\ rows'[r].mid = 0 /\ rows'[r].from = "staff" /\ rows'[r].at = rows[r].at /\ rows[r].mid = 0
  <2>1. rows'[r] = [rows[r] EXCEPT !.of = m]
    BY <1>5, <1>11
  <2>2. rows[r].mid = 0 /\ rows[r].from = "staff"
    BY <1>4, ReplyOthers DEF RowsTrue
  <2> QED BY <1>4, <1>5, <1>7, <2>1, <2>2 DEF Rows
<1>13. Stored' = Stored /\ Unused' = Unused
    BY <1>4, <1>11, <1>12 DEF Stored, Unused
<1>14. \A q \in Stored : q # r => rows'[q] = rows[q]
    BY <1>11 DEF Stored
<1>15. RowsKept
  <2>1. RowsTyped'
    BY <1>11, <1>12, <1>13, ReplyOthers DEF RowsTyped
  <2>2. RowsTrue'
    <3> SUFFICES ASSUME NEW q \in Stored
                 PROVE  /\ rows'[q].mid \in {0, rows'[q].of}
                        /\ rows'[q].of # 0 => /\ rows'[q].of \in DOMAIN fb'
                                              /\ rows'[q].text = fb'[rows'[q].of].text
                        /\ rows'[q].mid = 0 => /\ rows'[q].from = "staff"
                                               /\ rows'[q].of # 0 => fb'[rows'[q].of].from = "page"
                        /\ ("send" \in Does /\ \E j \in Nat : rows'[q].at = 2 * j + 1)
                           \/ (rows'[q].mid # 0 /\ rows'[q].at = 2 * rows'[q].mid)
      BY <1>13 DEF RowsTrue
    <3>1. CASE q = r
      <4>1. "send" \in Does /\ \E j \in Nat : rows[r].at = 2 * j + 1
        BY <1>4, <1>12, ReplyOthers DEF RowsTrue
      <4> QED BY <1>3, <1>7, <1>12, <3>1, <4>1
    <3>2. CASE q # r
      BY <1>7, <1>14, <3>2, ReplyOthers DEF RowsTrue
    <3> QED BY <3>1, <3>2
  <2>3. OneRowOfMid'
    BY <1>12, <1>13, <1>14, ReplyOthers DEF OneRowOfMid
  <2>4. \A q \in RowIds : rows[q] = DeletedRow => rows'[q] = DeletedRow
    BY <1>4, <1>11 DEF Stored, DeletedRow
  <2>5. \A q \in Stored : /\ q \in Stored' /\ rows'[q].text = rows[q].text
                          /\ rows[q].of \in {0, rows'[q].of} /\ rows[q].mid \in {0, rows'[q].mid}
    BY <1>4, <1>12, <1>13, <1>14
  <2> QED BY <2>1, <2>2, <2>3, <2>4, <2>5 DEF RowsKept
<1>16. EchoesExpected'
  <2> SUFFICES ASSUME "page" \notin Does, NEW n \in DOMAIN fb', fb'[n].from = "page"
               PROVE  \/ RowsOfMid(n)' # {}
                      \/ \E t \in Senders : send'[t].pc = "answer" /\ send'[t].mid = n
    BY DEF EchoesExpected
  <2>1. send'[s] = d /\ \A t \in Senders : t # s => send'[t] = send[t]
    BY <1>10 DEF ThreadInv, ThreadTyped, SendTyped
  <2>2. CASE n = m
    BY <1>10, <2>1, <2>2
  <2>3. CASE n # m
    <3>1. n \in DOMAIN fb /\ fb[n].from = "page" /\ n # 0
      BY <1>7, <2>3, FbRead, ReplyOthers
    <3>2. RowsOfMid(n) # {} \/ \E t \in Senders : send[t].pc = "answer" /\ send[t].mid = n
      BY <3>1 DEF ThreadInv, EchoesExpected
    <3> QED BY <1>1, <1>15, <2>1, <3>1, <3>2, GrowMids
  <2> QED BY <2>2, <2>3
<1>17. \A t \in Senders : t # s /\ send[t] # Idle => send[t].text \in locks'
         /\ send[t].text # d.text
    BY <1>1, <1>2, <1>10, ReplyOthers DEF SendsTrue
<1>18. \A t \in Senders, q \in Stored : t # s /\ Owns(t, q) => rows'[q].of = rows[q].of
  <2>1. ASSUME NEW t \in Senders, t # s, Owns(t, r) PROVE FALSE
    <3>1. send[t] # Idle /\ rows[r].text = send[t].text
      BY <2>1, ReplyOthers DEF SendsTrue, Owns, OwnPcs, Idle
    <3> QED BY ZenonT(60), <1>1, <1>2, <1>4, <2>1, <3>1, ReplyOthers DEF SendsTrue
  <2> QED BY <1>14, <2>1
<1>19. Owns(s, r) /\ \A q : Owns(s, q) => q = r
    BY <1>1, <1>2 DEF Owns, OwnPcs
<1> QED BY ZenonT(60), <1>1, <1>4, <1>7, <1>8, <1>10, <1>12, <1>13, <1>15, <1>16, <1>17, <1>18,
           <1>19, ReplyStep DEF OwnPcs

\* Graph's answer: the row takes the mid, or another row has it by now.
LEMMA AnswerKeeps ==
    ASSUME ThreadInv, Calm, NEW s \in Senders, Answer(s)
    PROVE  ThreadInv'
<1>1. /\ send[s].pc = "answer" /\ send[s] # Idle
      /\ UNCHANGED <<fb, delivered, locks, hook, sync, refresh, persist>>
    BY DEF Answer, ReplyElse, Idle
<1>2. PICK m, r, text : m = send[s].mid /\ r = send[s].row /\ text = send[s].text
    OBVIOUS
<1>3. /\ r \in Stored /\ rows[r].of = m /\ rows[r].text = text /\ text \in locks /\ "send" \in Does
      /\ r \in RowIds /\ m \in Mids /\ m # 0 /\ text \in Texts /\ text # Media
      /\ send[s] = [pc |-> "answer", text |-> text, row |-> r, mid |-> m]
  <2>1. r \in Stored /\ rows[r].of = m /\ rows[r].text = text /\ text \in locks /\ "send" \in Does
    BY <1>1, <1>2, ReplyOthers DEF SendsTrue, OwnPcs
  <2>2. /\ r \in RowIds /\ m \in Mids /\ m # 0 /\ text \in Texts
        /\ send[s] = [pc |-> "answer", text |-> text, row |-> r, mid |-> m]
    BY <1>1, <1>2, SendRead DEF OwnPcs
  <2>3. text # Media
    BY <2>2, InboxConstants DEF Media, InboxConstants
  <2> QED BY <2>1, <2>2, <2>3
<1>4. m \in DOMAIN fb
    BY <1>3, ReplyOthers DEF RowsTrue
<1>5. \A t \in Senders : t # s /\ send[t] # Idle => send[t].text \in locks' /\ send[t].text # text
    BY <1>1, <1>2, ReplyOthers DEF SendsTrue
<1>6. Owns(s, r) /\ \A q : Owns(s, q) => q = r
    BY <1>1, <1>2 DEF Owns, OwnPcs
<1>7. ASSUME RowsKept, \A t \in Senders : t # s => send'[t] = send[t],
             \E x \in Stored' : rows'[x].mid = m
      PROVE  EchoesExpected'
  <2> SUFFICES ASSUME "page" \notin Does, NEW n \in DOMAIN fb, fb[n].from = "page"
               PROVE  \/ RowsOfMid(n)' # {}
                      \/ \E t \in Senders : send'[t].pc = "answer" /\ send'[t].mid = n
    BY <1>1 DEF EchoesExpected
  <2>1. n = m => RowsOfMid(n)' # {}
    BY <1>7 DEF RowsOfMid
  <2>2. n # 0
    BY FbRead, ReplyOthers
  <2>3. RowsOfMid(n) # {} \/ \E t \in Senders : send[t].pc = "answer" /\ send[t].mid = n
    BY DEF ThreadInv, EchoesExpected
  <2> QED BY <1>2, <1>7, <2>1, <2>2, <2>3, GrowMids
<1>8. CASE RowsOfMid(m) \ {r} = {}
  <2>1. rows' = [rows EXCEPT ![r] = [@ EXCEPT !.mid = m, !.status = "sent"]]
          /\ send' = [send EXCEPT ![s] = Idle]
    BY <1>2, <1>3, <1>8 DEF Answer
  <2>2. RowsGrow /\ RowsOfMid(m)' # {}
    BY <1>1, <1>3, <1>4, <1>8, <2>1, ReplyOthers, MidWritten
  <2>3. RowsKept
    BY <2>2, GrowKept
  <2>4. rows'[r].mid = m
    BY <1>3, <2>1, ReplyOthers, StoredTyped DEF RowsTyped, Rows
  <2>5. /\ \A q \in Stored : rows'[q].of = rows[q].of
        /\ \A q \in Stored' : rows'[q].mid = 0 => q \in Stored /\ ~ Owns(s, q)
    BY <1>3, <1>6, <2>2, <2>4 DEF RowsGrow
  <2>6. PICK d : d = Idle
    OBVIOUS
  <2>7. d \in Sends /\ d.pc = "idle" /\ send' = [send EXCEPT ![s] = d]
    BY <2>1, <2>6 DEF Sends, Idle
  <2>8. EchoesExpected'
    <3>1. r \in Stored'
      BY <1>3, <2>3 DEF RowsKept
    <3>2. \A t \in Senders : t # s => send'[t] = send[t]
      BY <2>1 DEF ThreadInv, ThreadTyped, SendTyped
    <3> QED BY <1>7, <2>3, <2>4, <3>1, <3>2
  <2> QED BY <1>1, <1>5, <2>3, <2>5, <2>6, <2>7, <2>8, ReplyOthers, ReplyStep DEF OwnPcs
<1>9. CASE RowsOfMid(m) \ {r} # {}
  <2>1. rows' = rows /\ send' = [send EXCEPT ![s] = [send[s] EXCEPT !.pc = "taken"]]
    BY <1>2, <1>3, <1>9 DEF Answer
  <2>2. PICK d : d = [pc |-> "taken", text |-> text, row |-> r, mid |-> m]
    OBVIOUS
  <2>3. [send[s] EXCEPT !.pc = "taken"] = d
    BY <1>3, <2>2
  <2>4. /\ send' = [send EXCEPT ![s] = d] /\ d \in Sends
        /\ d.pc = "taken" /\ d.text = text /\ d.row = r /\ d.mid = m
    <3>1. d \in [pc : {"answer", "taken"}, text : Texts, row : RowIds, mid : Mids]
      BY <1>3, <2>2
    <3>2. d \in Sends
      BY <3>1 DEF Sends
    <3>3. send' = [send EXCEPT ![s] = d]
      BY <2>1, <2>3
    <3> QED BY <2>2, <3>2, <3>3
  <2>5. RowsKept /\ Stored' = Stored /\ RowsOfMid(m)' = RowsOfMid(m)
    BY <1>1, <2>1, ReplyOthers DEF RowsOfMid
  <2>6. RowsOfMid(d.mid)' \ {d.row} # {}
    BY <1>9, <2>1, <2>4, <2>5 DEF RowsOfMid
  <2>7. EchoesExpected'
    <3>1. \E x \in Stored' : rows'[x].mid = m
      BY <1>9, <2>1, <2>5 DEF RowsOfMid
    <3>2. \A t \in Senders : t # s => send'[t] = send[t]
      BY <2>4 DEF ThreadInv, ThreadTyped, SendTyped
    <3> QED BY <1>7, <2>5, <3>1, <3>2
  <2>8. \A q \in Stored : rows'[q] = rows[q]
    BY <2>1
  <2>9. /\ d.pc \in OwnPcs /\ d.row \in Stored' /\ rows'[d.row].text = d.text
        /\ rows'[d.row].of = d.mid /\ d.text \in locks'
        /\ \A q \in Stored' : rows'[q].mid = 0 => d.row = q \/ (q \in Stored /\ ~ Owns(s, q))
    BY <1>1, <1>3, <1>6, <2>4, <2>5, <2>8 DEF OwnPcs
  <2> QED BY ZenonT(60), <1>1, <1>3, <1>5, <2>4, <2>5, <2>6, <2>7, <2>8, <2>9, ReplyOthers,
             ReplyStep
<1> QED BY <1>8, <1>9

\* The row of a reply goes when its message has another one.
LEMMA DropKeeps ==
    ASSUME ThreadInv, NEW s \in Senders, DropPending(s)
    PROVE  ThreadInv'
<1>1. /\ send[s].pc = "taken" /\ send[s] # Idle
      /\ UNCHANGED <<fb, delivered, locks, hook, sync, refresh, persist>>
    BY DEF DropPending, ReplyElse, Idle
<1>2. PICK m, r : m = send[s].mid /\ r = send[s].row
    OBVIOUS
<1>3. /\ r \in Stored /\ rows[r].of = m /\ r \in RowIds /\ m \in Mids /\ m # 0
        /\ RowsOfMid(m) \ {r} # {}
      /\ rows[r].text = send[s].text
    BY <1>1, <1>2, SendRead, ReplyOthers DEF SendsTrue, OwnPcs
<1>4. PICK q \in Stored : q # r /\ rows[q].mid = m
    BY <1>3 DEF RowsOfMid
<1>5. rows[r].mid = 0
    BY <1>3, <1>4, ReplyOthers DEF RowsTrue, OneRowOfMid
<1>6. rows' = [rows EXCEPT ![r] = DeletedRow] /\ send' = [send EXCEPT ![s] = Idle]
    BY <1>2, <1>3 DEF DropPending
<1>7. /\ rows' = [x \in RowIds |-> rows'[x]]
      /\ \A x \in RowIds : rows'[x] = IF x = r THEN DeletedRow ELSE rows[x]
    BY <1>3, <1>6, ReplyOthers DEF RowsTyped
<1>8. Stored' = Stored \ {r} /\ Unused' = Unused
    BY <1>3, <1>7 DEF Stored, Unused, DeletedRow
<1>9. \A x \in Stored' : x \in Stored /\ x # r /\ rows'[x] = rows[x]
    BY <1>7, <1>8 DEF Stored
<1>10. \A n : n # 0 => RowsOfMid(n)' = RowsOfMid(n)
    BY <1>5, <1>8, <1>9 DEF RowsOfMid
<1>11. send'[s] = Idle /\ \A t \in Senders : t # s => send'[t] = send[t]
    BY <1>6 DEF ThreadInv, ThreadTyped, SendTyped
<1>12. \A t \in Senders : t # s => ~ Owns(t, r)
    BY <1>1, <1>3, ReplyOthers DEF SendsTrue, Owns, OwnPcs, Idle
<1>13. RowsTyped' /\ RowsTrue' /\ OneRowOfMid'
  <2>1. RowsTyped'
    BY <1>7, <1>8, ReplyOthers DEF RowsTyped
  <2>2. RowsTrue'
    BY <1>1, <1>9, ReplyOthers DEF RowsTrue
  <2>3. OneRowOfMid'
    BY <1>9, ReplyOthers DEF OneRowOfMid
  <2> QED BY <2>1, <2>2, <2>3
<1>14. SendTyped' /\ HookTyped'
  <2>1. Idle \in Sends
    BY DEF Sends
  <2> QED BY <1>1, <1>6, <2>1 DEF ThreadInv, ThreadTyped, SendTyped, HookTyped
<1>15. SendsTrue'
  <2> SUFFICES ASSUME NEW t \in Senders, send'[t] # Idle
               PROVE  /\ send'[t].text \in locks /\ "send" \in Does
                      /\ \A x \in Senders :
                           send'[x] # Idle /\ send'[x].text = send'[t].text => x = t
                      /\ send'[t].pc \in OwnPcs => /\ send'[t].row \in Stored'
                                                   /\ rows'[send'[t].row].text = send'[t].text
                      /\ send'[t].pc \in {"conversation", "graph"} => rows'[send'[t].row].of = 0
                      /\ send'[t].pc \in {"answer", "taken"} =>
                           rows'[send'[t].row].of = send'[t].mid
                      /\ send'[t].pc = "taken" => RowsOfMid(send[t].mid)' \ {send'[t].row} # {}
    BY <1>1 DEF SendsTrue
  <2>1. t # s /\ send'[t] = send[t] /\ send[t] # Idle
    BY <1>11
  <2>2. /\ send[t].text \in locks /\ "send" \in Does
        /\ \A x \in Senders : send[x] # Idle /\ send[x].text = send[t].text => x = t
        /\ send[t].pc \in OwnPcs => send[t].row \in Stored /\ rows[send[t].row].text = send[t].text
        /\ send[t].pc \in {"conversation", "graph"} => rows[send[t].row].of = 0
        /\ send[t].pc \in {"answer", "taken"} => rows[send[t].row].of = send[t].mid
        /\ send[t].pc = "taken" => RowsOfMid(send[t].mid) \ {send[t].row} # {}
    BY <2>1, ReplyOthers DEF SendsTrue
  <2>3. send[t].pc \in OwnPcs => /\ send[t].row \in Stored'
                                 /\ rows'[send[t].row] = rows[send[t].row]
    BY <1>8, <1>9, <1>12, <2>1, <2>2 DEF Owns
  <2>4. PICK n, x : n = send[t].mid /\ x = send[t].row
    OBVIOUS
  <2>5. send[t].pc = "taken" => n # 0
    BY <2>1, <2>4, SendRead
  <2>6. send[t].pc = "taken" => RowsOfMid(n)' \ {x} # {}
    BY <1>10, <2>2, <2>4, <2>5
  <2>7. send[t].pc = "taken" => RowsOfMid(send[t].mid)' \ {send'[t].row} # {}
    BY <2>1, <2>4, <2>6 DEF RowsOfMid
  <2>8. \A u \in Senders : send'[u] # Idle /\ send'[u].text = send'[t].text => u = t
    BY <1>11, <2>1, <2>2
  <2> QED BY <2>1, <2>2, <2>3, <2>7, <2>8 DEF OwnPcs
<1>16. PendingOwned'
  <2> SUFFICES ASSUME NEW x \in Stored', rows'[x].mid = 0
               PROVE  \E t \in Senders : send'[t].pc \in OwnPcs /\ send'[t].row = x
    BY DEF PendingOwned, Owns
  <2>1. PICK t \in Senders : Owns(t, x)
    BY <1>9 DEF ThreadInv, PendingOwned
  <2>2. t # s
    BY <1>2, <1>9, <2>1 DEF Owns
  <2> QED BY <1>11, <2>1, <2>2 DEF Owns
<1>17. EchoesExpected'
  <2>1. \A n \in DOMAIN fb : n # 0
    BY FbRead, ReplyOthers
  <2> QED BY <1>1, <1>10, <1>11, <2>1 DEF ThreadInv, EchoesExpected
<1>18. LinksTrue'
  <2>1. ASSUME NEW h \in Hooks, hook[h].pc = "link" PROVE LinkOk(hook[h])'
    <3>1. PICK e : e = hook[h]
      OBVIOUS
    <3>2. LinkOk(e) /\ e.m # 0
      BY <2>1, <3>1, FbRead, ReplyOthers DEF ThreadInv, LinksTrue, Idle
    <3>3. RowsOfMid(e.m)' \ {e.row} # {} \/ (e.row \in Stored' /\ rows'[e.row].of = e.m)
      BY <1>3, <1>8, <1>9, <1>10, <3>2 DEF LinkOk
    <3> QED BY <1>1, <3>1, <3>3 DEF LinkOk, RowsOfMid
  <2>2. ASSUME NEW n \in Mids, persist[n].pc = "update" PROVE UpdateOk(n)'
    <3>1. UpdateOk(n) /\ persist[n].row \in RowIds
      BY <2>2 DEF ThreadInv, LinksTrue, ThreadTyped, RefreshTyped, Idle
    <3> QED BY <1>1, <1>7, <1>8, <3>1 DEF UpdateOk
  <2> QED BY <1>1, <2>1, <2>2 DEF ThreadInv, LinksTrue
<1>19. DeliveredHandled'
  <2>1. \A n \in DOMAIN fb : n # 0
    BY FbRead, ReplyOthers
  <2> QED BY <1>1, <1>10, <2>1 DEF ThreadInv, DeliveredHandled
<1> QED BY <1>1, <1>13, <1>14, <1>15, <1>16, <1>17, <1>18, <1>19, ReplyOthers DEF ThreadInv,
           ThreadTyped

\* What a refresh under way remembers.
LEMMA RefreshRead ==
    ASSUME RefreshTyped
    PROVE  /\ refresh # Idle =>
                 /\ "refresh" \in Does
                 /\ \E p, l : \E n \in 0..Len(fb), S \in SUBSET DOMAIN fb :
                       refresh = [pc |-> p, n |-> n, todo |-> S, last |-> l]
           /\ \A m \in Mids : persist[m] # Idle => m \in DOMAIN fb /\ "refresh" \in Does
<1>1. "refresh" \notin Does => refresh = Idle /\ \A m \in Mids : persist[m] = Idle
    BY DEF RefreshTyped
<1>2. \A m \in Mids : persist[m] # Idle => m \in DOMAIN fb
    BY DEF RefreshTyped
<1>3. \/ refresh = Idle
      \/ \E p, l : \E n \in 0..Len(fb), S \in SUBSET DOMAIN fb :
            refresh = [pc |-> p, n |-> n, todo |-> S, last |-> l]
    BY DEF RefreshTyped
<1> QED BY <1>1, <1>2, <1>3, Zenon

\* The refresh deals with one message.
LEMMA PersistStep ==
    ASSUME ThreadInv, RowsGrow, NEW m \in Mids, persist[m] # Idle,
           NEW d \in {Idle} \cup [pc : {"find", "create"}]
                     \cup [pc : {"update"}, row : RowIds, mid : Mids \cup {0}],
           persist' = [persist EXCEPT ![m] = d],
           d.pc = "update" => d.row \in Stored /\ rows[d.row].of = m,
           UNCHANGED <<fb, delivered, hook, send, locks, sync, refresh>>
    PROVE  ThreadInv'
<1>1. RefreshTyped /\ SyncTyped /\ m \in DOMAIN fb /\ "refresh" \in Does /\ m # 0
    BY MidsAre DEF ThreadInv, ThreadTyped, RefreshTyped
<1>2. \A n \in Mids : persist'[n] = IF n = m THEN d ELSE persist[n]
    BY <1>1 DEF RefreshTyped
<1>3. SyncTyped' /\ RefreshTyped'
    BY <1>1, <1>2 DEF SyncTyped, RefreshTyped
<1>4. ASSUME NEW n \in Mids, persist'[n].pc = "update" PROVE UpdateOk(n)'
  <2>1. CASE n = m
    BY <1>1, <1>2, <1>4, <2>1 DEF UpdateOk, RowsGrow, RowsKept
  <2>2. CASE n # m
    BY <1>2, <1>4, <2>2, GrowLinks, GrowKept DEF ThreadInv, LinksTrue
  <2> QED BY <2>1, <2>2
<1> QED BY <1>3, <1>4, ReaderKeeps

\* Of messages further apart than the window only the own row is near, and a
\* pending reply with the text of a message is the one it came from.
LEMMA PersistFinds ==
    ASSUME ThreadInv, Calm, NEW m \in Mids, persist[m] # Idle, NEW r \in RowsToUpdate(m)
    PROVE  r \in Stored /\ rows[r].of = m
<1>1. m \in DOMAIN fb /\ Window \in {0, 1} /\ "send" \notin Does /\ m # 0 /\ m \in Int
  <2>1. m \in DOMAIN fb /\ "refresh" \in Does
    BY RefreshRead DEF ThreadInv, ThreadTyped
  <2>2. Window < 2 /\ "send" \notin Does
    BY <2>1, Zenon DEF Calm, Apart
  <2>3. Window \in Nat
    BY InboxConstants DEF InboxConstants
  <2> QED BY <2>1, <2>2, <2>3, MidsAre
<1>2. CASE RowsOfMid(m) # {}
  <2>1. r \in RowsOfMid(m)
    BY <1>2 DEF RowsToUpdate
  <2> QED BY <1>1, <2>1 DEF RowsOfMid, ThreadInv, RowsTrue
<1>3. CASE RowsOfMid(m) = {}
  <2>1. NearSentAt(m) = {}
    <3> SUFFICES ASSUME NEW q \in NearSentAt(m) PROVE FALSE
      OBVIOUS
    <3>1. q \in Stored /\ rows[q].at >= 2 * m - Window /\ rows[q].at <= 2 * m + Window
      BY DEF NearSentAt, Oldest
    <3>2. rows[q].at \in Int /\ (rows[q].mid # 0 => rows[q].mid \in Int)
      BY <3>1, StoredTyped DEF ThreadInv, ThreadTyped, Stored, Rows, Mids
    <3>3. rows[q].mid # 0 /\ rows[q].at = 2 * rows[q].mid
      BY <1>1, <3>1 DEF ThreadInv, RowsTrue
    <3>4. rows[q].mid = m
      BY <1>1, <3>1, <3>2, <3>3
    <3> QED BY <1>3, <3>1, <3>4 DEF RowsOfMid
  <2>2. r \in PendingToLink(fb[m].text) /\ fb[m].from = "page"
    BY <1>3, <2>1 DEF RowsToUpdate
  <2> QED BY <1>1, <1>3, <2>2, EchoFound
<1> QED BY <1>2, <1>3

LEMMA PersistKeeps ==
    ASSUME ThreadInv, Calm, NEW m \in Mids, PersistFind(m) \/ PersistUpdate(m) \/ PersistCreate(m)
    PROVE  ThreadInv'
<1>1. /\ persist[m] # Idle /\ persist[m].pc \in {"find", "update", "create"}
      /\ UNCHANGED <<fb, delivered, hook, send, locks, sync>>
    BY DEF PersistFind, PersistUpdate, PersistCreate, SyncElse, Idle
<1>2. /\ m \in DOMAIN fb /\ fb[m].text # Media /\ "refresh" \in Does
      /\ persist[m] \in [pc : {"find", "create"}]
                         \cup [pc : {"update"}, row : RowIds, mid : Mids \cup {0}]
      /\ FbTyped /\ RowsTyped /\ RowsTrue /\ OneRowOfMid
  <2>1. /\ m \in DOMAIN fb /\ "refresh" \in Does
        /\ persist[m] \in [pc : {"find", "create"}]
                         \cup [pc : {"update"}, row : RowIds, mid : Mids \cup {0}]
    BY <1>1 DEF ThreadInv, ThreadTyped, RefreshTyped
  <2> QED BY <2>1, FbRead, ReplyOthers, InboxConstants DEF Media, InboxConstants
<1>3. ASSUME rows' = rows PROVE RowsGrow
    BY <1>1, <1>2, <1>3, StillGrows
<1>4. PICK idle : idle = Idle
    OBVIOUS
<1>5. idle.pc # "update"
    BY <1>4 DEF Idle
<1>6. CASE PersistFind(m)
  <2>1. rows' = rows /\ refresh' = refresh /\ persist[m].pc = "find"
    BY <1>6 DEF PersistFind
  <2>2. persist[m] = [pc |-> "find"]
    BY <1>2, <2>1
  <2>3. CASE \E r \in RowsToUpdate(m) :
                 persist' = [persist EXCEPT ![m] =
                               [pc |-> "update", row |-> r, mid |-> rows[r].mid]]
    <3>1. PICK r \in RowsToUpdate(m) :
                 persist' = [persist EXCEPT ![m] =
                               [pc |-> "update", row |-> r, mid |-> rows[r].mid]]
      BY <2>3
    <3>2. r \in Stored /\ rows[r].of = m
      BY <1>1, PersistFinds
    <3>3. PICK d : d = [pc |-> "update", row |-> r, mid |-> rows[r].mid]
      OBVIOUS
    <3>4. d \in [pc : {"update"}, row : RowIds, mid : Mids \cup {0}]
      BY <1>2, <3>2, <3>3, StoredTyped DEF Stored, Rows
    <3>5. d.row = r
      BY <3>3
    <3> QED BY <1>1, <1>3, <2>1, <3>1, <3>2, <3>3, <3>4, <3>5, PersistStep
  <2>4. CASE persist' = [persist EXCEPT ![m] = [persist[m] EXCEPT !.pc = "create"]]
    <3>1. PICK d : d = [pc |-> "create"]
      OBVIOUS
    <3>2. [persist[m] EXCEPT !.pc = "create"] = d
      BY <2>2, <3>1
    <3>3. d \in [pc : {"find", "create"}] /\ d.pc # "update"
      BY <3>1
    <3>4. persist' = [persist EXCEPT ![m] = d]
      BY <2>4, <3>2
    <3> QED BY <1>1, <1>3, <2>1, <3>3, <3>4, PersistStep
  <2> QED BY <1>6, <2>3, <2>4 DEF PersistFind
<1>7. CASE PersistUpdate(m)
  <2>1. PICK r : r = persist[m].row
    OBVIOUS
  <2>2. /\ refresh' = refresh /\ persist' = [persist EXCEPT ![m] = idle] /\ persist[m].pc = "update"
        /\ r \in Stored => rows[r].of = m
    BY <1>4, <1>7, <2>1 DEF PersistUpdate, ThreadInv, LinksTrue, UpdateOk, Stored, DeletedRow
  <2>3. CASE r \notin Stored
    BY <1>1, <1>3, <1>4, <1>5, <1>7, <2>1, <2>2, <2>3, PersistStep DEF PersistUpdate
  <2>4. CASE r \in Stored
    <3>1. PICK mid : mid = IF persist[m].mid = 0 /\ RowsOfMid(m) \ {r} = {} THEN m ELSE rows[r].mid
      OBVIOUS
    <3>2. rows' = [rows EXCEPT ![r] = [@ EXCEPT !.text = fb[m].text, !.from = RowFor(m).from,
                                                !.mid = mid]]
      BY <1>7, <2>1, <2>4, <3>1 DEF PersistUpdate
    <3>3. r \in RowIds /\ rows[r] \in Rows /\ rows[r].of = m /\ rows[r].text = fb[m].text /\ m # 0
          /\ rows[r].mid \in {0, m} /\ (rows[r].mid = 0 => fb[m].from = "page")
      BY <1>2, <2>2, <2>4, MidsAre, StoredTyped DEF RowsTrue, Stored
    <3>4. mid = rows[r].mid \/ (mid = m /\ RowsOfMid(m) \ {r} = {})
      BY <3>1
    <3>5. PICK side \in {"staff", "customer"} :
             side = RowFor(m).from /\ (fb[m].from = "page" => side = "staff")
      BY DEF RowFor
    <3>6. /\ rows' = [q \in RowIds |-> rows'[q]] /\ \A q \in RowIds : q # r => rows'[q] = rows[q]
          /\ rows'[r] = [rows[r] EXCEPT !.text = fb[m].text, !.from = side, !.mid = mid]
      BY <1>2, <3>2, <3>3, <3>5 DEF RowsTyped
    <3>7. /\ rows'[r] \in Rows /\ rows'[r].of = rows[r].of /\ rows'[r].text = rows[r].text
          /\ rows'[r].at = rows[r].at /\ rows'[r].mid = mid /\ rows'[r].from = side
      BY <3>3, <3>4, <3>6 DEF Rows
    <3>8. rows'[r].mid = 0 => rows'[r].from = "staff"
      BY <3>3, <3>4, <3>5, <3>7
    <3>9. \A q \in RowIds \ Stored : rows'[q] = rows[q]
      BY <2>4, <3>6
    <3>10. \A q \in Stored : q # r => rows'[q].mid = rows[q].mid
      BY <3>6 DEF Stored
    <3>11. \A q \in Stored : /\ rows'[q] \in Rows
                             /\ rows'[q].of = rows[q].of /\ rows'[q].text = rows[q].text
                             /\ rows'[q].at = rows[q].at
                             /\ rows'[q].mid = 0 => rows'[q].from = "staff"
      <4> SUFFICES ASSUME NEW q \in Stored
                   PROVE  /\ rows'[q] \in Rows
                          /\ rows'[q].of = rows[q].of /\ rows'[q].text = rows[q].text
                          /\ rows'[q].at = rows[q].at
                          /\ rows'[q].mid = 0 => rows'[q].from = "staff"
        OBVIOUS
      <4>1. q \in RowIds /\ rows[q] \in Rows
        BY <1>2, StoredTyped DEF Stored
      <4>2. CASE q = r
        BY <3>7, <3>8, <4>2
      <4>3. CASE q # r
        BY <1>2, <3>6, <4>1, <4>3 DEF RowsTrue
      <4> QED BY <4>2, <4>3
    <3>12. rows'[r].mid = rows[r].mid \/ (rows'[r].mid = rows[r].of
             /\ RowsOfMid(rows[r].of) \ {r} = {})
      BY <3>3, <3>4, <3>7
    <3>13. RowsGrow
      BY ZenonT(60), <1>1, <1>2, <3>6, <3>9, <3>10, <3>11, <3>12, RowsWritten
    <3> QED BY <1>1, <1>4, <1>5, <2>2, <3>13, PersistStep
  <2> QED BY <2>3, <2>4
<1>8. CASE PersistCreate(m)
  <2>1. persist' = [persist EXCEPT ![m] = idle]
    BY <1>4, <1>8 DEF PersistCreate
  <2>2. refresh' = refresh
    BY <1>2, <1>8 DEF PersistCreate
  <2>3. RowsGrow
    BY <1>1, <1>2, <1>3, <1>8, OneAdded DEF PersistCreate
  <2> QED BY <1>1, <1>4, <1>5, <2>1, <2>2, <2>3, PersistStep
<1> QED BY <1>6, <1>7, <1>8

\* Every step of a refresh keeps the invariant.
LEMMA RefreshKeeps ==
    ASSUME ThreadInv, Calm, RefreshFetch \/ RefreshBatch \/ RefreshLink \/ RefreshEnd
    PROVE  ThreadInv'
<1>1. /\ UNCHANGED <<fb, delivered, hook, send, locks, sync>>
      /\ FbTyped /\ RowsTyped /\ RowsTrue /\ OneRowOfMid /\ SyncTyped /\ RefreshTyped
      /\ DOMAIN fb = 1..Len(fb) /\ Len(fb) \in Nat
    BY FbRead DEF RefreshFetch, RefreshBatch, RefreshLink, RefreshEnd, SyncElse, ThreadInv,
       ThreadTyped
<1>2. SyncTyped'
    BY <1>1 DEF SyncTyped
<1>3. ASSUME rows' = rows PROVE RowsGrow
    BY <1>1, <1>3, StillGrows
<1>4. ASSUME RowsGrow, persist' = persist
      PROVE  \A m \in Mids : persist'[m].pc = "update" => UpdateOk(m)'
    BY <1>4, GrowLinks, GrowKept DEF ThreadInv, LinksTrue
<1>5. CASE RefreshFetch
  <2>1. Listed(Len(fb)) \in SUBSET DOMAIN fb /\ Len(fb) \in 0..Len(fb)
    BY <1>1 DEF Listed
  <2>2. /\ refresh' = [pc |-> "batch", n |-> Len(fb), todo |-> Listed(Len(fb)), last |-> "none"]
        /\ rows' = rows /\ persist' = persist /\ "refresh" \in Does
    BY <1>5 DEF RefreshFetch
  <2>3. RefreshTyped'
    BY <1>1, <2>1, <2>2 DEF RefreshTyped
  <2> QED BY <1>1, <1>2, <1>3, <1>4, <2>2, <2>3, ReaderKeeps
<1>6. CASE RefreshBatch \/ RefreshLink \/ RefreshEnd
  <2>1. refresh # Idle
    <3>1. refresh.pc \in {"batch", "end"}
      BY <1>6 DEF RefreshBatch, RefreshLink, RefreshEnd
    <3> QED BY <3>1 DEF Idle
  <2>2. refresh # Idle /\ "refresh" \in Does
    BY <1>1, <2>1, RefreshRead
  <2>3. PICK p, l : \E n \in 0..Len(fb), S \in SUBSET DOMAIN fb :
                       refresh = [pc |-> p, n |-> n, todo |-> S, last |-> l]
    BY <1>1, <2>1, RefreshRead
  <2>4. PICK n \in 0..Len(fb), S \in SUBSET DOMAIN fb :
          refresh = [pc |-> p, n |-> n, todo |-> S, last |-> l]
    BY <2>3
  <2>5. CASE RefreshBatch
    <3>1. PICK batch, top : /\ batch = {m \in S : Cardinality({k \in S : k < m}) < Concurrency}
                            /\ top = fb[Max(batch)].text
      OBVIOUS
    <3>2. /\ persist' = [m \in Mids |-> IF m \in batch THEN [pc |-> "find"] ELSE Idle]
          /\ refresh' = [refresh EXCEPT !.todo = @ \ batch, !.last = top] /\ rows' = rows
      BY <2>4, <2>5, <3>1 DEF RefreshBatch
    <3>3. refresh' = [pc |-> p, n |-> n, todo |-> S \ batch, last |-> top]
      BY <2>4, <3>2
    <3>4. RefreshTyped'
      <4>1. S \ batch \in SUBSET DOMAIN fb /\ batch \subseteq DOMAIN fb
        BY <3>1
      <4> HIDE <3>1
      <4>2. \E x, y : \E k \in 0..Len(fb), T \in SUBSET DOMAIN fb :
                refresh' = [pc |-> x, n |-> k, todo |-> T, last |-> y]
        BY <3>3, <4>1
      <4>3. persist' \in [Mids -> {Idle} \cup [pc : {"find", "create"}]
                             \cup [pc : {"update"}, row : RowIds, mid : Mids \cup {0}]]
        BY <3>2
      <4>4. \A m \in Mids : persist'[m] # Idle => m \in DOMAIN fb
        BY <3>2, <4>1
      <4> QED BY <1>1, <2>2, <4>2, <4>3, <4>4 DEF RefreshTyped
    <3>5. \A m \in Mids : persist'[m].pc # "update"
      BY <3>2 DEF Idle
    <3> QED BY <1>1, <1>2, <1>3, <3>2, <3>4, <3>5, ReaderKeeps
  <2>6. CASE RefreshLink
    <3>1. PhotosWithoutMid = {}
      <4>1. Media \notin Texts
        BY InboxConstants DEF Media, InboxConstants
      <4>2. \A r \in Stored : rows[r].text \in Texts
        BY <1>1, StoredTyped DEF Stored, Rows
      <4> QED BY <4>1, <4>2 DEF PhotosWithoutMid
    <3>2. rows' = rows
      BY <2>6, <3>1 DEF RefreshLink
    <3>3. refresh' = [refresh EXCEPT !.pc = "end"] /\ persist' = persist
      BY <2>6 DEF RefreshLink
    <3>4. refresh' = [pc |-> "end", n |-> n, todo |-> S, last |-> l]
      BY <2>4, <3>3
    <3>5. RefreshTyped'
      <4>1. \E x, y : \E k \in 0..Len(fb), T \in SUBSET DOMAIN fb :
                refresh' = [pc |-> x, n |-> k, todo |-> T, last |-> y]
        BY <3>4
      <4> QED BY <1>1, <2>2, <3>3, <4>1 DEF RefreshTyped
    <3> QED BY <1>1, <1>2, <1>3, <1>4, <3>2, <3>3, <3>5, ReaderKeeps
  <2>7. CASE RefreshEnd
    <3>1. refresh' = Idle /\ persist' = persist
      BY <2>7 DEF RefreshEnd
    <3>2. RefreshTyped'
      BY <1>1, <2>2, <3>1 DEF RefreshTyped
    <3>3. rows' = [r \in RowIds |->
                      IF r \in Stored /\ rows[r].mid \in Listed(n)
                      THEN [rows[r] EXCEPT !.from = RowFor(rows[r].mid).from] ELSE rows[r]]
      BY <2>4, <2>7 DEF RefreshEnd
    <3>4. \A m : RowFor(m).from \in {"staff", "customer"}
      BY DEF RowFor
    <3>5. 0 \notin Listed(n)
      BY DEF Listed
    <3>6. RowsGrow
      BY <1>1, <3>3, <3>4, <3>5, SideWritten
    <3> QED BY <1>1, <1>2, <1>4, <3>1, <3>2, <3>6, ReaderKeeps
  <2> QED BY <1>6, <2>5, <2>6, <2>7
<1> QED BY <1>5, <1>6

\* An empty thread.
LEMMA ThreadInit == Init => ThreadInv
<1> SUFFICES ASSUME Init PROVE ThreadInv
    OBVIOUS
<1>1. /\ fb = <<>> /\ delivered = [m \in Mids |-> 0] /\ rows = [r \in RowIds |-> NoRow]
      /\ hook = [h \in Hooks |-> Idle] /\ send = [s \in Senders |-> Idle] /\ refresh = Idle
      /\ sync = [y \in Syncs |-> Idle] /\ persist = [m \in Mids |-> Idle]
    BY DEF Init
<1>2. MaxMsgs \in Nat /\ MaxRows \in Nat
    BY InboxConstants DEF InboxConstants
<1>3. Stored = {} /\ Unused = 1..MaxRows
    BY <1>1 DEF Stored, Unused, NoRow, RowIds
<1>4. /\ fb \in Seq(Posts) /\ Len(fb) = 0 /\ DOMAIN fb = {}
    BY <1>1
<1>5. Idle.pc = "idle"
    BY DEF Idle
<1>6. FbTyped
    BY <1>1, <1>2, <1>4 DEF FbTyped
<1>7. RowsTyped
  <2>1. 1 \in 1..(MaxRows + 1)
    BY <1>2
  <2> QED BY <1>1, <1>3, <2>1 DEF RowsTyped
<1>8. HookTyped /\ SendTyped
    BY <1>1 DEF HookTyped, SendTyped, Sends
<1>9. SyncTyped /\ RefreshTyped
    BY <1>1, <1>5 DEF SyncTyped, RefreshTyped
<1>10. RowsTrue /\ OneRowOfMid /\ PendingOwned
    BY <1>3 DEF RowsTrue, OneRowOfMid, PendingOwned
<1>11. SendsTrue /\ EchoesExpected /\ LinksTrue /\ DeliveredHandled
    BY <1>1, <1>4, <1>5 DEF SendsTrue, EchoesExpected, LinksTrue, DeliveredHandled
<1> QED BY <1>6, <1>7, <1>8, <1>9, <1>10, <1>11 DEF ThreadInv, ThreadTyped

\* Every step of the conversation keeps the invariant.
LEMMA ThreadStep ==
    ASSUME ThreadInv, Calm, [Next]_vars
    PROVE  ThreadInv'
<1>1. CASE UNCHANGED vars
    BY <1>1, OthersKeep DEF vars
<1>2. CASE IngestNext
  <2>1. CASE ReadReceipt
    BY <2>1, OthersKeep DEF ReadReceipt
  <2> QED BY <1>2, <2>1, MessageKeeps, DeliverKeeps, HookKeeps DEF IngestNext
<1>3. CASE ReplyNext
  <2>1. ASSUME NEW s \in Senders, Refused(s) \/ AnswerUnsaved(s) PROVE ThreadInv'
    BY <2>1 DEF Refused, AnswerUnsaved, Calm
  <2>2. ASSUME NEW s \in Senders, Fail(s) PROVE ThreadInv'
    <3>1. send[s].pc = "fail" /\ send[s] # Idle
      BY <2>2 DEF Fail, Idle
    <3> QED BY <3>1, SendRead DEF OwnPcs
  <2> QED BY <1>3, <2>1, <2>2, SendStartKeeps, CreateKeeps, ConversationKeeps, AcceptedKeeps,
             AnswerKeeps, DropKeeps, LockEndsKeeps DEF ReplyNext
<1>4. CASE SyncNext
    BY <1>4, SyncKeeps, RefreshKeeps, PersistKeeps DEF SyncNext
<1>5. CASE DeskNext
  <2>1. UNCHANGED <<fb, delivered, rows, hook, send, locks, sync, refresh, persist>>
    BY <1>5 DEF DeskNext, DeskElse, View, ViewWrite, MarkRead, MarkReadWrite, MarkReadAgain, List,
       ListLook, ListClear, Label, LabelLocked, LabelClean, LabelInsert, LabelInsertFails, LabelWrite,
       MarkUnread
  <2> QED BY <2>1, OthersKeep
<1> QED BY <1>1, <1>2, <1>3, <1>4, <1>5 DEF Next

\* A row never carries the mid of another message than the one it was made
\* for, and no reply that Facebook took is shown as failed, whichever of the
\* answer, the webhook and the sync comes first (sendMessageUnlocked,
\* findPendingOutboundToLink, fastPersistMessages).
THEOREM RepliesAreTold ==
    ASSUME Calm
    PROVE  Spec => []RepliesTold
<1>1. ThreadInv => RepliesTold
  <2> SUFFICES ASSUME ThreadInv, NEW r \in Stored, rows[r].of # 0
               PROVE  rows[r].mid \in {0, rows[r].of} /\ rows[r].status # "failed"
    BY DEF RepliesTold
  <2>1. rows[r] \in Rows
    BY ReplyOthers, StoredTyped DEF Stored
  <2> QED BY <2>1, ReplyOthers DEF Rows, RowsTrue
<1> QED BY <1>1, ThreadInit, ThreadStep, PTL DEF Spec

\* At rest every message is stored exactly once, however its webhooks are
\* repeated, delayed or overtaken and however syncs and replies overlap with
\* them, or syncs and refreshes of a thread without replies of this inbox whose
\* messages lie more than five seconds apart (ingestMessagingEvent,
\* fastPersistMessages, sendMessageUnlocked, persistGraphMessage).
THEOREM StoredOnce ==
    ASSUME Calm
    PROVE  Spec => []OneRowPerMessage
<1>1. ThreadInv => OneRowPerMessage
  <2> SUFFICES ASSUME ThreadInv, AtRest, NEW m \in DOMAIN fb
               PROVE  Cardinality({r \in Stored : rows[r].mid = m \/ rows[r].of = m}) = 1
    BY DEF OneRowPerMessage
  <2>1. /\ \A h \in Hooks : hook[h] = Idle
        /\ \A s \in Senders : send[s] = Idle
        /\ delivered[m] > 0
    <3>1. DOMAIN hook = Hooks /\ DOMAIN send = Senders
      BY DEF ThreadInv, ThreadTyped, HookTyped, SendTyped
    <3>2. /\ \A h \in DOMAIN hook : hook[h] = Idle
          /\ \A s \in DOMAIN send : send[s] = Idle
      BY DEF AtRest, Working
    <3> QED BY <3>1, <3>2 DEF AtRest
  <2>2. PICK r \in Stored : rows[r].mid = m
    BY <2>1 DEF ThreadInv, DeliveredHandled, RowsOfMid
  <2>3. m # 0
    BY FbRead, ReplyOthers
  <2>4. \A q \in Stored : rows[q].mid # 0
    BY <2>1 DEF ThreadInv, PendingOwned, Owns, OwnPcs, Idle
  <2>5. \A q \in Stored : rows[q].mid = m \/ rows[q].of = m => q = r
    BY <2>2, <2>3, <2>4, ReplyOthers DEF RowsTrue, OneRowOfMid
  <2>6. {q \in Stored : rows[q].mid = m \/ rows[q].of = m} = {r}
    BY <2>2, <2>5
  <2> QED BY <2>6, FS_Singleton
<1> QED BY <1>1, ThreadInit, ThreadStep, PTL DEF Spec

\* The text of a row with a mid is that of the message, whether the answer, the
\* echo or a sync wrote the mid, or, further apart than five seconds and in a
\* thread without replies of this inbox, a refresh.
THEOREM TextStays ==
    ASSUME Calm
    PROVE  Spec => []TextKept
<1>1. ThreadInv => TextKept
    BY DEF ThreadInv, RowsTrue, TextKept
<1> QED BY <1>1, ThreadInit, ThreadStep, PTL DEF Spec

-----------------------------------------------------------------------------
\* The conversation's row, when each webhook is handled before the next one
\* comes.  Replies, syncs, refreshes and staff still overlap with them.

\* A message is caught up with once its webhook has written the conversation.
Upserting(m) == \E h \in Hooks : hook[h].pc = "upsert" /\ hook[h].m = m
Caught(m) == delivered[m] > 0 /\ ~ Upserting(m)

\* A reply has written the conversation and is not on Facebook yet.
OnItsWay == \E s \in Senders : send[s].pc = "graph"

\* Nothing later than the message a handler is about to write was delivered.
ConvTyped == conv = [made |-> conv.made, unread |-> conv.unread, needsReply |-> conv.needsReply,
                     awaiting |-> conv.awaiting, lastAt |-> conv.lastAt, last |-> conv.last]
HookAlone(d) ==
    /\ d.pc \in HookPcs => d = [pc |-> d.pc, m |-> d.m]
    /\ d.pc = "upsert" => d.m \in DOMAIN fb /\ \A k \in Mids : k > d.m => delivered[k] = 0
SendAlone(d) == \/ d = Idle
                \/ d = [pc |-> d.pc, text |-> d.text]
                \/ d = [pc |-> d.pc, text |-> d.text, row |-> d.row]
                \/ d = [pc |-> d.pc, text |-> d.text, row |-> d.row, mid |-> d.mid]
TurnInv ==
    /\ Len(fb) <= MaxMsgs /\ \E S : fb \in Seq(S)
    /\ delivered \in [Mids -> Nat] /\ \A m \in Mids : delivered[m] > 0 => m \in DOMAIN fb
    /\ ConvTyped
    /\ hook = [h \in Hooks |-> hook[h]] /\ \A h \in Hooks : HookAlone(hook[h])
    /\ send = [s \in Senders |-> send[s]]
    /\ \A s \in Senders : SendAlone(send[s])

\* The steps of a webhook handler after it was called.
HookWorks(h) == \/ Upsert(h) \/ AdUpsert(h) \/ AdFind(h) \/ KnownMid(h) \/ UnknownMid(h)
                \/ EchoFind(h) \/ EchoLink(h) \/ FindAgain(h) \/ Insert(h)

\* Only a message or a reply makes the thread longer; only handlers touch hook.
Longer(p) == Len(fb) < MaxMsgs /\ fb' = Append(fb, p)
LEMMA ThreadMoves ==
    ASSUME Next
    PROVE  \/ UNCHANGED <<hook, delivered, send>> /\ \E p : Longer(p)
           \/ UNCHANGED <<hook, delivered, fb, send>>
           \/ UNCHANGED <<hook, delivered>> /\ \E s \in Senders : Accepted(s)
           \/ UNCHANGED <<hook, delivered, fb>> /\ ReplyNext
           \/ \E h \in Hooks, m \in Mids : Deliver(h, m)
           \/ \E h \in Hooks : HookWorks(h)
<1>1. CASE IngestNext
  <2>1. ASSUME NEW from, NEW t, FacebookMessage(from, t)
        PROVE  UNCHANGED <<hook, delivered, send>> /\ \E p : Longer(p)
    BY <2>1 DEF FacebookMessage, Longer, IngestElse
  <2>2. CASE ReadReceipt
    BY <2>2 DEF ReadReceipt
  <2> QED BY <1>1, <2>1, <2>2 DEF IngestNext, HookWorks
<1>2. CASE ReplyNext
    BY ZenonT(60), <1>2 DEF ReplyNext, ReplyElse, SendStart, CreatePending, ReplyConversation,
       Accepted, Refused, Answer, AnswerUnsaved, DropPending, Fail, LockEnds
<1>3. CASE SyncNext
    BY <1>3 DEF SyncNext, SyncElse, SyncFetch, SyncRead, SyncUpsert, SyncInsert, SyncBump,
       RefreshFetch, RefreshBatch, RefreshLink, RefreshEnd, PersistFind, PersistUpdate,
       PersistCreate
<1>4. CASE DeskNext
    BY <1>4 DEF DeskNext, DeskElse, View, ViewWrite, MarkRead, MarkReadWrite, MarkReadAgain, List,
       ListLook, ListClear, Label, LabelLocked, LabelClean, LabelInsert, LabelInsertFails,
       LabelWrite, MarkUnread
<1> QED BY <1>1, <1>2, <1>3, <1>4 DEF Next

\* Reading the thread.
LEMMA TurnRead ==
    ASSUME TurnInv
    PROVE  /\ Len(fb) \in Nat /\ DOMAIN fb = 1..Len(fb) /\ DOMAIN fb \subseteq Mids
           /\ \A p : Longer(p) =>
                 /\ Len(fb') = Len(fb) + 1 /\ DOMAIN fb' = 1..(Len(fb) + 1)
                 /\ \E S : fb' \in Seq(S)
                 /\ \A m \in DOMAIN fb : fb'[m] = fb[m]
                 /\ fb'[Len(fb) + 1] = p
<1>1. PICK S : fb \in Seq(S)
    BY DEF TurnInv
<1>2. Len(fb) \in Nat /\ DOMAIN fb = 1..Len(fb) /\ \A m \in 1..Len(fb) : fb[m] \in S
    BY <1>1
<1>3. DOMAIN fb \subseteq Mids
  <2>1. Len(fb) <= MaxMsgs /\ MaxMsgs \in Nat
    BY InboxConstants DEF TurnInv, InboxConstants
  <2> QED BY <1>2, <2>1 DEF Mids
<1>4. ASSUME NEW p, Longer(p)
      PROVE  /\ Len(fb') = Len(fb) + 1 /\ DOMAIN fb' = 1..(Len(fb) + 1)
             /\ \E T : fb' \in Seq(T)
             /\ \A m \in DOMAIN fb : fb'[m] = fb[m]
             /\ fb'[Len(fb) + 1] = p
  <2>1. fb \in Seq(S \cup {p})
    BY <1>1
  <2>2. fb' = Append(fb, p)
    BY <1>4 DEF Longer
  <2>3. fb' \in Seq(S \cup {p}) /\ Len(fb') = Len(fb) + 1 /\ DOMAIN fb' = 1..(Len(fb) + 1)
    BY <2>1, <2>2
  <2>4. (\A m \in 1..Len(fb) : fb'[m] = fb[m]) /\ fb'[Len(fb) + 1] = p
    BY <2>1, <2>2, <1>2
  <2> QED BY <1>2, <2>3, <2>4
<1> QED BY <1>2, <1>3, <1>4

\* A handler at work leaves the thread alone, and Upsert behind.
LEMMA HookWorked ==
    ASSUME TurnInv, NEW h \in Hooks, HookWorks(h)
    PROVE  /\ UNCHANGED <<fb, delivered, send>>
           /\ hook' = [hook EXCEPT ![h] = hook'[h]]
           /\ hook'[h].pc # "upsert" /\ HookAlone(hook'[h])
           /\ hook[h].pc = "upsert" => Upsert(h) \/ fb[hook[h].m].from = "ad"
<1>1. UNCHANGED <<fb, delivered, send>>
    BY DEF HookWorks, Upsert, AdUpsert, AdFind, KnownMid, UnknownMid, EchoFind, EchoLink,
       FindAgain, Insert, IngestElse
<1>2. hook[h].pc \in HookPcs => hook[h] = [pc |-> hook[h].pc, m |-> hook[h].m]
    BY DEF TurnInv, HookAlone
<1>3. ASSUME NEW d, hook' = [hook EXCEPT ![h] = d]
      PROVE  hook'[h] = d /\ hook' = [hook EXCEPT ![h] = hook'[h]]
    BY <1>3 DEF TurnInv
<1>4. ASSUME NEW d, hook' = [hook EXCEPT ![h] = d],
             \/ d = Idle
             \/ d.pc = "link"
             \/ d.pc \in HookPcs \ {"upsert"} /\ d = [pc |-> d.pc, m |-> d.m]
      PROVE  hook'[h].pc # "upsert" /\ HookAlone(hook'[h])
  <2>1. hook'[h] = d
    BY <1>3, <1>4
  <2>2. d.pc # "upsert" /\ HookAlone(d)
    BY <1>4 DEF HookAlone, HookPcs, Idle
  <2> QED BY <2>1, <2>2
<1>5. ASSUME NEW p \in HookPcs \ {"upsert"}, hook[h].pc \in HookPcs,
             hook' = [hook EXCEPT ![h] = [hook[h] EXCEPT !.pc = p]]
      PROVE  hook'[h].pc # "upsert" /\ HookAlone(hook'[h])
  <2>1. PICK d : d = [pc |-> p, m |-> hook[h].m]
    OBVIOUS
  <2>2. hook' = [hook EXCEPT ![h] = d]
    <3>1. hook[h] \in [pc : HookPcs, m : {hook[h].m}]
      BY <1>2, <1>5
    <3>2. [hook[h] EXCEPT !.pc = p] = d
      BY <2>1, <3>1
    <3> QED BY <1>5, <3>2
  <2> QED BY <1>4, <1>5, <2>1, <2>2
<1>6. \E d : hook' = [hook EXCEPT ![h] = d]
    BY DEF HookWorks, Upsert, AdUpsert, AdFind, KnownMid, UnknownMid, EchoFind, EchoLink,
       FindAgain, Insert
<1>7. hook'[h].pc # "upsert" /\ HookAlone(hook'[h])
  <2>1. CASE Upsert(h) \/ AdUpsert(h) \/ AdFind(h)
    BY <1>4, <1>5, <2>1 DEF Upsert, AdUpsert, AdFind, HookPcs
  <2>2. CASE KnownMid(h) \/ Insert(h) \/ FindAgain(h)
    BY <1>4, <1>5, <2>2 DEF KnownMid, Insert, FindAgain, HookPcs
  <2>3. CASE UnknownMid(h)
    BY <1>5, <2>3 DEF UnknownMid, HookPcs
  <2>4. CASE EchoFind(h)
    BY <1>4, <1>5, <2>4 DEF EchoFind, HookPcs
  <2>5. CASE EchoLink(h)
    BY <1>4, <2>5 DEF EchoLink, HookPcs
  <2> QED BY <2>1, <2>2, <2>3, <2>4, <2>5 DEF HookWorks
<1>8. hook[h].pc = "upsert" => Upsert(h) \/ fb[hook[h].m].from = "ad"
    BY DEF HookWorks, Upsert, AdUpsert, AdFind, KnownMid, UnknownMid, EchoFind, EchoLink,
       FindAgain, Insert
<1> QED BY <1>1, <1>3, <1>6, <1>7, <1>8

\* What is no message of the conversation leaves the locals of its handlers
\* alone; a step that writes the conversation keeps its shape.
LEMMA ShapeKept ==
    ASSUME Next, ConvTyped
    PROVE  ConvTyped'
<1>1. CASE IngestNext
    BY <1>1 DEF IngestNext, ConvTyped, FacebookMessage, Deliver, Upsert, AdUpsert, AdFind,
       KnownMid, UnknownMid, EchoFind, EchoLink, FindAgain, Insert, ReadReceipt
<1>2. CASE ReplyNext
    BY ZenonT(60), <1>2 DEF ReplyNext, ConvTyped, SendStart, CreatePending, ReplyConversation,
       Accepted, Refused, Answer, AnswerUnsaved, DropPending, Fail, LockEnds
<1>3. CASE SyncNext
    BY <1>3 DEF SyncNext, ConvTyped, SyncFetch, SyncRead, SyncUpsert, SyncInsert, SyncBump,
       RefreshFetch, RefreshBatch, RefreshLink, RefreshEnd, PersistFind, PersistUpdate,
       PersistCreate
<1>4. CASE DeskNext
    BY <1>4 DEF DeskNext, ConvTyped, View, ViewWrite, MarkRead, MarkReadWrite, MarkReadAgain, List,
       ListLook, ListClear, Label, LabelLocked, LabelClean, LabelInsert, LabelInsertFails,
       LabelWrite, MarkUnread
<1> QED BY <1>1, <1>2, <1>3, <1>4 DEF Next

\* The steps of a reply.
SendWorks(s) == \/ \E t \in Texts \cup {Media} : SendStart(s, t)
                \/ CreatePending(s) \/ ReplyConversation(s) \/ Accepted(s) \/ Refused(s)
                \/ Answer(s) \/ AnswerUnsaved(s) \/ DropPending(s) \/ Fail(s)

\* A reply leaves Graph's call only with an answer.
LEMMA SendWorked ==
    ASSUME TurnInv, NEW s \in Senders, SendWorks(s)
    PROVE  /\ send' = [send EXCEPT ![s] = send'[s]] /\ SendAlone(send'[s])
           /\ send[s].pc = "graph" => Accepted(s) \/ Refused(s)
           /\ ReplyConversation(s) => send'[s].pc = "graph"
<1>1. ASSUME NEW d, send' = [send EXCEPT ![s] = d]
      PROVE  send'[s] = d /\ send' = [send EXCEPT ![s] = send'[s]]
    BY <1>1 DEF TurnInv
<1>2. \E d : send' = [send EXCEPT ![s] = d]
    BY DEF SendWorks, SendStart, CreatePending, ReplyConversation, Accepted, Refused, Answer,
       AnswerUnsaved, DropPending, Fail
<1>3. ASSUME NEW d, SendAlone(d), send' = [send EXCEPT ![s] = d]
      PROVE  SendAlone(send'[s])
    BY <1>1, <1>3
<1>4. SendAlone(Idle) /\ \A p, t, r, m : /\ SendAlone([pc |-> p, text |-> t])
                                        /\ SendAlone([pc |-> p, text |-> t, row |-> r])
                                        /\ SendAlone([pc |-> p, text |-> t, row |-> r, mid |-> m])
    BY DEF SendAlone
<1>5. ASSUME send[s] # Idle, NEW p
      PROVE  SendAlone([send[s] EXCEPT !.pc = p]) /\ [send[s] EXCEPT !.pc = p].pc = p
  <2>1. PICK e : e = send[s]
    OBVIOUS
  <2>2. CASE e = [pc |-> e.pc, text |-> e.text]
    <3>1. PICK d : d = [pc |-> p, text |-> e.text]
      OBVIOUS
    <3>2. [e EXCEPT !.pc = p] = d
      BY <2>2, <3>1
    <3>3. SendAlone(d) /\ d.pc = p
      BY <1>4, <3>1
    <3> QED BY <2>1, <3>2, <3>3
  <2>3. CASE e = [pc |-> e.pc, text |-> e.text, row |-> e.row]
    <3>1. PICK d : d = [pc |-> p, text |-> e.text, row |-> e.row]
      OBVIOUS
    <3>2. [e EXCEPT !.pc = p] = d
      BY <2>3, <3>1
    <3>3. SendAlone(d) /\ d.pc = p
      BY <1>4, <3>1
    <3> QED BY <2>1, <3>2, <3>3
  <2>4. CASE e = [pc |-> e.pc, text |-> e.text, row |-> e.row, mid |-> e.mid]
    <3>1. PICK d : d = [pc |-> p, text |-> e.text, row |-> e.row, mid |-> e.mid]
      OBVIOUS
    <3>2. [e EXCEPT !.pc = p] = d
      BY <2>4, <3>1
    <3>3. SendAlone(d) /\ d.pc = p
      BY <1>4, <3>1
    <3> QED BY <2>1, <3>2, <3>3
  <2> QED BY <1>5, <2>1, <2>2, <2>3, <2>4 DEF TurnInv, SendAlone
<1>6. Idle.pc = "idle"
    BY DEF Idle
<1>7. SendAlone(send'[s])
  <2>1. CASE (\E t \in Texts \cup {Media} : SendStart(s, t)) \/ CreatePending(s) \/ Accepted(s)
    <3>1. CASE \E t \in Texts \cup {Media} : SendStart(s, t)
      BY ZenonT(60), <1>3, <1>4, <3>1 DEF SendStart
    <3>2. CASE CreatePending(s)
      BY <1>3, <1>4, <3>2 DEF CreatePending
    <3>3. CASE Accepted(s)
      BY <1>3, <1>4, <3>3 DEF Accepted
    <3> QED BY <2>1, <3>1, <3>2, <3>3
  <2>2. ASSUME NEW p, send[s] # Idle, send' = [send EXCEPT ![s] = [send[s] EXCEPT !.pc = p]]
        PROVE  SendAlone(send'[s])
    BY <1>3, <1>5, <2>2
  <2>3. CASE ReplyConversation(s) \/ Refused(s) \/ AnswerUnsaved(s)
    BY <1>6, <2>2, <2>3 DEF ReplyConversation, Refused, AnswerUnsaved
  <2>4. CASE Answer(s) \/ DropPending(s) \/ Fail(s)
    BY <1>3, <1>4, <1>6, <2>2, <2>4 DEF Answer, DropPending, Fail
  <2> QED BY <2>1, <2>3, <2>4 DEF SendWorks
<1>8. send[s].pc = "graph" => Accepted(s) \/ Refused(s)
    BY <1>6 DEF SendWorks, SendStart, CreatePending, ReplyConversation, Answer, AnswerUnsaved,
       DropPending, Fail
<1>9. ReplyConversation(s) => send'[s].pc = "graph"
    BY <1>1, <1>5, <1>6 DEF ReplyConversation
<1> QED BY <1>1, <1>2, <1>7, <1>8, <1>9

\* Replies, seen from the conversation.
LEMMA ReplyMoves ==
    ASSUME TurnInv, ReplyNext
    PROVE  /\ send' = [s \in Senders |-> send'[s]] /\ \A s \in Senders : SendAlone(send'[s])
           /\ TakesReplies /\ OnItsWay => OnItsWay' \/ \E s \in Senders : Accepted(s)
           /\ \A s \in Senders : ReplyConversation(s) => OnItsWay'
<1>1. CASE \E s \in Senders : SendWorks(s)
  <2>1. PICK s \in Senders : SendWorks(s)
    BY <1>1
  <2>2. /\ send' = [send EXCEPT ![s] = send'[s]] /\ SendAlone(send'[s])
        /\ send[s].pc = "graph" => Accepted(s) \/ Refused(s)
    BY <2>1, SendWorked
  <2>3. send' = [t \in Senders |-> send'[t]] /\ \A t \in Senders : t # s => send'[t] = send[t]
    BY <2>2 DEF TurnInv
  <2>4. TakesReplies /\ OnItsWay => OnItsWay' \/ \E t \in Senders : Accepted(t)
    BY <2>2, <2>3 DEF OnItsWay, Refused, TakesReplies
  <2>5. \A t \in Senders : ReplyConversation(t) => OnItsWay'
    BY SendWorked DEF SendWorks, OnItsWay
  <2>6. \A t \in Senders : SendAlone(send'[t])
    BY <2>2, <2>3 DEF TurnInv
  <2> QED BY <2>3, <2>4, <2>5, <2>6
<1>2. CASE \E t \in Texts : LockEnds(t)
  <2>1. send' = send
    BY <1>2 DEF LockEnds
  <2>2. \A t \in Senders : ReplyConversation(t) => OnItsWay'
    BY SendWorked DEF SendWorks, OnItsWay
  <2> QED BY <2>1, <2>2 DEF TurnInv, OnItsWay
<1> QED BY <1>1, <1>2 DEF ReplyNext, SendWorks

\* The messages stay in turn.
LEMMA TurnKept ==
    ASSUME TurnInv, InTurn, [Next]_vars
    PROVE  TurnInv'
<1>1. CASE UNCHANGED vars
    BY <1>1 DEF vars, TurnInv, ConvTyped, HookAlone
<1>2. CASE Next
  <2>1. ConvTyped'
    BY <1>2, ShapeKept DEF TurnInv
  <2>2. ASSUME UNCHANGED <<hook, delivered, send>>, \E p : Longer(p)
        PROVE  TurnInv'
    <3>1. PICK p : Longer(p)
      BY <2>2
    <3>2. /\ Len(fb') = Len(fb) + 1 /\ \E S : fb' \in Seq(S)
          /\ Len(fb) \in Nat /\ DOMAIN fb = 1..Len(fb) /\ DOMAIN fb' = 1..(Len(fb) + 1)
      BY <3>1, TurnRead
    <3>3. Len(fb') <= MaxMsgs
      <4>1. MaxMsgs \in Nat /\ Len(fb) \in Nat /\ Len(fb) < MaxMsgs /\ Len(fb') = Len(fb) + 1
        BY <3>1, <3>2, InboxConstants DEF Longer, InboxConstants
      <4> QED BY <4>1
    <3>4. DOMAIN fb \subseteq DOMAIN fb'
      BY <3>2
    <3> QED BY <2>1, <2>2, <3>2, <3>3, <3>4 DEF TurnInv, HookAlone
  <2>3. ASSUME UNCHANGED <<hook, delivered, fb>>, ReplyNext
        PROVE  TurnInv'
    BY <2>1, <2>3, ReplyMoves DEF TurnInv, HookAlone
  <2>4. CASE UNCHANGED <<hook, delivered, fb, send>>
    BY <2>1, <2>4 DEF TurnInv, HookAlone
  <2>5. ASSUME UNCHANGED <<hook, delivered>>, NEW s \in Senders, Accepted(s)
        PROVE  TurnInv'
    <3>1. PICK p : Longer(p)
      BY <2>5 DEF Accepted, Longer
    <3>2. /\ Len(fb') = Len(fb) + 1 /\ \E S : fb' \in Seq(S)
          /\ Len(fb) \in Nat /\ DOMAIN fb = 1..Len(fb) /\ DOMAIN fb' = 1..(Len(fb) + 1)
      BY <3>1, TurnRead
    <3>3. Len(fb') <= MaxMsgs
      <4>1. MaxMsgs \in Nat /\ Len(fb) \in Nat /\ Len(fb) < MaxMsgs /\ Len(fb') = Len(fb) + 1
        BY <3>1, <3>2, InboxConstants DEF Longer, InboxConstants
      <4> QED BY <4>1
    <3>4. send' = [t \in Senders |-> send'[t]] /\ \A t \in Senders : SendAlone(send'[t])
      BY <2>5, ReplyMoves DEF ReplyNext
    <3>5. DOMAIN fb \subseteq DOMAIN fb'
      BY <3>2
    <3> QED BY <2>1, <2>5, <3>2, <3>3, <3>4, <3>5 DEF TurnInv, HookAlone
  <2>6. ASSUME NEW h \in Hooks, NEW m \in Mids, Deliver(h, m)
        PROVE  TurnInv'
    <3>1. /\ delivered' = [delivered EXCEPT ![m] = @ + 1] /\ m \in DOMAIN fb
          /\ hook' = [hook EXCEPT ![h] = [pc |-> "upsert", m |-> m]]
          /\ UNCHANGED <<fb, send>>
      BY <2>6 DEF Deliver, IngestElse
    <3>2. /\ \A g \in Hooks : hook[g].pc # "upsert"
          /\ \A k \in (m + 1)..Len(fb) : delivered[k] = 0
      BY <2>6 DEF Deliver, InTurn, TurnInv
    <3>3. delivered' \in [Mids -> Nat] /\ \A k \in Mids : delivered'[k] > 0 => k \in DOMAIN fb
      BY <3>1 DEF TurnInv
    <3>4. \A k \in Mids : k > m => delivered'[k] = 0
      <4>1. m \in Int /\ Len(fb) \in Nat /\ DOMAIN fb = 1..Len(fb)
        BY TurnRead DEF Mids
      <4>2. ASSUME NEW k \in Mids, k > m PROVE delivered'[k] = 0
        <5>1. k # m /\ delivered'[k] = delivered[k] /\ delivered[k] \in Nat /\ k \in Int
          BY <3>1, <4>1, <4>2 DEF TurnInv, Mids
        <5>2. CASE k \in DOMAIN fb
          BY <3>2, <4>1, <4>2, <5>1, <5>2
        <5>3. CASE k \notin DOMAIN fb
          BY <5>1, <5>3 DEF TurnInv
        <5> QED BY <5>2, <5>3
      <4> QED BY <4>2
    <3>5. \A g \in Hooks : hook'[g] = IF g = h THEN [pc |-> "upsert", m |-> m] ELSE hook[g]
      BY <3>1 DEF TurnInv
    <3>6. \A g \in Hooks : HookAlone(hook[g])'
      <4>1. \A g \in Hooks : g # h => HookAlone(hook[g])'
        BY <3>2, <3>5 DEF TurnInv, HookAlone
      <4>2. HookAlone(hook[h])'
        <5>1. PICK d : d = [pc |-> "upsert", m |-> m]
          OBVIOUS
        <5>2. hook'[h] = d
          BY <3>5, <5>1
        <5>3. d = [pc |-> d.pc, m |-> d.m] /\ d.m = m
          BY <5>1
        <5> QED BY <3>1, <3>4, <5>2, <5>3 DEF HookAlone
      <4> QED BY <4>1, <4>2
    <3>7. hook' = [g \in Hooks |-> hook'[g]]
      BY <3>1 DEF TurnInv
    <3> QED BY <2>1, <3>1, <3>3, <3>6, <3>7 DEF TurnInv, HookAlone
  <2>7. ASSUME NEW h \in Hooks, HookWorks(h)
        PROVE  TurnInv'
    <3>1. /\ UNCHANGED <<fb, delivered, send>> /\ hook' = [hook EXCEPT ![h] = hook'[h]]
          /\ HookAlone(hook'[h])
      BY <2>7, HookWorked
    <3>2. hook' = [g \in Hooks |-> hook'[g]] /\ \A g \in Hooks : g # h => hook'[g] = hook[g]
      BY <3>1 DEF TurnInv
    <3>3. \A g \in Hooks : HookAlone(hook'[g])
      BY <3>1, <3>2 DEF TurnInv
    <3> QED BY <2>1, <3>1, <3>2, <3>3 DEF TurnInv, HookAlone
  <2> QED BY <1>2, <2>2, <2>3, <2>4, <2>5, <2>6, <2>7, ThreadMoves
<1> QED BY <1>1, <1>2

\* A message that is caught up with after a step was caught up with before it,
\* unless the step is the write of its webhook.
LEMMA CaughtBefore ==
    ASSUME TurnInv, Next, NEW m \in DOMAIN fb', fb'[m].from # "ad", Caught(m)',
           \A h \in Hooks : ~ Upsert(h)
    PROVE  m \in DOMAIN fb /\ Caught(m) /\ fb'[m] = fb[m]
<1>1. DOMAIN fb = 1..Len(fb) /\ DOMAIN fb \subseteq Mids /\ Len(fb) \in Nat
    BY TurnRead
<1>2. \A k \in Mids : delivered[k] > 0 => k \in DOMAIN fb
    BY DEF TurnInv
<1>3. ASSUME UNCHANGED <<hook, delivered>>, \E p : Longer(p)
      PROVE  m \in DOMAIN fb /\ Caught(m) /\ fb'[m] = fb[m]
  <2>1. PICK p : Longer(p)
    BY <1>3
  <2>2. /\ DOMAIN fb' = 1..(Len(fb) + 1) /\ \A k \in DOMAIN fb : fb'[k] = fb[k]
    BY <2>1, TurnRead
  <2>3. Len(fb) + 1 \in Mids
    <3>1. MaxMsgs \in Nat /\ Len(fb) < MaxMsgs
      BY <2>1, InboxConstants DEF Longer, InboxConstants
    <3> QED BY <1>1, <3>1 DEF Mids
  <2>4. m \in Mids
    BY <1>1, <2>2, <2>3
  <2>5. Caught(m)
    BY <1>3 DEF Caught, Upserting
  <2> QED BY <1>2, <2>2, <2>4, <2>5 DEF Caught
<1>4. CASE UNCHANGED <<hook, delivered, fb>>
    BY <1>4 DEF Caught, Upserting
<1>5. ASSUME NEW h \in Hooks, NEW x \in Mids, Deliver(h, x)
      PROVE  m \in DOMAIN fb /\ Caught(m) /\ fb'[m] = fb[m]
  <2>1. /\ delivered' = [delivered EXCEPT ![x] = @ + 1] /\ fb' = fb /\ hook[h] = Idle
        /\ hook' = [hook EXCEPT ![h] = [pc |-> "upsert", m |-> x]]
    BY <1>5 DEF Deliver, IngestElse
  <2>2. \A g \in Hooks : hook'[g] = IF g = h THEN [pc |-> "upsert", m |-> x] ELSE hook[g]
    BY <2>1 DEF TurnInv
  <2>3. m # x
    BY <2>2 DEF Caught, Upserting
  <2>4. ~ Upserting(m)
    BY <2>1, <2>2 DEF Caught, Upserting, Idle
  <2>5. delivered'[m] = delivered[m]
    BY <1>1, <2>1, <2>3 DEF TurnInv
  <2> QED BY <2>1, <2>4, <2>5 DEF Caught
<1>6. ASSUME NEW h \in Hooks, HookWorks(h)
      PROVE  m \in DOMAIN fb /\ Caught(m) /\ fb'[m] = fb[m]
  <2>1. /\ UNCHANGED <<fb, delivered>> /\ hook' = [hook EXCEPT ![h] = hook'[h]]
        /\ hook[h].pc = "upsert" => fb[hook[h].m].from = "ad"
    BY <1>6, HookWorked
  <2>2. \A g \in Hooks : g # h => hook'[g] = hook[g]
    BY <2>1 DEF TurnInv
  <2>3. ~ Upserting(m)
    BY <2>1, <2>2 DEF Caught, Upserting
  <2> QED BY <2>1, <2>3 DEF Caught
<1>7. ASSUME NEW s \in Senders, Accepted(s) PROVE \E p : Longer(p)
    BY <1>7 DEF Accepted, Longer
<1> QED BY <1>3, <1>4, <1>5, <1>6, <1>7, ThreadMoves

\* The write of a webhook is that of the last message that is caught up with.
LEMMA UpsertLast ==
    ASSUME TurnInv, NEW h \in Hooks, Upsert(h), NEW m \in DOMAIN fb, delivered'[m] > 0
    PROVE  /\ UNCHANGED <<fb, delivered>> /\ fb[hook[h].m].from # "ad" /\ m <= hook[h].m
           /\ hook[h].m \in DOMAIN fb
<1>1. HookWorks(h) /\ fb[hook[h].m].from # "ad" /\ hook[h].pc = "upsert"
    BY DEF HookWorks, Upsert
<1>2. UNCHANGED <<fb, delivered>>
    BY <1>1, HookWorked
<1>3. hook[h].m \in DOMAIN fb /\ \A k \in Mids : k > hook[h].m => delivered[k] = 0
    BY <1>1 DEF TurnInv, HookAlone
<1>4. m \in Mids /\ hook[h].m \in Mids
    BY <1>3, TurnRead
<1>5. m <= hook[h].m
    BY <1>2, <1>3, <1>4 DEF Mids
<1> QED BY <1>1, <1>2, <1>3, <1>5

\* The thread only grows.
LEMMA ThreadStays ==
    ASSUME TurnInv, Next
    PROVE  \A k \in DOMAIN fb : k \in DOMAIN fb' /\ fb'[k] = fb[k]
<1>1. CASE \E p : Longer(p)
  <2>1. PICK p : Longer(p)
    BY <1>1
  <2>2. /\ DOMAIN fb = 1..Len(fb) /\ Len(fb) \in Nat /\ DOMAIN fb' = 1..(Len(fb) + 1)
        /\ \A k \in DOMAIN fb : fb'[k] = fb[k]
    BY <2>1, TurnRead
  <2> QED BY <2>2
<1>2. ASSUME NEW s \in Senders, Accepted(s) PROVE \E p : Longer(p)
    BY <1>2 DEF Accepted, Longer
<1>3. ASSUME NEW h \in Hooks, NEW m \in Mids, Deliver(h, m) PROVE fb' = fb
    BY <1>3 DEF Deliver
<1>4. ASSUME NEW h \in Hooks, HookWorks(h) PROVE fb' = fb
    BY <1>4, HookWorked
<1> QED BY <1>1, <1>2, <1>3, <1>4, ThreadMoves

\* What is the last message after a step was so before it, and caught up with,
\* unless the step is the write of its webhook.
LEMMA LastBefore ==
    ASSUME TurnInv, Next, TakesReplies, NEW m \in LastOnFb', Caught(m)', ~ OnItsWay',
           \A h \in Hooks : ~ Upsert(h)
    PROVE  /\ m \in LastOnFb /\ Caught(m) /\ ~ OnItsWay /\ fb'[m] = fb[m]
           /\ \A s \in Senders : ~ ReplyConversation(s)
<1>1. m \in DOMAIN fb' /\ fb'[m].from # "ad" /\ \A k \in DOMAIN fb' : k > m => fb'[k].from = "ad"
    BY DEF LastOnFb, Newer
<1>2. m \in DOMAIN fb /\ Caught(m) /\ fb'[m] = fb[m]
    BY <1>1, CaughtBefore
<1>3. m \in LastOnFb
    BY <1>1, <1>2, ThreadStays DEF LastOnFb, Newer
<1>4. \A s \in Senders : ~ ReplyConversation(s)
    BY ReplyMoves DEF ReplyNext
<1>5. \A s \in Senders : ~ Accepted(s)
  <2> SUFFICES ASSUME NEW s \in Senders, Accepted(s) PROVE FALSE
    OBVIOUS
  <2>1. PICK p : p = [from |-> "page", text |-> send[s].text]
    OBVIOUS
  <2>2. PICK n : n = Len(fb) + 1
    OBVIOUS
  <2>3. /\ DOMAIN fb = 1..Len(fb) /\ Len(fb) \in Nat /\ DOMAIN fb' = 1..n
        /\ fb'[n] = p
    <3>1. Longer(p)
      BY <2>1 DEF Accepted, Longer
    <3> QED BY <2>2, <3>1, TurnRead
  <2>4. n > m /\ n \in 1..n
    <3>1. m \in 1..Len(fb) /\ Len(fb) \in Nat
      BY <1>2, <2>3
    <3> QED BY <2>2, <3>1
  <2> QED BY <1>1, <2>1, <2>3, <2>4
<1>6. ~ OnItsWay
  <2>1. CASE UNCHANGED send
    BY <2>1 DEF OnItsWay
  <2>2. CASE ReplyNext
    BY <1>5, <2>2, ReplyMoves
  <2>3. \A h \in Hooks : /\ \A x \in Mids : Deliver(h, x) => UNCHANGED send
                         /\ HookWorks(h) => UNCHANGED send
    BY HookWorked DEF Deliver, IngestElse
  <2> QED BY <1>5, <2>1, <2>2, <2>3, ThreadMoves
<1> QED BY <1>2, <1>3, <1>4, <1>6

\* A webhook that writes the conversation while the last message is delivered
\* is that message's.
LEMMA UpsertIsLast ==
    ASSUME TurnInv, NEW h \in Hooks, Upsert(h), NEW m \in LastOnFb', delivered'[m] > 0
    PROVE  m = hook[h].m /\ fb' = fb
<1>1. fb' = fb
    BY HookWorked DEF HookWorks
<1>2. m \in DOMAIN fb /\ \A k \in DOMAIN fb : k > m => fb[k].from = "ad"
    BY <1>1 DEF LastOnFb, Newer
<1>3. fb[hook[h].m].from # "ad" /\ m <= hook[h].m /\ hook[h].m \in DOMAIN fb
    BY <1>2, UpsertLast
<1>4. hook[h].m \in Int /\ m \in Int
    BY <1>2, <1>3, TurnRead
<1> QED BY <1>1, <1>2, <1>3, <1>4

-----------------------------------------------------------------------------
\* needsReply.  Only Upsert and ReplyConversation write it.
FlagInv == ~ OnItsWay => \A m \in LastOnFb :
               Caught(m) => conv.needsReply = (fb[m].from = "customer")

LEMMA FlagWritten ==
    ASSUME Next, ConvTyped
    PROVE  \/ conv'.needsReply = conv.needsReply
           \/ \E h \in Hooks : Upsert(h)
           \/ \E s \in Senders : ReplyConversation(s)
<1>1. CASE IngestNext
    BY <1>1 DEF IngestNext, ConvTyped, FacebookMessage, Deliver, AdUpsert, AdFind, KnownMid,
       UnknownMid, EchoFind, EchoLink, FindAgain, Insert, ReadReceipt
<1>2. CASE ReplyNext
    BY <1>2 DEF ReplyNext, ConvTyped, SendStart, CreatePending, Accepted, Refused, Answer,
       AnswerUnsaved, DropPending, Fail, LockEnds
<1>3. CASE SyncNext
    BY <1>3 DEF SyncNext, ConvTyped, SyncFetch, SyncRead, SyncUpsert, SyncInsert, SyncBump,
       RefreshFetch, RefreshBatch, RefreshLink, RefreshEnd, PersistFind, PersistUpdate,
       PersistCreate
<1>4. CASE DeskNext
    BY <1>4 DEF DeskNext, ConvTyped, View, ViewWrite, MarkRead, MarkReadWrite, MarkReadAgain, List,
       ListLook, ListClear, Label, LabelLocked, LabelClean, LabelInsert, LabelInsertFails,
       LabelWrite, MarkUnread
<1> QED BY <1>1, <1>2, <1>3, <1>4 DEF Next

LEMMA FlagKept ==
    ASSUME TurnInv, FlagInv, TakesReplies, [Next]_vars
    PROVE  FlagInv'
<1>1. CASE UNCHANGED vars
  <2>1. LastOnFb' = LastOnFb /\ OnItsWay' = OnItsWay
    BY <1>1 DEF vars, LastOnFb, Newer, OnItsWay
  <2>2. \A m \in LastOnFb : Caught(m)' = Caught(m)
    BY <1>1 DEF vars, Caught, Upserting
  <2> QED BY <1>1, <2>1, <2>2 DEF vars, FlagInv
<1>2. CASE Next
  <2> SUFFICES ASSUME NEW m \in LastOnFb', Caught(m)', ~ OnItsWay'
               PROVE  conv'.needsReply = (fb'[m].from = "customer")
    BY DEF FlagInv
  <2>1. ASSUME NEW h \in Hooks, Upsert(h)
        PROVE  conv'.needsReply = (fb'[m].from = "customer")
    <3>1. m = hook[h].m /\ fb' = fb
      BY <2>1, UpsertIsLast DEF Caught
    <3>2. conv'.needsReply = (fb[hook[h].m].from = "customer")
      BY <2>1 DEF Upsert, TurnInv, ConvTyped
    <3> QED BY <3>1, <3>2
  <2>2. CASE \A h \in Hooks : ~ Upsert(h)
    <3>1. /\ m \in LastOnFb /\ Caught(m) /\ ~ OnItsWay /\ fb'[m] = fb[m]
          /\ \A s \in Senders : ~ ReplyConversation(s)
      BY <1>2, <2>2, LastBefore
    <3>2. conv'.needsReply = conv.needsReply
      BY <1>2, <2>2, <3>1, FlagWritten DEF TurnInv
    <3> QED BY <3>1, <3>2 DEF FlagInv
  <2> QED BY <2>1, <2>2
<1> QED BY <1>1, <1>2

LEMMA TurnInit == Init => TurnInv /\ FlagInv
<1> SUFFICES ASSUME Init PROVE TurnInv /\ FlagInv
    OBVIOUS
<1>1. /\ fb = <<>> /\ delivered = [m \in Mids |-> 0] /\ hook = [h \in Hooks |-> Idle]
      /\ send = [s \in Senders |-> Idle]
      /\ conv = [made |-> FALSE, unread |-> 0, needsReply |-> FALSE, awaiting |-> FALSE,
                 lastAt |-> 0, last |-> "none"]
    BY DEF Init
<1>2. Len(fb) <= MaxMsgs /\ DOMAIN fb = {} /\ fb \in Seq(Nat)
  <2>1. Len(fb) = 0 /\ DOMAIN fb = {} /\ fb \in Seq(Nat)
    BY <1>1
  <2>2. MaxMsgs \in Nat
    BY InboxConstants DEF InboxConstants
  <2> QED BY <2>1, <2>2
<1>3. HookAlone(Idle) /\ SendAlone(Idle)
    BY DEF HookAlone, SendAlone, HookPcs, Idle
<1>4. ConvTyped
    BY <1>1 DEF ConvTyped
<1>5. TurnInv
    BY <1>1, <1>2, <1>3, <1>4 DEF TurnInv
<1>6. FlagInv
    BY <1>2 DEF FlagInv, LastOnFb
<1> QED BY <1>5, <1>6

\* At rest every message is caught up with and no reply is on its way.
LEMMA RestCaught ==
    ASSUME TurnInv, AtRest
    PROVE  ~ OnItsWay /\ \A m \in DOMAIN fb : Caught(m)
<1>1. \A h \in Hooks : hook[h] = Idle
  <2>1. DOMAIN hook = Hooks
    BY DEF TurnInv
  <2> QED BY <2>1 DEF AtRest, Working
<1>2. \A s \in Senders : send[s] = Idle
  <2>1. DOMAIN send = Senders
    BY DEF TurnInv
  <2> QED BY <2>1 DEF AtRest, Working
<1> QED BY <1>1, <1>2 DEF AtRest, OnItsWay, Caught, Upserting, Idle

-----------------------------------------------------------------------------
\* The unread count.  What staff and syncs write is as old as what they read:
\* the rules leave out those that take the conversation for read on what they
\* read earlier, and a sync beside the page's own messages.

\* Nobody is about to write what they read of the conversation.
DeskQuiet == \A u \in Staff : desk[u].pc \notin {"view", "mark", "marked", "list", "clear"}

\* A sync has listed something, and beside syncs only customers write.
SyncCounts ==
    /\ sync = [y \in Syncs |-> sync[y]]
    /\ \A y \in Syncs :
          /\ sync[y] # Idle => "sync" \in Does
          /\ sync[y].pc \in {"read", "upsert"} =>
                sync[y].n \in 0..Len(fb) /\ Listed(sync[y].n) # {}
CustomersOnly ==
    "sync" \in Does => /\ \A s \in Senders : send[s] = Idle
                       /\ \A m \in DOMAIN fb : fb[m].from \in {"customer", "ad"}

UnseenCounted == \A m \in WaitingFor : m > seen /\ Caught(m) => conv.unread > 0

CountInv == conv.unread \in Nat /\ DeskQuiet /\ SyncCounts /\ CustomersOnly /\ UnseenCounted

LEMMA CountWritten ==
    ASSUME Next, ConvTyped, DeskQuiet
    PROVE  \/ conv'.unread = conv.unread /\ seen' = seen
           \/ conv'.unread \in {0, conv.unread} /\ seen' = Len(fb) /\ fb' = fb
           \/ conv'.unread = 1 /\ seen' = seen
           \/ \E h \in Hooks : Upsert(h)
           \/ \E y \in Syncs : SyncUpsert(y)
<1>1. CASE IngestNext
    BY ZenonT(60), <1>1 DEF IngestNext, ConvTyped, IngestElse, FacebookMessage, Deliver, AdUpsert,
       AdFind, KnownMid, UnknownMid, EchoFind, EchoLink, FindAgain, Insert, ReadReceipt
<1>2. CASE ReplyNext
    BY ZenonT(60), <1>2 DEF ReplyNext, ConvTyped, SendStart, CreatePending, ReplyConversation,
       Accepted, Refused, Answer, AnswerUnsaved, DropPending, Fail, LockEnds
<1>3. CASE SyncNext
    BY <1>3 DEF SyncNext, ConvTyped, SyncElse, SyncFetch, SyncRead, SyncInsert, SyncBump,
       RefreshFetch, RefreshBatch, RefreshLink, RefreshEnd, PersistFind, PersistUpdate,
       PersistCreate
<1>4. CASE DeskNext
    BY ZenonT(60), <1>4 DEF DeskNext, ConvTyped, DeskQuiet, DeskAt, DeskElse, View, ViewWrite,
       MarkRead, MarkReadWrite, MarkReadAgain, List, ListLook, ListClear, Label, LabelLocked,
       LabelClean, LabelInsert, LabelInsertFails,
       LabelWrite, MarkUnread
<1> QED BY <1>1, <1>2, <1>3, <1>4 DEF Next

LEMMA QuietKept ==
    ASSUME ClaimInv, DeskQuiet, Does \cap {"view", "mark", "list"} = {}, Next
    PROVE  DeskQuiet'
<1>1. CASE UNCHANGED desk
    BY <1>1 DEF DeskQuiet
<1>2. ASSUME NEW u \in Staff, NEW d, desk' = [desk EXCEPT ![u] = d],
             d.pc \notin {"view", "mark", "marked", "list", "clear"}
      PROVE  DeskQuiet'
    BY <1>2 DEF DeskQuiet, ClaimInv
<1>3. ASSUME NEW u \in Staff, NEW p \in {"clean", "insert"}, desk[u].pc \in {"locked", "clean"}
      PROVE  [desk[u] EXCEPT !.pc = p].pc = p
    BY <1>3 DEF ClaimInv, DeskTrue
<1>4. ASSUME NEW u \in Staff, \E l \in Labels : Label(u, l)
      PROVE  DeskQuiet'
    BY <1>2, <1>4 DEF Label
<1>5. ASSUME NEW u \in Staff, LabelLocked(u) PROVE DeskQuiet'
    BY <1>2, <1>3, <1>5 DEF LabelLocked, DeskAt, Idle
<1>6. ASSUME NEW u \in Staff, LabelClean(u) PROVE DeskQuiet'
    BY <1>2, <1>3, <1>6 DEF LabelClean, DeskAt
<1>7. ASSUME NEW u \in Staff, LabelInsert(u) \/ LabelInsertFails(u) \/ LabelWrite(u)
      PROVE  DeskQuiet'
    BY <1>2, <1>7 DEF LabelInsert, LabelInsertFails, LabelWrite, Idle
<1>8. ASSUME NEW u \in Staff
      PROVE  ~ (View(u) \/ ViewWrite(u) \/ MarkRead(u) \/ MarkReadWrite(u) \/ MarkReadAgain(u)
                \/ List(u) \/ ListLook(u) \/ ListClear(u))
    BY <1>8 DEF View, ViewWrite, MarkRead, MarkReadWrite, MarkReadAgain, List, ListLook, ListClear,
       DeskQuiet, DeskAt
<1>9. MarkUnread => UNCHANGED desk
    BY DEF MarkUnread
<1> QED BY <1>1, <1>4, <1>5, <1>6, <1>7, <1>8, <1>9, LabelsOnlyHere DEF DeskNext

\* What is on Facebook when a sync reads it stays as it is.
LEMMA ListedStays ==
    ASSUME TurnInv, Next, NEW n \in 0..Len(fb)
    PROVE  n \in 0..Len(fb') /\ Listed(n)' = Listed(n)
<1>1. DOMAIN fb = 1..Len(fb) /\ Len(fb) \in Nat
    BY TurnRead
<1>2. Len(fb') = Len(fb) \/ Len(fb') = Len(fb) + 1
  <2>1. ASSUME NEW p, Longer(p) PROVE Len(fb') = Len(fb) + 1
    BY <2>1, TurnRead
  <2>2. ASSUME NEW s \in Senders, Accepted(s) PROVE \E p : Longer(p)
    BY <2>2 DEF Accepted, Longer
  <2>3. ASSUME NEW h \in Hooks, (\E m \in Mids : Deliver(h, m)) \/ HookWorks(h) PROVE fb' = fb
    BY <2>3, HookWorked DEF Deliver
  <2> QED BY <2>1, <2>2, <2>3, ThreadMoves
<1>3. n \in 0..Len(fb')
    BY <1>1, <1>2
<1>4. \A k \in 1..n : fb'[k] = fb[k]
    BY <1>1, ThreadStays
<1> QED BY <1>3, <1>4 DEF Listed

\* The steps of a sync.
LEMMA SyncMoves ==
    ASSUME Next
    PROVE  \/ UNCHANGED sync
           \/ \E y \in Syncs : SyncFetch(y) \/ SyncRead(y) \/ SyncUpsert(y) \/ SyncInsert(y)
                               \/ SyncBump(y)
<1>1. CASE IngestNext
    BY <1>1 DEF IngestNext, IngestElse, FacebookMessage, Deliver, Upsert, AdUpsert, AdFind,
       KnownMid, UnknownMid, EchoFind, EchoLink, FindAgain, Insert, ReadReceipt
<1>2. CASE ReplyNext
    BY <1>2 DEF ReplyNext, ReplyElse, SendStart, CreatePending, ReplyConversation, Accepted,
       Refused, Answer, AnswerUnsaved, DropPending, Fail, LockEnds
<1>3. CASE SyncNext
    BY <1>3 DEF SyncNext, RefreshFetch, RefreshBatch, RefreshLink, RefreshEnd, PersistFind,
       PersistUpdate, PersistCreate
<1>4. CASE DeskNext
    BY <1>4 DEF DeskNext, DeskElse, View, ViewWrite, MarkRead, MarkReadWrite, MarkReadAgain, List,
       ListLook, ListClear, Label, LabelLocked, LabelClean, LabelInsert, LabelInsertFails,
       LabelWrite, MarkUnread
<1> QED BY <1>1, <1>2, <1>3, <1>4 DEF Next

LEMMA SyncCountsKept ==
    ASSUME TurnInv, SyncCounts, Next
    PROVE  SyncCounts'
<1>1. CASE UNCHANGED sync
    BY <1>1, ListedStays DEF SyncCounts
<1>2. ASSUME NEW y \in Syncs, NEW d, sync' = [sync EXCEPT ![y] = d], "sync" \in Does,
             d.pc \in {"read", "upsert"} => d.n \in 0..Len(fb) /\ Listed(d.n) # {}
      PROVE  SyncCounts'
  <2>1. /\ sync' = [z \in Syncs |-> sync'[z]]
        /\ \A z \in Syncs : sync'[z] = IF z = y THEN d ELSE sync[z]
    BY <1>2 DEF SyncCounts
  <2>2. ASSUME NEW z \in Syncs, sync'[z].pc \in {"read", "upsert"}
        PROVE  (sync[z].n \in 0..Len(fb) /\ Listed(sync[z].n) # {})'
    <3>1. PICK e : e = sync'[z]
      OBVIOUS
    <3>2. e.n \in 0..Len(fb) /\ Listed(e.n) # {}
      BY <1>2, <2>1, <2>2, <3>1 DEF SyncCounts
    <3>3. e.n \in 0..Len(fb') /\ Listed(e.n)' # {}
      BY <3>2, ListedStays
    <3> QED BY <3>1, <3>3 DEF Listed
  <2>3. \A z \in Syncs : sync'[z] # Idle => "sync" \in Does
    BY <1>2
  <2> QED BY <2>1, <2>2, <2>3 DEF SyncCounts
<1>3. ASSUME NEW y \in Syncs, SyncFetch(y)
      PROVE  SyncCounts'
  <2>1. PICK d : d = [pc |-> "read", n |-> Len(fb)]
    OBVIOUS
  <2>2. d.n \in 0..Len(fb) /\ Listed(d.n) # {}
    BY <1>3, <2>1, TurnRead DEF SyncFetch
  <2> QED BY <1>2, <1>3, <2>1, <2>2 DEF SyncFetch
<1>4. ASSUME NEW y \in Syncs, sync[y] # Idle, sync[y].pc \in {"read", "upsert"}
      PROVE  "sync" \in Does /\ sync[y].n \in 0..Len(fb) /\ Listed(sync[y].n) # {}
    BY <1>4 DEF SyncCounts
<1>5. ASSUME NEW y \in Syncs, SyncRead(y)
      PROVE  SyncCounts'
  <2>1. PICK d : d = [pc |-> "upsert", n |-> sync[y].n, at |-> conv.lastAt]
    OBVIOUS
  <2>2. sync' = [sync EXCEPT ![y] = Idle] \/ sync' = [sync EXCEPT ![y] = d]
    BY <1>5, <2>1 DEF SyncRead
  <2>3. d.n \in 0..Len(fb) /\ Listed(d.n) # {} /\ "sync" \in Does
    BY <1>4, <1>5, <2>1 DEF SyncRead, Idle
  <2> QED BY <1>2, <2>2, <2>3 DEF Idle
<1>6. ASSUME NEW y \in Syncs, SyncUpsert(y) \/ SyncInsert(y) \/ SyncBump(y)
      PROVE  SyncCounts'
  <2>1. sync[y].pc \in {"upsert", "insert", "bump"}
    BY <1>6 DEF SyncUpsert, SyncInsert, SyncBump
  <2>2. sync[y] # Idle
    BY <2>1 DEF Idle
  <2>3. ASSUME NEW d, sync' = [sync EXCEPT ![y] = d], d.pc \notin {"read", "upsert"}
        PROVE  SyncCounts'
    BY <1>2, <2>2, <2>3 DEF SyncCounts
  <2>4. Idle.pc \notin {"read", "upsert"}
    BY DEF Idle
  <2>5. CASE SyncUpsert(y)
    <3>1. \E n : sync' = [sync EXCEPT ![y] = [pc |-> "insert", n |-> n]]
      BY <2>5 DEF SyncUpsert
    <3> QED BY <2>3, <3>1
  <2>6. CASE SyncInsert(y) \/ SyncBump(y)
    BY <2>3, <2>4, <2>6 DEF SyncInsert, SyncBump
  <2> QED BY <1>6, <2>5, <2>6
<1> QED BY <1>1, <1>3, <1>5, <1>6, SyncMoves

\* Beside syncs only customers write.
LEMMA PostsOf ==
    ASSUME Next
    PROVE  \/ UNCHANGED fb
           \/ \E from \in Does \cap {"customer", "page", "ad"}, t \in Texts :
                 Longer([from |-> from, text |-> t]) /\ UNCHANGED send
           \/ \E s \in Senders : Accepted(s)
<1>1. CASE IngestNext
    BY <1>1 DEF IngestNext, IngestElse, FacebookMessage, Longer, Deliver, Upsert, AdUpsert, AdFind,
       KnownMid, UnknownMid, EchoFind, EchoLink, FindAgain, Insert, ReadReceipt
<1>2. CASE ReplyNext
    BY <1>2 DEF ReplyNext, SendStart, CreatePending, ReplyConversation, Refused, Answer,
       AnswerUnsaved, DropPending, Fail, LockEnds
<1>3. CASE SyncNext
    BY <1>3 DEF SyncNext, SyncElse, SyncFetch, SyncRead, SyncUpsert, SyncInsert, SyncBump,
       RefreshFetch, RefreshBatch, RefreshLink, RefreshEnd, PersistFind, PersistUpdate,
       PersistCreate
<1>4. CASE DeskNext
    BY <1>4 DEF DeskNext, DeskElse, View, ViewWrite, MarkRead, MarkReadWrite, MarkReadAgain, List,
       ListLook, ListClear, Label, LabelLocked, LabelClean, LabelInsert, LabelInsertFails,
       LabelWrite, MarkUnread
<1> QED BY <1>1, <1>2, <1>3, <1>4 DEF Next

LEMMA CustomersKept ==
    ASSUME TurnInv, CountRules, CustomersOnly, Next
    PROVE  CustomersOnly'
<1> SUFFICES ASSUME "sync" \in Does
             PROVE  /\ \A s \in Senders : send'[s] = Idle
                    /\ \A m \in DOMAIN fb' : fb'[m].from \in {"customer", "ad"}
    BY DEF CustomersOnly
<1>1. /\ \A s \in Senders : send[s] = Idle
      /\ \A m \in DOMAIN fb : fb[m].from \in {"customer", "ad"}
      /\ Does \cap {"page", "send", "media"} = {}
    BY DEF CustomersOnly, CountRules
<1>2. \A s \in Senders : ~ SendWorks(s)
  <2> TAKE s \in Senders
  <2>1. send[s].pc = "idle"
    BY <1>1 DEF Idle
  <2>2. "send" \notin Does /\ "media" \notin Does
    BY <1>1
  <2>3. \A t \in Texts \cup {Media} : ~ SendStart(s, t)
    BY <2>2 DEF SendStart
  <2> QED BY <2>1, <2>3 DEF SendWorks, CreatePending, ReplyConversation, Accepted, Refused, Answer,
             AnswerUnsaved, DropPending, Fail
<1>3. UNCHANGED send
  <2>1. ReplyNext => UNCHANGED send
    BY <1>2 DEF ReplyNext, SendWorks, LockEnds
  <2>2. \A s \in Senders : ~ Accepted(s)
    BY <1>2 DEF SendWorks
  <2>3. \A h \in Hooks : /\ \A x \in Mids : Deliver(h, x) => UNCHANGED send
                         /\ HookWorks(h) => UNCHANGED send
    BY HookWorked DEF Deliver, IngestElse
  <2> QED BY <2>1, <2>2, <2>3, ThreadMoves
<1>4. ASSUME NEW from \in Does \cap {"customer", "page", "ad"}, NEW t \in Texts,
             Longer([from |-> from, text |-> t])
      PROVE  \A m \in DOMAIN fb' : fb'[m].from \in {"customer", "ad"}
  <2>1. PICK p : p = [from |-> from, text |-> t]
    OBVIOUS
  <2>2. /\ DOMAIN fb = 1..Len(fb) /\ Len(fb) \in Nat /\ DOMAIN fb' = 1..(Len(fb) + 1)
        /\ \A k \in DOMAIN fb : fb'[k] = fb[k]
        /\ fb'[Len(fb) + 1] = p
    BY <1>4, <2>1, TurnRead
  <2>3. p.from \in {"customer", "ad"}
    BY <1>1, <2>1
  <2>4. \A m \in 1..(Len(fb) + 1) : m \in 1..Len(fb) \/ m = Len(fb) + 1
    BY <2>2
  <2> QED BY <1>1, <2>2, <2>3, <2>4
<1>5. \A s \in Senders : ~ Accepted(s)
    BY <1>2 DEF SendWorks
<1> QED BY <1>1, <1>3, <1>4, <1>5, PostsOf

\* What a sync lists among customers' messages only is unread.
LEMMA AllTrailing ==
    ASSUME TurnInv, CustomersOnly, "sync" \in Does, NEW n \in 0..Len(fb), Listed(n) # {}
    PROVE  TrailingUnread(n) \in Nat /\ TrailingUnread(n) > 0
<1>1. DOMAIN fb = 1..Len(fb) /\ Len(fb) \in Nat
    BY TurnRead
<1>2. \A m \in Listed(n) : m \in DOMAIN fb /\ fb[m].from = "customer"
    BY <1>1 DEF Listed, CustomersOnly
<1>3. {m \in Listed(n) : \A k \in Listed(n) : k >= m => fb[k].from = "customer"} = Listed(n)
    BY <1>2
<1>4. IsFiniteSet(Listed(n))
  <2>1. IsFiniteSet(1..n)
    BY <1>1, FS_Interval
  <2> QED BY <2>1, FS_Subset DEF Listed
<1>5. Cardinality(Listed(n)) \in Nat
    BY <1>4, FS_CardinalityType
<1>6. Cardinality(Listed(n)) > 0
  <2>1. Cardinality(Listed(n)) # 0
    BY <1>4, FS_EmptySet
  <2> QED BY <1>5, <2>1
<1>7. TrailingUnread(n) = Cardinality(Listed(n))
    BY <1>3 DEF TrailingUnread
<1> QED BY <1>5, <1>6, <1>7

\* Who waits for an answer waited already.
LEMMA WaitedBefore ==
    ASSUME TurnInv, Next, NEW m \in WaitingFor', Caught(m)', \A h \in Hooks : ~ Upsert(h)
    PROVE  m \in WaitingFor /\ Caught(m)
<1>1. m \in DOMAIN fb' /\ fb'[m].from = "customer"
    BY DEF WaitingFor
<1>2. m \in DOMAIN fb /\ Caught(m) /\ fb'[m] = fb[m]
    BY <1>1, CaughtBefore
<1>3. \A k \in Newer(m) : fb[k].from = "customer"
    BY ThreadStays DEF WaitingFor, Newer
<1> QED BY <1>1, <1>2, <1>3 DEF WaitingFor

LEMMA CountKept ==
    ASSUME TurnInv, ClaimInv, CountInv, CountRules, [Next]_vars
    PROVE  CountInv'
<1>1. CASE UNCHANGED vars
  <2>1. WaitingFor' = WaitingFor
    BY <1>1 DEF vars, WaitingFor, Newer
  <2>2. \A m \in WaitingFor : Caught(m)' = Caught(m)
    BY <1>1 DEF vars, Caught, Upserting
  <2>3. UnseenCounted'
    BY <1>1, <2>1, <2>2 DEF vars, CountInv, UnseenCounted
  <2>4. \A n : Listed(n)' = Listed(n)
    BY <1>1 DEF vars, Listed
  <2>5. SyncCounts'
    BY <1>1, <2>4 DEF vars, CountInv, SyncCounts
  <2> QED BY <1>1, <2>3, <2>5 DEF vars, CountInv, DeskQuiet, CustomersOnly
<1>2. CASE Next
  <2>1. DeskQuiet' /\ SyncCounts' /\ CustomersOnly'
    BY <1>2, QuietKept, SyncCountsKept, CustomersKept DEF CountInv, CountRules
  <2>2. ASSUME NEW y \in Syncs, SyncUpsert(y)
        PROVE  conv'.unread \in Nat /\ conv'.unread > 0
    <3>1. conv'.unread = TrailingUnread(sync[y].n) /\ sync[y].pc = "upsert"
      BY <2>2 DEF SyncUpsert, TurnInv, ConvTyped
    <3>2. "sync" \in Does /\ sync[y].n \in 0..Len(fb) /\ Listed(sync[y].n) # {}
      BY <3>1 DEF CountInv, SyncCounts, Idle
    <3> QED BY <3>1, <3>2, AllTrailing DEF CountInv
  <2>3. ASSUME NEW h \in Hooks, Upsert(h)
        PROVE  /\ conv'.unread \in Nat
               /\ fb[hook[h].m].from = "customer" => conv'.unread > 0
    <3>1. conv'.unread = IF fb[hook[h].m].from = "page" THEN 0 ELSE conv.unread + 1
      BY <2>3 DEF Upsert, TurnInv, ConvTyped
    <3> QED BY <3>1 DEF CountInv
  <2>4. conv'.unread \in Nat
    BY <1>2, <2>2, <2>3, CountWritten DEF CountInv, TurnInv
  <2>5. UnseenCounted'
    <3> SUFFICES ASSUME NEW m \in WaitingFor', m > seen', Caught(m)' PROVE conv'.unread > 0
      BY DEF UnseenCounted
    <3>1. ASSUME NEW h \in Hooks, Upsert(h)
          PROVE  conv'.unread > 0
      <4>1. fb' = fb /\ delivered'[m] > 0
        BY <3>1, HookWorked DEF HookWorks, Caught
      <4>2. m \in WaitingFor
        BY <4>1 DEF WaitingFor, Newer
      <4>3. fb[hook[h].m].from # "ad" /\ m <= hook[h].m /\ hook[h].m \in DOMAIN fb
        BY <3>1, <4>1, <4>2, UpsertLast DEF WaitingFor
      <4>4. m = hook[h].m \/ hook[h].m > m
        <5>1. m \in Nat /\ hook[h].m \in Nat
          BY <4>2, <4>3, TurnRead DEF WaitingFor
        <5> QED BY <4>3, <5>1
      <4>5. fb[hook[h].m].from = "customer"
        BY <4>2, <4>3, <4>4 DEF WaitingFor, Newer
      <4> QED BY <2>3, <3>1, <4>5
    <3>2. CASE \A h \in Hooks : ~ Upsert(h)
      <4>1. m \in WaitingFor /\ Caught(m)
        BY <1>2, <3>2, WaitedBefore
      <4>2. ~ (seen' = Len(fb) /\ fb' = fb)
        <5>1. m \in 1..Len(fb) /\ Len(fb) \in Nat
          BY <4>1, TurnRead DEF WaitingFor
        <5> QED BY <5>1
      <4>3. seen' = seen => conv.unread > 0
        BY <4>1 DEF CountInv, UnseenCounted
      <4>4. CASE conv'.unread = conv.unread /\ seen' = seen
        BY <4>3, <4>4
      <4>5. CASE conv'.unread = 1
        BY <4>5
      <4> QED BY <1>2, <2>2, <3>2, <4>2, <4>4, <4>5, CountWritten DEF CountInv, TurnInv
    <3> QED BY <3>1, <3>2
  <2> QED BY <2>1, <2>4, <2>5 DEF CountInv
<1> QED BY <1>1, <1>2

LEMMA CountInit == Init => CountInv
<1> SUFFICES ASSUME Init PROVE CountInv
    OBVIOUS
<1>1. /\ fb = <<>> /\ send = [s \in Senders |-> Idle] /\ sync = [y \in Syncs |-> Idle]
      /\ desk = [u \in Staff |-> Idle] /\ conv.unread = 0
    BY DEF Init
<1>2. DOMAIN fb = {}
    BY <1>1
<1>3. UnseenCounted
    BY <1>2 DEF UnseenCounted, WaitingFor
<1>4. SyncCounts /\ DeskQuiet /\ CustomersOnly
    BY <1>1, <1>2 DEF SyncCounts, DeskQuiet, CustomersOnly, Idle
<1> QED BY <1>1, <1>3, <1>4 DEF CountInv

-----------------------------------------------------------------------------
\* The preview of the list, where only webhooks and replies write it: the rows
\* are those of their messages, so finding one again changes nothing.

LastShown == ~ OnItsWay => \A m \in LastOnFb : Caught(m) => conv.last = fb[m].text

PreviewInv ==
    /\ sync = [y \in Syncs |-> Idle]
    /\ \A m \in DOMAIN fb : fb[m].from # "ad"
    /\ LastShown

LEMMA FoundAsIs ==
    ASSUME ThreadInv, NEW h \in Hooks, FindAgain(h)
    PROVE  conv' = conv
<1>1. hook[h] # Idle /\ hook[h].m \in DOMAIN fb
    BY DEF FindAgain, ThreadInv, LinksTrue, Idle
<1>2. hook[h].m # 0
    BY <1>1, FbRead, ReplyOthers
<1>3. \A r \in RowsOfMid(hook[h].m) : rows[r].text = fb[hook[h].m].text
    BY <1>2 DEF RowsOfMid, ThreadInv, RowsTrue
<1> QED BY <1>3 DEF FindAgain

LEMMA PreviewWritten ==
    ASSUME Next, ConvTyped, ThreadInv, PreviewInv, PreviewRules
    PROVE  \/ conv'.last = conv.last
           \/ \E h \in Hooks : Upsert(h)
           \/ \E s \in Senders : ReplyConversation(s)
<1>1. CASE IngestNext
  <2>1. \A h \in Hooks : FindAgain(h) => conv' = conv
    BY FoundAsIs
  <2>2. \A h \in Hooks : ~ AdUpsert(h)
    BY DEF AdUpsert, ThreadInv, LinksTrue, PreviewInv, Idle
  <2> QED BY <1>1, <2>1, <2>2 DEF IngestNext, ConvTyped, FacebookMessage, Deliver, AdFind,
             KnownMid, UnknownMid, EchoFind, EchoLink, Insert, ReadReceipt
<1>2. CASE ReplyNext
    BY <1>2 DEF ReplyNext, ConvTyped, SendStart, CreatePending, Accepted, Refused, Answer,
       AnswerUnsaved, DropPending, Fail, LockEnds
<1>3. CASE SyncNext
  <2>1. refresh = Idle /\ \A y \in Syncs : sync[y].pc = "idle"
    BY DEF ThreadInv, ThreadTyped, RefreshTyped, PreviewRules, PreviewInv, Idle
  <2>2. \A y \in Syncs : ~ SyncUpsert(y) /\ ~ SyncBump(y)
    BY <2>1 DEF SyncUpsert, SyncBump
  <2>3. ~ RefreshEnd
    BY <2>1 DEF RefreshEnd, Idle
  <2> QED BY <1>3, <2>2, <2>3 DEF SyncNext, ConvTyped, SyncFetch, SyncRead, SyncInsert,
             RefreshFetch, RefreshBatch, RefreshLink, PersistFind, PersistUpdate, PersistCreate
<1>4. CASE DeskNext
    BY <1>4 DEF DeskNext, ConvTyped, View, ViewWrite, MarkRead, MarkReadWrite, MarkReadAgain, List,
       ListLook, ListClear, Label, LabelLocked, LabelClean, LabelInsert, LabelInsertFails,
       LabelWrite, MarkUnread
<1> QED BY <1>1, <1>2, <1>3, <1>4 DEF Next

LEMMA PreviewKept ==
    ASSUME TurnInv, ThreadInv, PreviewInv, PreviewRules, [Next]_vars
    PROVE  PreviewInv'
<1>1. CASE UNCHANGED vars
  <2>1. LastOnFb' = LastOnFb /\ OnItsWay' = OnItsWay
    BY <1>1 DEF vars, LastOnFb, Newer, OnItsWay
  <2>2. \A m \in LastOnFb : Caught(m)' = Caught(m)
    BY <1>1 DEF vars, Caught, Upserting
  <2> QED BY <1>1, <2>1, <2>2 DEF vars, PreviewInv, LastShown
<1>2. CASE Next
  <2>1. sync' = [y \in Syncs |-> Idle]
    <3>1. \A y \in Syncs : sync[y].pc = "idle"
      BY DEF PreviewInv, Idle
    <3>2. \A y \in Syncs : ~ (SyncFetch(y) \/ SyncRead(y) \/ SyncUpsert(y) \/ SyncInsert(y)
                              \/ SyncBump(y))
      BY <3>1 DEF SyncFetch, SyncRead, SyncUpsert, SyncInsert, SyncBump, PreviewRules
    <3> QED BY <1>2, <3>2, SyncMoves DEF PreviewInv
  <2>2. \A m \in DOMAIN fb' : fb'[m].from # "ad"
    <3>1. ASSUME NEW p, Longer(p), p.from # "ad"
          PROVE  \A m \in DOMAIN fb' : fb'[m].from # "ad"
      <4>1. /\ DOMAIN fb = 1..Len(fb) /\ Len(fb) \in Nat /\ DOMAIN fb' = 1..(Len(fb) + 1)
            /\ \A k \in DOMAIN fb : fb'[k] = fb[k]
            /\ fb'[Len(fb) + 1] = p
        BY <3>1, TurnRead
      <4>2. \A m \in 1..(Len(fb) + 1) : m \in 1..Len(fb) \/ m = Len(fb) + 1
        BY <4>1
      <4> QED BY <3>1, <4>1, <4>2 DEF PreviewInv
    <3>2. ASSUME NEW from \in Does \cap {"customer", "page", "ad"}, NEW t \in Texts
          PROVE  [from |-> from, text |-> t].from # "ad"
      BY DEF PreviewRules
    <3>3. ASSUME NEW s \in Senders, Accepted(s)
          PROVE  Longer([from |-> "page", text |-> send[s].text])
      BY <3>3 DEF Accepted, Longer
    <3> QED BY <1>2, <3>1, <3>2, <3>3, PostsOf DEF PreviewInv
  <2>3. LastShown'
    <3> SUFFICES ASSUME NEW m \in LastOnFb', Caught(m)', ~ OnItsWay'
                 PROVE  conv'.last = fb'[m].text
      BY DEF LastShown
    <3>1. ASSUME NEW h \in Hooks, Upsert(h)
          PROVE  conv'.last = fb'[m].text
      <4>1. m = hook[h].m /\ fb' = fb
        BY <3>1, UpsertIsLast DEF Caught
      <4>2. conv'.last = fb[hook[h].m].text
        BY <3>1 DEF Upsert, TurnInv, ConvTyped
      <4> QED BY <4>1, <4>2
    <3>2. CASE \A h \in Hooks : ~ Upsert(h)
      <4>1. TakesReplies
        BY DEF PreviewRules, Calm, TakesReplies
      <4>2. /\ m \in LastOnFb /\ Caught(m) /\ ~ OnItsWay /\ fb'[m] = fb[m]
            /\ \A s \in Senders : ~ ReplyConversation(s)
        BY <1>2, <3>2, <4>1, LastBefore
      <4>3. conv'.last = conv.last
        BY <1>2, <3>2, <4>2, PreviewWritten DEF TurnInv
      <4> QED BY <4>2, <4>3 DEF PreviewInv, LastShown
    <3> QED BY <3>1, <3>2
  <2> QED BY <2>1, <2>2, <2>3 DEF PreviewInv
<1> QED BY <1>1, <1>2

LEMMA PreviewInit == Init => PreviewInv
<1> SUFFICES ASSUME Init PROVE PreviewInv
    OBVIOUS
<1>1. fb = <<>> /\ sync = [y \in Syncs |-> Idle]
    BY DEF Init
<1>2. DOMAIN fb = {}
    BY <1>1
<1> QED BY <1>1, <1>2 DEF PreviewInv, LastShown, LastOnFb

\* The invariant of the conversation's row, each part under the rules it needs.
ConvInv ==
    /\ InTurn => TurnInv
    /\ InTurn /\ TakesReplies => FlagInv
    /\ PreviewRules => ThreadInv /\ PreviewInv
    /\ CountRules => ClaimInv /\ CountInv

LEMMA ConvInit == Init => ConvInv
BY TurnInit, ThreadInit, PreviewInit, ClaimInit, CountInit DEF ConvInv

LEMMA ConvStep ==
    ASSUME ConvInv, [Next]_vars
    PROVE  ConvInv'
BY TurnKept, FlagKept, ThreadStep, PreviewKept, ClaimStep, CountKept
   DEF ConvInv, PreviewRules, CountRules

LEMMA ConvHolds == ConvInv => SeenInOrder /\ InOrder
<1> SUFFICES ASSUME ConvInv PROVE SeenInOrder /\ InOrder
  OBVIOUS
<1>1. CountRules => UnseenIsUnread
    BY RestCaught DEF ConvInv, CountRules, CountInv, UnseenCounted, UnseenIsUnread, WaitingFor
<1>2. TurnInv /\ FlagInv => NeedsReplyRight
    BY RestCaught DEF FlagInv, NeedsReplyRight, LastOnFb
<1>3. TurnInv /\ PreviewInv => PreviewRight
    BY RestCaught DEF PreviewInv, LastShown, PreviewRight, LastOnFb
<1> QED BY <1>1, <1>2, <1>3 DEF ConvInv, PreviewRules, SeenInOrder, InOrder

\* At rest a message of the customer that nobody saw and the page has not
\* answered leaves the conversation unread, whichever of webhooks, replies,
\* labels, read receipts and mark-as-unread met, and beside syncs where only
\* customers write (ingestMessagingEvent, sendMessageUnlocked,
\* syncSinglePageFromGraph, markAsUnread, toggleConversationLabel).
THEOREM UnseenStaysUnread == Spec => []SeenInOrder
BY ConvInit, ConvStep, ConvHolds, PTL DEF Spec

\* At rest, where webhooks come in turn, the conversation asks for a reply
\* exactly when the customer spoke last: no sync, no refresh, no view and no
\* label, at any step of a reply or of a webhook, leaves the flag behind.  The
\* list shows the last message, where nothing writes from a listing that may
\* be old (ingestMessagingEvent, sendMessageUnlocked).
THEOREM RowIsLast == Spec => []InOrder
BY ConvInit, ConvStep, ConvHolds, PTL DEF Spec
=============================================================================
