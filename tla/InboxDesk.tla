----------------------------- MODULE InboxDesk ------------------------------
(***************************************************************************)
(* What staff do with the conversation besides replying: open it, mark it  *)
(* read or unread, list it, put a label on it (getMessages, markAsRead,    *)
(* markAsUnread, correctUnreadFromLastMessage in cskh-inbox.service.ts,    *)
(* cskh-inbox-labels.service.ts).                                          *)
(***************************************************************************)
EXTENDS InboxStore

DeskElse == <<fb, delivered, rows, locks, hook, send, sync, refresh, persist>>

DeskAt(u, pc) == desk[u].pc = pc

\* Opening the thread reads labels and messages: the newest ones, those after or those before
\* a time.  The last message read tells whether a customer waits; with none, the preview does.
LastIsStaff(S) == \E r \in S : rows[r].from = "staff" /\ \A q \in S : rows[q].at <= rows[r].at

View(u) ==
    /\ "view" \in Does /\ desk[u] = Idle /\ conv.made
    /\ \E S \in {Stored, {r \in Stored : rows[r].at > 2}, {r \in Stored : rows[r].at < 3}} :
          desk' = [desk EXCEPT ![u] = [pc |-> "view", labeled |-> labels # {},
                      waiting |-> IF S = {} THEN conv.last # "none" ELSE ~LastIsStaff(S)]]
    /\ seen' = Len(fb)
    /\ UNCHANGED <<conv, labels, claimed, DeskElse>>

\* recordConversationViewLite writes after the answer was sent.
ViewWrite(u) ==
    /\ DeskAt(u, "view")
    /\ conv' = [conv EXCEPT !.unread = 0, !.awaiting = ~desk[u].labeled /\ desk[u].waiting]
    /\ desk' = [desk EXCEPT ![u] = Idle]
    /\ UNCHANGED <<labels, seen, claimed, DeskElse>>

\* markAsRead looks at labels and last message (recordConversationView), writes, ...
MarkRead(u) ==
    /\ "mark" \in Does /\ desk[u] = Idle /\ conv.made
    /\ desk' = [desk EXCEPT ![u] = [pc |-> "mark", labeled |-> labels # {},
                   waiting |-> Stored = {} \/ ~StaffIsLast]]
    /\ UNCHANGED <<conv, labels, seen, claimed, DeskElse>>

\* ... stops there if there is no label, or goes on, ...
MarkReadWrite(u) ==
    /\ DeskAt(u, "mark")
    /\ conv' = [conv EXCEPT !.unread = 0, !.awaiting = ~desk[u].labeled /\ desk[u].waiting]
    /\ seen' = Len(fb)
    /\ desk' = [desk EXCEPT ![u] = IF desk[u].labeled THEN [pc |-> "marked"] ELSE Idle]
    /\ UNCHANGED <<labels, claimed, DeskElse>>

\* ... and writes once more, if a second look at the labels still finds one.
MarkReadAgain(u) ==
    /\ DeskAt(u, "marked")
    /\ conv' = IF labels = {} THEN conv ELSE [conv EXCEPT !.unread = 0, !.awaiting = FALSE]
    /\ desk' = [desk EXCEPT ![u] = Idle]
    /\ UNCHANGED <<labels, seen, claimed, DeskElse>>

MarkUnread ==
    /\ "unread" \in Does /\ conv.made
    /\ conv' = [conv EXCEPT !.unread = 1]
    /\ UNCHANGED <<labels, desk, seen, claimed, DeskElse>>

\* Listing the conversation: unread or waiting although staff wrote the last message.
List(u) ==
    /\ "list" \in Does /\ desk[u] = Idle /\ conv.made
    /\ conv.unread > 0 \/ conv.awaiting
    /\ desk' = [desk EXCEPT ![u] = [pc |-> "list", unread |-> conv.unread > 0, awaiting |-> conv.awaiting]]
    /\ UNCHANGED <<conv, labels, seen, claimed, DeskElse>>

ListLook(u) ==
    /\ DeskAt(u, "list")
    /\ desk' = [desk EXCEPT ![u] = IF StaffIsLast THEN [@ EXCEPT !.pc = "clear"] ELSE Idle]
    /\ UNCHANGED <<conv, labels, seen, claimed, DeskElse>>

ListClear(u) ==
    /\ DeskAt(u, "clear")
    /\ conv' = [conv EXCEPT !.unread = IF desk[u].unread THEN 0 ELSE @,
                            !.awaiting = IF desk[u].awaiting THEN FALSE ELSE @]
    /\ desk' = [desk EXCEPT ![u] = Idle]
    /\ UNCHANGED <<labels, seen, claimed, DeskElse>>

---------------------------------------------------------------------------
\* toggleConversationLabel: a label that is on is refused, ...
Label(u, l) ==
    /\ "label" \in Does /\ desk[u] = Idle /\ conv.made
    /\ l \notin labels
    /\ desk' = [desk EXCEPT ![u] = [pc |-> IF l \in StaffLabels THEN "locked" ELSE "insert", label |-> l]]
    /\ UNCHANGED <<conv, labels, seen, claimed, DeskElse>>

\* ... a second member of staff too, ...
LabelLocked(u) ==
    /\ DeskAt(u, "locked")
    /\ desk' = [desk EXCEPT ![u] =
           IF labels \cap (StaffLabels \ {desk[u].label}) # {} THEN Idle ELSE [@ EXCEPT !.pc = "clean"]]
    /\ UNCHANGED <<conv, labels, seen, claimed, DeskElse>>

\* Mutant of LabelClean: the request ends when it has deleted another's label.
LabelCleanEnds(u) ==
    /\ DeskAt(u, "clean")
    /\ labels' = labels \ StaffLabels
    /\ desk' = [desk EXCEPT ![u] = IF labels \cap StaffLabels # {} THEN Idle ELSE [@ EXCEPT !.pc = "insert"]]
    /\ UNCHANGED <<conv, seen, claimed, DeskElse>>

\* Mutant of LabelClean: every label is deleted.
LabelCleanAll(u) ==
    /\ DeskAt(u, "clean")
    /\ labels' = {}
    /\ desk' = [desk EXCEPT ![u].pc = "insert"]
    /\ UNCHANGED <<conv, seen, claimed, DeskElse>>

\* ... the staff labels that are on are deleted, ...
LabelClean(u) ==
    /\ DeskAt(u, "clean")
    /\ labels' = labels \ StaffLabels
    /\ desk' = [desk EXCEPT ![u].pc = "insert"]
    /\ UNCHANGED <<conv, seen, claimed, DeskElse>>

\* ... the label is inserted (its key refuses a second row), ...
LabelInsert(u) ==
    /\ DeskAt(u, "insert")
    /\ labels' = labels \cup {desk[u].label}
    /\ claimed' = (claimed \/ desk[u].label \in StaffLabels)
    /\ desk' = [desk EXCEPT ![u] = IF desk[u].label \in labels THEN Idle ELSE [pc |-> "label"]]
    /\ UNCHANGED <<conv, seen, DeskElse>>

\* ... or the insert fails, and what the request deleted stays deleted: the two statements
\* are no transaction.
LabelInsertFails(u) ==
    /\ "label error" \in Faults
    /\ DeskAt(u, "insert")
    /\ claimed' = (claimed /\ desk[u].label \notin StaffLabels)
    /\ desk' = [desk EXCEPT ![u] = Idle]
    /\ UNCHANGED <<conv, labels, seen, DeskElse>>

\* ... and the conversation counts as handled.
LabelWrite(u) ==
    /\ DeskAt(u, "label")
    /\ conv' = [conv EXCEPT !.unread = 0, !.awaiting = FALSE]
    /\ seen' = Len(fb)
    /\ desk' = [desk EXCEPT ![u] = Idle]
    /\ UNCHANGED <<labels, claimed, DeskElse>>

DeskNext ==
    \/ \E u \in Staff :
          \/ View(u) \/ ViewWrite(u) \/ MarkRead(u) \/ MarkReadWrite(u) \/ MarkReadAgain(u)
          \/ List(u) \/ ListLook(u) \/ ListClear(u)
          \/ \E l \in Labels : Label(u, l)
          \/ LabelLocked(u) \/ LabelClean(u) \/ LabelInsert(u) \/ LabelInsertFails(u) \/ LabelWrite(u)
    \/ MarkUnread
=============================================================================
