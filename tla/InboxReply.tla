----------------------------- MODULE InboxReply -----------------------------
(***************************************************************************)
(* Replies of staff (sendMessage, sendMessageUnlocked, sendMessageMedia in *)
(* cskh-inbox.service.ts): a pending row, the conversation, the call to    *)
(* Graph, and the row again.                                               *)
(***************************************************************************)
EXTENDS InboxStore

ReplyElse == <<delivered, labels, hook, sync, refresh, persist, desk, claimed>>

\* One send per text at a time: the second request waits for the first one's answer.  A
\* photo is not locked.
SendStart(s, text) ==
    /\ send[s] = Idle
    /\ conv.made
    /\ IF text = Media THEN "media" \in Does
       ELSE "send" \in Does /\ text \in Words["staff"] /\ text \notin locks
    /\ locks' = IF text = Media THEN locks ELSE locks \cup {text}
    /\ send' = [send EXCEPT ![s] = [pc |-> "create", text |-> text]]
    /\ UNCHANGED <<fb, rows, conv, seen, ReplyElse>>

\* The lock goes 2.5 s after the send has ended.
LockEnds(text) ==
    /\ text \in locks
    /\ \A s \in {x \in Senders : send[x] # Idle} : send[s].text # text
    /\ locks' = locks \ {text}
    /\ UNCHANGED <<fb, rows, conv, send, seen, ReplyElse>>

CreatePending(s) ==
    /\ send[s].pc = "create"
    /\ Unused # {}
    /\ rows' = [rows EXCEPT ![NextRow] =
                   [state |-> "row", mid |-> 0, from |-> "staff", text |-> send[s].text,
                    at |-> Now, status |-> "pending", of |-> 0]]
    /\ send' = [send EXCEPT ![s] = [pc |-> "conversation", text |-> @.text, row |-> NextRow]]
    /\ UNCHANGED <<fb, conv, locks, seen, ReplyElse>>

ReplyConversation(s) ==
    /\ send[s].pc = "conversation"
    /\ conv' = [conv EXCEPT !.unread = 0, !.awaiting = FALSE, !.needsReply = FALSE,
                            !.lastAt = Now, !.last = send[s].text]
    /\ seen' = Len(fb)
    /\ send' = [send EXCEPT ![s].pc = "graph"]
    /\ UNCHANGED <<fb, rows, locks, ReplyElse>>

\* Facebook takes the reply; the answer with its mid is on the way.
Accepted(s) ==
    /\ send[s].pc = "graph"
    /\ Len(fb) < MaxMsgs
    /\ fb' = Append(fb, [from |-> "page", text |-> send[s].text])
    /\ rows' = IF send[s].row \in Stored THEN [rows EXCEPT ![send[s].row].of = Len(fb) + 1] ELSE rows
    /\ send' = [send EXCEPT ![s] = [pc |-> "answer", text |-> @.text, row |-> @.row,
                                    mid |-> Len(fb) + 1]]
    /\ UNCHANGED <<conv, locks, seen, ReplyElse>>

Refused(s) ==
    /\ "send error" \in Faults
    /\ send[s].pc = "graph"
    /\ send' = [send EXCEPT ![s].pc = "fail"]
    /\ UNCHANGED <<fb, rows, conv, locks, seen, ReplyElse>>

\* Mutant of Answer: a mid that is taken is an error for a text too.
AnswerGivesUp(s) ==
    LET r == send[s].row
        m == send[s].mid
    IN  /\ send[s].pc = "answer"
        /\ IF r \in Stored /\ RowsOfMid(m) \ {r} = {}
           THEN /\ rows' = [rows EXCEPT ![r] = [@ EXCEPT !.mid = m, !.status = "sent"]]
                /\ send' = [send EXCEPT ![s] = Idle]
           ELSE /\ rows' = rows
                /\ send' = [send EXCEPT ![s].pc = "fail"]
        /\ UNCHANGED <<fb, conv, locks, seen, ReplyElse>>

\* The mid is written into the pending row.  If the echo or a sync made a row for it
\* already, a text reply gives up its own row (after a lookup), a photo counts as failed.
Answer(s) ==
    LET r == send[s].row
        m == send[s].mid
    IN  /\ send[s].pc = "answer"
        /\ IF r \in Stored /\ RowsOfMid(m) \ {r} = {}
           THEN /\ rows' = [rows EXCEPT ![r] = [@ EXCEPT !.mid = m, !.status = "sent"]]
                /\ send' = [send EXCEPT ![s] = Idle]
           ELSE /\ rows' = rows
                /\ send' = [send EXCEPT ![s].pc =
                       IF r \in Stored /\ send[s].text # Media THEN "taken" ELSE "fail"]
        /\ UNCHANGED <<fb, conv, locks, seen, ReplyElse>>

AnswerUnsaved(s) ==
    /\ "db error" \in Faults
    /\ send[s].pc = "answer"
    /\ send' = [send EXCEPT ![s].pc = "fail"]
    /\ UNCHANGED <<fb, rows, conv, locks, seen, ReplyElse>>

DropPending(s) ==
    /\ send[s].pc = "taken"
    /\ IF RowsOfMid(send[s].mid) \ {send[s].row} # {}
       THEN /\ rows' = [rows EXCEPT ![send[s].row] = DeletedRow]
            /\ send' = [send EXCEPT ![s] = Idle]
       ELSE /\ rows' = rows
            /\ send' = [send EXCEPT ![s].pc = "fail"]
    /\ UNCHANGED <<fb, conv, locks, seen, ReplyElse>>

\* Any error marks the pending row failed (and throws, if the row is gone).
Fail(s) ==
    /\ send[s].pc = "fail"
    /\ rows' = IF send[s].row \in Stored THEN [rows EXCEPT ![send[s].row].status = "failed"] ELSE rows
    /\ send' = [send EXCEPT ![s] = Idle]
    /\ UNCHANGED <<fb, conv, locks, seen, ReplyElse>>

ReplyNext ==
    \/ \E s \in Senders :
          \/ \E t \in Texts \cup {Media} : SendStart(s, t)
          \/ CreatePending(s) \/ ReplyConversation(s) \/ Accepted(s) \/ Refused(s)
          \/ Answer(s) \/ AnswerUnsaved(s) \/ DropPending(s) \/ Fail(s)
    \/ \E t \in Texts : LockEnds(t)
=============================================================================
