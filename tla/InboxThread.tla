----------------------------- MODULE InboxThread ----------------------------
(***************************************************************************)
(* One Messenger conversation: webhooks, replies, Graph syncs and staff    *)
(* work on its rows side by side, each with reads and writes of its own.   *)
(***************************************************************************)
EXTENDS InboxIngest, InboxReply, InboxSync, InboxDesk

Next == IngestNext \/ ReplyNext \/ SyncNext \/ DeskNext

Spec == Init /\ [][Next]_vars

---------------------------------------------------------------------------
Working ==
    \/ \E f \in {hook, send, sync, persist, desk} : \E x \in DOMAIN f : f[x] # Idle
    \/ refresh # Idle

\* Every message was announced at least once and everybody has finished.
AtRest == ~Working /\ \A m \in DOMAIN fb : delivered[m] > 0

\* The last message of the thread on Facebook (none at first); an ad click is no message.
Newer(m)   == {k \in DOMAIN fb : k > m /\ fb[k].from # "ad"}
LastOnFb   == {m \in DOMAIN fb : fb[m].from # "ad" /\ Newer(m) = {}}
WaitingFor == {m \in DOMAIN fb : fb[m].from = "customer" /\ \A k \in Newer(m) : fb[k].from = "customer"}

---------------------------------------------------------------------------
\* At rest every message of the thread is stored once: the reply that staff sent, its echo and
\* a sync's copy of it end in one row, whichever of the answer, the webhook and the sync came
\* first, and however often the webhook did (sendMessageUnlocked, ingestMessagingEvent,
\* fastPersistMessages).  Beside a refresh (persistGraphMessage) it is claimed of replies that
\* are sent one after the other and of a customer who does not use their words, as a refresh may
\* give one of two replies within five seconds the row of the other.
OneRowPerMessage ==
    AtRest => \A m \in DOMAIN fb :
                 Cardinality({r \in Stored : rows[r].mid = m \/ rows[r].of = m}) = 1

\* A row never carries the mid of another reply than the one it was made for, and a reply that
\* Facebook took is never shown as failed: the echo is linked to the right one of two pending
\* replies (findPendingOutboundToLink), and a mid that is taken leads to the row that has it.
\* A refresh finds the pending row by its time (findStoredMessageNearSentAt), which is that of
\* the right reply under the rules named above.
RepliesTold ==
    \A r \in Stored : rows[r].of # 0 =>
        /\ rows[r].mid \in {0, rows[r].of}
        /\ rows[r].status # "failed"

\* At rest the conversation asks for a reply exactly when the customer spoke last: no sync,
\* no view and no reply in flight leaves the flag behind (needsReply).
NeedsReplyRight ==
    AtRest => \A m \in LastOnFb : conv.needsReply = (fb[m].from = "customer")

\* At rest a message of the customer that nobody saw, and that the page has not answered,
\* leaves the conversation unread, although syncs and replies overwrite the count.
UnseenIsUnread ==
    AtRest /\ (\E m \in WaitingFor : m > seen) => conv.unread > 0

\* At rest the list shows the last message of the thread.
PreviewRight == AtRest => \A m \in LastOnFb : conv.last = fb[m].text

\* The unread count never exceeds what the customer wrote.
UnreadExact == conv.unread <= Cardinality({m \in DOMAIN fb : fb[m].from = "customer"})

\* The text of a row with a mid is the text of that message.
TextKept == \A r \in Stored : rows[r].mid # 0 => rows[r].text = fb[rows[r].mid].text

---------------------------------------------------------------------------
\* Whoever wins when several members of staff claim the conversation, it stays claimed, until
\* the insert of a claim fails: the deletion of the other staff labels is taken back by no
\* transaction then (cskh-inbox-labels.service.ts:703, 711), and only then is a claim lost.
ClaimKept == AtRest /\ claimed => labels \cap StaffLabels # {}

\* A member of staff who has claimed the conversation keeps it ("Đã gán nhân viên chốt —
\* không thể đổi, phải theo đến cùng", assertStaffLabelNotLocked).
StaffKept == [][\A l \in labels \cap StaffLabels : l \in labels']_vars

\* A status label stays for good ("Nhãn đã gán không thể gỡ", toggleConversationLabel), also
\* while members of staff claim the conversation.
StatusKept == [][\A l \in labels \cap StatusLabels : l \in labels']_vars

\* A conversation with a label does not wait for one.
AwaitingUnlabeled == AtRest => ~(conv.awaiting /\ labels # {})

---------------------------------------------------------------------------
(***************************************************************************)
(* What of these can be relied on, and under which rules on what may       *)
(* happen (Does) and go wrong (Faults).  Each rule leaves out a way in     *)
(* which the code does go wrong: handlers write what they read a step      *)
(* earlier, and nothing orders them.                                       *)
(***************************************************************************)
\* Replies are sent from this inbox only, as texts, and nothing fails; webhooks may come late,
\* twice, in any order or not at all, and syncs read beside them.  A refresh matches rows by
\* time, so it reads only threads without replies of this inbox, whose messages lie further
\* apart than its five seconds: else it may give the row of one message to another.
Apart == Window < 2
Calm ==
    /\ ~ {"page", "send"} \subseteq Does /\ "media" \notin Does
    /\ "send error" \notin Faults /\ "db error" \notin Faults
    /\ "refresh" \in Does => Apart /\ "send" \notin Does

\* Each webhook is handled before the next one comes; some may be lost.
InTurn == "reorder" \notin Faults /\ "redeliver" \notin Faults

\* Facebook takes every reply.
TakesReplies == "send error" \notin Faults

\* Nobody takes the conversation for read on what they read of it earlier: no view, list or
\* mark-as-read, and no sync beside the page's own messages.
CountRules ==
    /\ InTurn
    /\ Does \cap {"view", "mark", "list"} = {}
    /\ "sync" \in Does => Does \cap {"page", "send", "media"} = {}

\* Only webhooks of messages and replies write the preview.
PreviewRules == Calm /\ InTurn /\ Does \cap {"sync", "refresh", "ad"} = {}

\* In turn: a message nobody saw leaves the conversation unread, whatever the page answers and
\* staff label meanwhile, or a sync overwrites (ingestMessagingEvent, sendMessageUnlocked,
\* syncSinglePageFromGraph).
SeenInOrder == CountRules => UnseenIsUnread

\* In turn: the flag is that of the last message, also beside syncs, refreshes, views and
\* replies; the preview is that message's (ingestMessagingEvent, sendMessageUnlocked).
InOrder ==
    /\ InTurn /\ TakesReplies => NeedsReplyRight
    /\ PreviewRules => PreviewRight
=============================================================================
