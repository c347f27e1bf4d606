----------------------------- MODULE InboxSync ------------------------------
(***************************************************************************)
(* Reading the conversation from the Graph API: the light sync of a page's *)
(* newest conversations (syncSinglePageFromGraph in monitor mode) and the  *)
(* refresh of one conversation (refreshConversationMessages,               *)
(* persistGraphMessage), beside webhooks and replies.                      *)
(***************************************************************************)
EXTENDS InboxStore, FiniteSetsExt

SyncElse == <<fb, delivered, labels, locks, hook, send, desk, seen, claimed>>

\* What Graph lists of the conversation when it holds n messages; an ad click is no message.
Listed(n) == {m \in 1..n : fb[m].from # "ad"}

\* computeTrailingCustomerUnread: the customer's messages after the page's last one.
TrailingUnread(n) == Cardinality({m \in Listed(n) : \A k \in Listed(n) : k >= m => fb[k].from = "customer"})

\* createMany with skipDuplicates: the mids that have no row yet get one.
WithRows(ms) ==
    LET new     == {m \in ms : RowsOfMid(m) = {}}
        rank(m) == Cardinality({k \in new : k < m})
        slot(m) == NextRow + rank(m)
    IN  [r \in RowIds |-> IF \E m \in new : slot(m) = r
                          THEN RowFor(CHOOSE m \in new : slot(m) = r) ELSE rows[r]]

---------------------------------------------------------------------------
\* The light sync: conversations with their newest messages in one call, ...
SyncFetch(y) ==
    /\ "sync" \in Does
    /\ sync[y] = Idle
    /\ Listed(Len(fb)) # {}
    /\ sync' = [sync EXCEPT ![y] = [pc |-> "read", n |-> Len(fb)]]
    /\ UNCHANGED <<rows, conv, refresh, persist, SyncElse>>

\* ... then the row: a conversation that Graph shows no later than the row is left alone.
SyncRead(y) ==
    LET n == sync[y].n
    IN  /\ sync[y].pc = "read"
        /\ sync' = [sync EXCEPT ![y] =
               IF conv.made /\ 2 * Max(Listed(n)) <= conv.lastAt THEN Idle
               ELSE [pc |-> "upsert", n |-> n, at |-> conv.lastAt]]
        /\ UNCHANGED <<rows, conv, refresh, persist, SyncElse>>

\* Mutant of SyncUpsert: the sync takes what it lists for read.
SyncUpsertReads(y) ==
    LET n   == sync[y].n
        top == Max(Listed(n))
    IN  /\ sync[y].pc = "upsert"
        /\ conv' = [conv EXCEPT !.made = TRUE, !.unread = 0, !.last = fb[top].text,
                                !.lastAt = IF 2 * top > sync[y].at THEN 2 * top ELSE @]
        /\ sync' = [sync EXCEPT ![y] = [pc |-> "insert", n |-> n]]
        /\ UNCHANGED <<rows, refresh, persist, SyncElse>>

\* The upsert writes the unread count and the preview of the listing; the time only if the
\* row had an older one when it was read; needsReply never.
SyncUpsert(y) ==
    LET n   == sync[y].n
        top == Max(Listed(n))
    IN  /\ sync[y].pc = "upsert"
        /\ conv' = [conv EXCEPT !.made = TRUE,
                                !.unread = TrailingUnread(n),
                                !.last = fb[top].text,
                                !.lastAt = IF 2 * top > sync[y].at THEN 2 * top ELSE @]
        /\ sync' = [sync EXCEPT ![y] = [pc |-> "insert", n |-> n]]
        /\ UNCHANGED <<rows, refresh, persist, SyncElse>>

SyncInsert(y) ==
    LET new == {m \in Listed(sync[y].n) : RowsOfMid(m) = {}}
    IN  /\ sync[y].pc = "insert"
        /\ Cardinality(Unused) >= Cardinality(new)
        /\ rows' = WithRows(Listed(sync[y].n))
        /\ sync' = [sync EXCEPT ![y] = IF new = {} THEN Idle ELSE [pc |-> "bump"]]
        /\ UNCHANGED <<conv, refresh, persist, SyncElse>>

\* Something was added: the conversation follows its latest row, if that row is of the last
\* 90 seconds.
SyncBump(y) ==
    /\ sync[y].pc = "bump"
    /\ \/ \E r \in Latest : conv' = [conv EXCEPT !.lastAt = rows[r].at, !.last = rows[r].text]
       \/ conv' = conv
    /\ sync' = [sync EXCEPT ![y] = Idle]
    /\ UNCHANGED <<rows, refresh, persist, SyncElse>>

---------------------------------------------------------------------------
\* The refresh of the conversation: all listed messages, oldest first, two at a time.
RefreshFetch ==
    /\ "refresh" \in Does
    /\ refresh = Idle
    /\ \A m \in Mids : persist[m] = Idle
    /\ conv.made /\ Listed(Len(fb)) # {}
    /\ refresh' = [pc |-> "batch", n |-> Len(fb), todo |-> Listed(Len(fb)), last |-> "none"]
    /\ UNCHANGED <<rows, conv, sync, persist, SyncElse>>

Concurrency == 2
RefreshBatch ==
    LET batch == {m \in refresh.todo : Cardinality({k \in refresh.todo : k < m}) < Concurrency}
    IN  /\ refresh.pc = "batch" /\ refresh.todo # {}
        /\ \A m \in Mids : persist[m] = Idle
        /\ persist' = [m \in Mids |-> IF m \in batch THEN [pc |-> "find"] ELSE Idle]
        /\ refresh' = [refresh EXCEPT !.todo = @ \ batch, !.last = fb[Max(batch)].text]
        /\ UNCHANGED <<rows, conv, sync, SyncElse>>

\* findStoredMessageNearSentAt: a row of the same side within the window, whatever its mid;
\* else one with the same text.  The earliest wins.
Oldest(S) == {r \in S : \A q \in S : rows[r].at <= rows[q].at}
NearSentAt(m) ==
    LET near == {r \in Stored : rows[r].at >= 2 * m - Window /\ rows[r].at <= 2 * m + Window}
        side == {r \in near : rows[r].from = RowFor(m).from}
        same == {r \in near : rows[r].text = fb[m].text}
    IN  IF side # {} THEN Oldest(side) ELSE Oldest(same)

\* persistGraphMessage looks for the row of a message by its mid, by its time, and, for a
\* text of the page, among the pending replies.
RowsToUpdate(m) ==
    IF RowsOfMid(m) # {} THEN RowsOfMid(m)
    ELSE IF NearSentAt(m) # {} THEN NearSentAt(m)
    ELSE IF fb[m].from = "page" /\ fb[m].text # Media THEN PendingToLink(fb[m].text) ELSE {}

PersistFind(m) ==
    LET found == RowsToUpdate(m)
    IN  /\ persist[m].pc = "find"
        /\ \/ \E r \in found :
                 persist' = [persist EXCEPT ![m] = [pc |-> "update", row |-> r, mid |-> rows[r].mid]]
           \/ found = {} /\ persist' = [persist EXCEPT ![m].pc = "create"]
        /\ UNCHANGED <<rows, conv, sync, refresh, SyncElse>>

\* The row found takes text and side of the message, and its mid if it had none; with a mid
\* that is taken by now the update is tried again without it.  A row gone is only logged.
PersistUpdate(m) ==
    LET r   == persist[m].row
        mid == IF persist[m].mid = 0 /\ RowsOfMid(m) \ {r} = {} THEN m ELSE rows[r].mid
    IN  /\ persist[m].pc = "update"
        /\ rows' = IF r \notin Stored THEN rows
                   ELSE [rows EXCEPT ![r] = [@ EXCEPT !.text = fb[m].text, !.from = RowFor(m).from,
                                                     !.mid = mid]]
        /\ persist' = [persist EXCEPT ![m] = Idle]
        /\ UNCHANGED <<conv, sync, refresh, SyncElse>>

\* A second row for the mid is refused: a text goes on, a photo ends the whole refresh.
PersistCreate(m) ==
    /\ persist[m].pc = "create"
    /\ IF RowsOfMid(m) = {}
       THEN /\ Unused # {} /\ rows' = [rows EXCEPT ![NextRow] = RowFor(m)]
            /\ refresh' = refresh
       ELSE /\ rows' = rows
            /\ refresh' = IF fb[m].text = Media THEN Idle ELSE refresh
    /\ persist' = [persist EXCEPT ![m] = Idle]
    /\ UNCHANGED <<conv, sync, SyncElse>>

\* linkFbMessageIdsFromGraph: a photo without a mid takes that of a photo of its side sent
\* within five seconds, unless a row has it.
PhotosWithoutMid == {r \in Stored : rows[r].mid = 0 /\ rows[r].text = Media}
RefreshLink ==
    /\ refresh.pc = "batch" /\ refresh.todo = {}
    /\ \A m \in Mids : persist[m] = Idle
    /\ LET match(r) == {m \in Listed(refresh.n) : /\ fb[m].text = Media
                                                  /\ RowFor(m).from = rows[r].from
                                                  /\ rows[r].at >= 2 * m - Window
                                                  /\ rows[r].at <= 2 * m + Window}
           first(r) == Max(match(r))
           free     == {r \in PhotosWithoutMid : match(r) # {} /\ RowsOfMid(first(r)) = {}}
       IN  rows' = IF free = {} THEN rows
                   ELSE LET r == Min(free) IN [rows EXCEPT ![r].mid = first(r)]
    /\ refresh' = [refresh EXCEPT !.pc = "end"]
    /\ UNCHANGED <<conv, sync, persist, SyncElse>>

\* The sides are put right (reconcileMessageSenders) and the preview follows the last message.
RefreshEnd ==
    /\ refresh.pc = "end"
    /\ rows' = [r \in RowIds |->
                  IF r \in Stored /\ rows[r].mid \in Listed(refresh.n)
                  THEN [rows[r] EXCEPT !.from = RowFor(rows[r].mid).from] ELSE rows[r]]
    /\ conv' = [conv EXCEPT !.last = refresh.last]
    /\ refresh' = Idle
    /\ UNCHANGED <<sync, persist, SyncElse>>

SyncNext ==
    \/ \E y \in Syncs : SyncFetch(y) \/ SyncRead(y) \/ SyncUpsert(y) \/ SyncInsert(y) \/ SyncBump(y)
    \/ RefreshFetch \/ RefreshBatch \/ RefreshLink \/ RefreshEnd
    \/ \E m \in Mids : PersistFind(m) \/ PersistUpdate(m) \/ PersistCreate(m)
=============================================================================
