---------------------------- MODULE InboxIngest -----------------------------
(***************************************************************************)
(* Webhooks of the conversation (ingestMessagingEvent,                     *)
(* applyReferralFromWebhook in cskh-inbox.service.ts): each event is       *)
(* ingested by a handler of its own; nothing orders the handlers.          *)
(***************************************************************************)
EXTENDS InboxStore

IngestElse == <<locks, send, sync, refresh, persist, desk, seen, claimed>>

\* The customer writes, the page answers from Meta's own tools, or the customer comes in
\* through an ad.
FacebookMessage(from, text) ==
    /\ from \in Does /\ text \in Words[from]
    /\ Len(fb) < MaxMsgs
    /\ fb' = Append(fb, [from |-> from, text |-> text])
    /\ UNCHANGED <<delivered, rows, conv, labels, hook, IngestElse>>

\* Meta calls the webhook for message m.  Without the faults named here it does so once per
\* message, in order, and the handler of the one before has written the conversation.
Deliver(h, m) ==
    /\ hook[h] = Idle
    /\ m \in DOMAIN fb
    /\ delivered[m] = 0 \/ ("redeliver" \in Faults /\ delivered[m] = 1)
    /\ "reorder" \notin Faults =>
          /\ \A g \in Hooks : hook[g].pc \notin {"upsert"}
          /\ \A k \in 1..(m - 1) : delivered[k] > 0 \/ "lost" \in Faults
          /\ \A k \in (m + 1)..Len(fb) : delivered[k] = 0 \/ delivered[m] = 1
    /\ delivered' = [delivered EXCEPT ![m] = @ + 1]
    /\ hook' = [hook EXCEPT ![h] = [pc |-> "upsert", m |-> m]]
    /\ UNCHANGED <<fb, rows, conv, labels, IngestElse>>

\* Mutant of Upsert: the page's own message leaves needsReply alone.
UpsertKeepsFlag(h) ==
    LET m == hook[h].m
    IN  /\ hook[h].pc = "upsert" /\ fb[m].from # "ad"
        /\ conv' = [conv EXCEPT !.made = TRUE,
                                !.unread = IF fb[m].from = "page" THEN 0 ELSE @ + 1,
                                !.needsReply = @ \/ fb[m].from = "customer",
                                !.lastAt = 2 * m,
                                !.last = fb[m].text]
        /\ hook' = [hook EXCEPT ![h].pc = "lookup"]
        /\ UNCHANGED <<fb, delivered, rows, labels, IngestElse>>

\* conversation.upsert: a customer's event adds one to the unread count, the page's clears it.
Upsert(h) ==
    LET m == hook[h].m
    IN  /\ hook[h].pc = "upsert" /\ fb[m].from # "ad"
        /\ conv' = [conv EXCEPT !.made = TRUE,
                                !.unread = IF fb[m].from = "page" THEN 0 ELSE @ + 1,
                                !.needsReply = fb[m].from = "customer",
                                !.lastAt = 2 * m,
                                !.last = fb[m].text]
        /\ hook' = [hook EXCEPT ![h].pc = "lookup"]
        /\ UNCHANGED <<fb, delivered, rows, labels, IngestElse>>

\* A click on an ad shows in the list but leaves the count and needsReply alone; every click
\* is a row of its own in the thread.
AdUpsert(h) ==
    LET m == hook[h].m
    IN  /\ hook[h].pc = "upsert" /\ fb[m].from = "ad"
        /\ conv' = [conv EXCEPT !.made = TRUE, !.lastAt = 2 * m, !.last = fb[m].text]
        /\ hook' = [hook EXCEPT ![h].pc = "ad"]
        /\ UNCHANGED <<fb, delivered, rows, labels, IngestElse>>

AdFind(h) ==
    /\ hook[h].pc = "ad"
    /\ hook' = [hook EXCEPT ![h] = IF RowsOfMid(@.m) # {} THEN Idle ELSE [@ EXCEPT !.pc = "insert"]]
    /\ UNCHANGED <<fb, delivered, rows, conv, labels, IngestElse>>

\* The mid is known: only the sender is put right and the event published again.
KnownMid(h) ==
    /\ hook[h].pc = "lookup"
    /\ RowsOfMid(hook[h].m) # {}
    /\ rows' = [r \in RowIds |-> IF r \in RowsOfMid(hook[h].m)
                                 THEN [rows[r] EXCEPT !.from = RowFor(hook[h].m).from]
                                 ELSE rows[r]]
    /\ hook' = [hook EXCEPT ![h] = Idle]
    /\ UNCHANGED <<fb, delivered, conv, labels, IngestElse>>

UnknownMid(h) ==
    /\ hook[h].pc = "lookup"
    /\ RowsOfMid(hook[h].m) = {}
    /\ hook' = [hook EXCEPT ![h].pc = IF fb[hook[h].m].from = "page" THEN "echo" ELSE "find"]
    /\ UNCHANGED <<fb, delivered, rows, conv, labels, IngestElse>>

\* An echo looks for the reply it belongs to ...
EchoFind(h) ==
    LET found == PendingToLink(fb[hook[h].m].text)
    IN  /\ hook[h].pc = "echo"
        /\ \/ \E r \in found : hook' = [hook EXCEPT ![h] = [pc |-> "link", m |-> @.m, row |-> r]]
           \/ found = {} /\ hook' = [hook EXCEPT ![h].pc = "find"]
        /\ UNCHANGED <<fb, delivered, rows, conv, labels, IngestElse>>

\* ... and writes its mid into that row, by id.  A mid that is taken by now (P2002) sends
\* the handler on; a row that is gone ends it with an error.
EchoLink(h) ==
    LET m == hook[h].m
        r == hook[h].row
    IN  /\ hook[h].pc = "link"
        /\ IF r \notin Stored
           THEN rows' = rows /\ hook' = [hook EXCEPT ![h] = Idle]
           ELSE IF RowsOfMid(m) \ {r} # {}
           THEN rows' = rows /\ hook' = [hook EXCEPT ![h] = [pc |-> "find", m |-> m]]
           ELSE /\ rows' = [rows EXCEPT ![r] = [@ EXCEPT !.mid = m, !.status = "sent"]]
                /\ hook' = [hook EXCEPT ![h] = Idle]
        /\ UNCHANGED <<fb, delivered, conv, labels, IngestElse>>

\* Looked up once more before the insert; a row found now has its sender put right, and the
\* list preview follows its text.
FindAgain(h) ==
    LET m == hook[h].m
    IN  /\ hook[h].pc = "find"
        /\ IF RowsOfMid(m) = {}
           THEN /\ hook' = [hook EXCEPT ![h].pc = "insert"]
                /\ UNCHANGED <<rows, conv>>
           ELSE \E r \in RowsOfMid(m) :
                   /\ rows' = [rows EXCEPT ![r].from = RowFor(m).from]
                   /\ conv' = IF rows[r].text = fb[m].text THEN conv
                              ELSE [conv EXCEPT !.last = rows[r].text]
                   /\ hook' = [hook EXCEPT ![h] = Idle]
        /\ UNCHANGED <<fb, delivered, labels, IngestElse>>

\* message.create: the mid is unique, so the second of two inserts throws.
Insert(h) ==
    LET m == hook[h].m
    IN  /\ hook[h].pc = "insert"
        /\ IF RowsOfMid(m) # {}
           THEN rows' = rows
           ELSE Unused # {} /\ rows' = [rows EXCEPT ![NextRow] = RowFor(m)]
        /\ hook' = [hook EXCEPT ![h] = Idle]
        /\ UNCHANGED <<fb, delivered, conv, labels, IngestElse>>

\* A read event sent by the page itself.
ReadReceipt ==
    /\ "receipt" \in Does
    /\ conv.made
    /\ conv' = [conv EXCEPT !.unread = 0]
    /\ seen' = Len(fb)
    /\ UNCHANGED <<fb, delivered, rows, labels, locks, hook, send, sync, refresh, persist, desk,
                   claimed>>

IngestNext ==
    \/ \E from \in {"customer", "page", "ad"}, t \in Texts : FacebookMessage(from, t)
    \/ \E h \in Hooks :
          \/ \E m \in Mids : Deliver(h, m)
          \/ Upsert(h) \/ AdUpsert(h) \/ AdFind(h) \/ KnownMid(h) \/ UnknownMid(h) \/ EchoFind(h) \/ EchoLink(h)
          \/ FindAgain(h) \/ Insert(h)
    \/ ReadReceipt
=============================================================================
