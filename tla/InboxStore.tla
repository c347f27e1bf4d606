----------------------------- MODULE InboxStore -----------------------------
(***************************************************************************)
(* The state of one Messenger conversation of the inbox                    *)
(* (src/src/cskh/inbox/cskh-inbox.service.ts): what Facebook holds, the     *)
(* rows of cskh_inbox_messages, the row of cskh_inbox_conversations, its    *)
(* labels, and the locals of the handlers that work on them.               *)
(*                                                                         *)
(* Message i of Facebook has the mid i and the time 2 * i; a row that the   *)
(* code creates before it sends has a time between two messages.  Five      *)
(* seconds, the window of findStoredMessageNearSentAt, are Window of these  *)
(* units: with 1, a row is near the messages beside it and no two messages  *)
(* are near each other; with 2 or more, neighbouring messages are.          *)
(***************************************************************************)
EXTENDS Integers, Sequences, FiniteSets

CONSTANTS
    Texts,          \* texts of messages
    Words,          \* of these, what "customer", "page", "ad" and "staff" write here
    MaxMsgs,        \* bound: messages Facebook may hold
    MaxRows,        \* bound: rows ever created
    Hooks,          \* webhook ingests in flight
    Senders,        \* sessions that send replies
    Syncs,          \* head syncs of the page (catch-up, list sync)
    Staff,          \* members of staff who look at the conversation
    StaffLabels, StatusLabels,
    Window,         \* time within which two messages count as one
    Does,           \* what may happen in this instance
    Faults          \* what may go wrong in this instance

FaultKinds == {"reorder", "redeliver", "lost", "send error", "db error", "label error"}

InboxConstants ==
    /\ MaxMsgs \in Nat /\ MaxRows \in Nat /\ Window \in Nat
    /\ StaffLabels \cap StatusLabels = {} /\ "media" \notin Texts
    /\ Does \subseteq {"customer", "page", "ad", "send", "media", "sync", "refresh", "view",
                       "mark", "unread", "list", "label", "receipt"}
    /\ Faults \subseteq FaultKinds

ASSUME InboxConstants

VARIABLES
    fb,         \* the messages Facebook holds, in its order
    delivered,  \* how often the webhook of a message was sent to us
    rows,       \* cskh_inbox_messages, by row id
    conv,       \* the row of cskh_inbox_conversations
    labels,     \* cskh_inbox_conversation_labels of this conversation
    locks,      \* inflightSends: texts being sent or sent just now
    hook, send, sync, refresh, persist, desk,    \* locals of the handlers
    seen,       \* history: the messages some member of staff has caught up with
    claimed     \* history: a staff label was put on it, and no insert of one has failed since

vars == <<fb, delivered, rows, conv, labels, locks, hook, send, sync, refresh, persist,
          desk, seen, claimed>>

Mids     == 1..MaxMsgs
RowIds   == 1..MaxRows
Labels   == StaffLabels \cup StatusLabels
Media    == "media"     \* the text of a photo as staff see it; its echo carries none
NoRow    == [state |-> "none"]
DeletedRow == [state |-> "deleted"]

Stored       == {r \in RowIds : rows[r].state = "row"}
Unused       == {r \in RowIds : rows[r].state = "none"}
NextRow      == CHOOSE r \in Unused : \A q \in Unused : r <= q
RowsOfMid(m) == {r \in Stored : rows[r].mid = m}
Now          == 2 * Len(fb) + 1

\* Mutant of RowFor: the sender is stored as Graph names it.
RowForRaw(m) == [state |-> "row", mid |-> m, from |-> fb[m].from,
                 text |-> fb[m].text, at |-> 2 * m, status |-> "sent", of |-> m]

\* The row that message m becomes (sentAt is the time Facebook gives).
RowFor(m) == [state |-> "row", mid |-> m,
              from |-> IF fb[m].from = "page" THEN "staff" ELSE "customer",
              text |-> fb[m].text, at |-> 2 * m, status |-> "sent", of |-> m]

\* isStaffLastMessage on the row with the greatest sentAt; no row counts as waiting.
Latest      == {r \in Stored : \A q \in Stored : rows[q].at <= rows[r].at}
StaffIsLast == \E r \in Latest : rows[r].from = "staff"

\* findPendingOutboundToLink: the latest row of staff without a mid and with this text;
\* any such row when there is only one, or when the text is empty (a photo's echo).
Unlinked == {r \in Stored : rows[r].mid = 0 /\ rows[r].from = "staff"}
Newest(S) == {r \in S : \A q \in S : rows[q].at <= rows[r].at}

\* Mutant of PendingToLink: the text is not compared.
PendingToLinkAny(text) == IF text = Media THEN Newest(Unlinked) ELSE Newest(Unlinked)

PendingToLink(text) ==
    LET same == {r \in Unlinked : rows[r].text = text}
    IN  IF text = Media THEN Newest(Unlinked)
        ELSE IF same # {} THEN Newest(same)
        ELSE IF Cardinality(Unlinked) = 1 THEN Unlinked ELSE {}

Idle == [pc |-> "idle"]

TypeOK ==
    LET Text    == Texts \cup {Media}
        \* A stored message; "of" is history: the message of Facebook it was made for.
        Message == [state : {"row"}, mid : Mids \cup {0}, from : {"staff", "customer"},
                    text : Text, at : 0..(2 * MaxMsgs + 1),
                    status : {"pending", "sent", "failed"}, of : Mids \cup {0}]
    IN  /\ fb \in Seq([from : {"customer", "page", "ad"}, text : Text]) /\ Len(fb) <= MaxMsgs
        /\ delivered \in [Mids -> Nat]
        /\ rows \in [RowIds -> Message \cup {NoRow, DeletedRow}]
        /\ conv \in [made : BOOLEAN, unread : Nat, needsReply : BOOLEAN, awaiting : BOOLEAN,
                     lastAt : Nat, last : Text \cup {"none"}]
        /\ labels \subseteq Labels
        /\ locks \subseteq Texts
        /\ seen \in 0..MaxMsgs
        /\ claimed \in BOOLEAN

Init ==
    /\ fb = <<>>
    /\ delivered = [m \in Mids |-> 0]
    /\ rows = [r \in RowIds |-> NoRow]
    /\ conv = [made |-> FALSE, unread |-> 0, needsReply |-> FALSE, awaiting |-> FALSE,
               lastAt |-> 0, last |-> "none"]
    /\ labels = {}
    /\ locks = {}
    /\ hook = [h \in Hooks |-> Idle]
    /\ send = [s \in Senders |-> Idle]
    /\ sync = [y \in Syncs |-> Idle]
    /\ refresh = Idle
    /\ persist = [m \in Mids |-> Idle]
    /\ desk = [u \in Staff |-> Idle]
    /\ seen = 0
    /\ claimed = FALSE
=============================================================================
