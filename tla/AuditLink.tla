------------------------------ MODULE AuditLink ------------------------------
(***************************************************************************)
(* What follows the score of a conversation: the audit job starts           *)
(* autoLinkAndSync (src/src/cskh/inbox/cskh-inbox.service.ts) and does not  *)
(* wait for it; staff open the audit (linkFromAudit) or look for the audit  *)
(* of a conversation; the dashboard fills the audit's dates in.  Customer c *)
(* has one conversation; its messages are known by their times 1, 2, ...    *)
(***************************************************************************)
EXTENDS Integers, Sequences, FiniteSets

CONSTANTS
    Customers,      \* customers whose conversations are scored
    NameOf,         \* their names
    DayEnd,         \* the audited day ends with this message
    MaxTalk,        \* bound: messages of one conversation
    FromDb,         \* the audit reads the inbox's own rows
    LinkDoes,       \* subset of {"staff", "dashboard", "cancel", "late"}
    LinkFaults      \* subset of {"db", "ai"}

VARIABLES
    talked,     \* messages of each conversation on Messenger
    inbox,      \* cskh_inbox_conversations: its fbConversationId and preview
    kept,       \* cskh_inbox_messages of each conversation
    audit,      \* chat_audits of each conversation, and its metadata; "upto" is the length of
                \* the transcript
    auto,       \* autoLinkAndSync
    asked,      \* linkFromAudit
    dates,      \* backfillActivityDates of the dashboard
    matched     \* the audit getLatestAuditForConversation returned last

linkVars == <<talked, inbox, kept, audit, auto, asked, dates, matched>>

Absent  == [made |-> FALSE]
Waiting == [pc |-> "idle"]
NoAudit == [state |-> "none"]
Largest(S) == CHOOSE t \in S : \A u \in S : u <= t

\* The messages of the day, oldest first: what was scored.
Transcript(c) == [t \in 1..(IF talked[c] < DayEnd THEN talked[c] ELSE DayEnd) |-> t]

\* conv.id: the row's own id when the audit reads rows that no sync has linked yet.
GraphId(c) == IF FromDb /\ inbox[c].made /\ inbox[c].fb # "graph" THEN "row" ELSE "graph"

LinkInit ==
    /\ talked = [c \in Customers |-> 1]
    /\ inbox = [c \in Customers |->
                  IF FromDb THEN [made |-> TRUE, fb |-> "none", shows |-> 1] ELSE Absent]
    /\ kept = [c \in Customers |-> IF FromDb THEN {1} ELSE {}]
    /\ audit = [c \in Customers |-> NoAudit]
    /\ auto = [c \in Customers |-> Waiting]
    /\ asked = [c \in Customers |-> Waiting]
    /\ dates = [c \in Customers |-> Waiting]
    /\ matched = <<>>

\* A message and its webhook, which makes the row when there is none.
Message(c) ==
    /\ talked[c] < (IF audit[c] = NoAudit \/ "late" \in LinkDoes THEN MaxTalk ELSE DayEnd)
    /\ talked' = [talked EXCEPT ![c] = @ + 1]
    /\ LET t == talked[c] + 1
       IN  \/ /\ inbox' = [inbox EXCEPT ![c] =
                    IF @.made THEN [@ EXCEPT !.shows = t]
                    ELSE [made |-> TRUE, fb |-> "none", shows |-> t]]
              /\ kept' = [kept EXCEPT ![c] = @ \cup {t}]
           \/ ~FromDb /\ UNCHANGED <<inbox, kept>>
    /\ UNCHANGED <<audit, auto, asked, dates, matched>>

\* The worker stores the score and starts the link.
Scored(c) ==
    /\ audit[c] = NoAudit
    /\ audit' = [audit EXCEPT ![c] = [state |-> "row", fb |-> GraphId(c), intent |-> FALSE,
                                      dated |-> FALSE, upto |-> Len(Transcript(c))]]
    /\ auto' = [auto EXCEPT ![c] = [pc |-> "upsert", said |-> Transcript(c), id |-> GraphId(c)]]
    /\ UNCHANGED <<talked, inbox, kept, asked, dates, matched>>

\* The upsert: an existing row takes the audit's conversation id.
AutoUpsert(c) ==
    /\ auto[c].pc = "upsert"
    /\ inbox' = [inbox EXCEPT ![c] =
          IF @.made THEN [@ EXCEPT !.fb = auto[c].id]
          ELSE [made |-> TRUE, fb |-> auto[c].id, shows |-> auto[c].said[1]]]
    /\ auto' = [auto EXCEPT ![c] = [pc |-> "persist", said |-> @.said, i |-> 1]]
    /\ UNCHANGED <<talked, kept, audit, asked, dates, matched>>

\* Mutant of AutoPersist: a message that cannot be stored is skipped.
AutoPersistSkips(c) ==
    /\ auto[c].pc = "persist" /\ auto[c].i <= Len(auto[c].said)
    /\ \/ /\ kept' = [kept EXCEPT ![c] = @ \cup {auto[c].said[auto[c].i]}]
          /\ auto' = [auto EXCEPT ![c].i = @ + 1]
       \/ /\ "db" \in LinkFaults
          /\ auto' = [auto EXCEPT ![c].i = @ + 1]
          /\ kept' = kept
    /\ UNCHANGED <<talked, inbox, audit, asked, dates, matched>>

\* Its messages, oldest first; the first that cannot be stored ends it.
AutoPersist(c) ==
    /\ auto[c].pc = "persist" /\ auto[c].i <= Len(auto[c].said)
    /\ \/ /\ kept' = [kept EXCEPT ![c] = @ \cup {auto[c].said[auto[c].i]}]
          /\ auto' = [auto EXCEPT ![c].i = @ + 1]
       \/ /\ "db" \in LinkFaults
          /\ auto' = [auto EXCEPT ![c] = Waiting]
          /\ kept' = kept
    /\ UNCHANGED <<talked, inbox, audit, asked, dates, matched>>

\* The list shows the last message of the audited day.
AutoPreview(c) ==
    /\ auto[c].pc = "persist" /\ auto[c].i > Len(auto[c].said)
    /\ inbox' = [inbox EXCEPT ![c].shows = auto[c].said[auto[c].i - 1]]
    /\ auto' = [auto EXCEPT ![c] = [pc |-> "analyse"]]
    /\ UNCHANGED <<talked, kept, audit, asked, dates, matched>>

\* The intent is analysed; then the audit's metadata is read ...
AutoAnalyse(c) ==
    /\ auto[c].pc = "analyse"
    /\ auto' = [auto EXCEPT ![c] =
          IF audit[c].state = "row" THEN [pc |-> "write", meta |-> audit[c]] ELSE Waiting]
    /\ UNCHANGED <<talked, inbox, kept, audit, asked, dates, matched>>

AutoFails(c) ==
    /\ "ai" \in LinkFaults
    /\ auto[c].pc = "analyse"
    /\ auto' = [auto EXCEPT ![c] = Waiting]
    /\ UNCHANGED <<talked, inbox, kept, audit, asked, dates, matched>>

\* ... and written back whole; the update of a row that is gone throws.
AutoWrite(c) ==
    /\ auto[c].pc = "write"
    /\ audit' = [audit EXCEPT ![c] = IF @.state = "row" THEN [auto[c].meta EXCEPT !.intent = TRUE]
                                     ELSE @]
    /\ auto' = [auto EXCEPT ![c] = Waiting]
    /\ UNCHANGED <<talked, inbox, kept, asked, dates, matched>>

\* The job is cancelled: its audits are deleted, the links under way are not told.
CancelAudit(c) ==
    /\ "cancel" \in LinkDoes
    /\ audit[c].state = "row"
    /\ audit' = [audit EXCEPT ![c] = [state |-> "deleted"]]
    /\ UNCHANGED <<talked, inbox, kept, auto, asked, dates, matched>>

\* fetchAudits found no dates: backfillActivityDates writes the metadata it has read.
DatesRead(c) ==
    /\ "dashboard" \in LinkDoes
    /\ dates[c] = Waiting /\ audit[c].state = "row" /\ ~audit[c].dated
    /\ dates' = [dates EXCEPT ![c] = [pc |-> "write", meta |-> audit[c]]]
    /\ UNCHANGED <<talked, inbox, kept, audit, auto, asked, matched>>

DatesWrite(c) ==
    /\ dates[c].pc = "write"
    /\ audit' = [audit EXCEPT ![c] = IF @.state = "row" THEN [dates[c].meta EXCEPT !.dated = TRUE]
                                     ELSE @]
    /\ dates' = [dates EXCEPT ![c] = Waiting]
    /\ UNCHANGED <<talked, inbox, kept, auto, asked, matched>>

\* linkFromAudit: a row that exists is the answer; otherwise the messages are fetched, newest
\* first.  An audit that carries the id of a row is unknown to Graph.
Ask(c) ==
    /\ "staff" \in LinkDoes
    /\ asked[c] = Waiting /\ audit[c].state = "row"
    /\ asked' = [asked EXCEPT ![c] =
          IF inbox[c].made THEN [pc |-> "done"]
          ELSE [pc |-> "upsert", id |-> audit[c].fb, upto |-> talked[c]]]
    /\ UNCHANGED <<talked, inbox, kept, audit, auto, dates, matched>>

\* A row made meanwhile takes the name, the preview and the time of what was fetched.
AskUpsert(c) ==
    /\ asked[c].pc = "upsert"
    /\ inbox' = [inbox EXCEPT ![c] = [made |-> TRUE, fb |-> asked[c].id, shows |-> asked[c].upto]]
    /\ asked' = [asked EXCEPT ![c] = [pc |-> "persist", i |-> 1, upto |-> @.upto]]
    /\ UNCHANGED <<talked, kept, audit, auto, dates, matched>>

AskPersist(c) ==
    /\ asked[c].pc = "persist" /\ asked[c].i <= asked[c].upto
    /\ \/ /\ kept' = [kept EXCEPT ![c] = @ \cup {asked[c].i}]
          /\ asked' = [asked EXCEPT ![c].i = @ + 1]
       \/ /\ "db" \in LinkFaults
          /\ asked' = [asked EXCEPT ![c] = Waiting]
          /\ kept' = kept
    /\ UNCHANGED <<talked, inbox, audit, auto, dates, matched>>

AskPreview(c) ==
    /\ asked[c].pc = "persist" /\ asked[c].i > asked[c].upto
    /\ inbox' = [inbox EXCEPT ![c].shows = asked[c].upto]
    /\ asked' = [asked EXCEPT ![c] = [pc |-> "done"]]
    /\ UNCHANGED <<talked, kept, audit, auto, dates, matched>>

\* getLatestAuditForConversation: by the conversation's id, then by the customer's name.
Match(c) ==
    LET rows   == {d \in Customers : audit[d].state = "row"}
        byId   == {d \in rows : d = c /\ inbox[c].fb = audit[d].fb}
        byName == {d \in rows : NameOf[d] = NameOf[c]}
        found  == IF byId # {} THEN byId ELSE byName
    IN  /\ "staff" \in LinkDoes
        /\ inbox[c].made
        /\ \E d \in found : matched' = <<c, d>>
        /\ UNCHANGED <<talked, inbox, kept, audit, auto, asked, dates>>

LinkNext ==
    \E c \in Customers :
        \/ Message(c) \/ Scored(c) \/ CancelAudit(c) \/ Match(c)
        \/ AutoUpsert(c) \/ AutoPersist(c) \/ AutoPreview(c) \/ AutoAnalyse(c) \/ AutoFails(c)
        \/ AutoWrite(c) \/ DatesRead(c) \/ DatesWrite(c)
        \/ Ask(c) \/ AskUpsert(c) \/ AskPersist(c) \/ AskPreview(c)

(***************************************************************************)
(* An audit that carries an intent has its whole day in the inbox          *)
(* (autoLinkAndSync stores before it analyses).                            *)
(***************************************************************************)
IntentHasThread ==
    \A c \in Customers : audit[c].state = "row" /\ audit[c].intent =>
        inbox[c].made /\ 1..audit[c].upto \subseteq kept[c]

\* The list's preview never goes back to an older message.
PreviewForward ==
    [][\A c \in Customers : inbox[c].made => inbox'[c].shows >= inbox[c].shows]_linkVars

\* The row's Graph id is one Graph knows.
GraphIdReal == \A c \in Customers : inbox[c].made => inbox[c].fb # "row"

\* What one task wrote into the metadata, no other takes out.
MetaKept ==
    [][\A c \in Customers : audit[c].state = "row" /\ audit'[c].state = "row" =>
          (audit[c].intent => audit'[c].intent) /\ (audit[c].dated => audit'[c].dated)]_linkVars

\* The audit shown beside a conversation is its own.
OwnAudit == matched # <<>> => matched[1] = matched[2]
=============================================================================
