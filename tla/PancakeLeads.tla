---------------------------- MODULE PancakeLeads ----------------------------
(***************************************************************************)
(* The row of one lead (src/src/pancake/pancake.service.ts).  The worker's *)
(* sync writes it from the profile and from the conversation that Pancake  *)
(* has, repairs its labels and labels it from the chat; webhooks, staff    *)
(* and orders write it meanwhile.  Every writer reads the row, waits, and  *)
(* writes fields that it computed from what it read.                       *)
(***************************************************************************)
EXTENDS Integers, FiniteSets

CONSTANTS
    Others,         \* webhooks, requests of staff and orders under way
    LeadFaults,     \* subset of {"pancake fails", "hand"}
    InApi           \* the run mode is 'api': listing leads writes nothing

Phones == {"chat", "hand"}              \* numbers: in the chat, told to staff; Pancake's profile has none
Labels == {"follow", "closed"}
Worker == "worker"

VARIABLES
    lead,           \* pancake_leads: the row of the lead
    chat,           \* Pancake's conversation: there is one, its tag, an order in it
    work,           \* locals of the worker and the others
    disturbed,      \* somebody else wrote the row since the sync began
    born            \* the sync's last pass made the row, from a conversation with the tag

leadVars == <<lead, chat, work, disturbed, born>>

NoLead == [exists |-> FALSE, stage |-> "conversation", labels |-> {}, talks |-> FALSE, phones |-> {}, follow |-> FALSE]
Idle   == [pc |-> "idle"]

EnsureDefaultLabels(stage, labels, talks) ==
    IF stage = "customer" \/ "closed" \in labels THEN (labels \cup {"closed"}) \ {"follow"}
    ELSE IF talks THEN labels \cup {"follow"} ELSE labels \ {"follow"}

ChatPhones  == IF chat.talks THEN {"chat"} ELSE {}
Goto(a, w)  == work' = [work EXCEPT ![a] = w]
Write(a, r) == lead' = r /\ disturbed' = (disturbed \/ a # Worker)

\* What writers keep of the row they read (a reader of the list also its conversation).
Known == [lead EXCEPT !.talks = FALSE, !.follow = FALSE]

---------------------------------------------------------------------------
\* syncPageCustomers: the profiles first, ...
SyncStart ==
    /\ work[Worker] = Idle
    /\ Goto(Worker, [pc |-> "customers"])
    /\ disturbed' = FALSE /\ born' = FALSE
    /\ UNCHANGED <<lead, chat>>

SyncCustomer ==
    /\ work[Worker].pc = "customers"
    /\ Write(Worker, IF lead.exists
                     THEN [lead EXCEPT !.phones = {}, !.talks = @ \/ chat.talks]
                     ELSE [NoLead EXCEPT !.exists = TRUE, !.phones = {}, !.talks = chat.talks,
                              !.labels = EnsureDefaultLabels("conversation", {}, chat.talks)])
    /\ \E passes \in {1} \cup (IF "pancake fails" \in LeadFaults THEN {2} ELSE {}) :
          Goto(Worker, [pc |-> "next", passes |-> passes])
    /\ UNCHANGED <<chat, born>>

\* ... of which only the first maxPages pages are read, ...
SyncUnlisted ==
    /\ work[Worker].pc = "customers"
    /\ Goto(Worker, [pc |-> "next", passes |-> 1])
    /\ UNCHANGED <<lead, chat, disturbed, born>>

\* ... or, if Pancake's profiles fail, one more pass over the newest conversations, the lead's among
\* them or not; any later failure skips what is left of the pass and the repairs.
SyncCustomersFail ==
    /\ "pancake fails" \in LeadFaults
    /\ work[Worker].pc = "customers"
    /\ \E passes \in {1, 2} : Goto(Worker, [pc |-> "next", passes |-> passes])
    /\ UNCHANGED <<lead, chat, disturbed, born>>

\* The pages cannot be listed, or the conversations fail as well: the sync of all pages goes on
\* with the next page.
SyncFails ==
    /\ "pancake fails" \in LeadFaults
    /\ work[Worker].pc = "customers"
    /\ Goto(Worker, Idle)
    /\ UNCHANGED <<lead, chat, disturbed, born>>

EnrichFails ==
    /\ "pancake fails" \in LeadFaults
    /\ work[Worker].pc = "next"
    /\ Goto(Worker, [pc |-> "pool", repaired |-> FALSE])
    /\ UNCHANGED <<lead, chat, disturbed, born>>

\* enrichLeadsFromConversations, findLeadForConversation.
FindLead ==
    /\ work[Worker].pc = "next" /\ work[Worker].passes > 0 /\ chat.talks
    /\ Goto(Worker, [pc |-> "apply", passes |-> work[Worker].passes - 1, row |-> Known])
    /\ UNCHANGED <<lead, chat, disturbed, born>>

ClosedTag == IF chat.tag THEN {"closed"} ELSE {}

\* applyConversationToLead: a missing row is created (if it is there by now, the pass fails).
CreateFromConversation ==
    LET w == work[Worker]
    IN  /\ w.pc = "apply" /\ ~w.row.exists
        /\ IF lead.exists
           THEN Goto(Worker, [pc |-> "pool", repaired |-> FALSE]) /\ UNCHANGED <<lead, disturbed, born>>
           ELSE /\ Write(Worker, [NoLead EXCEPT !.exists = TRUE, !.talks = TRUE, !.phones = ChatPhones,
                                    !.labels = EnsureDefaultLabels("conversation", {"follow"} \cup ClosedTag, TRUE)])
                /\ Goto(Worker, [pc |-> "next", passes |-> w.passes])
                /\ born' = chat.tag
        /\ UNCHANGED chat

\* Mutant of ApplyConversation: the tag is taken over as a label only.
ApplyLabels ==
    LET w == work[Worker]
        labels == EnsureDefaultLabels(w.row.stage, w.row.labels \cup ClosedTag, TRUE)
    IN  /\ w.pc = "apply" /\ w.row.exists
        /\ Write(Worker, [lead EXCEPT !.phones = w.row.phones \cup ChatPhones, !.talks = TRUE, !.labels = labels])
        /\ Goto(Worker, [pc |-> "next", passes |-> w.passes])
        /\ born' = FALSE
        /\ UNCHANGED chat

\* A row that is there gets the labels of what was read and of the tags; 'Đã chốt' makes it a
\* customer.  An order in the last message is looked into.
ApplyConversation ==
    LET w == work[Worker]
        labels == EnsureDefaultLabels(w.row.stage, w.row.labels \cup ClosedTag, TRUE)
        closed == "closed" \in labels
    IN  /\ w.pc = "apply" /\ w.row.exists
        /\ Write(Worker, [lead EXCEPT !.phones = w.row.phones \cup ChatPhones, !.talks = TRUE, !.labels = labels,
                              !.stage = IF closed THEN "customer" ELSE @, !.follow = @ /\ ~closed])
        /\ \/ Goto(Worker, [pc |-> "next", passes |-> w.passes])
           \/ /\ chat.order /\ w.row.stage # "customer"
              /\ Goto(Worker, [pc |-> "upgrade", passes |-> w.passes, then |-> "apply",
                               phones |-> w.row.phones \cup ChatPhones])
        /\ born' = FALSE
        /\ UNCHANGED chat

\* The three updates that end the pass; at most one of them finds the row.
Repair ==
    /\ work[Worker].pc = "next" /\ (work[Worker].passes = 0 \/ ~chat.talks)
    /\ Write(Worker,
           IF ~lead.exists THEN lead
           ELSE IF lead.stage = "customer" THEN [lead EXCEPT !.labels = IF @ = {} THEN {"closed"} ELSE @]
           ELSE IF lead.talks THEN [lead EXCEPT !.labels = IF @ = {} THEN {"follow"} ELSE @]
           ELSE [lead EXCEPT !.labels = {}, !.follow = @ /\ lead.labels = {}])
    /\ Goto(Worker, [pc |-> "pool", repaired |-> TRUE])
    /\ UNCHANGED <<chat, born>>

\* scanAndAutoLabelPageLeads, after a sync or asked for by staff: the open leads are read at
\* once, each is written when its messages have come.
LabelOnly ==
    /\ work[Worker] = Idle
    /\ Goto(Worker, [pc |-> "pool", repaired |-> FALSE])
    /\ UNCHANGED <<lead, chat, disturbed, born>>

LabelPool ==
    LET open == lead.exists /\ lead.talks /\ lead.stage # "customer" /\ "closed" \notin lead.labels
        done == IF work[Worker].repaired THEN "synced" ELSE "idle"
    IN  /\ work[Worker].pc = "pool"
        /\ Goto(Worker, IF open THEN [pc |-> "scan", row |-> Known, then |-> done] ELSE [pc |-> done])
        /\ UNCHANGED <<lead, chat, disturbed, born>>

\* Mutant of LabelScan: the stage goes with the label.
LabelStage ==
    LET w == work[Worker]
    IN  /\ w.pc = "scan"
        /\ IF chat.order
           THEN /\ Goto(Worker, [pc |-> "upgrade", then |-> w.then, phones |-> w.row.phones \cup ChatPhones])
                /\ UNCHANGED <<lead, disturbed>>
           ELSE /\ Write(Worker, [lead EXCEPT !.phones = w.row.phones \cup ChatPhones, !.stage = "conversation",
                                      !.labels = EnsureDefaultLabels("conversation", w.row.labels, TRUE)])
                /\ Goto(Worker, [pc |-> w.then])
        /\ UNCHANGED <<chat, born>>

LabelScan ==
    LET w == work[Worker]
    IN  /\ w.pc = "scan"
        /\ IF chat.order
           THEN /\ Goto(Worker, [pc |-> "upgrade", then |-> w.then, phones |-> w.row.phones \cup ChatPhones])
                /\ UNCHANGED <<lead, disturbed>>
           ELSE /\ Write(Worker, [lead EXCEPT !.phones = w.row.phones \cup ChatPhones,
                                      !.labels = EnsureDefaultLabels("conversation", w.row.labels, TRUE)])
                /\ Goto(Worker, [pc |-> w.then])
        /\ UNCHANGED <<chat, born>>

SyncEnds ==
    /\ work[Worker].pc = "synced"
    /\ Goto(Worker, Idle)
    /\ UNCHANGED <<lead, chat, disturbed, born>>

---------------------------------------------------------------------------
\* upgradeLeadFromChatOrder, by the worker or by the preview of a chat: the row is read, ...
UpgradeFind(a) ==
    /\ work[a].pc = "upgrade"
    /\ Goto(a, [pc |-> "upgrade write", then |-> work[a].then, phones |-> work[a].phones, row |-> Known,
                passes |-> IF work[a].then = "apply" THEN work[a].passes ELSE 0])
    /\ UNCHANGED <<lead, chat, disturbed, born>>

\* ... and made a customer's; what is closed already only gets new numbers.
UpgradeWrite(a) ==
    LET w == work[a]
        customer == [w.row EXCEPT !.exists = TRUE, !.stage = "customer", !.talks = TRUE, !.follow = FALSE,
                         !.phones = @ \cup w.phones, !.labels = EnsureDefaultLabels("customer", @, TRUE)]
        done == IF w.then = "apply" THEN [pc |-> "next", passes |-> w.passes] ELSE [pc |-> w.then]
    IN  /\ w.pc = "upgrade write"
        /\ IF w.row.stage = "customer" /\ "closed" \in w.row.labels
           THEN IF w.phones \subseteq w.row.phones THEN UNCHANGED <<lead, disturbed>>
                ELSE Write(a, [lead EXCEPT !.phones = w.row.phones \cup w.phones])
           ELSE IF lead.exists /\ ~w.row.exists THEN UNCHANGED <<lead, disturbed>>
           ELSE Write(a, customer)
        /\ Goto(a, done)
        /\ UNCHANGED <<chat, born>>

\* Everybody else reads the row first.
OtherReads(a, kind) ==
    /\ work[a] = Idle
    /\ CASE kind = "webhook" -> chat.talks
         [] kind = "list"    -> lead.exists /\ ~InApi
         [] kind = "crm"     -> lead.exists /\ "hand" \in LeadFaults
         [] kind = "preview" -> lead.exists /\ chat.talks
         [] kind = "order"   -> lead.exists
    /\ Goto(a, [pc |-> kind, row |-> CASE kind \in {"webhook", "preview"} -> [NoLead EXCEPT !.phones = lead.phones]
                                        [] kind = "list" -> [lead EXCEPT !.phones = {}]
                                        [] OTHER         -> Known])
    /\ UNCHANGED <<lead, chat, disturbed, born>>

\* handleWebhook: a message of the customer.
Webhook(a) ==
    LET row == work[a].row
    IN  /\ work[a].pc = "webhook"
        /\ Write(a, IF lead.exists THEN [lead EXCEPT !.phones = row.phones \cup ChatPhones, !.talks = TRUE]
                    ELSE [NoLead EXCEPT !.exists = TRUE, !.talks = TRUE, !.phones = row.phones \cup ChatPhones,
                             !.labels = EnsureDefaultLabels("conversation", {"follow"}, TRUE)])
        /\ Goto(a, Idle)
        /\ UNCHANGED <<chat, born>>

\* listStoredLeads: labels are brought up to date while staff see the list; an order in the
\* last message closes the lead.
ListWrite(a) ==
    LET row == work[a].row
    IN  /\ work[a].pc = "list"
        /\ \E closed \in {FALSE, chat.order} :
              LET stage  == IF closed \/ row.stage = "customer" THEN "customer" ELSE "conversation"
                  labels == IF row.talks \/ stage = "customer"
                            THEN EnsureDefaultLabels(stage, row.labels, row.talks) ELSE {}
                  gone   == ~row.talks /\ stage # "customer"
              IN  IF labels # row.labels \/ (closed /\ (row.stage # "customer" \/ row.follow)) \/ (gone /\ row.follow)
                  THEN Write(a, [lead EXCEPT !.labels = labels, !.follow = @ /\ ~gone /\ ~closed,
                                    !.stage = IF closed /\ row.stage # "customer" THEN "customer" ELSE @])
                  ELSE UNCHANGED <<lead, disturbed>>
        /\ Goto(a, Idle)
        /\ UNCHANGED <<chat, born>>

\* leadPreview: what the chat shows.
Preview(a) ==
    /\ work[a].pc = "preview"
    /\ Goto(a, IF chat.order THEN [pc |-> "upgrade", then |-> "idle", phones |-> work[a].row.phones \cup ChatPhones]
               ELSE Idle)
    /\ UNCHANGED <<lead, chat, disturbed, born>>

\* upgradeLeadFromOrder: an order with a number of its own.
OrderWrite(a) ==
    LET row == work[a].row
    IN  /\ work[a].pc = "order"
        /\ Write(a, [lead EXCEPT !.stage = "customer", !.phones = row.phones \cup {"hand"},
                         !.labels = EnsureDefaultLabels("customer", row.labels, TRUE)])
        /\ Goto(a, Idle)
        /\ UNCHANGED <<chat, born>>

\* updateLeadCrm: staff set the labels, the stage, the follow mark or a number.
CrmWrite(a) ==
    LET row == work[a].row
    IN  /\ work[a].pc = "crm"
        /\ \/ \E labels \in SUBSET Labels : Write(a, [lead EXCEPT !.labels = labels])
           \/ \E stage \in {"conversation", "customer"} :
                 Write(a, [lead EXCEPT !.stage = stage, !.labels = EnsureDefaultLabels(stage, row.labels, TRUE)])
           \/ \E follow \in BOOLEAN :
                 Write(a, [lead EXCEPT !.follow = follow,
                               !.labels = IF row.labels = {} THEN EnsureDefaultLabels(row.stage, {}, TRUE) ELSE @])
           \/ Write(a, [lead EXCEPT !.phones = row.phones \cup {"hand"},
                            !.labels = IF row.labels = {} THEN EnsureDefaultLabels(row.stage, {}, TRUE) ELSE @])
        /\ Goto(a, Idle)
        /\ UNCHANGED <<chat, born>>

---------------------------------------------------------------------------
\* The customer writes, pays, or is tagged in Pancake.
ChatGoesOn ==
    /\ \/ ~chat.talks /\ chat' = [chat EXCEPT !.talks = TRUE]
       \/ chat.talks /\ ~chat.order /\ chat' = [chat EXCEPT !.order = TRUE]
       \/ chat.talks /\ ~chat.tag /\ chat' = [chat EXCEPT !.tag = TRUE]
    /\ UNCHANGED <<lead, work, disturbed, born>>

Init ==
    /\ lead = NoLead
    /\ chat = [talks |-> FALSE, order |-> FALSE, tag |-> FALSE]
    /\ work = [a \in Others \cup {Worker} |-> Idle]
    /\ disturbed = FALSE
    /\ born = FALSE

Next ==
    \/ SyncStart \/ SyncCustomer \/ SyncUnlisted \/ SyncCustomersFail \/ SyncFails \/ EnrichFails \/ FindLead
    \/ CreateFromConversation
    \/ ApplyConversation \/ Repair \/ LabelOnly \/ LabelPool \/ LabelScan \/ SyncEnds \/ ChatGoesOn
    \/ \E a \in Others \cup {Worker} : UpgradeFind(a) \/ UpgradeWrite(a)
    \/ \E a \in Others :
          \/ \E kind \in {"webhook", "list", "preview", "order", "crm"} : OtherReads(a, kind)
          \/ Webhook(a) \/ ListWrite(a) \/ Preview(a) \/ OrderWrite(a) \/ CrmWrite(a)

Spec == Init /\ [][Next]_leadVars

---------------------------------------------------------------------------
Agrees == /\ lead.stage = "customer" <=> "closed" \in lead.labels
          /\ lead.stage # "customer" <=> "follow" \in lead.labels

\* Whatever state the races and staff have left the row in, a sync that ran through while nobody
\* else wrote leaves stage and labels of a lead with a conversation in agreement, but for a row that
\* its last pass made: that takes the tag as a label over the default stage, until the next sync.
SyncHeals == work[Worker].pc = "synced" /\ ~disturbed /\ ~born /\ lead.talks => Agrees

\* A lead that became a customer stays one, whatever old rows the writers hold, unless staff
\* set the stage.
StaysCustomer == lead.stage = "customer" /\ lead'.stage # "customer" => \E a \in Others : work[a].pc = "crm"

\* Stage and labels agree whenever nobody is at work and staff have not set them by hand.
AlwaysAgrees == (\A a \in DOMAIN work : work[a] = Idle) /\ lead.talks => Agrees

\* A number that was known is not forgotten.
PhonesKept == [][lead.phones \subseteq lead'.phones]_leadVars

\* A customer is not marked to be followed up.
NoFollowedCustomer == (\A a \in DOMAIN work : work[a] = Idle) /\ lead.stage = "customer" => ~lead.follow
=============================================================================
