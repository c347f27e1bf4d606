---------------------------- MODULE Translations ----------------------------
(***************************************************************************)
(* Translations into Vietnamese of one conversation                        *)
(* (src/src/cskh/inbox/cskh-inbox.service.ts with src/src/ai/ai.service.ts): *)
(* everyone who opens the thread starts a run over its messages, nobody     *)
(* waits for it; a reply may be translated into the customer's language,    *)
(* which is detected once and stored.                                      *)
(***************************************************************************)
EXTENDS Integers, Sequences, FiniteSets

CONSTANTS
    Kinds,          \* of the customer's texts: "vi" Vietnamese, "latin" and "script" foreign
    MaxTexts,       \* bound: messages of the conversation
    Openings,       \* people who open the thread or press translate
    Writers,        \* people who reply
    RunSize, ChunkSize,     \* messages of one run (48) and of one request to the AI (12)
    TongueFaults    \* subset of {"fails", "left out", "unheard"}

VARIABLES
    texts,      \* the messages: who wrote them and their kind
    shownAs,    \* translatedText or originalText: "none", the text itself ("own") or "vi"
    opening,    \* runMessageTranslations
    tongue,     \* customerLang: "none", "vi" or "foreign"
    writing,    \* sendMessageUnlocked up to the text it sends
    omitted     \* history: the messages an answer of the AI left out

tongueVars == <<texts, shownAs, opening, tongue, writing, omitted>>

Still == [pc |-> "idle"]
Heard == {i \in DOMAIN texts : texts[i].from = "customer"}

\* Texts in a foreign script are tried again while what is stored is not a translation.
Needed(i) == shownAs[i] = "none" \/ (texts[i].kind = "script" /\ shownAs[i] = "own")

\* The needed ones, the newest first, at most RunSize.
Queue ==
    LET need  == {i \in DOMAIN texts : Needed(i)}
        taken == {i \in need : Cardinality({j \in need : j > i}) < RunSize}
    IN  CHOOSE s \in [1..Cardinality(taken) -> taken] :
            \A k, l \in DOMAIN s : k < l => s[k] > s[l]

Chunk(s)  == {s[k] : k \in {n \in DOMAIN s : n <= ChunkSize}}
Others(s) == SubSeq(s, (IF Len(s) < ChunkSize THEN Len(s) ELSE ChunkSize) + 1, Len(s))
Foreign(s) == SelectSeq(s, LAMBDA i : texts[i].kind # "vi")

TongueInit ==
    /\ texts = <<>>
    /\ shownAs = [i \in 1..MaxTexts |-> "none"]
    /\ opening = [v \in Openings |-> Still]
    /\ tongue = "none"
    /\ writing = [w \in Writers |-> Still]
    /\ omitted = {}

Writes(kind) ==
    /\ Len(texts) < MaxTexts
    /\ texts' = Append(texts, [from |-> "customer", kind |-> kind])
    /\ UNCHANGED <<shownAs, opening, tongue, writing, omitted>>

\* The run begins: what looks Vietnamese needs no translation and is stored as it is.
Opens(v) ==
    /\ opening[v] = Still /\ Queue # <<>>
    /\ shownAs' = [i \in 1..MaxTexts |->
          IF (\E k \in DOMAIN Queue : Queue[k] = i) /\ texts[i].kind = "vi" THEN "own" ELSE shownAs[i]]
    /\ opening' = [opening EXCEPT ![v] = IF Foreign(Queue) = <<>> THEN Still
                                         ELSE [pc |-> "ask", todo |-> Foreign(Queue)]]
    /\ UNCHANGED <<texts, tongue, writing, omitted>>

\* Mutant of Asked: a request that fails counts as an answer that leaves everything out.
AskedOwn(v) ==
    /\ opening[v].pc = "ask"
    /\ \E out \in SUBSET Chunk(opening[v].todo) :
          /\ out # {} => "fails" \in TongueFaults
          /\ opening' = [opening EXCEPT ![v] = [pc |-> "store", todo |-> @.todo, out |-> out]]
    /\ UNCHANGED <<texts, shownAs, tongue, writing, omitted>>

\* translateBatch: a request that fails skips its messages; an answer may leave some out.
Asked(v) ==
    /\ opening[v].pc = "ask"
    /\ \/ \E out \in SUBSET Chunk(opening[v].todo) :
             /\ out # {} => "left out" \in TongueFaults
             /\ opening' = [opening EXCEPT ![v] = [pc |-> "store", todo |-> @.todo, out |-> out]]
             /\ omitted' = omitted \cup out
       \/ /\ "fails" \in TongueFaults
          /\ opening' = [opening EXCEPT ![v] =
                IF Others(@.todo) = <<>> THEN Still ELSE [pc |-> "ask", todo |-> Others(@.todo)]]
          /\ UNCHANGED omitted
    /\ UNCHANGED <<texts, shownAs, tongue, writing>>

\* The answers are stored by id; a message left out is stored as its own translation.
Stores(v) ==
    LET chunk == Chunk(opening[v].todo)
    IN  /\ opening[v].pc = "store"
        /\ shownAs' = [i \in 1..MaxTexts |->
              IF i \notin chunk THEN shownAs[i] ELSE IF i \in opening[v].out THEN "own" ELSE "vi"]
        /\ opening' = [opening EXCEPT ![v] =
              IF Others(@.todo) = <<>> THEN Still ELSE [pc |-> "ask", todo |-> Others(@.todo)]]
        /\ UNCHANGED <<texts, tongue, writing, omitted>>

\* resolveCustomerLang: stored, or detected from what was written so far; without a sample or
\* an answer it is Vietnamese.
Replies(w) ==
    /\ writing[w] = Still /\ Len(texts) < MaxTexts
    /\ \/ tongue # "none" /\ writing' = [writing EXCEPT ![w] = [pc |-> "translate", to |-> tongue]]
       \/ tongue = "none" /\ writing' = [writing EXCEPT ![w] = [pc |-> "detect", heard |-> Heard]]
    /\ Heard # {} \/ "unheard" \in TongueFaults
    /\ UNCHANGED <<texts, shownAs, opening, tongue, omitted>>

Spoken(heard) == IF \E i \in heard : texts[i].kind # "vi" THEN "foreign" ELSE "vi"

Detected(w) ==
    /\ writing[w].pc = "detect"
    /\ tongue' \in {Spoken(writing[w].heard)} \cup (IF "fails" \in TongueFaults THEN {"vi"} ELSE {})
    /\ writing' = [writing EXCEPT ![w] = [pc |-> "translate", to |-> tongue']]
    /\ UNCHANGED <<texts, shownAs, opening, omitted>>

\* translateText: into a foreign language, keeping what staff wrote; as it is when it fails.
Sent(w) ==
    /\ writing[w].pc = "translate" /\ Len(texts) < MaxTexts
    /\ \E done \in {TRUE} \cup (IF "fails" \in TongueFaults THEN {FALSE} ELSE {}) :
          LET foreign == done /\ writing[w].to = "foreign"
          IN  /\ texts' = Append(texts, [from |-> "shop",
                                         kind |-> IF foreign THEN "latin" ELSE "vi"])
              /\ shownAs' = [shownAs EXCEPT ![Len(texts) + 1] = IF foreign THEN "vi" ELSE "none"]
    /\ writing' = [writing EXCEPT ![w] = Still]
    /\ UNCHANGED <<opening, tongue, omitted>>

TongueNext ==
    \/ \E k \in Kinds : Writes(k)
    \/ \E v \in Openings : Opens(v) \/ Asked(v) \/ Stores(v)
    \/ \E w \in Writers : Replies(w) \/ Detected(w) \/ Sent(w)

(***************************************************************************)
(* Runs of several people do not undo each other: a stored translation is   *)
(* lost only to a run that asked for the message before it was stored and    *)
(* whose answer left it out (translateBatch fills in the text itself).       *)
(***************************************************************************)
TranslationKept ==
    \A i \in DOMAIN texts : shownAs[i] = "vi" /\ shownAs'[i] # "vi" =>
        \E v \in Openings : opening[v].pc = "store" /\ i \in opening[v].out

\* A foreign message is stored as its own translation only when an answer left it out, never when a
\* request failed; such a message in Latin letters is not asked for again.
NothingGivenUp ==
    \A i \in DOMAIN texts : texts[i].kind # "vi" /\ shownAs[i] = "own" => i \in omitted

\* The language stored for a customer who writes in a foreign one is not Vietnamese.
TongueTrue == tongue = "vi" => \E i \in Heard : texts[i].kind = "vi"
=============================================================================
