----------------------------- MODULE InboxMedia -----------------------------
(***************************************************************************)
(* The photos of one conversation (src/src/cskh/inbox/                     *)
(* cskh-inbox.service.ts).  One row of cskh_inbox_messages shows one photo; *)
(* a message with several becomes several rows, of which only the first    *)
(* has the mid.  A webhook makes the rows, without URLs when Meta gives     *)
(* none; four readers of Graph fill them in: the task the webhook starts,   *)
(* staff opening a photo, the refresh of the thread and its last pass.     *)
(***************************************************************************)
EXTENDS Integers, Sequences, FiniteSets

CONSTANTS
    Sent,           \* the customer's messages: [at |-> time, photos |-> sequence of numbers]
    UrlsInHook,     \* webhooks carry the URLs of the photos
    Openers,        \* staff who open a photo
    Near, AlbumSpan, Same, Close,   \* windows of mediaSentWindow (8, 15), of the duplicate check
                                    \* (10) and of findStoredMessageNearSentAt (5)
    ShotRows,       \* bound: rows ever created
    MediaBatch, MediaWorkers, MediaRounds,
    MediaDoes,      \* subset of {"restore", "sweep"}
    MediaFaults     \* subset of {"together", "unresolved"}

VARIABLES
    shots,      \* the rows; photo 0 stands for attachmentUrl null; "of" is history
    hookAt,     \* how many rows of each message the webhook has made
    resolver,   \* tasks that resolve photos and store them with persistExtraMediaUrls
    restore,    \* persistGraphMessage of each message
    sweep,      \* backfillMissingMediaUrls
    raced       \* history: photos written by a task that had looked before the photo showed

mediaVars == <<shots, hookAt, resolver, restore, sweep, raced>>

Messages  == DOMAIN Sent
Resolvers == ({"hook"} \X Messages) \cup ({"open"} \X Openers)
Resting   == [pc |-> "idle"]
Photos(m) == Sent[m].photos
Items(m)  == IF Photos(m) = <<>> THEN 1 ELSE Len(Photos(m))
InOrder(S) == CHOOSE s \in [1..Cardinality(S) -> S] :
                \A i, j \in 1..Cardinality(S) : i < j =>
                    \/ shots[s[i]].at < shots[s[j]].at
                    \/ shots[s[i]].at = shots[s[j]].at /\ s[i] < s[j]

Shown        == DOMAIN shots
Around(at, w) == {r \in Shown : shots[r].at \in (at - w)..(at + w)}
Showing(p, at, w) == {r \in Around(at, w) : shots[r].photo = p}
WithMid(m)   == {r \in Shown : shots[r].mid = m}

NewShot(m, i, photo) ==
    [mid |-> IF i = 1 THEN m ELSE 0, at |-> Sent[m].at, photo |-> photo,
     kind |-> IF Photos(m) = <<>> THEN "text" ELSE "image", of |-> m]

\* One task at a time unless they may run together; a task not begun yet blocks none.
Quiet ==
    \/ "together" \in MediaFaults
    \/ /\ \A m \in Messages : hookAt[m] \in {0, Items(m)} /\ restore[m] = Resting
       /\ \A a \in Resolvers : resolver[a].pc \in {"idle", "look"}
       /\ sweep.pc # "run"

MediaInit ==
    /\ shots = <<>>
    /\ hookAt = [m \in Messages |-> 0]
    /\ resolver = [a \in Resolvers |-> Resting]
    /\ restore = [m \in Messages |-> Resting]
    /\ sweep = Resting
    /\ raced = {}

\* The webhook's loop over the attachments; afterwards it starts the task for the rest.
HookItem(m) ==
    LET i     == hookAt[m] + 1
        photo == IF UrlsInHook /\ Photos(m) # <<>> THEN Photos(m)[i] ELSE 0
        more  == Items(m) > 1 \/ (Photos(m) # <<>> /\ photo = 0)
    IN  /\ i <= Items(m)
        /\ i = 1 => Quiet
        /\ hookAt' = [hookAt EXCEPT ![m] = i]
        /\ IF i = 1 /\ WithMid(m) # {}
           THEN shots' = [r \in Shown |->
                    IF r \in WithMid(m) /\ photo # 0 /\ shots[r].photo = 0
                    THEN [shots[r] EXCEPT !.photo = photo, !.kind = "image"] ELSE shots[r]]
           ELSE IF i > 1 /\ photo # 0 /\ Showing(photo, Sent[m].at, Same) # {}
           THEN shots' = shots
           ELSE Len(shots) < ShotRows /\ shots' = Append(shots, NewShot(m, i, photo))
        /\ resolver' = IF i = Items(m) /\ more
                       THEN [resolver EXCEPT ![<<"hook", m>>] = [pc |-> "look"]] ELSE resolver
        /\ UNCHANGED <<restore, sweep, raced>>

\* resolveWebhookMediaInBackground finds the row by the mid.
HookLook(m) ==
    LET a == <<"hook", m>>
    IN  /\ resolver[a].pc = "look" /\ Quiet
        /\ \E r \in WithMid(m) :
              resolver' = [resolver EXCEPT ![a] = [pc |-> "ask", row |-> r, mids |-> <<m>>]]
        /\ UNCHANGED <<shots, hookAt, restore, sweep, raced>>

\* resolveInboxMessageMedia: nothing to do for a photo that has others beside it.
Open(v, r) ==
    LET a      == <<"open", v>>
        beside == {shots[q].photo : q \in Around(shots[r].at, AlbumSpan)} \ {0}
    IN  /\ resolver[a] = Resting /\ Quiet
        /\ r \in Shown /\ shots[r].kind = "image"
        /\ ~(shots[r].photo # 0 /\ Cardinality(beside) > 1)
        /\ \/ shots[r].mid # 0 /\ resolver' = [resolver EXCEPT ![a] = [pc |-> "album", row |-> r]]
           \/ /\ shots[r].mid = 0 /\ shots[r].photo = 0
              /\ resolver' = [resolver EXCEPT ![a] = [pc |-> "link", row |-> r]]
        /\ UNCHANGED <<shots, hookAt, restore, sweep, raced>>

\* linkFbMessageIdsFromGraph: the newest message with photos near the row's time, if its mid
\* is free.
OpenLink(v) ==
    LET a       == <<"open", v>>
        r       == resolver[a].row
        matches == {m \in Messages : Photos(m) # <<>>
                                       /\ Sent[m].at \in (shots[r].at - Close)..(shots[r].at + Close)}
        first   == CHOOSE m \in matches : \A k \in matches : k <= m
    IN  /\ resolver[a].pc = "link"
        /\ IF matches # {} /\ WithMid(first) = {}
           THEN /\ shots' = [shots EXCEPT ![r].mid = first]
                /\ resolver' = [resolver EXCEPT ![a].pc = "album"]
           ELSE /\ shots' = shots
                /\ resolver' = [resolver EXCEPT ![a] = Resting]
        /\ UNCHANGED <<hookAt, restore, sweep, raced>>

\* The mids of the album, the row's own first.
OpenAlbum(v) ==
    LET a    == <<"open", v>>
        r    == resolver[a].row
        rest == {q \in Around(shots[r].at, AlbumSpan) :
                    shots[q].mid \notin {0, shots[r].mid}}
    IN  /\ resolver[a].pc = "album"
        /\ resolver' = [resolver EXCEPT ![a] =
              [pc |-> "ask", row |-> r,
               mids |-> <<shots[r].mid>> \o [i \in 1..Cardinality(rest) |->
                                                shots[InOrder(rest)[i]].mid]]]
        /\ UNCHANGED <<shots, hookAt, restore, sweep, raced>>

\* resolveAllMessageMediaUrls for each mid; one that fails gives no photo.
Answer(a) ==
    LET mids == resolver[a].mids
    IN  /\ resolver[a].pc = "ask"
        /\ \E bad \in SUBSET DOMAIN mids :
              LET got[i \in 0..Len(mids)] ==
                    IF i = 0 THEN <<>>
                    ELSE got[i - 1] \o (IF i \in bad THEN <<>> ELSE Photos(mids[i]))
                  items == got[Len(mids)]
              IN  /\ bad # {} => "unresolved" \in MediaFaults
                  /\ resolver' = [resolver EXCEPT ![a] =
                        IF items = <<>> THEN Resting
                        ELSE [pc |-> "primary", row |-> @.row, items |-> items]]
        /\ UNCHANGED <<shots, hookAt, restore, sweep, raced>>

\* The first photo goes to the row itself, whatever it shows by now.
Primary(a) ==
    /\ resolver[a].pc = "primary"
    /\ shots' = [shots EXCEPT ![resolver[a].row].photo = resolver[a].items[1],
                              ![resolver[a].row].kind = "image"]
    /\ resolver' = [resolver EXCEPT ![a].pc = "holders"]
    /\ UNCHANGED <<hookAt, restore, sweep, raced>>

\* Mutant of Holders: the row itself is not left out.
HoldersAll(r) == {q \in Around(shots[r].at, Near) : shots[q].photo = 0 \/ q = r}

\* Rows without a URL by the same sender: the placeholders, and text messages as well.
Holders(r) == {q \in Around(shots[r].at, Near) \ {r} : shots[q].photo = 0}

Further(a, i) == IF i > Len(resolver[a].items) THEN Resting
                 ELSE [resolver[a] EXCEPT !.pc = "find", !.i = i]

ReadHolders(a) ==
    /\ resolver[a].pc = "holders"
    /\ resolver' = [resolver EXCEPT ![a] =
          IF Len(@.items) = 1 THEN Resting
          ELSE [pc |-> "find", row |-> @.row, items |-> @.items, i |-> 2, used |-> 0,
                holders |-> InOrder(Holders(@.row))]]
    /\ UNCHANGED <<shots, hookAt, restore, sweep, raced>>

\* Mutant of ExtraFind: every further photo is written.
ExtraFindNone(a) ==
    /\ resolver[a].pc = "find"
    /\ resolver' = [resolver EXCEPT ![a].pc = "put"]
    /\ UNCHANGED <<shots, hookAt, restore, sweep, raced>>

\* A further photo that a row near it shows is left alone.
ExtraFind(a) ==
    LET photo == resolver[a].items[resolver[a].i]
    IN  /\ resolver[a].pc = "find"
        /\ resolver' = [resolver EXCEPT ![a] =
              IF Showing(photo, shots[@.row].at, Near) # {} THEN Further(a, @.i + 1)
              ELSE [@ EXCEPT !.pc = "put"]]
        /\ UNCHANGED <<shots, hookAt, restore, sweep, raced>>

\* The others go to the next placeholder read before, by id, or to a new row.
ExtraPut(a) ==
    LET s     == resolver[a]
        photo == s.items[s.i]
    IN  /\ s.pc = "put"
        /\ IF s.used < Len(s.holders)
           THEN /\ shots' = [shots EXCEPT ![s.holders[s.used + 1]].photo = photo,
                                          ![s.holders[s.used + 1]].kind = "image"]
                /\ resolver' = [resolver EXCEPT ![a] =
                      IF s.i = Len(s.items) THEN Resting
                      ELSE [s EXCEPT !.pc = "find", !.i = @ + 1, !.used = @ + 1]]
           ELSE /\ Len(shots) < ShotRows
                /\ shots' = Append(shots, [mid |-> 0, at |-> shots[s.row].at, photo |-> photo,
                                           kind |-> "image", of |-> shots[s.row].of])
                /\ resolver' = [resolver EXCEPT ![a] = Further(a, s.i + 1)]
        /\ raced' = raced \cup {p \in {photo} : Showing(p, shots[s.row].at, Near) # {}}
        /\ UNCHANGED <<hookAt, restore, sweep>>

\* persistGraphMessage of the refresh, with the photos Graph resolves for the message.
Restore(m) ==
    /\ "restore" \in MediaDoes
    /\ restore[m] = Resting /\ Quiet
    /\ \E items \in {Photos(m)} \cup (IF "unresolved" \in MediaFaults THEN {<<>>} ELSE {}) :
          restore' = [restore EXCEPT ![m] = [pc |-> "find", i |-> 1, items |-> items]]
    /\ UNCHANGED <<shots, hookAt, resolver, sweep, raced>>

\* Its row: by the mid, by the photo, by the time alone.
RestoreFind(m) ==
    LET s     == restore[m]
        byMid == IF s.i = 1 THEN WithMid(m) ELSE {}
        byUrl == IF s.items = <<>> THEN {} ELSE Showing(s.items[s.i], Sent[m].at, Same)
        close == IF s.i = 1 THEN Around(Sent[m].at, Close) ELSE {}
        found == IF byMid # {} THEN byMid ELSE IF byUrl # {} THEN byUrl ELSE close
    IN  /\ s.pc = "find"
        /\ restore' = [restore EXCEPT ![m] =
              [pc |-> "put", i |-> s.i, items |-> s.items,
               row |-> IF found = {} THEN 0 ELSE InOrder(found)[1]]]
        /\ UNCHANGED <<shots, hookAt, resolver, sweep, raced>>

\* The row found is overwritten; without one a row is made, and a mid that is taken by now
\* ends the refresh.
RestorePut(m) ==
    LET s     == restore[m]
        photo == IF s.items = <<>> THEN 0 ELSE s.items[s.i]
        new   == NewShot(m, s.i, photo)
    IN  /\ s.pc = "put"
        /\ IF s.row # 0
           THEN shots' = [shots EXCEPT ![s.row] =
                    [@ EXCEPT !.photo = photo, !.kind = new.kind,
                              !.mid = IF @ = 0 /\ s.i = 1 /\ WithMid(m) = {} THEN m ELSE @]]
           ELSE IF s.i = 1 /\ WithMid(m) # {} THEN shots' = shots
           ELSE Len(shots) < ShotRows /\ shots' = Append(shots, new)
        /\ restore' = [restore EXCEPT ![m] =
              IF s.i >= Len(s.items) \/ (s.row = 0 /\ s.i = 1 /\ WithMid(m) # {}) THEN Resting
              ELSE [pc |-> "find", i |-> s.i + 1, items |-> s.items]]
        /\ raced' = raced \cup {p \in {photo} \ {0} : Showing(p, Sent[m].at, Same) \ {s.row} # {}}
        /\ UNCHANGED <<hookAt, resolver, sweep>>

\* backfillMissingMediaUrls: the photo rows with a mid and without a URL, read once; "left"
\* is the copy it works on.
Batch(left) == InOrder({r \in left : Cardinality({q \in left : q < r}) < MediaBatch})

SweepStart ==
    LET missing == {r \in Shown : shots[r].kind = "image" /\ shots[r].photo = 0 /\ shots[r].mid # 0}
    IN  /\ "sweep" \in MediaDoes
        /\ sweep = Resting /\ Quiet /\ missing # {}
        /\ sweep' = [pc |-> "run", left |-> missing, first |-> missing, list |-> Batch(missing),
                     next |-> 1, alive |-> MediaWorkers, progress |-> FALSE, round |-> 1]
        /\ UNCHANGED <<shots, hookAt, resolver, restore, raced>>

\* A worker takes the next row; one that gets no URL goes home.
SweepRow ==
    LET r == sweep.list[sweep.next]
    IN  /\ sweep.pc = "run" /\ sweep.next <= Len(sweep.list) /\ sweep.alive > 0
        /\ \/ /\ shots' = [shots EXCEPT ![r].photo = Photos(shots[r].mid)[1]]
              /\ sweep' = [sweep EXCEPT !.next = @ + 1, !.progress = TRUE, !.left = @ \ {r}]
           \/ /\ "unresolved" \in MediaFaults
              /\ shots' = shots
              /\ sweep' = [sweep EXCEPT !.next = @ + 1, !.alive = @ - 1]
        /\ UNCHANGED <<hookAt, resolver, restore, raced>>

\* Mutant of SweepRound: one round, however many rows are left.
SweepRoundOnce ==
    /\ sweep.pc = "run" /\ (sweep.next > Len(sweep.list) \/ sweep.alive = 0)
    /\ sweep' = [sweep EXCEPT !.pc = "done"]
    /\ UNCHANGED <<shots, hookAt, resolver, restore, raced>>

SweepRound ==
    /\ sweep.pc = "run" /\ (sweep.next > Len(sweep.list) \/ sweep.alive = 0)
    /\ sweep' = IF sweep.progress /\ sweep.left # {} /\ sweep.round < MediaRounds
                THEN [sweep EXCEPT !.list = Batch(sweep.left), !.next = 1, !.alive = MediaWorkers,
                                   !.progress = FALSE, !.round = @ + 1]
                ELSE [sweep EXCEPT !.pc = "done"]
    /\ UNCHANGED <<shots, hookAt, resolver, restore, raced>>

MediaNext ==
    \/ \E m \in Messages : HookItem(m) \/ HookLook(m)
    \/ \E m \in Messages : Restore(m) \/ RestoreFind(m) \/ RestorePut(m)
    \/ \E v \in Openers : OpenLink(v) \/ OpenAlbum(v) \/ \E r \in 1..ShotRows : Open(v, r)
    \/ \E a \in Resolvers : Answer(a) \/ Primary(a) \/ ReadHolders(a) \/ ExtraFind(a) \/ ExtraPut(a)
    \/ SweepStart \/ SweepRow \/ SweepRound

(***************************************************************************)
(* A photo shows twice only when a task wrote it that had looked for it      *)
(* before it showed (the look-ups and writes of persistExtraMediaUrls,       *)
(* persistGraphMessage and the webhook are statements of their own).  So for *)
(* photos sent one by one when one task runs at a time and no refresh, for an *)
(* album in two messages whose webhooks carry URLs, and for such messages     *)
(* more than Close apart beside a refresh; not in general.                    *)
(***************************************************************************)
PhotoOnce ==
    \A r, q \in Shown : r # q /\ shots[r].photo \notin {0} \cup raced => shots[r].photo # shots[q].photo

\* The row that carries a mid shows a photo of that message, under the same rules: a refresh finds
\* a row at most Close away by its time alone, and holders read before may be any row without URL.
OwnPhoto ==
    \A r \in Shown : shots[r].mid # 0 /\ shots[r].photo # 0 =>
        \E i \in DOMAIN Photos(shots[r].mid) : Photos(shots[r].mid)[i] = shots[r].photo

\* Once the webhooks and their tasks are through, every photo shows somewhere, under the same rules.
AllShown ==
    (\A m \in Messages : hookAt[m] = Items(m)) /\ (\A a \in Resolvers : resolver[a] = Resting)
    /\ (\A m \in Messages : restore[m] = Resting) =>
    \A m \in Messages : \A i \in DOMAIN Photos(m) : \E r \in Shown : shots[r].photo = Photos(m)[i]

\* A text message stays one.
TextStays == [][\A r \in Shown : shots[r].kind = "text" => shots'[r].kind = "text"]_mediaVars

\* The last pass leaves no row behind whose photo Graph has.
SweepReaches == sweep.pc = "done" => \A r \in sweep.first : shots[r].photo # 0
=============================================================================
