--------------------------- MODULE CommentThread ----------------------------
(***************************************************************************)
(* Comments under one post of a Facebook page as threads of the inbox      *)
(* (src/src/cskh/comment/cskh-facebook-comments.service.ts): webhooks, the *)
(* sync of the page and replies of staff, each with awaits of its own.     *)
(*                                                                         *)
(* Comment c is the c-th that was written, at time 2 * c.  A thread has    *)
(* the key of a person or of a comment.                                    *)
(***************************************************************************)
EXTENDS Integers, Sequences, FiniteSets, FiniteSetsExt, TLC

CONSTANTS
    People,         \* customers
    MaxComments,    \* bound: comments under the post
    Hooks,          \* webhook handlers
    Writers,        \* who writes comments: customers, and the page outside of this program
    Repliers,       \* sessions that answer a comment
    CommentFaults   \* subset of {"redeliver", "anonymous"}

Page     == -1
Nobody   == -2      \* Graph shows the comment without its author
NoKey    == 0
Comments == 1..MaxComments
Keys     == People \cup Comments
Actors   == Hooks \cup Repliers \cup {"sync"}

VARIABLES
    comments,       \* what Facebook holds: author, author as Graph shows it, parent (0: none)
    announced,      \* how often the webhook of a comment was sent
    stored,         \* cskh_fb_comments by comment
    threads,        \* cskh_inbox_conversations by key
    threadOf,       \* cskh_inbox_messages by comment: the thread of its row
    work            \* locals of the handlers

commentVars == <<comments, announced, stored, threads, threadOf, work>>

NoComment == [state |-> "none"]
Free      == [pc |-> "free"]

Written      == DOMAIN comments
Shown(c)     == comments[c].shown
Outbound(c)  == Shown(c) = Page
HasRow(c)    == stored[c] # NoComment
Now          == 2 * Len(comments) + 1
CommentRow(c, at) == [state |-> "row", author |-> IF Shown(c) = Nobody THEN c ELSE Shown(c), at |-> at,
                      parent |-> comments[c].parent, out |-> Outbound(c), hidden |-> FALSE]

---------------------------------------------------------------------------
\* resolveThreadAuthorIdFromDb: the author, or the stored author of the parent.
KeyFromDb(c) ==
    LET p == comments[c].parent
    IN  IF Shown(c) \in People THEN Shown(c)
        ELSE IF p = 0 THEN NoKey
        ELSE IF HasRow(p) /\ stored[p].author # Page THEN stored[p].author ELSE p

\* resolveThreadAuthorId: climbs the comments of one Graph answer (of two levels).
KeyFromList(c) ==
    LET p == comments[c].parent
    IN  IF Shown(c) \in People THEN Shown(c)
        ELSE IF p # 0 /\ Shown(p) \in People THEN Shown(p)
        ELSE IF p # 0 /\ Shown(p) = Nobody THEN p
        ELSE IF Shown(c) = Nobody THEN c ELSE NoKey

OrElse(key, other) == IF key = NoKey THEN other ELSE key
HookKey(c) == OrElse(KeyFromDb(c), IF comments[c].parent # 0 THEN comments[c].parent ELSE c)
SyncKey(c) == OrElse(OrElse(KeyFromList(c), KeyFromDb(c)),
                     IF ~Outbound(c) THEN c ELSE NoKey)

\* The key that backfillInboxFromStoredComments takes from a stored row.
BackfillKey(c) == IF ~stored[c].out THEN stored[c].author
                  ELSE IF stored[c].parent # 0 THEN stored[c].parent ELSE NoKey

---------------------------------------------------------------------------
\* A customer or the page's own tools write a comment, or answer one of the first level.
Write(from, shown, parent) ==
    /\ from \in Writers
    /\ Len(comments) < MaxComments
    /\ shown = from \/ (shown = Nobody /\ from # Page /\ "anonymous" \in CommentFaults)
    /\ parent # 0 => parent \in Written /\ comments[parent].parent = 0
    /\ comments' = Append(comments, [from |-> from, shown |-> shown, parent |-> parent])
    /\ UNCHANGED <<announced, stored, threads, threadOf, work>>

\* processWebhookPayload, parsePageFeedComment, ingestWebhookComment up to the post's row.
Announce(h, c) ==
    /\ work[h] = Free
    /\ c \in Written
    /\ announced[c] = 0 \/ ("redeliver" \in CommentFaults /\ announced[c] = 1)
    /\ announced' = [announced EXCEPT ![c] = @ + 1]
    /\ work' = [work EXCEPT ![h] = [pc |-> "key", c |-> c]]
    /\ UNCHANGED <<comments, stored, threads, threadOf>>

\* The thread is resolved before the comment is stored; customers' comments count.
HookResolve(h) ==
    LET c == work[h].c
    IN  /\ work[h].pc = "key"
        /\ work' = [work EXCEPT ![h] = [pc |-> "store", c |-> c, key |-> HookKey(c), at |-> 2 * c,
                                        out |-> Outbound(c), count |-> ~Outbound(c), todo |-> {}]]
        /\ UNCHANGED <<comments, announced, stored, threads, threadOf>>

\* The sync lists all comments of the post and persists one after the other, ...
SyncList ==
    /\ work["sync"] = Free
    /\ Written # {}
    /\ work' = [work EXCEPT !["sync"] = [pc |-> "next", todo |-> Written]]
    /\ UNCHANGED <<comments, announced, stored, threads, threadOf>>

\* Mutant of SyncNextComment: the sync counts customers' comments like the webhook.
SyncNextCounting ==
    /\ work["sync"].pc = "next" /\ work["sync"].todo # {}
    /\ LET c == Min(work["sync"].todo)
       IN  work' = [work EXCEPT !["sync"] = [pc |-> "store", c |-> c, key |-> NoKey, at |-> 2 * c,
                                             out |-> Outbound(c), count |-> ~Outbound(c), todo |-> @.todo \ {c}, pass |-> 0]]
    /\ UNCHANGED <<comments, announced, stored, threads, threadOf>>

SyncNextComment ==
    /\ work["sync"].pc = "next" /\ work["sync"].todo # {}
    /\ LET c == Min(work["sync"].todo)
       IN  work' = [work EXCEPT !["sync"] = [pc |-> "store", c |-> c, key |-> NoKey, at |-> 2 * c,
                                             out |-> Outbound(c), count |-> FALSE, todo |-> @.todo \ {c}, pass |-> 0]]
    /\ UNCHANGED <<comments, announced, stored, threads, threadOf>>

\* ... then it mirrors every stored comment of the page again.
SyncStored ==
    /\ work["sync"].pc = "next" /\ work["sync"].todo = {}
    /\ work' = [work EXCEPT !["sync"] = [pc |-> "backfill", todo |-> {c \in Written : HasRow(c)}]]
    /\ UNCHANGED <<comments, announced, stored, threads, threadOf>>

Earliest(S) == CHOOSE c \in S : \A d \in S : stored[c].at <= stored[d].at
SyncBackfill ==
    /\ work["sync"].pc = "backfill"
    /\ IF work["sync"].todo = {} THEN work' = [work EXCEPT !["sync"] = Free]
       ELSE LET c    == Earliest(work["sync"].todo)
                left == work["sync"].todo \ {c}
            IN  work' = [work EXCEPT !["sync"] =
                    IF BackfillKey(c) = NoKey THEN [@ EXCEPT !.todo = left]
                    ELSE [pc |-> "look", c |-> c, key |-> BackfillKey(c), at |-> stored[c].at,
                          out |-> stored[c].out, count |-> FALSE, todo |-> left, pass |-> 1]]
    /\ UNCHANGED <<comments, announced, stored, threads, threadOf>>

\* persistComment: the comment's row, then its thread (none: nothing to show).
Store(a) ==
    LET w   == work[a]
        key == IF a = "sync" THEN SyncKey(w.c) ELSE w.key
    IN  /\ w.pc = "store"
        /\ stored' = [stored EXCEPT ![w.c] =
               IF @ = NoComment THEN CommentRow(w.c, w.at)
               ELSE [@ EXCEPT !.author = CommentRow(w.c, 0).author, !.parent = CommentRow(w.c, 0).parent]]
        /\ work' = [work EXCEPT ![a] = IF key # NoKey THEN [@ EXCEPT !.pc = "look", !.key = key]
                                       ELSE [pc |-> "next", todo |-> w.todo]]
        /\ UNCHANGED <<comments, announced, threads, threadOf>>

---------------------------------------------------------------------------
\* upsertInboxThread: is the comment's message there, ...
Look(a) ==
    /\ work[a].pc = "look"
    /\ work' = [work EXCEPT ![a] = [@ EXCEPT !.pc = "read",
                                             !.count = @ /\ threadOf[work[a].c] = NoKey]]
    /\ UNCHANGED <<comments, announced, stored, threads, threadOf>>

\* Mutant of Read: a comment older than what the thread shows is left out.
ReadNewer(a) ==
    LET w == work[a]
    IN  /\ w.pc = "read"
        /\ work' = [work EXCEPT ![a] =
               IF ~threads[w.key].made THEN [@ EXCEPT !.pc = "write"]
               ELSE IF w.at >= threads[w.key].at THEN [@ EXCEPT !.pc = "write newer"]
               ELSE IF a # "sync" THEN Free
               ELSE [pc |-> IF w.pass = 0 THEN "next" ELSE "backfill", todo |-> w.todo, pass |-> w.pass]]
        /\ UNCHANGED <<comments, announced, stored, threads, threadOf>>

\* ... is the comment newer than what the thread shows, ...
Read(a) ==
    LET w == work[a]
    IN  /\ w.pc = "read"
        /\ work' = [work EXCEPT ![a].pc =
               IF threads[w.key].made => w.at >= threads[w.key].at THEN "write newer" ELSE "write"]
        /\ UNCHANGED <<comments, announced, stored, threads, threadOf>>

\* ... the upsert of the thread, ...
WriteThread(a) ==
    LET w     == work[a]
        newer == w.pc = "write newer"
        fresh == ~threads[w.key].made
    IN  /\ w.pc \in {"write", "write newer"}
        /\ threads' = [threads EXCEPT ![w.key] =
               [made |-> TRUE,
                at |-> IF newer \/ fresh THEN w.at ELSE @.at,
                last |-> IF newer \/ fresh THEN w.c ELSE @.last,
                needsReply |-> IF newer \/ fresh THEN ~w.out ELSE @.needsReply,
                unread |-> IF w.count THEN @.unread + 1 ELSE @.unread]]
        /\ work' = [work EXCEPT ![a].pc = "message"]
        /\ UNCHANGED <<comments, announced, stored, threadOf>>

\* ... and of the message, which stays in the thread it was put in first.
WriteMessage(a) ==
    LET w == work[a]
    IN  /\ w.pc = "message"
        /\ threadOf' = [threadOf EXCEPT ![w.c] = OrElse(@, w.key)]
        /\ work' = [work EXCEPT ![a] = IF a # "sync" THEN Free
                                       ELSE [pc |-> IF w.pass = 0 THEN "next" ELSE "backfill",
                                             todo |-> w.todo, pass |-> w.pass]]
        /\ UNCHANGED <<comments, announced, stored, threads>>

---------------------------------------------------------------------------
\* reply: a stored comment that is not hidden; the answer goes to its first level.
Reply(s, c) ==
    /\ work[s] = Free
    /\ HasRow(c) /\ ~stored[c].hidden
    /\ work' = [work EXCEPT ![s] = [pc |-> "graph", to |-> c,
                                    target |-> IF stored[c].parent # 0 THEN stored[c].parent ELSE c]]
    /\ UNCHANGED <<comments, announced, stored, threads, threadOf>>

ReplyAccepted(s) ==
    /\ work[s].pc = "graph"
    /\ Len(comments) < MaxComments
    /\ comments' = Append(comments, [from |-> Page, shown |-> Page, parent |-> work[s].target])
    /\ work' = [work EXCEPT ![s] = [pc |-> "create", to |-> @.to, c |-> Len(comments) + 1]]
    /\ UNCHANGED <<announced, stored, threads, threadOf>>

\* The row is created, not upserted: if webhook or sync came first, the reply ends here.
ReplyCreate(s) ==
    LET c == work[s].c
    IN  /\ work[s].pc = "create"
        /\ IF HasRow(c) THEN work' = [work EXCEPT ![s] = Free] /\ stored' = stored
           ELSE /\ stored' = [stored EXCEPT ![c] = CommentRow(c, Now)]
                /\ work' = [work EXCEPT ![s].pc = "author"]
        /\ UNCHANGED <<comments, announced, threads, threadOf>>

\* The thread is that of the comment's author; of the first customer, if the page wrote it.
ReplyAuthor(s) ==
    LET inbound == {c \in Written : HasRow(c) /\ ~stored[c].out}
        key     == IF ~stored[work[s].to].out THEN stored[work[s].to].author
                   ELSE IF inbound = {} THEN NoKey ELSE stored[Min(inbound)].author
    IN  /\ work[s].pc = "author"
        /\ work' = [work EXCEPT ![s] =
               IF key = NoKey THEN Free
               ELSE [pc |-> "look", c |-> @.c, key |-> key, at |-> stored[@.c].at, out |-> TRUE,
                     count |-> FALSE, todo |-> {}]]
        /\ UNCHANGED <<comments, announced, stored, threads, threadOf>>

\* hide: Graph first, then the row.
Hide(c) ==
    /\ HasRow(c)
    /\ stored' = [stored EXCEPT ![c].hidden = TRUE]
    /\ UNCHANGED <<comments, announced, threads, threadOf, work>>

---------------------------------------------------------------------------
Init ==
    /\ comments = <<>>
    /\ announced = [c \in Comments |-> 0]
    /\ stored = [c \in Comments |-> NoComment]
    /\ threads = [k \in Keys |-> [made |-> FALSE, at |-> 0, last |-> 0, needsReply |-> FALSE, unread |-> 0]]
    /\ threadOf = [c \in Comments |-> NoKey]
    /\ work = [a \in Actors |-> Free]

MirrorNext == \E a \in Actors : Store(a) \/ Look(a) \/ Read(a) \/ WriteThread(a) \/ WriteMessage(a)

Next ==
    \/ \E from \in People \cup {Page}, shown \in People \cup {Page, Nobody}, p \in Comments \cup {0} :
          Write(from, shown, p)
    \/ \E h \in Hooks : (\E c \in Comments : Announce(h, c)) \/ HookResolve(h)
    \/ SyncList \/ SyncNextComment \/ SyncStored \/ SyncBackfill
    \/ MirrorNext
    \/ \E s \in Repliers : \/ \E c \in Comments : Reply(s, c)
                           \/ ReplyAccepted(s) \/ ReplyCreate(s) \/ ReplyAuthor(s)
    \/ \E c \in Comments : Hide(c)

Spec == Init /\ [][Next]_commentVars

---------------------------------------------------------------------------
Quiet == \A a \in Actors : work[a] = Free

\* A thread counts at most the comments of customers in it: the webhook adds one per comment,
\* the sync and the replies none, whichever of them saw the comment first.
CountedOnce ==
    \A k \in Keys : Quiet => threads[k].unread <=
        Cardinality({c \in Written : threadOf[c] = k /\ comments[c].from # Page})

\* A comment that was announced is shown in a thread once everybody is done, also if it is a
\* reply of staff whose own handler gave up because its row was there.
AnnouncedIsShown == Quiet => \A c \in Written : announced[c] > 0 => threadOf[c] # NoKey

\* A thread has a message: webhook, sync and reply agree on the thread of a comment.
NoEmptyThread == Quiet => \A k \in Keys : threads[k].made => \E c \in Written : threadOf[c] = k

\* One customer has one thread under the post.
OneThreadPerPerson ==
    Quiet => \A c, d \in Written : comments[c].from = comments[d].from /\ comments[c].from # Page
                                   /\ threadOf[c] # NoKey /\ threadOf[d] # NoKey => threadOf[c] = threadOf[d]

\* At rest a thread shows its newest message.
ShowsNewest ==
    Quiet => \A c \in Written : threadOf[c] # NoKey => threads[threadOf[c]].last >= c
=============================================================================
