-------------------------- MODULE InstagramThread ---------------------------
(***************************************************************************)
(* Comments under one post of an Instagram account                         *)
(* (src/src/cskh/comment/cskh-instagram-comments.service.ts): the twin of  *)
(* CommentThread, with a thread key of its own, the time at which a        *)
(* webhook is handled instead of the comment's, a sync that stores a whole *)
(* answer in one transaction and mirrors twice, and replies that are       *)
(* always mirrored.                                                        *)
(***************************************************************************)
EXTENDS CommentThread

IgRow(c, at) == [CommentRow(c, at) EXCEPT !.author = Shown(c)]

\* The author; or the stored author of the parent, or the parent; or the comment itself.
IgKey(c) ==
    LET p == comments[c].parent
    IN  IF Shown(c) \in People THEN Shown(c)
        ELSE IF p = 0 THEN c
        ELSE IF HasRow(p) /\ stored[p].author \in People THEN stored[p].author ELSE p

\* ingestCommentValue: the row is stored with the present time, then mirrored.
IgAnnounce(h, c) == Announce(h, c)

IgStore(h) ==
    LET c == work[h].c
    IN  /\ work[h].pc = "key"
        /\ stored' = [stored EXCEPT ![c] =
               IF @ = NoComment THEN IgRow(c, Now)
               ELSE [@ EXCEPT !.author = Shown(c), !.parent = comments[c].parent]]
        /\ work' = [work EXCEPT ![h] = [pc |-> "resolve", c |-> c, at |-> Now, out |-> Outbound(c),
                                        count |-> ~Outbound(c), todo |-> {}]]
        /\ UNCHANGED <<comments, announced, threads, threadOf>>

\* mirrorToInbox: the thread first, then as on Facebook.
IgResolve(a) ==
    /\ work[a].pc = "resolve"
    /\ work' = [work EXCEPT ![a] = [pc |-> "look", key |-> IgKey(@.c)] @@ @]
    /\ UNCHANGED <<comments, announced, stored, threads, threadOf>>

IgLook(a)         == Look(a)
IgRead(a)         == Read(a)
IgWriteThread(a)  == WriteThread(a)
IgWriteMessage(a) == WriteMessage(a)

\* syncComments: Graph's answer is stored in one transaction.  A row that is there keeps its
\* time and takes everything else.
IgSyncStore ==
    /\ work["sync"] = Free
    /\ Written # {}
    /\ stored' = [c \in Comments |->
           IF c \notin Written THEN stored[c]
           ELSE IF HasRow(c) THEN [IgRow(c, stored[c].at) EXCEPT !.hidden = stored[c].hidden]
           ELSE IgRow(c, 2 * c)]
    /\ work' = [work EXCEPT !["sync"] = [pc |-> "stored", pass |-> 1]]
    /\ UNCHANGED <<comments, announced, threads, threadOf>>

\* backfillMediaCommentsToInbox after the answer is stored, backfillRecentPageComments at the
\* end: everything stored, oldest first.
IgSyncList ==
    /\ work["sync"].pc = "stored"
    /\ work' = [work EXCEPT !["sync"] = [pc |-> "backfill", todo |-> {c \in Written : HasRow(c)},
                                         pass |-> @.pass]]
    /\ UNCHANGED <<comments, announced, stored, threads, threadOf>>

IgBackfill ==
    LET w == work["sync"]
        c == Earliest(w.todo)
    IN  /\ w.pc = "backfill"
        /\ work' = [work EXCEPT !["sync"] =
               IF w.todo = {} THEN (IF w.pass = 1 THEN [pc |-> "stored", pass |-> 2] ELSE Free)
               ELSE [pc |-> "resolve", c |-> c, at |-> stored[c].at, out |-> stored[c].out,
                     count |-> FALSE, todo |-> w.todo \ {c}, pass |-> w.pass]]
        /\ UNCHANGED <<comments, announced, stored, threads, threadOf>>

\* reply: as on Facebook up to the row; the thread is resolved like that of any comment.
IgReply(s, c)      == Reply(s, c)
IgReplyAccepted(s) == ReplyAccepted(s)
IgReplyCreate(s) ==
    LET c == work[s].c
    IN  /\ work[s].pc = "create"
        /\ IF HasRow(c) THEN work' = [work EXCEPT ![s] = Free] /\ stored' = stored
           ELSE /\ stored' = [stored EXCEPT ![c] = IgRow(c, Now)]
                /\ work' = [work EXCEPT ![s] = [pc |-> "resolve", c |-> c, at |-> Now, out |-> TRUE,
                                                count |-> FALSE, todo |-> {}]]
        /\ UNCHANGED <<comments, announced, threads, threadOf>>

IgHide(c) == Hide(c)

IgNext ==
    \/ \E from \in People \cup {Page}, shown \in People \cup {Page, Nobody}, p \in Comments \cup {0} :
          Write(from, shown, p)
    \/ \E h \in Hooks : (\E c \in Comments : IgAnnounce(h, c)) \/ IgStore(h)
    \/ IgSyncStore \/ IgSyncList \/ IgBackfill
    \/ \E a \in Actors : IgResolve(a) \/ IgLook(a) \/ IgRead(a) \/ IgWriteThread(a) \/ IgWriteMessage(a)
    \/ \E s \in Repliers : \/ \E c \in Comments : IgReply(s, c)
                           \/ IgReplyAccepted(s) \/ IgReplyCreate(s)
    \/ \E c \in Comments : IgHide(c)

IgSpec == Init /\ [][IgNext]_commentVars
=============================================================================
