---------------------------- MODULE PancakeToken ----------------------------
(***************************************************************************)
(* The two kinds of tokens of Pancake (src/src/pancake/pancake.service.ts).*)
(* A user token, which staff paste, lists the pages: the list is kept in   *)
(* memory and in the session's row, because Pancake limits these calls.  A *)
(* page token, which the user token generates, is used by every other      *)
(* call; a new one invalidates the one before.                             *)
(*                                                                         *)
(* A list of pages is known by the user token it was listed with.          *)
(***************************************************************************)
EXTENDS Integers, FiniteSets

CONSTANTS
    UserTokens,     \* tokens of one Pancake user (numbers above 0)
    Callers,        \* requests of staff and jobs of the worker
    MaxGenerations, \* bound: page tokens generated
    TokenFaults     \* subset of {"limited", "db", "foreign"}

None    == 0
Configs == -1       \* the pages whose tokens are stored, whoever listed them

VARIABLES
    session,        \* pancakeOAuthSession: its token, and whose pages its metadata holds
    pagesCache,     \* the list in memory: token it is for, whose pages, still fresh
    inFlight,       \* pagesInFlight: tokens that Pancake is asked about
    snapshots,      \* persistPagesSnapshot under way: [token, of the row that was read]
    pageToken,      \* pancakePageConfig.pageAccessToken (a generation)
    valid,          \* the generation Pancake accepts
    caller,         \* locals of the callers
    overlapped,     \* history: the generations another caller generated before they were stored,
                    \* and the ones generated then
    late            \* history: the lists stored in the row of another token

tokenVars == <<session, pagesCache, inFlight, snapshots, pageToken, valid, caller, overlapped, late>>
PageTokens == <<pageToken, valid, overlapped>>
PageLists  == <<session, pagesCache, inFlight, snapshots, late>>

Idle        == [pc |-> "idle"]
Cached(t)   == pagesCache.token = t /\ pagesCache.pages # None
Goto(c, w)  == caller' = [caller EXCEPT ![c] = w]
HasSession  == session.token # None
Rejected(c) == Goto(c, Idle)
Waiting(t)  == {c \in Callers : caller[c].pc = "flight" /\ caller[c].token = t}

---------------------------------------------------------------------------
\* connect forgets the list in memory first; every caller of the pages asks listPagesCached.
Connect(c, t) ==
    /\ caller[c] = Idle
    /\ pagesCache' = [token |-> None, pages |-> None, fresh |-> FALSE]
    /\ Goto(c, [pc |-> "list", token |-> t, connect |-> TRUE])
    /\ UNCHANGED <<session, inFlight, snapshots, late, PageTokens>>

ListPages(c) ==
    /\ caller[c] = Idle
    /\ HasSession
    /\ Goto(c, [pc |-> "list", token |-> session.token, connect |-> FALSE])
    /\ UNCHANGED <<PageLists, PageTokens>>

Answered(w, pages) == [pc |-> IF w.connect THEN "save" ELSE "shown", token |-> w.token, pages |-> pages]

\* Mutant of ListPagesCached: any fresh list will do.
ListPagesAny(c) ==
    LET w == caller[c]
    IN  /\ w.pc = "list"
        /\ IF pagesCache.fresh
           THEN Goto(c, Answered(w, pagesCache.pages)) /\ inFlight' = inFlight
           ELSE Goto(c, [w EXCEPT !.pc = "flight"]) /\ inFlight' = inFlight \cup {w.token}
        /\ UNCHANGED <<session, pagesCache, snapshots, late, PageTokens>>

ListPagesCached(c) ==
    LET w == caller[c]
    IN  /\ w.pc = "list"
        /\ IF Cached(w.token) /\ pagesCache.fresh
           THEN Goto(c, Answered(w, pagesCache.pages)) /\ inFlight' = inFlight
           ELSE Goto(c, [w EXCEPT !.pc = "flight"]) /\ inFlight' = inFlight \cup {w.token}
        /\ UNCHANGED <<session, pagesCache, snapshots, late, PageTokens>>

Land(t, pages) ==
    /\ inFlight' = inFlight \ {t}
    /\ caller' = [c \in Callers |-> IF c \in Waiting(t) THEN Answered(caller[c], pages) ELSE caller[c]]

\* Pancake answers: the list is kept in memory, and stored without anybody waiting for it.
PagesListed(t) ==
    /\ t \in inFlight
    /\ pagesCache' = [token |-> t, pages |-> t, fresh |-> TRUE]
    /\ snapshots' = snapshots \cup {[token |-> t, found |-> FALSE]}
    /\ Land(t, t)
    /\ UNCHANGED <<session, late, PageTokens>>

\* loadPagesFromDb: what the session's row holds for the token, or the pages with a token.
StoredPages(t) == IF session.token = t /\ session.pages # None THEN session.pages
                  ELSE IF pageToken # None THEN Configs ELSE None

\* It refuses (429): what memory or the database holds, else the error.
PagesLimited(t) ==
    /\ "limited" \in TokenFaults
    /\ t \in inFlight
    /\ LET stored == StoredPages(t)
       IN  IF Cached(t) THEN Land(t, pagesCache.pages) /\ pagesCache' = pagesCache
           ELSE IF stored # None
           THEN Land(t, stored) /\ pagesCache' = [token |-> t, pages |-> stored, fresh |-> TRUE]
           ELSE /\ inFlight' = inFlight \ {t}
                /\ caller' = [c \in Callers |-> IF c \in Waiting(t) THEN Idle ELSE caller[c]]
                /\ pagesCache' = pagesCache
    /\ UNCHANGED <<session, snapshots, late, PageTokens>>

CacheExpires ==
    /\ pagesCache.fresh
    /\ pagesCache' = [pagesCache EXCEPT !.fresh = FALSE]
    /\ UNCHANGED <<session, inFlight, snapshots, late, PageTokens, caller>>

\* persistPagesSnapshot: the row of the token is looked up, ...
SnapshotFind(s) ==
    /\ s \in snapshots /\ ~s.found
    /\ snapshots' = (snapshots \ {s}) \cup (IF session.token = s.token THEN {[s EXCEPT !.found = TRUE]} ELSE {})
    /\ UNCHANGED <<session, pagesCache, inFlight, late, PageTokens, caller>>

\* ... and written by its id, whatever token it has by then; an error is only logged.
SnapshotWrite(s) ==
    /\ s \in snapshots /\ s.found
    /\ snapshots' = snapshots \ {s}
    /\ \/ /\ session' = [session EXCEPT !.pages = s.token]
          /\ late' = IF session.token = s.token THEN late ELSE late \cup {s.token}
       \/ "db" \in TokenFaults /\ UNCHANGED <<session, late>>
    /\ UNCHANGED <<pagesCache, inFlight, PageTokens, caller>>

\* connect stores the token; the metadata it writes has no pages.
ConnectSave(c) ==
    /\ caller[c].pc = "save"
    /\ session' = [token |-> caller[c].token, pages |-> None]
    /\ Goto(c, Idle)
    /\ UNCHANGED <<pagesCache, inFlight, snapshots, late, PageTokens>>

PagesSeen(c) ==
    /\ caller[c].pc = "shown"
    /\ Goto(c, Idle)
    /\ UNCHANGED <<PageLists, PageTokens>>

---------------------------------------------------------------------------
\* withPageTokenRetry: the stored page token, or a new one.
PageCall(c) ==
    /\ caller[c] = Idle /\ HasSession
    /\ Goto(c, IF pageToken # None THEN [pc |-> "call", token |-> pageToken, again |-> FALSE]
               ELSE [pc |-> "generate", again |-> FALSE])
    /\ UNCHANGED <<PageLists, PageTokens>>

\* generatePageAccessToken invalidates the token before.
GeneratePageToken(c) ==
    /\ caller[c].pc = "generate"
    /\ valid < MaxGenerations
    /\ valid' = valid + 1
    /\ LET unstored == {d \in Callers : caller[d].pc = "upsert"}
       IN  overlapped' = overlapped \cup {caller[d].token : d \in unstored}
                         \cup (IF unstored = {} THEN {} ELSE {valid + 1})
    /\ Goto(c, [pc |-> "upsert", token |-> valid + 1, again |-> caller[c].again])
    /\ UNCHANGED <<PageLists, pageToken>>

\* Mutant of SavePageToken: only a first token is stored.
SaveFirstToken(c) ==
    /\ caller[c].pc = "upsert"
    /\ pageToken' = IF pageToken = None THEN caller[c].token ELSE pageToken
    /\ Goto(c, [caller[c] EXCEPT !.pc = "call"])
    /\ UNCHANGED <<PageLists, valid, overlapped>>

SavePageToken(c) ==
    /\ caller[c].pc = "upsert"
    /\ pageToken' = caller[c].token
    /\ Goto(c, [caller[c] EXCEPT !.pc = "call"])
    /\ UNCHANGED <<PageLists, valid, overlapped>>

\* The new token cannot be stored: the error goes to the caller.
SaveFails(c) ==
    /\ "db" \in TokenFaults
    /\ caller[c].pc = "upsert" /\ Rejected(c)
    /\ UNCHANGED <<PageLists, PageTokens>>

\* The call itself: a rejected token is replaced once; a second rejection, or any other error,
\* goes to the caller.
CallPancake(c) ==
    LET w == caller[c]
    IN  /\ w.pc = "call"
        /\ \/ Goto(c, IF w.token = valid THEN [pc |-> "served", token |-> w.token]
                      ELSE IF w.again THEN Idle ELSE [pc |-> "generate", again |-> TRUE])
           \/ "limited" \in TokenFaults /\ Rejected(c)
        /\ UNCHANGED <<PageLists, PageTokens>>

Served(c) ==
    /\ caller[c].pc = "served"
    /\ Goto(c, Idle)
    /\ UNCHANGED <<PageLists, PageTokens>>

\* Somebody generates a token of the page with another program.
ForeignToken ==
    /\ "foreign" \in TokenFaults
    /\ valid < MaxGenerations
    /\ valid' = valid + 1
    /\ UNCHANGED <<PageLists, pageToken, overlapped, caller>>

---------------------------------------------------------------------------
\* The row of the page is new, or holds a token that Pancake has invalidated.
Init ==
    /\ session = [token |-> None, pages |-> None]
    /\ pagesCache = [token |-> None, pages |-> None, fresh |-> FALSE]
    /\ inFlight = {} /\ snapshots = {}
    /\ pageToken \in {None, 1} /\ valid = 2
    /\ overlapped = {} /\ late = {}
    /\ caller = [c \in Callers |-> Idle]

Next ==
    \/ \E c \in Callers :
          \/ \E t \in UserTokens : Connect(c, t)
          \/ ListPages(c) \/ ListPagesCached(c) \/ ConnectSave(c) \/ PagesSeen(c)
          \/ PageCall(c) \/ GeneratePageToken(c) \/ SavePageToken(c) \/ SaveFails(c) \/ CallPancake(c) \/ Served(c)
    \/ \E t \in UserTokens : PagesListed(t) \/ PagesLimited(t)
    \/ \E s \in snapshots : SnapshotFind(s) \/ SnapshotWrite(s)
    \/ CacheExpires \/ ForeignToken

Spec == Init /\ [][Next]_tokenVars

---------------------------------------------------------------------------
\* Staff see the pages of the token they asked with, wherever the list comes from: a list that
\* was asked for before somebody connected with another token reaches the new one only through the
\* row, when its snapshot looked the row up before the connect and wrote it afterwards.
OwnPages == \A c \in Callers : caller[c].pc \in {"save", "shown"}
                => caller[c].pages \in {caller[c].token, Configs} \cup late

\* Also then.
ListOfToken == \A c \in Callers : caller[c].pc \in {"save", "shown"}
                => caller[c].pages \in {caller[c].token, Configs}

\* A call served by a token never finds an older one in the row, be it rejected, replaced or
\* unstored in between, unless the token was generated while another waited to be stored, or the
\* other way round.
ServedIsStored ==
    \A c \in Callers : caller[c].pc = "served" => pageToken >= caller[c].token \/ caller[c].token \in overlapped

\* Also then, when no token waits.
NewestIsStored ==
    \A c \in Callers : caller[c].pc = "served" /\ (\A d \in Callers : caller[d].pc # "upsert")
                       => pageToken >= caller[c].token

\* A list that was loaded once for the session's token is there when Pancake refuses ("Lần sau
\* hệ thống sẽ dùng cache DB nếu đã từng tải thành công", listPages).
SnapshotThere ==
    \A c \in Callers : caller[c].pc = "shown" /\ snapshots = {} /\ session.token = caller[c].token
                       => session.pages # None \/ caller[c].pages = Configs
=============================================================================
