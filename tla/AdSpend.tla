------------------------------- MODULE AdSpend -------------------------------
(***************************************************************************)
(* What the ads of one page cost on one day: the syncs that ask Meta and   *)
(* write the day's row (CskhService.syncPageAdSpendDaily), the staff who   *)
(* look at the cost of a conversation, and what they share in memory       *)
(* (FacebookAdsService): the hint which ad account runs the page's ads,    *)
(* the discoveries in flight, the accounts known to have none, the cached  *)
(* insights and the pause after a rate limit.  Each of these outlives the  *)
(* facts it was made from.                                                 *)
(*                                                                         *)
(* A spend is a number, None is null.  A page has one ad set, in account   *)
(* owner; the ad set and its campaign spend alike.  AdFaults: "fails" (a   *)
(* call of Meta), "limited" (Meta refuses the user for a while), "expires" *)
(* (a cache's time passes), "reconnects" (the user connects anew).         *)
(***************************************************************************)
EXTENDS Integers, Sequences
CONSTANTS Accounts, Nightly, Scans, Readers, MaxSpend, AdFaults

VARIABLES
  meta,      \* Meta: the account with the page's ads and what they spent
  grants,    \* facebook_oauth_session: none, one without ad accounts ("blind"), one with them ("ads")
  chosen,    \* oauthSessionForPageCache: "unknown" or the session it holds, "none" included
  dayRow,    \* cskh_page_ad_spend_daily: the spend and the reason why there is none
  hint,      \* pageAdHintCache
  dbHint,    \* metadata.pageAdHint of the page
  missed,    \* discoverMissUntil: the accounts not to be searched again
  searching, \* discoverInflight
  insights,  \* cache: the spend last read of each account
  paused,    \* graphUserRateLimitedUntil lies ahead
  caller     \* the syncs and the readers
adVars == <<meta, grants, chosen, dayRow, hint, dbHint, missed, searching, insights, paused, caller>>

None == -1
Ids == {Accounts[i] : i \in DOMAIN Accounts}
Callers == Nightly \union Scans \union Readers
Idle == [at |-> "idle", account |-> "none", left |-> <<>>, found |-> "none", spend |-> None,
         reason |-> "none", bypass |-> FALSE]
Init ==
  /\ meta \in [owner : Ids \union {"none"}, spend : {0}]
  /\ grants \in {"none", "blind", "ads"} /\ chosen = "unknown"
  /\ dayRow = [spend |-> None, reason |-> "none", synced |-> FALSE]
  /\ hint = "none" /\ dbHint = "none"
  /\ missed = {} /\ searching = {}
  /\ insights = [a \in Ids |-> None]
  /\ paused = FALSE
  /\ caller = [c \in Callers |-> Idle]

At(c, what) == caller[c].at = what
Set(c, rec) == caller' = [caller EXCEPT ![c] = rec]
Failed(c, why) == [caller[c] EXCEPT !.at = "write", !.spend = None, !.reason = why]
Earned(c, spend) == [caller[c] EXCEPT !.at = "write", !.spend = spend, !.reason = "none"]

\* syncAllPagesAdSpend skips a row that is fresh and has no reason; the sync after a page's scan
\* does not.  A reader may ask past the caches.
Begin(c) ==
  /\ At(c, "idle")
  /\ c \in Nightly => ~dayRow.synced \/ dayRow.reason # "none"
  /\ \E bypass \in {FALSE} \union (IF c \in Readers THEN {TRUE} ELSE {}) :
       Set(c, [Idle EXCEPT !.at = "session", !.bypass = bypass])
  /\ UNCHANGED <<meta, grants, chosen, dayRow, hint, dbHint, missed, searching, insights, paused>>
\* resolveOAuthSessionForPage: the cached session, or the best there is, which is then cached.  The
\* hint is read from the page's metadata if memory has none.
Session == IF chosen # "unknown" THEN chosen ELSE grants
Resolve(c) ==
  /\ At(c, "session")
  /\ chosen' = Session
  /\ hint' = IF hint = "none" THEN dbHint ELSE hint
  /\ Set(c, CASE Session = "none" -> Failed(c, "oauth_required")
              [] Session = "blind" -> Failed(c, "ads_read_missing")
              [] OTHER -> [caller[c] EXCEPT !.at = "look"])
  /\ UNCHANGED <<meta, grants, dayRow, dbHint, missed, searching, insights, paused>>

\* The accounts to try: orderAccountsForPage keeps only the account of the hint.
Ordered == IF hint \in Ids THEN <<hint>> ELSE Accounts
\* fetchPageAdInsightsFast goes on with the next account, or has no result.
Onward(c, left) ==
  IF left = <<>> THEN Failed(c, "no_ads_for_page")
  ELSE [caller[c] EXCEPT !.at = "search", !.left = left, !.account = Head(left)]
\* tryHint: the insights of the account, from the cache if it has them.
Try(c, rec, a) ==
  IF insights[a] # None /\ ~rec.bypass THEN Earned(c, insights[a])
  ELSE [rec EXCEPT !.at = "ask", !.account = a]
Look(c) ==
  /\ At(c, "look")
  /\ Set(c, IF paused THEN Failed(c, "no_ads_for_page")
            ELSE IF hint # "none" THEN Try(c, [caller[c] EXCEPT !.left = Ordered], hint)
            ELSE IF caller[c].bypass THEN Failed(c, "no_ads_for_page")
            ELSE Onward(c, Ordered))
  /\ UNCHANGED <<meta, grants, chosen, dayRow, hint, dbHint, missed, searching, insights, paused>>
\* fetchLevelMessagingInsights: an answer with money is cached; any error reads as no answer.
Spent(a) == IF a = meta.owner /\ meta.spend > 0 THEN meta.spend ELSE None
Ask(c) ==
  /\ At(c, "ask")
  /\ LET a == caller[c].account
         next == IF caller[c].bypass THEN Failed(c, "no_ads_for_page")
                 ELSE Onward(c, IF caller[c].found = "none" THEN caller[c].left ELSE Tail(caller[c].left))
     IN \/ /\ ~paused /\ UNCHANGED paused
           /\ insights' = [insights EXCEPT ![a] = IF Spent(a) # None THEN Spent(a)
                                                  ELSE IF caller[c].bypass THEN None ELSE @]
           /\ Set(c, IF Spent(a) # None THEN Earned(c, Spent(a)) ELSE next)
        \/ /\ \/ "fails" \in AdFaults /\ UNCHANGED paused
              \/ paused /\ UNCHANGED paused
              \/ "limited" \in AdFaults /\ paused' = TRUE
           /\ insights' = [insights EXCEPT ![a] = IF caller[c].bypass THEN None ELSE @]
           /\ Set(c, next)
  /\ UNCHANGED <<meta, grants, chosen, dayRow, hint, dbHint, missed, searching>>

SearchAgain(c) ==    \* a bug: the search in flight is not looked up
  /\ At(c, "search")
  /\ Set(c, IF paused \/ caller[c].account \in missed THEN Onward(c, Tail(caller[c].left))
            ELSE [caller[c] EXCEPT !.at = "searching"])
  /\ UNCHANGED <<meta, grants, chosen, dayRow, hint, dbHint, missed, searching, insights, paused>>
\* discoverPageAdsetHint: nothing while paused or after a miss, the search in flight if there is
\* one, or a new search.
Search(c) ==
  /\ At(c, "search")
  /\ LET a == caller[c].account IN
     IF paused \/ a \in missed
     THEN Set(c, Onward(c, Tail(caller[c].left))) /\ UNCHANGED searching
     ELSE /\ Set(c, [caller[c] EXCEPT !.at = IF a \in searching THEN "wait" ELSE "searching"])
          /\ searching' = searching \union {a}
  /\ UNCHANGED <<meta, grants, chosen, dayRow, hint, dbHint, missed, insights, paused>>
\* discoverPageAdsetHintOnce: the account has the page's ads or not; an error reads as no ads.  The
\* callers that waited get the same; no ads is remembered.
Searched(c) ==
  /\ At(c, "searching")
  /\ LET a == caller[c].account
         mine == {d \in Callers : d = c \/ (At(d, "wait") /\ caller[d].account = a)}
     IN \E found \in (IF paused THEN {} ELSE {a = meta.owner})
                     \union (IF paused \/ AdFaults \intersect {"fails", "limited"} # {} THEN {FALSE} ELSE {}) :
          /\ \/ UNCHANGED paused
             \/ "limited" \in AdFaults /\ ~found /\ paused' = TRUE
          /\ searching' = searching \ {a}
          /\ missed' = IF found THEN missed ELSE missed \union {a}
          /\ caller' = [d \in Callers |-> IF d \notin mine THEN caller[d]
                                          ELSE IF found THEN [caller[d] EXCEPT !.at = "found"]
                                          ELSE Onward(d, Tail(caller[d].left))]
  /\ UNCHANGED <<meta, grants, chosen, dayRow, hint, dbHint, insights>>
\* savePageAdHint, and the insights of the account found.
Found(c) ==
  /\ At(c, "found")
  /\ hint' = caller[c].account
  /\ Set(c, Try(c, [caller[c] EXCEPT !.found = caller[c].account], caller[c].account))
  /\ UNCHANGED <<meta, grants, chosen, dayRow, dbHint, missed, searching, insights, paused>>

\* The end: a sync writes the spend, or null and the reason; a reader stores the hint.
Write(c) ==
  /\ At(c, "write") /\ c \notin Readers
  /\ dayRow' = [spend |-> caller[c].spend, reason |-> caller[c].reason, synced |-> TRUE]
  /\ Set(c, Idle)
  /\ UNCHANGED <<meta, grants, chosen, hint, dbHint, missed, searching, insights, paused>>
Show(c) ==
  /\ At(c, "write") /\ c \in Readers
  /\ dbHint' = IF hint = "none" \/ caller[c].reason \in {"oauth_required", "ads_read_missing"} THEN dbHint ELSE hint
  /\ Set(c, Idle)
  /\ UNCHANGED <<meta, grants, chosen, dayRow, hint, missed, searching, insights, paused>>

\* Meta counts on; the user connects anew; the times pass (a row is fresh for an hour, as are the
\* insights; a session for less, a hint and a miss for six).
Spend ==
  /\ meta.owner # "none" /\ meta.spend < MaxSpend
  /\ meta' = [meta EXCEPT !.spend = @ + 1]
  /\ UNCHANGED <<grants, chosen, dayRow, hint, dbHint, missed, searching, insights, paused, caller>>
Reconnect ==
  /\ "reconnects" \in AdFaults /\ grants # "ads"
  /\ grants' = "ads"
  /\ UNCHANGED <<meta, chosen, dayRow, hint, dbHint, missed, searching, insights, paused, caller>>
Expire ==
  /\ "expires" \in AdFaults
  /\ \/ /\ dayRow' = [dayRow EXCEPT !.synced = FALSE] /\ insights' = [a \in Ids |-> None]
        /\ chosen' = "unknown" /\ paused' = FALSE
        /\ UNCHANGED <<hint, missed>>
     \/ /\ hint' = "none" /\ missed' = {}
        /\ UNCHANGED <<dayRow, insights, chosen, paused>>
  /\ UNCHANGED <<meta, grants, dbHint, searching, caller>>

Next ==
  \/ Spend \/ Reconnect \/ Expire
  \/ \E c \in Callers : \/ Begin(c) \/ Resolve(c) \/ Look(c) \/ Ask(c) \/ Search(c) \/ Searched(c)
                        \/ Found(c) \/ Write(c) \/ Show(c)
Spec == Init /\ [][Next]_adVars
-----------------------------------------------------------------------------
(* Callers that need the same account searched share one search, however they interleave. *)
SearchedOnce == \A c, d \in Callers : At(c, "searching") /\ At(d, "searching") /\ c # d
                                        => caller[c].account # caller[d].account
(* Nobody waits for a search that is not running. *)
WaitsForOne == \A c \in Callers : At(c, "wait") => \E d \in Callers : /\ At(d, "searching")
                                                                      /\ caller[d].account = caller[c].account
(* The hint, in memory or stored, names the account that runs the page's ads. *)
HintOwns == {hint, dbHint} \subseteq {"none", meta.owner}
(* A spend the row had is never replaced by "no ads". *)
SpendKept == [][dayRow.spend # None => dayRow'.spend # None]_adVars
(* The spend of the day never falls. *)
SpendGrows == [][dayRow.spend # None /\ dayRow'.spend # None => dayRow'.spend >= dayRow.spend]_adVars
(* Comment at facebook-ads.service.ts:164: an account is not searched again once it is known that it
   has no ads of the page. *)
MissIsKnown == meta.owner \notin missed
(* The program does not say that the user must connect when the user has. *)
ConnectSeen == [][dayRow'.reason = "oauth_required" /\ dayRow # dayRow' => grants = "none"]_adVars
=============================================================================
