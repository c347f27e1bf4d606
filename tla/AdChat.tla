------------------------------- MODULE AdChat -------------------------------
(***************************************************************************)
(* What the ad behind one conversation costs, as the staff see it          *)
(* (CskhService.getConversationAdInsights): the answers kept for each      *)
(* conversation (15 min), over the insights kept for each ad (1 h), over   *)
(* Meta; and the address of the ad's post, kept for each ad and written    *)
(* into the conversation in the background.  A view may ask past the       *)
(* caches ("refresh"), and customers go on clicking ads.                   *)
(*                                                                         *)
(* A click is an ad with the week around it.  "heuristic" conversations    *)
(* come from an ad by guess: without its id or a date.  ChatFaults:        *)
(* "fails" (a call of Meta), "expires" (a cache's time passes), "connects" *)
(* (there is no session at first), "resolves" (CSKH_AD_RESOLVE_ON_READ),   *)
(* "guessed" (the conversations are heuristic).                            *)
(***************************************************************************)
EXTENDS Integers
CONSTANTS Convs, Viewers, Clicks, MaxSpend, ChatFaults

VARIABLES
  row,        \* the conversation: source, the ad clicked, whose post its adPostPermalink names
  spent,      \* Meta: what each ad spent in the week of its click
  session,    \* whether an OAuth session with a token serves the page
  adCache,    \* cache of fetchAdInsights, by ad and whether a date was given
  postCache,  \* postUrlCache
  answers,    \* adInsightsConvCache
  pending,    \* writes of adPostPermalink under way
  view,       \* the views
  floor       \* history: the ad of the last undisturbed refresh and what it had spent when asked
adChatVars == <<row, spent, session, adCache, postCache, answers, pending, view, floor>>

None == -1
NoAnswer == [ad |-> "none", dated |-> FALSE, spend |-> None, reason |-> "unknown"]
Idle == [at |-> "idle", conv |-> "none", bypass |-> FALSE, ad |-> "none", dated |-> FALSE,
         spend |-> None, reason |-> "none", stored |-> FALSE, asked |-> None, alone |-> TRUE]
Init ==
  /\ row = [c \in Convs |-> [source |-> IF "guessed" \in ChatFaults THEN "heuristic" ELSE "none",
                             click |-> "none", url |-> "none"]]
  /\ spent = [a \in Clicks |-> 0]
  /\ session = ("connects" \notin ChatFaults)
  /\ adCache = [a \in Clicks |-> [dated \in BOOLEAN |-> None]]
  /\ postCache = [a \in Clicks |-> "unknown"]
  /\ answers = [c \in Convs |-> NoAnswer]
  /\ pending = {}
  /\ view = [v \in Viewers |-> Idle]
  /\ floor = [c \in Convs |-> [ad |-> "none", spend |-> None]]

At(v, what) == view[v].at = what
Set(v, rec) == view' = [view EXCEPT ![v] = rec]

\* getConversationAdInsights: the answer kept, which changes nothing, or the load of another.
Begin(v) ==
  /\ At(v, "idle")
  /\ \E c \in Convs, bypass \in BOOLEAN :
       /\ bypass \/ answers[c] = NoAnswer
       /\ LET others == {w \in Viewers : ~At(w, "idle")} IN
          view' = [w \in Viewers |->
                     IF w = v THEN [Idle EXCEPT !.at = "find", !.conv = c, !.bypass = bypass, !.alone = others = {}]
                     ELSE [view[w] EXCEPT !.alone = At(w, "idle")]]
  /\ UNCHANGED <<row, spent, session, adCache, postCache, answers, pending, floor>>

\* The end of a load: what it found, also that it found nothing, is kept.
Finish(v, rec) ==
  LET found == [ad |-> rec.ad, dated |-> rec.dated, spend |-> rec.spend, reason |-> rec.reason] IN
  /\ answers' = [answers EXCEPT ![rec.conv] = found]
  /\ floor' = IF rec.bypass /\ rec.alone /\ rec.dated /\ rec.spend # None
              THEN [floor EXCEPT ![rec.conv] = [ad |-> rec.ad, spend |-> rec.asked]] ELSE floor
  /\ Set(v, Idle)
Empty(v, reason) == Finish(v, [view[v] EXCEPT !.reason = reason, !.ad = "none"])

\* loadConversationAdInsights: the conversation, which must come from an ad.
Find(v) ==
  /\ At(v, "find")
  /\ LET c == row[view[v].conv] IN
     IF c.source = "none" THEN Empty(v, "not_from_ad")
     ELSE /\ Set(v, [view[v] EXCEPT !.at = "session", !.ad = c.click, !.dated = c.source = "click",
                                    !.stored = c.url # "none",
                                    !.asked = IF c.click = "none" THEN None ELSE spent[c.click]])
          /\ UNCHANGED <<answers, floor>>
  /\ UNCHANGED <<row, spent, session, adCache, postCache, pending>>
\* The page's session; then the ad, the ad that Meta is asked for, or the ads of the page.
FindSession(v) ==
  /\ At(v, "session")
  /\ IF ~session THEN Empty(v, "oauth_required")
     ELSE /\ Set(v, [view[v] EXCEPT !.at = IF view[v].ad # "none" THEN "insights"
                                           ELSE IF "resolves" \in ChatFaults THEN "resolve" ELSE "page"])
          /\ UNCHANGED <<answers, floor>>
  /\ UNCHANGED <<row, spent, session, adCache, postCache, pending>>
\* tryResolveConversationAdId: an early message names its ad, which is written over what is there;
\* or none does.  The dates stay those of the row that was read.
Resolve(v) ==
  /\ At(v, "resolve")
  /\ \/ \E a \in Clicks : /\ row' = [row EXCEPT ![view[v].conv].click = a, ![view[v].conv].source = "click"]
                          /\ Set(v, [view[v] EXCEPT !.at = "insights", !.ad = a, !.asked = spent[a]])
     \/ Set(v, [view[v] EXCEPT !.at = "page"]) /\ UNCHANGED row
  /\ UNCHANGED <<spent, session, adCache, postCache, answers, pending, floor>>
\* Without an ad: the estimate of the page, or why there is none.
PageEstimate(v) ==
  /\ At(v, "page")
  /\ \E reason \in {"none", "ads_read_missing", "no_ad_accounts", "no_messaging_insights"} : Empty(v, reason)
  /\ UNCHANGED <<row, spent, session, adCache, postCache, pending>>

\* fetchAdInsights: the spend kept for the ad and its dates, or Meta's answer.
Insights(v) ==
  /\ At(v, "insights")
  /\ LET kept == adCache[view[v].ad][view[v].dated] IN
     Set(v, IF kept # None /\ ~view[v].bypass THEN [view[v] EXCEPT !.at = "post", !.spend = kept]
            ELSE [view[v] EXCEPT !.at = "ask"])
  /\ UNCHANGED <<row, spent, session, adCache, postCache, answers, pending, floor>>
\* Meta has no row of an ad without spend; without dates it counts the last days only.
Ask(v) ==
  /\ At(v, "ask")
  /\ LET a == view[v].ad IN
     \/ \E s \in IF view[v].dated THEN {spent[a]} ELSE 0..spent[a] :
          Set(v, [view[v] EXCEPT !.at = "store", !.spend = IF s = 0 THEN None ELSE s])
     \/ "fails" \in ChatFaults /\ \E reason \in {"api_error", "ads_read_missing"} :
          Set(v, [view[v] EXCEPT !.at = "post", !.reason = reason])
  /\ UNCHANGED <<row, spent, session, adCache, postCache, answers, pending, floor>>
StoreUnlessAsked(v) ==    \* a bug: a refresh does not replace what is kept
  /\ At(v, "store")
  /\ adCache' = IF view[v].spend = None \/ view[v].bypass THEN adCache
                ELSE [adCache EXCEPT ![view[v].ad][view[v].dated] = view[v].spend]
  /\ Set(v, [view[v] EXCEPT !.at = "post"])
  /\ UNCHANGED <<row, spent, session, postCache, answers, pending, floor>>
\* The picture of the ad, asked at the same time, is there too: an answer with money is kept.
Store(v) ==
  /\ At(v, "store")
  /\ adCache' = IF view[v].spend = None THEN adCache
                ELSE [adCache EXCEPT ![view[v].ad][view[v].dated] = view[v].spend]
  /\ Set(v, [view[v] EXCEPT !.at = "post"])
  /\ UNCHANGED <<row, spent, session, postCache, answers, pending, floor>>

\* resolveConversationAdPostUrl: the address in the row that was read, else the one kept for the
\* ad, else Meta's.  An address found is written into the conversation without waiting.
Linked(v, found) ==
  /\ pending' = IF found THEN pending \union {<<view[v].conv, view[v].ad>>} ELSE pending
  /\ Finish(v, view[v])
Post(v) ==
  /\ At(v, "post")
  /\ IF view[v].stored \/ postCache[view[v].ad] # "unknown"
     THEN Linked(v, ~view[v].stored /\ postCache[view[v].ad] = "url")
     ELSE Set(v, [view[v] EXCEPT !.at = "ask post"]) /\ UNCHANGED <<answers, pending, floor>>
  /\ UNCHANGED <<row, spent, session, adCache, postCache>>
\* fetchAdPostPermalink: a failed call and an ad without a post are kept alike, as no address.
AskPost(v) ==
  /\ At(v, "ask post")
  /\ \E found \in BOOLEAN :
       /\ postCache' = [postCache EXCEPT ![view[v].ad] = IF found THEN "url" ELSE "none"]
       /\ Linked(v, found)
  /\ UNCHANGED <<row, spent, session, adCache>>
WritePost ==
  /\ \E w \in pending : row' = [row EXCEPT ![w[1]].url = w[2]] /\ pending' = pending \ {w}
  /\ UNCHANGED <<spent, session, adCache, postCache, answers, view, floor>>

\* applyReferralFromWebhook: a customer clicks an ad, and the newest replaces the one before; the
\* address is written if the click names a post and Facebook tells its address.
Click ==
  /\ \E c \in Convs, a \in Clicks, told \in BOOLEAN :
       /\ row[c].click # a
       /\ row' = [row EXCEPT ![c] = [source |-> "click", click |-> a, url |-> IF told THEN a ELSE @.url]]
  /\ UNCHANGED <<spent, session, adCache, postCache, answers, pending, view, floor>>
Spend ==
  /\ \E a \in Clicks : spent[a] < MaxSpend /\ spent' = [spent EXCEPT ![a] = @ + 1]
  /\ UNCHANGED <<row, session, adCache, postCache, answers, pending, view, floor>>
Connect ==
  /\ ~session /\ session' = TRUE
  /\ UNCHANGED <<row, spent, adCache, postCache, answers, pending, view, floor>>
\* The time of an answer passes, or also that of what is kept for an ad.
Expire ==
  /\ "expires" \in ChatFaults
  /\ \/ \E c \in Convs : answers' = [answers EXCEPT ![c] = NoAnswer] /\ UNCHANGED <<adCache, postCache>>
     \/ /\ \E a \in Clicks : /\ adCache' = [adCache EXCEPT ![a] = [dated \in BOOLEAN |-> None]]
                             /\ postCache' = [postCache EXCEPT ![a] = "unknown"]
        /\ answers' = [c \in Convs |-> NoAnswer]
  /\ UNCHANGED <<row, spent, session, pending, view, floor>>

Next ==
  \/ Click \/ Spend \/ Connect \/ Expire \/ WritePost
  \/ \E v \in Viewers : \/ Begin(v) \/ Find(v) \/ FindSession(v) \/ Resolve(v) \/ PageEstimate(v)
                        \/ Insights(v) \/ Ask(v) \/ Store(v) \/ Post(v) \/ AskPost(v)
Spec == Init /\ [][Next]_adChatVars
-----------------------------------------------------------------------------
(* Once a refresh has told what an ad spent, no later answer about that ad tells less than Meta
   counted when the refresh was asked, through both caches and however they expire; unless another
   view was loading during the refresh, which may store an older answer after it. *)
RefreshSeen ==
  \A c \in Convs : /\ answers[c].ad = floor[c].ad /\ answers[c].dated /\ answers[c].spend # None
                   => answers[c].spend >= floor[c].spend
(* The same without the exception: a slow view replaces the answer of a refresh by an older one. *)
RefreshWins ==
  [][\A v \in Viewers : view[v].at # "idle" /\ view'[v].at = "idle" =>
       LET c == view[v].conv IN answers[c].ad = answers'[c].ad /\ answers'[c].spend # None
                                  => answers'[c].spend >= answers[c].spend]_adChatVars
(* The address of the post is that of the ad the conversation comes from. *)
PostOfAd == \A c \in Convs : row[c].url \in {"none", row[c].click}
(* Comment at cskh-inbox.service.ts:1968: the newest click is the one that is kept. *)
NewestClick == [][\A c \in Convs : row[c].click # "none" /\ row'[c].click # row[c].click => view' = view]_adChatVars
=============================================================================
