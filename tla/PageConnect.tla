----------------------------- MODULE PageConnect -----------------------------
(***************************************************************************)
(* How a Facebook page and its Instagram account get into the program and  *)
(* stay connected (CskhService): the OAuth callback and the sync it runs   *)
(* in the background, the refresh from the stored session, the repair of   *)
(* the link between the two rows, and the writers that read a row's        *)
(* metadata, do something slow, and write it back whole: page pictures and *)
(* ad hints.  Nothing orders them; the only guard is oauthSyncInFlight.    *)
(*                                                                         *)
(* The metadata is the set of its keys.  "link" is instagramBusinessId on  *)
(* the row of the page and facebookPageId on the row of the account.  The  *)
(* n-th connect yields user token n; a row's token names the user token it *)
(* came from.  ConnectFaults: "fails" (a call fails), "restart" (of the    *)
(* API), "staff" (switches, deletes), "old row" (an Instagram row from     *)
(* before the link existed).                                               *)
(***************************************************************************)
EXTENDS Integers, FiniteSets
CONSTANTS MaxTokens, Refreshes, Slow, ConnectFaults

VARIABLES
  row,        \* facebook_cskh_config: the page's ("fb") and the Instagram account's ("ig")
  session,    \* facebook_oauth_session: the newest user token and the status of the sync
  sees,       \* Meta: which of the two the user gave with each connect
  oauthSync,  \* oauthSyncInFlight
  task,       \* the background sync, and the refreshes
  slow,       \* the writers of pictures and hints: the row and the keys each has read
  subscribed  \* Meta: the rows with a webhook
connectVars == <<row, session, sees, oauthSync, task, slow, subscribed>>

Tasks == {"oauth"} \union Refreshes
NoRow == [there |-> FALSE, token |-> 0, enabled |-> FALSE, keys |-> {}]
NoKeys == [fb |-> {}, ig |-> {}]
NoTask == [at |-> "idle", row |-> "fb", token |-> 0, keys |-> NoKeys, status |-> "none"]
NotSlow == [row |-> "none", keys |-> {}]
Init ==
  /\ row = [r \in {"fb", "ig"} |->
              IF r = "ig" /\ "old row" \in ConnectFaults THEN [NoRow EXCEPT !.there = TRUE] ELSE NoRow]
  /\ session = [token |-> 0, status |-> "none", ads |-> FALSE]
  /\ sees = [n \in 1..MaxTokens |-> {}]
  /\ oauthSync = FALSE
  /\ task = [t \in Tasks |-> NoTask]
  /\ slow = [w \in Slow |-> NotSlow]
  /\ subscribed = {}

At(t, what) == task[t].at = what
Go(t, rec) == task' = [task EXCEPT ![t] = rec]
Step(t, what) == Go(t, [task[t] EXCEPT !.at = what])

\* handleOAuthCallback: the session is stored as running; the sync starts unless one is in flight.
OAuthCallback ==
  /\ session.token < MaxTokens
  /\ session' = [token |-> session.token + 1, status |-> "running", ads |-> FALSE]
  /\ \E given \in {{}, {"fb"}, {"fb", "ig"}} : sees' = [sees EXCEPT ![session.token + 1] = given]
  /\ oauthSync' = TRUE
  /\ IF oauthSync THEN UNCHANGED task
     ELSE Go("oauth", [NoTask EXCEPT !.at = "fetch", !.token = session.token + 1])
  /\ UNCHANGED <<row, slow, subscribed>>
\* refreshPagesFromOAuth: with the token of the stored session.
RefreshStart(t) ==
  /\ t \in Refreshes /\ At(t, "idle") /\ session.token > 0
  /\ Go(t, [NoTask EXCEPT !.at = "fetch", !.token = session.token])
  /\ UNCHANGED <<row, session, sees, oauthSync, slow, subscribed>>
EndOAuth(status, ads) ==
  /\ session' = [session EXCEPT !.status = status, !.ads = ads]
  /\ oauthSync' = FALSE
  /\ Go("oauth", NoTask)
\* fetchManagedPages: a connect without pages fails; a refresh without them goes on to the repair.
FetchPages(t) ==
  /\ At(t, "fetch")
  /\ LET given == sees[task[t].token] IN
     IF given = {} /\ t = "oauth" THEN EndOAuth("failed", FALSE)
     ELSE Step(t, IF given = {} THEN "repair" ELSE "read") /\ UNCHANGED <<session, oauthSync>>
  /\ UNCHANGED <<row, sees, slow, subscribed>>

\* upsertPagesFromAccounts: for each row its metadata is read, then the row is written whole.
ReadRow(t) ==
  /\ At(t, "read") /\ Go(t, [task[t] EXCEPT !.at = "write", !.keys[task[t].row] = row[task[t].row].keys])
  /\ UNCHANGED <<row, session, sees, oauthSync, slow, subscribed>>
\* An insert writes the row's own keys, an update merges them into the metadata read before.  The
\* row is enabled if the user may send messages.  The webhook is subscribed in the background.
Upserted(r, t) ==
  [there |-> TRUE, token |-> task[t].token, enabled |-> TRUE,
   keys |-> (IF row[r].there \/ r = "ig" THEN task[t].keys[r] ELSE {})
            \union (IF r = "ig" \/ "ig" \in sees[task[t].token] THEN {"link"} ELSE {})]
WriteRow(t) ==
  /\ At(t, "write")
  /\ LET r == task[t].row IN
       /\ row' = [row EXCEPT ![r] = Upserted(r, t)]
       /\ Go(t, [task[t] EXCEPT !.at = IF r = "fb" /\ "ig" \in sees[task[t].token] THEN "read" ELSE "repair",
                                !.row = "ig"])
       /\ subscribed' \in {subscribed \union {r}} \union IF "fails" \in ConnectFaults THEN {subscribed} ELSE {}
  /\ UNCHANGED <<session, sees, oauthSync, slow>>
\* An account that fails is logged and left; so is one whose Instagram row fails.
AccountFails(t) ==
  /\ "fails" \in ConnectFaults
  /\ task[t].at \in {"read", "write"}
  /\ Step(t, "repair")
  /\ UNCHANGED <<row, session, sees, oauthSync, slow, subscribed>>

\* repairInstagramFacebookPageIds: the rows are read once; an Instagram row without its link gets
\* it from a page that names it, or from Meta, which is asked page by page and may know the account:
\* then the page's metadata is written back first, if it is still there.
RepairRead(t) ==
  /\ At(t, "repair")
  /\ Go(t, [task[t] EXCEPT !.at = IF ~row["ig"].there \/ "link" \in row["ig"].keys \/ ~row["fb"].there THEN "end"
                                  ELSE IF "link" \in row["fb"].keys THEN "repair ig" ELSE "ask",
                           !.keys = [r \in {"fb", "ig"} |-> row[r].keys]])
  /\ UNCHANGED <<row, session, sees, oauthSync, slow, subscribed>>
RepairAsk(t) ==
  /\ At(t, "ask")
  /\ \/ /\ row["fb"].there
        /\ row' = [row EXCEPT !["fb"].keys = task[t].keys["fb"] \union {"link"}]
        /\ Step(t, "repair ig")
     \/ Step(t, "end") /\ UNCHANGED row
  /\ UNCHANGED <<session, sees, oauthSync, slow, subscribed>>
RepairWrite(t) ==
  /\ At(t, "repair ig") /\ row["ig"].there
  /\ row' = [row EXCEPT !["ig"].keys = task[t].keys["ig"] \union {"link"}]
  /\ Step(t, "end")
  /\ UNCHANGED <<session, sees, oauthSync, slow, subscribed>>
\* Where a sync may throw: a call of it fails, or the Instagram row is gone at the repair's update.
Throws(t) ==
  \/ "fails" \in ConnectFaults /\ task[t].at \in {"fetch", "repair", "ask", "repair ig", "end", "ads"}
  \/ At(t, "repair ig") /\ ~row["ig"].there

\* The end of the background sync; the page list is read anew.
OAuthDone == At("oauth", "end") /\ EndOAuth("done", TRUE) /\ UNCHANGED <<row, sees, slow, subscribed>>
OAuthFails ==
  /\ Throws("oauth")
  /\ EndOAuth("failed", FALSE)
  /\ UNCHANGED <<row, sees, slow, subscribed>>
\* refreshOAuthAdAccountsIfNeeded: without ad accounts in the session they are asked of Meta, and
\* the metadata read before is written back with them.
AdsRead(t) ==
  /\ t \in Refreshes /\ At(t, "end")
  /\ Go(t, IF session.ads THEN NoTask ELSE [task[t] EXCEPT !.at = "ads", !.status = session.status])
  /\ UNCHANGED <<row, session, sees, oauthSync, slow, subscribed>>
AdsWrite(t) ==
  /\ At(t, "ads")
  /\ session' = [session EXCEPT !.status = task[t].status, !.ads = TRUE]
  /\ Go(t, NoTask)
  /\ UNCHANGED <<row, sees, oauthSync, slow, subscribed>>
RefreshFails(t) ==
  /\ t \in Refreshes /\ Throws(t)
  /\ Go(t, NoTask)
  /\ UNCHANGED <<row, session, sees, oauthSync, slow, subscribed>>

\* enrichPagePictures and persistPageAdHint: the metadata is read, and written back with one key.
SlowRead(w) ==
  /\ slow[w] = NotSlow
  /\ \E r \in {"fb", "ig"} : row[r].there /\ slow' = [slow EXCEPT ![w] = [row |-> r, keys |-> row[r].keys]]
  /\ UNCHANGED <<row, session, sees, oauthSync, task, subscribed>>
SlowWriteAlone(w) ==    \* a bug: the hint replaces the metadata
  /\ slow[w] # NotSlow
  /\ row' = [row EXCEPT ![slow[w].row].keys = IF row[slow[w].row].there THEN {w} ELSE @]
  /\ slow' = [slow EXCEPT ![w] = NotSlow]
  /\ UNCHANGED <<session, sees, oauthSync, task, subscribed>>
SlowWrite(w) ==
  /\ slow[w] # NotSlow
  /\ LET r == slow[w].row
     IN row' = [row EXCEPT ![r].keys = IF row[r].there THEN slow[w].keys \union {w} ELSE @]
  /\ slow' = [slow EXCEPT ![w] = NotSlow]
  /\ UNCHANGED <<session, sees, oauthSync, task, subscribed>>

\* setPageEnabled, deletePage.
StaffChanges ==
  /\ "staff" \in ConnectFaults
  /\ \E r \in {"fb", "ig"} : /\ row[r].there
                             /\ row' \in {[row EXCEPT ![r].enabled = ~@], [row EXCEPT ![r] = NoRow]}
  /\ UNCHANGED <<session, sees, oauthSync, task, slow, subscribed>>
\* A restart of the API; resubscribeAllPagesWebhook then subscribes every row again.
Restart ==
  /\ "restart" \in ConnectFaults
  /\ oauthSync' = FALSE /\ task' = [t \in Tasks |-> NoTask] /\ slow' = [w \in Slow |-> NotSlow]
  /\ subscribed' = subscribed \union {r \in {"fb", "ig"} : row[r].there}
  /\ UNCHANGED <<row, session, sees>>

Next ==
  \/ OAuthCallback \/ OAuthDone \/ OAuthFails \/ StaffChanges \/ Restart
  \/ \E t \in Tasks : \/ RefreshStart(t) \/ FetchPages(t) \/ ReadRow(t) \/ WriteRow(t) \/ AccountFails(t)
                      \/ RepairRead(t) \/ RepairAsk(t) \/ RepairWrite(t) \/ AdsRead(t) \/ AdsWrite(t) \/ RefreshFails(t)
  \/ \E w \in Slow : SlowRead(w) \/ SlowWrite(w)
Spec == Init /\ [][Next]_connectVars
-----------------------------------------------------------------------------
(* The link between page and account, without which Meta refuses the account's calls, is taken from
   a row only by a writer that read the row's metadata while it had none, and holds it still: a row
   from before the link, read by a picture, a hint or a sync before the repair.  A deleted row takes
   its link along. *)
Held(r) == {slow[w].keys : w \in {v \in Slow : slow[v].row = r}}
           \union {task[t].keys[r] : t \in {u \in Tasks : At(u, "write") /\ task[u].row = r}}
LinkKept == \A r \in {"fb", "ig"} :
  row[r].there /\ row'[r].there /\ "link" \in row[r].keys \ row'[r].keys
    => \E keys \in Held(r) : "link" \notin keys
(* What was lost this way comes back: a sync that found the page naming the account at its repair
   leaves the account's row, if there is one, linked when it is through with it. *)
LinkRestored == \A t \in Tasks :
  task[t].at \in {"repair", "ask", "repair ig"} /\ task'[t].at = "end" /\ row'["ig"].there
    => "link" \notin task'[t].keys["fb"] \/ "link" \in row'["ig"].keys
(* A hint or a picture stays once it is stored. *)
HintKept == [][\A r \in {"fb", "ig"} : row'[r].there =>
                 (row[r].keys \intersect Slow) \subseteq row'[r].keys]_connectVars
(* The status the staff sees is "running" only while a sync runs. *)
StatusSettles == session.status = "running" => oauthSync
(* When the newest connect is shown as done, the page works with a token of this connect. *)
NewestTokenUsed == session.status = "done" /\ "fb" \in sees[session.token] /\ row["fb"].there
                     => row["fb"].token = session.token
(* A page the staff switched off stays off until the staff switches it on. *)
OffStaysOff == [][\A r \in {"fb", "ig"} : row[r].there /\ ~row[r].enabled /\ row'[r].enabled
                     => task' = task]_connectVars
=============================================================================
