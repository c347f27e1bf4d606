------------------------------ MODULE InboxRounds ----------------------------
(***************************************************************************)
(* How the inbox chooses the pages it reads from Graph by itself: the      *)
(* catch-up of an API process, every two seconds, of the page being viewed *)
(* and of the pages with the newest messages (runLiveGraphCatchUp); and    *)
(* the rotation over all pages that lists ask for                          *)
(* (maybeRotatingSyncAllPages).  GraphSlots models the requests they make. *)
(*                                                                         *)
(* RoundFaults: "webhooks" (events wait in the queue), "capability" (Graph *)
(* refuses an Instagram account), "busy" (the database is short of         *)
(* connections).                                                           *)
(***************************************************************************)
EXTENDS Integers, Sequences, FiniteSets
CONSTANTS PagesOf, Instagram, PageOf, HotPages, RotationBatch, Pollers, Rotators, MaxTaken, RoundFaults

Tenants == DOMAIN PagesOf
Connected == UNION {{PagesOf[t][i] : i \in DOMAIN PagesOf[t]} : t \in Tenants}
VARIABLES
  hot,       \* the pages, that of the newest message first
  viewed,    \* the page a staff member looks at: known here, and in Redis for two minutes
  audit,     \* an audit runs
  believes,  \* auditRunningCache: its value for 15 s, or none
  lock,      \* LIVE_CATCHUP_LOCK, which nobody deletes
  backoff,   \* catchUpBackoffUntil lies ahead; the Instagram accounts left alone for three minutes
  polling,   \* liveCatchUpRunning
  poller,    \* the rounds of the timer
  rotation,  \* backgroundInboxSyncRunning, allPagesSyncCursor, the cooldown is over
  rotator,   \* the lists that ask for a rotation
  taken      \* how often each page was taken into a rotation
roundVars == <<hot, viewed, audit, believes, lock, backoff, polling, poller, rotation, rotator, taken>>
pollVars == <<lock, polling, poller>>
turnVars == <<rotation, rotator, taken>>

AllPages == CHOOSE s \in [1..Cardinality(Connected) -> Connected] :
              (\A i, j \in DOMAIN s : s[i] = s[j] => i = j)
              /\ \A t \in Tenants : \A i, j \in DOMAIN PagesOf[t] : i < j =>
                   \E k, l \in DOMAIN s : k < l /\ s[k] = PagesOf[t][i] /\ s[l] = PagesOf[t][j]
Init ==
  /\ hot = AllPages /\ viewed = [here |-> "none", redis |-> "none"] /\ audit = FALSE /\ believes = "nothing"
  /\ lock = FALSE /\ backoff = [all |-> FALSE, pages |-> {}] /\ polling = FALSE
  /\ poller = [k \in Pollers |-> [at |-> "idle", pages |-> <<>>, read |-> {}, bare |-> FALSE]]
  /\ rotation = [running |-> FALSE, cursor |-> 0, rested |-> TRUE]
  /\ rotator = [r \in Rotators |-> [at |-> "idle", tenant |-> "none", batch |-> <<>>]]
  /\ taken = [p \in Connected |-> 0]

\* The world: messages, staff, audits, expiries.
Moves(p) == Pollers # {} /\ hot[1] # p /\ hot' = <<p>> \o SelectSeq(hot, LAMBDA q : q # p)
            /\ UNCHANGED <<viewed, audit, believes, backoff, pollVars, turnVars>>
Views(p) == Pollers # {} /\ viewed.here # p /\ viewed' = [here |-> p, redis |-> p]
            /\ UNCHANGED <<hot, audit, believes, backoff, pollVars, turnVars>>
ViewedExpires == viewed.redis # "none" /\ viewed' = [viewed EXCEPT !.redis = "none"]
                 /\ UNCHANGED <<hot, audit, believes, backoff, pollVars, turnVars>>
AuditTurns == audit' = ~audit /\ UNCHANGED <<hot, viewed, believes, backoff, pollVars, turnVars>>
Forgets == believes # "nothing" /\ believes' = "nothing"
           /\ UNCHANGED <<hot, viewed, audit, backoff, pollVars, turnVars>>
\* The lock lasts two seconds; who is slower to set the flag has no protection by it (`bare`).
LockExpires == /\ lock /\ lock' = FALSE
               /\ poller' = [k \in Pollers |-> [poller[k] EXCEPT !.bare = @ \/ poller[k].at \in {"audit", "lock", "pages"}]]
               /\ UNCHANGED <<hot, viewed, audit, believes, backoff, polling, turnVars>>
BackoffEnds == (backoff.all \/ backoff.pages # {}) /\ backoff' = [all |-> FALSE, pages |-> {}]
               /\ UNCHANGED <<hot, viewed, audit, believes, pollVars, turnVars>>

\* isAuditJobRunning: one memory for all tenants; a database out of connections counts as no audit.
Busy == "busy" \in RoundFaults
ReadAudit(yes, no) ==
  \/ believes # "nothing" /\ (IF believes = "runs" THEN yes ELSE no) /\ UNCHANGED <<believes, backoff>>
  \/ believes = "nothing" /\ (IF audit THEN yes ELSE no) /\ believes' = (IF audit THEN "runs" ELSE "rests")
     /\ UNCHANGED backoff
  \/ believes = "nothing" /\ Busy /\ no /\ believes' = "rests" /\ backoff' = [backoff EXCEPT !.all = TRUE]

PollAt(k, at) == poller' = [poller EXCEPT ![k].at = at]
\* Mutant of Poll: the flag is not tested.
PollBlind(k) ==
  /\ poller[k].at = "idle" /\ ~rotation.running /\ ~backoff.all
  /\ poller' = [poller EXCEPT ![k] = [at |-> "audit", pages |-> <<>>, read |-> {}, bare |-> FALSE]]
  /\ UNCHANGED <<hot, viewed, audit, believes, lock, backoff, polling, turnVars>>

\* The timer: the flag is tested here and set four awaits later, in PollPages.
Poll(k) ==
  /\ poller[k].at = "idle" /\ ~polling /\ ~rotation.running /\ ~backoff.all
  /\ poller' = [poller EXCEPT ![k] = [at |-> "audit", pages |-> <<>>, read |-> {}, bare |-> FALSE]]
  /\ UNCHANGED <<hot, viewed, audit, believes, lock, backoff, polling, turnVars>>
PollAudit(k) ==
  /\ poller[k].at = "audit"
  /\ ReadAudit(PollAt(k, "idle"), PollAt(k, "lock"))
  /\ UNCHANGED <<hot, viewed, audit, lock, polling, turnVars>>
PollLock(k) ==
  /\ poller[k].at = "lock"
  /\ PollAt(k, IF lock THEN "idle" ELSE "pages") /\ lock' = TRUE
  /\ UNCHANGED <<hot, viewed, audit, believes, backoff, polling, turnVars>>

\* findLiveCatchUpPages: the viewed page, the pages of the newest messages up to a number, the
\* Instagram accounts of the viewed page, and when none of these is on Instagram, the first account
\* by name, left alone or not.
Seen == IF viewed.here # "none" THEN viewed.here ELSE viewed.redis
Least(a, b) == IF a < b THEN a ELSE b
Most(a, b) == IF a < b THEN b ELSE a
HotList ==
  LET rest == SelectSeq(hot, LAMBDA p : p # Seen)
      room == IF Seen = "none" THEN HotPages ELSE Most(HotPages, 2) - 1
  IN (IF Seen = "none" THEN <<>> ELSE <<Seen>>) \o SubSeq(rest, 1, Least(Most(room, 1), Len(rest)))
Listed(p) == \E i \in DOMAIN HotList : HotList[i] = p
Linked == SelectSeq(AllPages, LAMBDA p : p \in Instagram /\ ~Listed(p) /\ Seen \in {p, PageOf[p]})
FirstInstagram == SelectSeq(AllPages, LAMBDA p : p \in Instagram)
Selected ==
  LET chosen == HotList \o Linked
  IN IF FirstInstagram = <<>> \/ \E i \in DOMAIN chosen : chosen[i] \in Instagram THEN chosen
     ELSE Append(chosen, Head(FirstInstagram))
PollPages(k) ==
  /\ poller[k].at = "pages"
  /\ poller' = [poller EXCEPT ![k].at = "round", ![k].pages = Selected]
  /\ polling' = TRUE
  /\ UNCHANGED <<hot, viewed, audit, believes, lock, backoff, turnVars>>
\* The queries before the round fail.
PollFails(k) ==
  /\ poller[k].at = "pages" /\ Busy
  /\ PollAt(k, "idle") /\ backoff' = [backoff EXCEPT !.all = TRUE]
  /\ UNCHANGED <<hot, viewed, audit, believes, lock, polling, turnVars>>
\* An account that was refused is skipped while it is left alone.
PollPage(k) ==
  /\ poller[k].at = "round" /\ poller[k].pages # <<>>
  /\ LET p == Head(poller[k].pages)
         skips == p \in backoff.pages
     IN /\ poller' = [poller EXCEPT ![k].pages = Tail(@), ![k].read = IF skips THEN @ ELSE @ \union {p}]
        /\ \/ backoff' = backoff
           \/ /\ "capability" \in RoundFaults /\ p \in Instagram /\ ~skips
              /\ backoff' = [backoff EXCEPT !.pages = @ \union {p}]
  /\ UNCHANGED <<hot, viewed, audit, believes, lock, polling, turnVars>>
\* The flag is cleared, also for a round that overlaps.
PollEnds(k) ==
  /\ poller[k].at = "round" /\ poller[k].pages = <<>>
  /\ poller' = [j \in Pollers |-> IF j = k THEN [poller[j] EXCEPT !.at = "idle"]
                                  ELSE [poller[j] EXCEPT !.bare = @ \/ poller[j].at = "round"]]
  /\ polling' = FALSE
  /\ UNCHANGED <<hot, viewed, audit, believes, lock, backoff, turnVars>>

\* A list of all pages asks for a rotation: the flag and the cooldown are tested, then the audits,
\* the queue and the pages are read, and only then is the flag set.
RotateAt(r, at) == rotator' = [rotator EXCEPT ![r].at = at]
Rotate(r) ==
  /\ rotator[r].at = "idle" /\ ~rotation.running /\ rotation.rested
  /\ \E t \in Tenants : rotator' = [rotator EXCEPT ![r] = [at |-> "audit", tenant |-> t, batch |-> <<>>]]
  /\ UNCHANGED <<hot, viewed, audit, believes, backoff, pollVars, rotation, taken>>
RotateAudit(r) ==
  /\ rotator[r].at = "audit"
  /\ ReadAudit(RotateAt(r, "idle"), RotateAt(r, "pages"))
  /\ UNCHANGED <<hot, viewed, audit, pollVars, rotation, taken>>
\* The batch from the cursor on, which moves at once; the cursor is one for all tenants.
BatchOf(t) ==
  LET n == Len(PagesOf[t])
  IN [i \in 1..Least(Most(RotationBatch, 1), n) |-> PagesOf[t][((rotation.cursor + i - 1) % n) + 1]]
\* Mutant of NextCursor: the cursor stays where the batch began.
NextCursorStays(t) == rotation.cursor % Len(PagesOf[t])

NextCursor(t) == (rotation.cursor + Least(Most(RotationBatch, 1), Len(PagesOf[t]))) % Len(PagesOf[t])
TakeBatch(r) ==
  /\ rotator[r].at = "pages"
  /\ LET t == rotator[r].tenant
         batch == BatchOf(t)
     IN /\ rotator' = [rotator EXCEPT ![r].at = "round", ![r].batch = batch]
        /\ rotation' = [running |-> TRUE, cursor |-> NextCursor(t), rested |-> FALSE]
        /\ \A p \in Connected : taken[p] < MaxTaken
        /\ taken' = [p \in Connected |-> IF \E i \in DOMAIN batch : batch[i] = p THEN taken[p] + 1 ELSE taken[p]]
  /\ UNCHANGED <<hot, viewed, audit, believes, backoff, pollVars>>
RotatePage(r) ==
  /\ rotator[r].at = "round" /\ rotator[r].batch # <<>>
  /\ \/ rotator' = [rotator EXCEPT ![r].batch = Tail(@)]
     \/ "webhooks" \in RoundFaults /\ rotator' = [rotator EXCEPT ![r].batch = <<>>]
  /\ UNCHANGED <<hot, viewed, audit, believes, backoff, pollVars, rotation, taken>>
RotateEnds(r) ==
  /\ rotator[r].at = "round" /\ rotator[r].batch = <<>>
  /\ RotateAt(r, "idle") /\ rotation' = [rotation EXCEPT !.running = FALSE]
  /\ UNCHANGED <<hot, viewed, audit, believes, backoff, pollVars, taken>>
Rested == ~rotation.rested /\ rotation' = [rotation EXCEPT !.rested = TRUE]
          /\ UNCHANGED <<hot, viewed, audit, believes, backoff, pollVars, rotator, taken>>

Next ==
  \/ \E p \in Connected : Moves(p) \/ Views(p)
  \/ ViewedExpires \/ AuditTurns \/ Forgets \/ LockExpires \/ BackoffEnds \/ Rested
  \/ \E k \in Pollers : Poll(k) \/ PollAudit(k) \/ PollLock(k) \/ PollPages(k) \/ PollFails(k) \/ PollPage(k) \/ PollEnds(k)
  \/ \E r \in Rotators : Rotate(r) \/ RotateAudit(r) \/ TakeBatch(r) \/ RotatePage(r) \/ RotateEnds(r)
Spec == Init /\ [][Next]_roundVars

\* Rotations that overlap share the pages out: no page of the tenant is taken twice more than another.
RoundRobin == \A t \in Tenants : \A i, j \in DOMAIN PagesOf[t] : taken[PagesOf[t][i]] - taken[PagesOf[t][j]] <= 1
Rounds == {k \in Pollers : poller[k].at = "round"}
\* Two rounds of the catch-up that both set the flag within the two seconds of the lock, from the
\* test of the flag on, never overlap, and the flag stays up for such a round; but an overlapping
\* round that was slower may end first and clear it.
OneRound == \A k \in Rounds : poller[k].bare \/ (polling /\ \A j \in Rounds \ {k} : poller[j].bare)
\* Each round reads an Instagram account, if there is one that is not left alone (and holds only
\* while Graph refuses none: the first account by name is chosen also when it is left alone).
InstagramRead == \A k \in Rounds :
  poller[k].pages = <<>> /\ ~(Instagram \subseteq backoff.pages) => poller[k].read \intersect Instagram # {}
\* At most one rotation.
OneRotation == Cardinality({r \in Rotators : rotator[r].at = "round"}) <= 1
\* A round that starts does not meet a rotation or an audit.
RoundAlone == [][\A k \in Pollers : poller[k].at = "pages" /\ poller'[k].at = "round" => ~audit /\ ~rotation.running]_roundVars
==============================================================================
