------------------------------ MODULE AuditScan ------------------------------
(***************************************************************************)
(* How an audit finds the conversations of one page and one day            *)
(* (runAuditJob, FacebookGraphService.fetchConversationsForAuditByDate,    *)
(* fetchConversationsForAuditFromDb): it walks Graph's list, newest first, *)
(* a page at a time, reads the transcript of each candidate, and hands on  *)
(* those with a message of the day that have no audit row yet, up to the   *)
(* limit; or it takes them from the inbox tables, and from Graph when      *)
(* those have none.  Customers keep writing while the scan runs.           *)
(*                                                                         *)
(* A message is its day: 0 before, 1 the audited day, 2 after it; a        *)
(* conversation its messages, newest first.  Graph's cursor is the time of *)
(* the last conversation listed.  ScanFaults: "again" (an error the        *)
(* request is repeated after), "refused" (one it is not), "pause".         *)
(***************************************************************************)
EXTENDS Integers, Sequences, FiniteSets
CONSTANTS Histories, Convs, MarkSets, Sources, Caps, PageSize, Preview, TranscriptMax, MaxWrites, ScanFaults

MaxTries == 3    \* maxRetries
VARIABLES
  talk,     \* Graph: the messages of each conversation, newest first
  saved,    \* cskh_inbox_messages: the conversations whose messages are stored
  updated,  \* the time of each conversation's last message
  marks,    \* chat_audits: how the rows of the day name each conversation, "conv", "psid" or "both"
  asked,    \* CSKH_AUDIT_SOURCE, its fallback and the limit of the job
  stop,     \* the audit is asked to pause
  scan      \* the scan
scanVars == <<talk, saved, updated, marks, asked, stop, scan>>

InDay(msgs) == SelectSeq(msgs, LAMBDA d : d = 1)
UpToDay(msgs) == SelectSeq(msgs, LAMBDA d : d <= 1)
Least(a, b) == IF a < b THEN a ELSE b
Cut(s, n) == SubSeq(s, 1, Least(n, Len(s)))
\* The conversations of a set, newest first.
Newest(S) == CHOOSE f \in [1..Cardinality(S) -> S] : \A i, j \in DOMAIN f : i < j => updated[f[i]] > updated[f[j]]

\* One identity per conversation, two when one row names it by its id and another by its psid.
Audited(c) == marks[c] # {}
Counted == Cardinality({c \in Convs : Audited(c)}) + Cardinality({c \in Convs : marks[c] = {"conv", "psid"}})
Room == asked.cap - Counted
Full(s) == asked.cap > 0 /\ Len(s.matched) >= Room

Init ==
  /\ talk \in {f \in [Convs -> Histories] : \A c, d \in Convs : c < d => f[c][1] <= f[d][1]}
  /\ saved \in {Convs, {}} \union {{c} : c \in Convs}
  /\ updated = [c \in Convs |-> c] /\ marks \in [Convs -> MarkSets]
  /\ asked \in [source : Sources, cap : Caps] /\ stop = FALSE
  /\ scan = [at |-> "start", cursor |-> Cardinality(Convs) + 1, tries |-> 1, batch |-> <<>>,
             got |-> [c \in Convs |-> "none"], msgs |-> [c \in Convs |-> <<>>], matched |-> <<>>,
             touched |-> {}, dropped |-> {}, from |-> "none"]

\* A customer writes; the conversation moves to the top of Graph's list.
Write(c) ==
  /\ updated[c] + 1 <= Cardinality(Convs) + MaxWrites
  /\ \E t \in Cardinality(Convs) + 1..Cardinality(Convs) + MaxWrites :
       /\ \A d \in Convs : updated[d] < t
       /\ t = 1 + CHOOSE u \in {updated[d] : d \in Convs} : \A d \in Convs : updated[d] <= u
       /\ updated' = [updated EXCEPT ![c] = t]
  /\ \E d \in {1, 2} : (\A e \in Convs : talk[e][1] <= d) /\ talk' = [talk EXCEPT ![c] = <<d>> \o @]
  /\ scan' = [scan EXCEPT !.touched = @ \union {c}]
  /\ UNCHANGED <<saved, marks, asked, stop>>

Pause == "pause" \in ScanFaults /\ ~stop /\ stop' = TRUE /\ UNCHANGED <<talk, saved, updated, marks, asked, scan>>
Goes == UNCHANGED <<talk, saved, updated, marks, asked, stop>>

\* The page is skipped when the rows of the day already reach the limit.
Begin ==
  /\ scan.at = "start"
  /\ scan' = [scan EXCEPT !.at = IF stop THEN "stopped"
                                 ELSE IF asked.cap > 0 /\ Room <= 0 THEN "full"
                                 ELSE IF asked.source = "api" THEN "list" ELSE "query"]
  /\ Goes

\* The inbox tables: the conversations with a stored message of the day, then one at a time.
DbQuery ==
  /\ scan.at = "query"
  /\ scan' = [scan EXCEPT !.at = "db", !.from = "db",
                          !.batch = Newest({c \in saved : InDay(talk[c]) # <<>>})]
  /\ Goes
DbMatch ==
  /\ scan.at = "db" /\ ~stop /\ scan.batch # <<>>
  /\ LET c == Head(scan.batch)
         s == [scan EXCEPT !.batch = Tail(@), !.matched = IF Audited(c) THEN @ ELSE Append(@, c)]
     IN scan' = IF ~Audited(c) /\ Full(s) THEN [s EXCEPT !.batch = <<>>] ELSE s
  /\ Goes
\* Nothing found: the scan of Graph, if the fallback is on.
DbEnd ==
  /\ scan.at = "db" /\ (stop \/ scan.batch = <<>>)
  /\ scan' = [scan EXCEPT !.at = IF scan.matched = <<>> /\ asked.source = "db, then api" THEN "list"
                                 ELSE IF stop THEN "stopped" ELSE "ended"]
  /\ Goes

\* graphRequestRaw: three tries at an error of the server or of the rate, none at another.
Repeats == "again" \in ScanFaults /\ scan.tries < MaxTries
Fails == "refused" \in ScanFaults \/ ("again" \in ScanFaults /\ scan.tries = MaxTries)

\* Mutant of Kept: a conversation that went on after the day is skipped.
KeptOfDay(cs) == SelectSeq(cs, LAMBDA c : talk[c][1] <= 1)

\* A page of Graph's list. It ends the scan at the first conversation older than the day, and then
\* drops those before it on the page, unread; it skips one of after the day whose last messages show
\* none of the day, and keeps the others with their preview.
Kept(cs) == SelectSeq(cs, LAMBDA c : talk[c][1] <= 1 \/ InDay(Cut(talk[c], Preview)) # <<>>)
Older(cs) == {i \in DOMAIN cs : talk[cs[i]][1] = 0}
ListPage ==
  /\ scan.at = "list" /\ ~stop
  /\ LET below == Newest({c \in Convs : updated[c] < scan.cursor})
         cs == Cut(below, PageSize)
     IN scan' = IF cs = <<>> \/ Older(cs) # {}
                THEN [scan EXCEPT !.at = "ended", !.dropped = {cs[i] : i \in DOMAIN cs \ Older(cs)}]
                ELSE [scan EXCEPT !.at = "read", !.from = "api", !.tries = 1, !.cursor = updated[cs[Len(cs)]],
                                  !.batch = Kept(cs),
                                  !.got = [c \in Convs |-> IF \E i \in DOMAIN Kept(cs) : Kept(cs)[i] = c
                                                           THEN "asked" ELSE "none"],
                                  !.msgs = [c \in Convs |-> Cut(talk[c], Preview)]]
  /\ Goes
ListRepeats == scan.at = "list" /\ ~stop /\ Repeats /\ scan' = [scan EXCEPT !.tries = @ + 1] /\ Goes
\* The error leaves the scan; what was handed on stays handed on, and the page counts as done.
ListThrows == scan.at = "list" /\ ~stop /\ Fails /\ scan' = [scan EXCEPT !.at = "threw"] /\ Goes

\* The transcripts of the page, several at a time: as far back as the day begins or the limit of
\* messages; an error leaves the preview.
ReadTranscript(c) ==
  /\ scan.at = "read" /\ scan.got[c] = "asked" /\ ~stop
  /\ LET before == {i \in DOMAIN talk[c] : talk[c][i] = 0}
         far == IF before = {} THEN Len(talk[c]) ELSE CHOOSE i \in before : \A j \in before : i <= j
     IN scan' = [scan EXCEPT !.got[c] = "whole", !.msgs[c] = Cut(talk[c], Least(far, TranscriptMax))]
  /\ Goes
TranscriptFails(c) ==
  /\ scan.at = "read" /\ scan.got[c] = "asked" /\ ~stop /\ Fails
  /\ scan' = [scan EXCEPT !.got[c] = "preview"]
  /\ Goes
AllRead ==
  /\ scan.at = "read" /\ \A c \in Convs : scan.got[c] # "asked"
  /\ scan' = [scan EXCEPT !.at = IF stop THEN "stopped" ELSE "match"]
  /\ Goes

\* Mutant of Decide: the rows of the day are not looked at.
DecideAgain(c, s) ==
  LET rest == [s EXCEPT !.batch = Tail(@)]
  IN IF InDay(UpToDay(s.msgs[c])) = <<>> THEN rest
     ELSE IF Full(s) THEN [s EXCEPT !.at = "ended"] ELSE [rest EXCEPT !.matched = Append(@, c)]

\* The page's conversations in order: no message of the day up to its end, no match; then the limit;
\* then the rows of the day.
Decide(c, s) ==
  LET rest == [s EXCEPT !.batch = Tail(@)]
  IN IF InDay(UpToDay(s.msgs[c])) = <<>> THEN rest
     ELSE IF Full(s) THEN [s EXCEPT !.at = "ended"]
     ELSE IF Audited(c) THEN rest ELSE [rest EXCEPT !.matched = Append(@, c)]
Match ==
  /\ scan.at = "match" /\ ~stop /\ scan.batch # <<>>
  /\ scan' = Decide(Head(scan.batch), scan)
  /\ Goes
NextPage ==
  /\ scan.at = "match" /\ ~stop /\ scan.batch = <<>>
  /\ scan' = [scan EXCEPT !.at = IF Full(scan) THEN "ended" ELSE "list"]
  /\ Goes
Stopped == scan.at \in {"list", "read", "match"} /\ stop /\ scan' = [scan EXCEPT !.at = "stopped"] /\ Goes

Next ==
  \/ \E c \in Convs : Write(c) \/ ReadTranscript(c) \/ TranscriptFails(c)
  \/ Pause \/ Begin \/ DbQuery \/ DbMatch \/ DbEnd
  \/ ListPage \/ ListRepeats \/ ListThrows \/ AllRead \/ Match \/ NextPage \/ Stopped
  \/ scan.at \in {"ended", "full", "threw", "stopped"} /\ UNCHANGED scanVars
Spec == Init /\ [][Next]_scanVars

TypeOK == scan.at \in {"start", "query", "db", "list", "read", "match", "ended", "full", "threw", "stopped"}
          /\ scan.tries \in 1..MaxTries /\ stop \in BOOLEAN

Matched == {scan.matched[i] : i \in DOMAIN scan.matched}
\* What a scan can find: a message of the day in what it looks at, and no audit row.
Findable(c) ==
  /\ c \notin scan.touched /\ ~Audited(c)
  /\ IF scan.from = "db" THEN c \in saved /\ InDay(talk[c]) # <<>> ELSE InDay(Cut(talk[c], Preview)) # <<>>
\* A scan that ends by itself has found every conversation of the day nobody wrote in meanwhile, or,
\* with a limit, the newest of them: what it left out is older than all it took.  The exception are
\* conversations that stood on Graph's list on one page with the first one older than the day: fewer
\* than a page, and none of them newer than one it took.
FoundAll == scan.at = "ended" => \A c \in Convs : Findable(c) =>
  \/ c \in Matched
  \/ /\ \A d \in Matched : d \in scan.touched \/ updated[d] > updated[c]
     /\ \/ asked.cap > 0 /\ Len(scan.matched) = Room
        \/ c \in scan.dropped /\ Cardinality(scan.dropped) < PageSize
\* Moved to the top, repeated or found twice over, a conversation is scored once, none that has a row
\* is, and rows and new scores together stay within the limit.
MatchedOnce ==
  /\ Len(scan.matched) = Cardinality(Matched) /\ \A c \in Matched : ~Audited(c)
  /\ \/ asked.cap = 0 \/ Matched = {}
     \/ Cardinality(Matched) + Cardinality({c \in Convs : Audited(c)}) <= asked.cap
==============================================================================
