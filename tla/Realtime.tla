------------------------------- MODULE Realtime -------------------------------
(***************************************************************************)
(* Events for the browsers of staff                                        *)
(* (src/src/cskh/inbox/cskh-inbox-realtime.service.ts): a process emits    *)
(* its own events at once and those of the other process through Redis,    *)
(* which also echoes its own.  The events of one conversation are its      *)
(* messages (publishMessageRealtime) and the analyses of what the customer *)
(* wants (getCustomerIntent in cskh-inbox.service.ts), made by the worker  *)
(* for every message and by the API process when staff look.               *)
(***************************************************************************)
EXTENDS Integers, Sequences, SequencesExt

CONSTANTS
    MaxMessages,    \* bound: messages of the customer
    MaxEvents,      \* bound: events published
    EventFaults     \* subset of {"slow echo", "no redis", "analysis fails"}

Procs  == {"api", "worker"}
Intent == 0         \* the key of intent events; a message's event has its number

VARIABLES
    messages,       \* how many messages the conversation has
    events,         \* everything published: key, process, number of messages it is about
    channel,        \* events on their way through Redis to a process
    recent,         \* keys a process has emitted itself in the last 5 s
    emitted,        \* the events a process has emitted, in order
    intents,        \* intent jobs that wait for the worker
    cached,         \* intentCache: the number of messages of the cached analysis
    pending,        \* pendingIntentRequests of the API process
    analyses,       \* analyses in flight: who asked, of how many messages
    rtShown         \* the number of messages of the analysis staff see

realtimeVars == <<messages, events, channel, recent, emitted, intents, cached, pending, analyses, rtShown>>

---------------------------------------------------------------------------
Emit(p, e)      == emitted' = [emitted EXCEPT ![p] = Append(@, e)]
IntentShown(e)  == IF events'[e].key = Intent THEN events'[e].about ELSE rtShown

\* Mutant of PublishEvent: only what comes from Redis is noted as emitted.
PublishUnnoted(p, key, about) ==
    /\ Len(events) < MaxEvents
    /\ events' = Append(events, [key |-> key, from |-> p, about |-> about])
    /\ Emit(p, Len(events) + 1)
    /\ recent' = recent
    /\ rtShown' = IF p = "api" THEN IntentShown(Len(events) + 1) ELSE rtShown
    /\ \/ channel' = [q \in Procs |-> Append(channel[q], Len(events) + 1)]
       \/ "no redis" \in EventFaults /\ channel' = channel

\* publish: on this process at once, then to Redis if that works and its circuit is closed.
PublishEvent(p, key, about) ==
    /\ Len(events) < MaxEvents
    /\ events' = Append(events, [key |-> key, from |-> p, about |-> about])
    /\ Emit(p, Len(events) + 1)
    /\ recent' = [recent EXCEPT ![p] = @ \cup {key}]
    /\ rtShown' = IF p = "api" THEN IntentShown(Len(events) + 1) ELSE rtShown
    /\ \/ channel' = [q \in Procs |-> Append(channel[q], Len(events) + 1)]
       \/ "no redis" \in EventFaults /\ channel' = channel

\* An event from Redis is dropped if this process emitted its key within the last 5 s.
Receive(p) ==
    /\ channel[p] # <<>>
    /\ LET e == Head(channel[p])
       IN  IF events[e].key \in recent[p] THEN UNCHANGED <<emitted, rtShown>>
           ELSE /\ Emit(p, e)
                /\ rtShown' = IF p = "api" /\ events[e].key = Intent THEN events[e].about ELSE rtShown
    /\ channel' = [channel EXCEPT ![p] = Tail(@)]
    /\ UNCHANGED <<messages, events, recent, intents, cached, pending, analyses>>

\* Five seconds end; without "slow echo" no echo of the key is still on its way.
Forget(p, key) ==
    /\ key \in recent[p]
    /\ "slow echo" \in EventFaults \/ \A i \in DOMAIN channel[p] : events[channel[p][i]].key # key
    /\ recent' = [recent EXCEPT ![p] = @ \ {key}]
    /\ UNCHANGED <<messages, events, channel, emitted, intents, cached, pending, analyses, rtShown>>

---------------------------------------------------------------------------
\* A message of the customer is stored and published by the process that ingested it, which
\* then asks for an analysis.
PublishMessage(p) ==
    /\ messages < MaxMessages
    /\ messages' = messages + 1
    /\ PublishEvent(p, messages + 1, messages + 1)
    /\ intents' = intents + 1
    /\ UNCHANGED <<cached, pending, analyses>>

\* A sync stores a message older than two minutes: no event, no analysis.
StoreOld ==
    /\ messages < MaxMessages
    /\ messages' = messages + 1
    /\ UNCHANGED <<events, channel, recent, emitted, intents, cached, pending, analyses, rtShown>>

\* analyzeAndBroadcastIntent on the worker: a cached analysis of these messages is published
\* again, otherwise the AI is asked.
WorkerIntent ==
    /\ intents > 0 /\ \A a \in analyses : a.by # "worker"
    /\ intents' = intents - 1
    /\ IF cached["worker"] = messages
       THEN PublishEvent("worker", Intent, messages) /\ UNCHANGED analyses
       ELSE /\ analyses' = analyses \cup {[by |-> "worker", of |-> messages]}
            /\ UNCHANGED <<events, channel, recent, emitted, rtShown>>
    /\ UNCHANGED <<messages, cached, pending>>

\* getCustomerIntent for staff: the cached analysis, if it is of these messages; otherwise the
\* old one, and one analysis in the background.
AskIntent ==
    /\ messages > 0
    /\ IF cached["api"] = messages \/ pending
       THEN UNCHANGED <<pending, analyses>>
       ELSE pending' = TRUE /\ analyses' = analyses \cup {[by |-> "api", of |-> messages]}
    /\ rtShown' = IF cached["api"] > 0 THEN cached["api"] ELSE rtShown
    /\ UNCHANGED <<messages, events, channel, recent, emitted, intents, cached>>

\* The analysis is cached by its process under what it read, and published.
Analysed(a) ==
    /\ cached' = [cached EXCEPT ![a.by] = a.of]
    /\ PublishEvent(a.by, Intent, a.of)
    /\ pending' = (pending /\ a.by # "api")
    /\ analyses' = analyses \ {a}
    /\ UNCHANGED <<messages, intents>>

\* Mutant of AnalysisError: the mark goes only after a success.
AnalysisErrorMarked(a) ==
    /\ "analysis fails" \in EventFaults
    /\ analyses' = analyses \ {a}
    /\ UNCHANGED <<messages, events, channel, recent, emitted, intents, cached, pending, rtShown>>

AnalysisError(a) ==
    /\ "analysis fails" \in EventFaults
    /\ pending' = (pending /\ a.by # "api")
    /\ analyses' = analyses \ {a}
    /\ UNCHANGED <<messages, events, channel, recent, emitted, intents, cached, rtShown>>

---------------------------------------------------------------------------
Init ==
    /\ messages = 0 /\ events = <<>> /\ intents = 0
    /\ channel = [p \in Procs |-> <<>>]
    /\ recent = [p \in Procs |-> {}]
    /\ emitted = [p \in Procs |-> <<>>]
    /\ cached = [p \in Procs |-> 0]
    /\ pending = FALSE /\ analyses = {} /\ rtShown = 0

Next ==
    \/ \E p \in Procs : \/ PublishMessage(p) \/ Receive(p)
                        \/ \E key \in 0..MaxMessages : Forget(p, key)
    \/ StoreOld \/ WorkerIntent \/ AskIntent
    \/ \E a \in analyses : Analysed(a) \/ AnalysisError(a)

Spec == Init /\ [][Next]_realtimeVars

---------------------------------------------------------------------------
Times(p, e)  == Len(SelectSeq(emitted[p], LAMBDA x : x = e))
Delivered    == \A p \in Procs : channel[p] = <<>>

\* However echo and event of the other process interleave, a process emits its own event once
\* and another's at most once; it misses one of the other process only if it has one of the
\* same key.
EmittedOnce ==
    \A p \in Procs : \A e \in DOMAIN events :
        /\ Times(p, e) <= 1
        /\ events[e].from = p => Times(p, e) = 1
        /\ Delivered /\ Times(p, e) = 0 =>
              \E d \in DOMAIN events : events[d].from = p /\ events[d].key = events[e].key

\* The mark that keeps a second background analysis from starting is there while one runs, and
\* only then: an error of the AI does not leave it behind.
MarkedWhileAnalysed == pending <=> \E a \in analyses : a.by = "api"

\* Nothing is lost: both processes emit every event.
EmittedEverywhere == Delivered => \A p \in Procs : \A e \in DOMAIN events : Times(p, e) >= 1

\* Staff who see an analysis when everybody has finished see that of all messages.
IntentIsNewest == Delivered /\ analyses = {} /\ intents = 0 => rtShown \in {0, messages}

\* An event is never emitted after a newer one of its key.
EmittedInOrder ==
    \A p \in Procs : \A i, j \in DOMAIN emitted[p] :
        i < j /\ events[emitted[p][i]].key = events[emitted[p][j]].key => emitted[p][i] < emitted[p][j]
=============================================================================
