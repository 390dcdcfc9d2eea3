---------------------------- MODULE EventStream -----------------------------
(***************************************************************************)
(* From a job's row to the screen: Manager.publish, the event broker with  *)
(* its bounded history and channel, the SSE handler, and in the console    *)
(* useJobEvents (reconnect, Last-Event-ID, deduplication) and JobsPage     *)
(* (the query that is fetched again after a connection opens) with the     *)
(* rules of its QueryClient: what a fetch in flight, a failure, the cache  *)
(* and staleTime make of a request to fetch.                               *)
(*                                                                         *)
(* The jobs table is the row of one job and its content a number, its      *)
(* version; an event and a fetched list carry the version they show.       *)
(***************************************************************************)
EXTENDS Integers, Sequences, FiniteSets

CONSTANTS
    Window,       \* events the broker keeps, 1024
    Capacity,     \* of a subscriber's channel, 32
    MaxSeen,      \* identifiers the console remembers, 250
    MaxAttempts,  \* reconnections before polling, 4
    MaxVersion,   \* bound on the changes of the jobs table
    MaxBreaks,    \* bound on lost connections
    MaxFailures,  \* bound on failures of GET /jobs
    MaxRestarts   \* bound on restarts of the API

ASSUME StreamConstants ==
    /\ Window \in Nat \ {0} /\ Capacity \in Nat \ {0} /\ MaxSeen \in Nat \ {0}
    /\ MaxAttempts \in Nat /\ MaxVersion \in Nat
    /\ MaxBreaks \in Nat /\ MaxFailures \in Nat /\ MaxRestarts \in Nat

VARIABLES
    row,          \* version of the jobs table
    publishing,   \* UpdateJob is done and Publish is next
    eventID,      \* of the broker: the last identifier given
    history,      \* of the broker
    subscribed,   \* the SSE handler of the console's connection is registered
    channel,      \* of that handler
    wire,         \* what it wrote and the console has not read
    state,        \* connectionState of useJobEvents
    attempts,
    lastEventId,  \* also in sessionStorage; 0 for none
    seen,         \* the remembered identifiers, oldest first
    view,         \* version in the cache of the query, or no data
    fetch,        \* the query: idle, asked, or the version it was answered
    retried,      \* its one retry has been used
    got,          \* history: last identifier read on this connection
    dropped,      \* history: Publish found the channel full
    gap,          \* history: since the last fetch began the query lost a change
    breaks, failures, restarts

broker == <<eventID, history, subscribed, channel>>
console == <<state, attempts, lastEventId, seen>>
query == <<view, fetch, retried>>
bounds == <<breaks, failures, restarts>>
streamVars == <<row, publishing, broker, wire, console, query, got, dropped, gap, bounds>>

Event == [id : 1..MaxVersion, version : 0..MaxVersion]
Idle == -2
Asked == -1
NoData == -1

StreamTypeOK ==
    /\ row \in 0..MaxVersion /\ publishing \in BOOLEAN
    /\ eventID \in 0..MaxVersion
    /\ history \in Seq(Event)
    /\ Len(history) <= Window
    /\ subscribed \in BOOLEAN
    /\ channel \in Seq(Event)
    /\ Len(channel) <= Capacity
    /\ wire \in Seq(Event)
    /\ state \in {"connecting", "opening", "connected", "reconnecting", "fallback"}
    /\ attempts \in 0..(MaxAttempts + 1)
    /\ lastEventId \in 0..MaxVersion
    /\ seen \in Seq(1..MaxVersion) /\ Len(seen) <= MaxSeen
    /\ view \in NoData..MaxVersion /\ fetch \in Idle..MaxVersion /\ retried \in BOOLEAN
    /\ got \in 0..MaxVersion /\ dropped \in BOOLEAN /\ gap \in BOOLEAN
    /\ breaks \in 0..MaxBreaks /\ failures \in 0..MaxFailures /\ restarts \in 0..MaxRestarts

StreamInit ==
    /\ row = 0 /\ publishing = FALSE
    /\ eventID = 0 /\ history = <<>> /\ subscribed = FALSE /\ channel = <<>>
    /\ wire = <<>>
    /\ state = "connecting" /\ attempts = 0 /\ lastEventId = 0 /\ seen = <<>>
    /\ view = NoData /\ fetch = Asked /\ retried = FALSE
    /\ got = 0 /\ dropped = FALSE /\ gap = FALSE
    /\ breaks = 0 /\ failures = 0 /\ restarts = 0

-----------------------------------------------------------------------------
(***************************************************************************)
(* The API: job manager, broker, SSE handler.                              *)
(***************************************************************************)
UpdateJob ==
    /\ ~publishing /\ row < MaxVersion
    /\ row' = row + 1
    /\ publishing' = TRUE
    /\ UNCHANGED <<broker, wire, console, query, got, dropped, gap, bounds>>

\* (mutation: the slice keeps one event less)
TrimmedShort(s) == IF Len(s) > Window THEN SubSeq(s, Len(s) - Window + 2, Len(s)) ELSE s

Trimmed(s) == IF Len(s) > Window THEN SubSeq(s, Len(s) - Window + 1, Len(s)) ELSE s

Publish ==
    /\ publishing /\ publishing' = FALSE
    /\ eventID' = eventID + 1
    /\ LET e == [id |-> eventID + 1, version |-> row]
           fits == subscribed /\ Len(channel) < Capacity
       IN  /\ history' = Trimmed(Append(history, e))
           /\ channel' = IF fits THEN Append(channel, e) ELSE channel
           /\ dropped' = (dropped \/ (subscribed /\ ~fits))
    /\ UNCHANGED <<row, subscribed, wire, console, query, got, gap, bounds>>

\* The elements of s at these positions, in their order.
Picked(s, positions) ==
    [n \in 1..Cardinality(positions) |->
        s[CHOOSE i \in positions : Cardinality({j \in positions : j <= i}) = n]]

EventsAfter(last) ==
    IF last = 0 THEN <<>> ELSE Picked(history, {i \in DOMAIN history : history[i].id > last})

\* The identifier after which a stream that starts now is complete: the one
\* asked for, as far as the window reaches back and the identifiers go.
Base(last) ==
    IF last = 0 \/ last >= eventID THEN eventID
    ELSE IF last >= eventID - Window THEN last ELSE eventID - Window

\* A new EventSource reaches Server.events: SubscribeAfter registers the
\* channel and copies the history under one lock, and the copy is written first.
Connect ==
    /\ state \in {"connecting", "reconnecting"}
    /\ subscribed' = TRUE /\ channel' = <<>>
    /\ wire' = EventsAfter(lastEventId)
    /\ got' = Base(lastEventId)
    /\ dropped' = FALSE
    /\ state' = "opening"
    /\ UNCHANGED <<row, publishing, eventID, history, attempts, lastEventId, seen, query, gap, bounds>>

\* The loop of Server.events writes the next event.
Forward ==
    /\ subscribed /\ channel # <<>>
    /\ wire' = Append(wire, Head(channel))
    /\ channel' = Tail(channel)
    /\ UNCHANGED <<row, publishing, eventID, history, subscribed, console, query, got, dropped, gap, bounds>>

-----------------------------------------------------------------------------
(***************************************************************************)
(* The console.                                                            *)
(***************************************************************************)

\* (mutation: an open connection is taken for an up-to-date screen)
OpenWithoutFetch ==
    /\ state = "opening"
    /\ state' = "connected"
    /\ UNCHANGED <<row, publishing, broker, wire, attempts, lastEventId, seen, query, got, dropped, gap, bounds>>

\* The query is fetched, for a request that cancels a fetch in flight.  It
\* cancels none while there is no data: the load in flight goes on, and what it
\* was answered may be older than the connection.
Refetch ==
    IF view = NoData /\ fetch # Idle
    THEN /\ gap' = (gap \/ fetch # Asked)
         /\ UNCHANGED <<fetch, retried>>
    ELSE fetch' = Asked /\ retried' = FALSE /\ gap' = FALSE

\* onopen, and the effect of JobsPage that invalidates the query.
Open ==
    /\ state = "opening"
    /\ state' = "connected"
    /\ Refetch
    /\ UNCHANGED <<row, publishing, broker, wire, attempts, lastEventId, seen, view, got, dropped, bounds>>

Remembered(id) ==
    LET longer == Append(seen, id)
    IN  IF Len(longer) > MaxSeen THEN Tail(longer) ELSE longer

Known(id) == \E i \in DOMAIN seen : seen[i] = id

\* handleEvent, with upsertJob as its callback.
HandleEvent ==
    /\ state = "connected" /\ wire # <<>>
    /\ LET e == Head(wire)
       IN  /\ wire' = Tail(wire)
           /\ got' = e.id
           /\ IF Known(e.id)
                THEN UNCHANGED <<seen, lastEventId, view>>
                ELSE /\ seen' = Remembered(e.id)
                     /\ lastEventId' = e.id
                     /\ view' = e.version
    /\ UNCHANGED <<row, publishing, broker, state, attempts, fetch, retried, dropped, gap, bounds>>

\* GET /jobs is answered, and later its answer replaces the list on the screen.
FetchAnswered ==
    /\ fetch = Asked
    /\ fetch' = row
    /\ UNCHANGED <<row, publishing, broker, wire, console, view, retried, got, dropped, gap, bounds>>

FetchShown ==
    /\ fetch \in 0..MaxVersion
    /\ view' = fetch
    /\ gap' = (gap \/ fetch < view)
    /\ fetch' = Idle
    /\ UNCHANGED <<row, publishing, broker, wire, console, retried, got, dropped, bounds>>

\* GET /jobs fails: it is tried once more, and then the error is shown until
\* an event or a later fetch brings data, or brings back the old list.
FetchFails ==
    /\ fetch = Asked
    /\ failures < MaxFailures /\ failures' = failures + 1
    /\ retried' = ~retried
    /\ IF retried THEN fetch' = Idle /\ gap' = TRUE
                  ELSE UNCHANGED <<fetch, gap>>
    /\ UNCHANGED <<row, publishing, broker, wire, console, view, got, dropped, breaks, restarts>>

\* refetchInterval, while shouldPoll.
Poll ==
    /\ state = "fallback" /\ fetch = Idle
    /\ fetch' = Asked /\ retried' = FALSE /\ gap' = FALSE
    /\ UNCHANGED <<row, publishing, broker, wire, console, view, got, dropped, bounds>>

\* The connection stayed open for STABLE_CONNECTION_MS.
Stable ==
    /\ state = "connected" /\ attempts > 0
    /\ attempts' = 0
    /\ UNCHANGED <<row, publishing, broker, wire, state, lastEventId, seen, query, got, dropped, gap, bounds>>

\* onerror and scheduleReconnect; the server unsubscribes the connection.
Disconnected ==
    /\ attempts' = attempts + 1
    /\ state' = IF attempts + 1 > MaxAttempts THEN "fallback" ELSE "reconnecting"
    /\ wire' = <<>> /\ subscribed' = FALSE /\ channel' = <<>>

\* A connection is lost or cannot be made.
Break ==
    /\ state # "fallback"
    /\ breaks < MaxBreaks /\ breaks' = breaks + 1
    /\ Disconnected
    /\ UNCHANGED <<row, publishing, eventID, history, lastEventId, seen, query, got, dropped, gap, failures, restarts>>

\* The page is left and opened again.  The stored identifier survives, and so
\* does the cached list until it is collected; a fetch in flight goes on, and a
\* new one begins unless the list is younger than staleTime.
Remount ==
    /\ breaks < MaxBreaks /\ breaks' = breaks + 1
    /\ state' = "connecting" /\ attempts' = 0 /\ seen' = <<>>
    /\ wire' = <<>> /\ subscribed' = FALSE /\ channel' = <<>>
    /\ \/ fetch # Idle /\ UNCHANGED <<query, gap>>
       \/ fetch = Idle /\ view # NoData /\ UNCHANGED <<query, gap>>
       \/ /\ fetch = Idle
          /\ view' \in {view, NoData}
          /\ fetch' = Asked /\ retried' = FALSE /\ gap' = FALSE
    /\ UNCHANGED <<row, publishing, eventID, history, lastEventId, got, dropped, failures, restarts>>

\* The API restarts: the broker is new, the jobs table is not, and an event
\* that was about to be published is gone.
RestartAPI ==
    /\ restarts < MaxRestarts /\ restarts' = restarts + 1
    /\ eventID' = 0 /\ history' = <<>>
    /\ publishing' = FALSE
    /\ IF state = "fallback"
         THEN UNCHANGED <<subscribed, channel, wire, state, attempts>>
         ELSE Disconnected
    /\ UNCHANGED <<row, lastEventId, seen, query, got, dropped, gap, breaks, failures>>

StreamNext ==
    \/ UpdateJob \/ Publish \/ Forward
    \/ Connect \/ Open \/ HandleEvent \/ Stable
    \/ FetchAnswered \/ FetchShown \/ FetchFails \/ Poll
    \/ Break \/ Remount \/ RestartAPI

StreamSpec == StreamInit /\ [][StreamNext]_streamVars

\* Goroutines, timers, the network and the browser go on; jobs need not.
Fairness ==
    /\ WF_streamVars(Publish) /\ WF_streamVars(Forward) /\ WF_streamVars(Connect) /\ WF_streamVars(Open)
    /\ WF_streamVars(HandleEvent) /\ WF_streamVars(FetchAnswered) /\ WF_streamVars(FetchShown) /\ WF_streamVars(Poll)

FairStreamSpec == StreamSpec /\ Fairness

-----------------------------------------------------------------------------
(***************************************************************************)
(* Properties.                                                             *)
(***************************************************************************)
Ids(s) == [i \in DOMAIN s |-> s[i].id]

\* A connection is a stream without gap or repetition: what the console has
\* yet to read on it are exactly the events after the last one it read, from
\* where the window of the broker begins, unless its channel was full
\* (SubscribeAfter, Publish, Server.events).
GapFree ==
    subscribed /\ ~dropped =>
        Ids(wire \o channel) = [i \in 1..(eventID - got) |-> got + i]

\* The screen is brought up to date again and again, across lost connections
\* and events that fell out of the window (docs/frontend-integration.md, on
\* recovering the state after a reconnection).  The code leaves exceptions
\* open.  Until the next fetch begins: a fetched list that replaces a newer
\* version which came by event, a fetch that failed twice, and a first load,
\* answered before the connection was open, that the opening does not start
\* again.  Until the next connection: an event dropped at a full channel, which
\* also leaves older events behind it.  And a restart, after which new
\* identifiers are taken for repetitions.  A console that has given up on the
\* stream is brought up to date by polling whatever happened before (JobsPage,
\* shouldPoll).
ScreenCatchesUp ==
    /\ []<>(view = row \/ gap \/ dropped \/ restarts > 0)
    /\ state = "fallback" ~> (view = row \/ state # "fallback")
=============================================================================
