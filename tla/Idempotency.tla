---------------------------- MODULE Idempotency ----------------------------
(***************************************************************************)
(* Server.withIdempotency: the wrapper of every mutating handler.  Under   *)
(* idemMu it looks the key up, reserves it, runs the handler against a     *)
(* buffered response and stores that response with the reservation.        *)
(*                                                                         *)
(* A request is one delivery: a retry of the client is another request     *)
(* with the same key, actor and body.  The response a handler produced is  *)
(* named by the request that ran it.                                       *)
(***************************************************************************)
EXTENDS Integers

CONSTANTS
    Requests,
    NoRequest,
    Keys,       \* values of the header Idempotency-Key
    Actors,     \* users
    Bodies,     \* what fullHash tells apart: method, path, query and body
    NoBody,
    TTL,        \* life of a reservation, 24 hours
    MaxTime,    \* bound on the clock
    MaxFaults   \* bound on crashes, panics and failed statements

ASSUME IdempotencyConstants ==
    /\ NoRequest \notin Requests
    /\ NoBody \notin Bodies
    /\ TTL \in Nat \ {0}
    /\ MaxTime \in Nat
    /\ MaxFaults \in Nat

Slots == Keys \X Actors

VARIABLES
    hash,       \* idempotency_keys: request_hash, NoBody where there is no row,
    response,   \* the stored response, NoRequest while the row is pending,
    expires,    \* and expires_at
    slot, body, \* of every request that arrived
    pc,         \* control point of the handler of a request
    until,      \* IdempotencyRecord.ExpiresAt of the request's reservation
    mutex,      \* the holder of idemMu
    told,       \* what the client of a request was told
    result,     \* and with whose response
    effect,     \* history: the requests whose handler changed something
    now,
    faults

rowVars == <<hash, response, expires>>
requestVars == <<slot, body>>
answerVars == <<told, result>>
vars == <<rowVars, requestVars, pc, until, mutex, answerVars, effect, now, faults>>

Told == {"nothing", "fresh", "replayed", "conflict", "in_progress",
         "unavailable", "error", "timeout", "lost"}

ControlPoints == {"idle", "waiting", "purge", "insert", "handling",
                  "complete", "release", "done"}

TypeOK ==
    /\ hash \in [Slots -> Bodies \cup {NoBody}]
    /\ response \in [Slots -> Requests \cup {NoRequest}]
    /\ expires \in [Slots -> 0..(MaxTime + TTL)]
    /\ slot \in [Requests -> Slots]
    /\ body \in [Requests -> Bodies]
    /\ pc \in [Requests -> ControlPoints]
    /\ until \in [Requests -> 0..(MaxTime + TTL)]
    /\ mutex \in Requests \cup {NoRequest}
    /\ told \in [Requests -> Told]
    /\ result \in [Requests -> Requests \cup {NoRequest}]
    /\ effect \subseteq Requests
    /\ now \in 0..MaxTime
    /\ faults \in 0..MaxFaults

Init ==
    /\ hash = [s \in Slots |-> NoBody]
    /\ response = [s \in Slots |-> NoRequest]
    /\ expires = [s \in Slots |-> 0]
    /\ slot \in [Requests -> Slots]
    /\ body \in [Requests -> Bodies]
    /\ pc = [r \in Requests |-> "idle"]
    /\ until = [r \in Requests |-> 0]
    /\ mutex = NoRequest
    /\ told = [r \in Requests |-> "nothing"]
    /\ result = [r \in Requests |-> NoRequest]
    /\ effect = {}
    /\ now = 0
    /\ faults = 0

-----------------------------------------------------------------------------
(***************************************************************************)
(* Answers.  http.TimeoutHandler answers for a handler that is late and    *)
(* drops what it writes afterwards; the handler itself goes on.            *)
(***************************************************************************)
Tell(r, what, whose) ==
    IF told[r] = "nothing"
      THEN /\ told' = [told EXCEPT ![r] = what]
           /\ result' = [result EXCEPT ![r] = whose]
      ELSE UNCHANGED answerVars

\* The handler returns: its answer is written and idemMu is unlocked.
Return(r, what, whose) ==
    /\ Tell(r, what, whose)
    /\ pc' = [pc EXCEPT ![r] = "done"]
    /\ mutex' = NoRequest

Fault ==
    /\ faults < MaxFaults
    /\ faults' = faults + 1

Timeout(r) ==
    /\ pc[r] \notin {"idle", "done"}
    /\ told[r] = "nothing"
    /\ Tell(r, "timeout", NoRequest)
    /\ UNCHANGED <<rowVars, requestVars, pc, until, mutex, effect, now, faults>>

-----------------------------------------------------------------------------
(***************************************************************************)
(* withIdempotency.                                                        *)
(***************************************************************************)

\* The key is well formed and the body was read.
Arrive(r) ==
    /\ pc[r] = "idle"
    /\ pc' = [pc EXCEPT ![r] = "waiting"]
    /\ UNCHANGED <<rowVars, requestVars, until, mutex, answerVars, effect, now, faults>>

\* A row that GetIdempotency returns.
Live(s) == hash[s] # NoBody /\ expires[s] > now

\* (mutation: the stored hash is not compared)
RecordedAnyBody(r, what, whose) ==
    /\ whose = response[slot[r]]
    /\ what = IF response[slot[r]] = NoRequest THEN "in_progress" ELSE "replayed"

\* writeIdempotencyRecord
Recorded(r, what, whose) ==
    \/ /\ hash[slot[r]] # body[r]
       /\ what = "conflict" /\ whose = NoRequest
    \/ /\ hash[slot[r]] = body[r] /\ response[slot[r]] = NoRequest
       /\ what = "in_progress" /\ whose = NoRequest
    \/ /\ hash[slot[r]] = body[r] /\ response[slot[r]] # NoRequest
       /\ what = "replayed" /\ whose = response[slot[r]]

\* (mutation: idemMu is not unlocked on this return)
LookupFoundKeepsLock(r) ==
    /\ pc[r] = "waiting" /\ mutex = NoRequest
    /\ Live(slot[r])
    /\ \E what \in Told, whose \in Requests \cup {NoRequest} :
          Recorded(r, what, whose) /\ Tell(r, what, whose)
    /\ pc' = [pc EXCEPT ![r] = "done"]
    /\ mutex' = r
    /\ UNCHANGED <<rowVars, requestVars, until, effect, now, faults>>

\* idemMu.Lock and GetIdempotency.
LookupFound(r) ==
    /\ pc[r] = "waiting" /\ mutex = NoRequest
    /\ Live(slot[r])
    /\ \E what \in Told, whose \in Requests \cup {NoRequest} :
          Recorded(r, what, whose) /\ Return(r, what, whose)
    /\ UNCHANGED <<rowVars, requestVars, until, effect, now, faults>>

LookupNoRows(r) ==
    /\ pc[r] = "waiting" /\ mutex = NoRequest
    /\ ~Live(slot[r])
    /\ mutex' = r
    /\ until' = [until EXCEPT ![r] = now + TTL]
    /\ pc' = [pc EXCEPT ![r] = "purge"]
    /\ UNCHANGED <<rowVars, requestVars, answerVars, effect, now, faults>>

LookupFails(r) ==
    /\ pc[r] = "waiting" /\ mutex = NoRequest
    /\ Fault
    /\ Return(r, "unavailable", NoRequest)
    /\ UNCHANGED <<rowVars, requestVars, until, effect, now>>

Delete(s) ==
    /\ hash' = [hash EXCEPT ![s] = NoBody]
    /\ response' = [response EXCEPT ![s] = NoRequest]
    /\ expires' = [expires EXCEPT ![s] = 0]

\* ReserveIdempotency: the DELETE of an expired row, then the INSERT.
ReservePurge(r) ==
    /\ pc[r] = "purge"
    /\ IF expires[slot[r]] <= now THEN Delete(slot[r]) ELSE UNCHANGED rowVars
    /\ pc' = [pc EXCEPT ![r] = "insert"]
    /\ UNCHANGED <<requestVars, until, mutex, answerVars, effect, now, faults>>

ReserveInsert(r) ==
    /\ pc[r] = "insert"
    /\ hash[slot[r]] = NoBody
    /\ hash' = [hash EXCEPT ![slot[r]] = body[r]]
    /\ response' = [response EXCEPT ![slot[r]] = NoRequest]
    /\ expires' = [expires EXCEPT ![slot[r]] = until[r]]
    /\ pc' = [pc EXCEPT ![r] = "handling"]
    /\ UNCHANGED <<requestVars, until, mutex, answerVars, effect, now, faults>>

\* Either statement fails (the INSERT also on a row that is there).
ReserveFails(r) ==
    /\ pc[r] \in {"purge", "insert"}
    /\ Fault
    /\ Return(r, "conflict", NoRequest)
    /\ UNCHANGED <<rowVars, requestVars, until, effect, now>>

\* next: a response below 500 for work that was done ...
HandlerAccepts(r) ==
    /\ pc[r] = "handling"
    /\ effect' = effect \cup {r}
    /\ pc' = [pc EXCEPT ![r] = "complete"]
    /\ UNCHANGED <<rowVars, requestVars, until, mutex, answerVars, now, faults>>

\* ... or refused,
HandlerRefuses(r) ==
    /\ pc[r] = "handling"
    /\ pc' = [pc EXCEPT ![r] = "complete"]
    /\ UNCHANGED <<rowVars, requestVars, until, mutex, answerVars, effect, now, faults>>

\* a response of 500 or more, which every handler gives before its effect,
HandlerErrors(r) ==
    /\ pc[r] = "handling"
    /\ pc' = [pc EXCEPT ![r] = "release"]
    /\ UNCHANGED <<rowVars, requestVars, until, mutex, answerVars, effect, now, faults>>

\* or a panic, which Recover turns into a 500 after the deferred Unlock.
HandlerPanics(r) ==
    /\ pc[r] = "handling"
    /\ Fault
    /\ effect' \in {effect, effect \cup {r}}
    /\ Return(r, "error", NoRequest)
    /\ UNCHANGED <<rowVars, requestVars, until, now>>

\* The row that CompleteIdempotency and DeletePendingIdempotency address.
Pending(r) ==
    /\ hash[slot[r]] = body[r]
    /\ response[slot[r]] = NoRequest

Complete(r) ==
    /\ pc[r] = "complete"
    /\ Pending(r)
    /\ response' = [response EXCEPT ![slot[r]] = r]
    /\ Return(r, "fresh", r)
    /\ UNCHANGED <<hash, expires, requestVars, until, effect, now, faults>>

\* (mutation: the reservation is given up as well)
CompleteFailsReleases(r) ==
    /\ pc[r] = "complete"
    /\ Fault
    /\ Delete(slot[r])
    /\ Return(r, "unavailable", NoRequest)
    /\ UNCHANGED <<requestVars, until, effect, now>>

CompleteFails(r) ==
    /\ pc[r] = "complete"
    /\ Fault
    /\ Return(r, "unavailable", NoRequest)
    /\ UNCHANGED <<rowVars, requestVars, until, effect, now>>

\* DeletePendingIdempotency; its error is ignored.
Release(r) ==
    /\ pc[r] = "release"
    /\ IF Pending(r) THEN Delete(slot[r]) ELSE UNCHANGED rowVars
    /\ Return(r, "error", r)
    /\ UNCHANGED <<requestVars, until, effect, now, faults>>

ReleaseFails(r) ==
    /\ pc[r] = "release"
    /\ Fault
    /\ Return(r, "error", r)
    /\ UNCHANGED <<rowVars, requestVars, until, effect, now>>

Handler(r) ==
    \/ LookupFound(r) \/ LookupNoRows(r) \/ LookupFails(r)
    \/ ReservePurge(r) \/ ReserveInsert(r) \/ ReserveFails(r)
    \/ HandlerAccepts(r) \/ HandlerRefuses(r) \/ HandlerErrors(r) \/ HandlerPanics(r)
    \/ Complete(r) \/ CompleteFails(r)
    \/ Release(r) \/ ReleaseFails(r)

-----------------------------------------------------------------------------
\* The process stops and starts again: goroutines and idemMu are gone.
Restart ==
    /\ Fault
    /\ pc' = [r \in Requests |-> IF pc[r] = "idle" THEN "idle" ELSE "done"]
    /\ told' = [r \in Requests |->
                  IF pc[r] \notin {"idle", "done"} /\ told[r] = "nothing"
                    THEN "lost" ELSE told[r]]
    /\ mutex' = NoRequest
    /\ UNCHANGED <<rowVars, requestVars, until, result, effect, now>>

Tick ==
    /\ now < MaxTime
    /\ now' = now + 1
    /\ UNCHANGED <<rowVars, requestVars, pc, until, mutex, answerVars, effect, faults>>

Next ==
    \/ \E r \in Requests : Arrive(r) \/ Handler(r) \/ Timeout(r)
    \/ Restart
    \/ Tick

Spec == Init /\ [][Next]_vars

\* Goroutines run, statements return, and sync.Mutex starves nobody.
Fairness == \A r \in Requests : WF_vars(Handler(r))

FairSpec == Spec /\ Fairness

-----------------------------------------------------------------------------
(***************************************************************************)
(* Properties.                                                             *)
(***************************************************************************)

\* Of two requests with one key and actor, both of which changed something,
\* the second reserved the key only after the first reservation had run out:
\* whatever crashed, panicked or failed after the effect of a handler
\* (withIdempotency), a retry does not repeat it.
OneEffectPerKey ==
    \A q, r \in effect :
        q # r /\ slot[q] = slot[r] =>
            \/ until[q] + TTL <= until[r]
            \/ until[r] + TTL <= until[q]

\* A replayed response was produced for the same actor, key and content
\* (writeIdempotencyRecord), and a client that saw the result of its request
\* will see it again, also after a crash, until the reservation runs out: the
\* response is buffered and stored before it is sent (CompleteIdempotency).
ReplayIsOriginal ==
    \A r \in Requests :
        /\ told[r] = "replayed" =>
              /\ slot[result[r]] = slot[r]
              /\ body[result[r]] = body[r]
              /\ told[result[r]] # "error"
        /\ told[r] = "fresh" /\ now < until[r] => response[slot[r]] = r

\* Time and again nobody is left waiting, so every request is answered: no
\* path out of withIdempotency keeps idemMu, also when a statement fails.
RequestsAnswered ==
    []<>(\A r \in Requests : pc[r] # "idle" => told[r] # "nothing")
=============================================================================
