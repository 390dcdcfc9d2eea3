---------------------------- MODULE AgentServer ----------------------------
(***************************************************************************)
(* The request path of the privileged agent: the timestamp check of        *)
(* VerifyWithKeyRing, the semaphore of Server.handle, the NonceStore with  *)
(* its file, and a restart of the agent.                                   *)
(*                                                                         *)
(* A signed request may be delivered any number of times, early or late    *)
(* and concurrently; each delivery has a handler goroutine.  The time read *)
(* for NonceStore.Use is read before its mutex is taken, so it lies        *)
(* anywhere between the verification and the moment the store is updated.  *)
(* The other checks of the handler (envelope, signature, operation,        *)
(* version, capability, payload, mutation) refuse without changing state.  *)
(***************************************************************************)
EXTENDS Integers, FiniteSets

CONSTANTS
    Requests,       \* signed requests, each with a nonce of its own
    NoRequest,
    Handlers,       \* goroutines of the HTTP server
    MaxClockSkew,   \* ServerOptions.MaxClockSkew
    NonceTTL,       \* ServerOptions.NonceTTL
    MaxEntries,     \* ServerOptions.NonceCacheLimit
    MaxConcurrent,  \* ServerOptions.MaxConcurrent
    HandleTime,     \* bound on the time from the verification to Use
    MaxTime,        \* bound on the clock
    MaxFaults       \* bound on restarts and failed writes of the nonce file

ASSUME AgentConstants ==
    /\ NoRequest \notin Requests
    /\ IsFiniteSet(Requests)
    /\ IsFiniteSet(Handlers)
    /\ MaxClockSkew \in Nat \ {0}
    /\ NonceTTL \in Nat
    /\ MaxEntries \in Nat
    /\ MaxConcurrent \in Nat \ {0}
    /\ HandleTime \in Nat
    /\ MaxTime \in Nat
    /\ MaxFaults \in Nat

VARIABLES
    stamp,      \* Request.Timestamp of every signed request
    entries,    \* NonceStore.entries: expiry of every nonce, 0 without entry
    file,       \* the entries in the nonce file
    pc,         \* control point of every handler
    request,    \* the request a handler works on
    verified,   \* when the handler verified the timestamp
    slots,      \* tokens in Server.semaphore
    executed,   \* how often the executor was started for a request
    evicted,    \* requests whose live nonce a full store has dropped
    now,        \* the agent's clock
    faults      \* restarts and failed writes so far

storeVars   == <<entries, file>>
handlerVars == <<pc, request, verified, slots>>
vars == <<stamp, storeVars, handlerVars, executed, evicted, now, faults>>

ControlPoints == {"idle", "verified", "admitted", "executing"}

TypeOK ==
    /\ stamp \in [Requests -> 0..MaxTime]
    /\ entries \in [Requests -> Nat]
    /\ file \in [Requests -> Nat]
    /\ pc \in [Handlers -> ControlPoints]
    /\ request \in [Handlers -> Requests \cup {NoRequest}]
    /\ verified \in [Handlers -> 0..MaxTime]
    /\ slots \in Nat
    /\ executed \in [Requests -> 0..2]
    /\ evicted \in SUBSET Requests
    /\ now \in 0..MaxTime
    /\ faults \in 0..MaxFaults

Init ==
    /\ stamp \in [Requests -> 0..MaxTime]
    /\ entries = [m \in Requests |-> 0]
    /\ file = [m \in Requests |-> 0]
    /\ pc = [h \in Handlers |-> "idle"]
    /\ request = [h \in Handlers |-> NoRequest]
    /\ verified = [h \in Handlers |-> 0]
    /\ slots = 0
    /\ executed = [m \in Requests |-> 0]
    /\ evicted = {}
    /\ now = 0
    /\ faults = 0

-----------------------------------------------------------------------------
(***************************************************************************)
(* NonceStore.                                                             *)
(***************************************************************************)
Known(store) == {m \in Requests : store[m] # 0}

\* purgeLocked: an entry lives while its expiry is after t.
Purged(store, t) ==
    [m \in Requests |-> IF store[m] > t THEN store[m] ELSE 0]

\* (mutation: trimLocked is not called)
TrimmedNever(store) == {store}

\* trimLocked: beyond the limit the entries that expire first are deleted;
\* the sort does not order equal expiries.
Trimmed(store) ==
    IF Cardinality(Known(store)) <= MaxEntries THEN {store}
    ELSE {[m \in Requests |-> IF m \in kept THEN store[m] ELSE 0] :
             kept \in {k \in SUBSET Known(store) :
                /\ Cardinality(k) = MaxEntries
                /\ \A m \in k, n \in Known(store) \ k : store[n] <= store[m]}}

-----------------------------------------------------------------------------
(***************************************************************************)
(* Server.handle.                                                          *)
(***************************************************************************)

\* The timestamp check of VerifyWithKeyRing.
InWindow(m) == now - MaxClockSkew <= stamp[m] /\ stamp[m] <= now + MaxClockSkew

Verify(h, m) ==
    /\ pc[h] = "idle"
    /\ InWindow(m)
    /\ pc' = [pc EXCEPT ![h] = "verified"]
    /\ request' = [request EXCEPT ![h] = m]
    /\ verified' = [verified EXCEPT ![h] = now]
    /\ UNCHANGED <<stamp, storeVars, slots, executed, evicted, now, faults>>

\* The handler answers: its goroutine and its slot are free again.
Leaves(h, held) ==
    /\ pc' = [pc EXCEPT ![h] = "idle"]
    /\ request' = [request EXCEPT ![h] = NoRequest]
    /\ verified' = [verified EXCEPT ![h] = 0]
    /\ slots' = IF held THEN slots - 1 ELSE slots

\* One of the checks between the verification and the semaphore refuses.
Refuse(h) ==
    /\ pc[h] = "verified"
    /\ Leaves(h, FALSE)
    /\ UNCHANGED <<stamp, storeVars, executed, evicted, now, faults>>

\* (mutation: one token too many)
AdmitOneMore(h) ==
    /\ pc[h] = "verified"
    /\ slots <= MaxConcurrent
    /\ slots' = slots + 1
    /\ pc' = [pc EXCEPT ![h] = "admitted"]
    /\ UNCHANGED <<stamp, storeVars, request, verified, executed, evicted, now,
                   faults>>

\* The non-blocking send to the semaphore.
Admit(h) ==
    /\ pc[h] = "verified"
    /\ slots < MaxConcurrent
    /\ slots' = slots + 1
    /\ pc' = [pc EXCEPT ![h] = "admitted"]
    /\ UNCHANGED <<stamp, storeVars, request, verified, executed, evicted, now,
                   faults>>

\* The history counter tells no, one and several executions apart.
CountUpToTwo(n) == IF n < 2 THEN n + 1 ELSE n

\* (mutation: the file is written after the execution)
UseBeforePersist(h, t) ==
    LET m == request[h]
        purged == Purged(entries, t)
        added  == [purged EXCEPT ![m] = t + NonceTTL]
    IN  /\ pc[h] = "admitted"
        /\ purged[m] = 0
        /\ entries' \in Trimmed(added)
        /\ evicted' = evicted \cup (Known(added) \ Known(entries'))
        /\ executed' = [executed EXCEPT ![m] = CountUpToTwo(@)]
        /\ pc' = [pc EXCEPT ![h] = "executing"]
        /\ UNCHANGED <<stamp, file, request, verified, slots, now, faults>>

\* NonceStore.Use with a new nonce: purge, insert, trim and persist under the
\* mutex; then the executor starts.
Use(h, t) ==
    LET m == request[h]
        purged == Purged(entries, t)
        added  == [purged EXCEPT ![m] = t + NonceTTL]
    IN  /\ pc[h] = "admitted"
        /\ purged[m] = 0
        /\ entries' \in Trimmed(added)
        /\ evicted' = evicted \cup (Known(added) \ Known(entries'))
        /\ file' = entries'
        /\ executed' = [executed EXCEPT ![m] = CountUpToTwo(@)]
        /\ pc' = [pc EXCEPT ![h] = "executing"]
        /\ UNCHANGED <<stamp, request, verified, slots, now, faults>>

\* A nonce that is there: purged in memory only, the request is refused.
UseReplay(h, t) ==
    /\ pc[h] = "admitted"
    /\ Purged(entries, t)[request[h]] # 0
    /\ entries' = Purged(entries, t)
    /\ Leaves(h, TRUE)
    /\ UNCHANGED <<stamp, file, executed, evicted, now, faults>>

\* persistLocked fails: the entries before the call are put back and the
\* request is refused.
UsePersistFails(h, t) ==
    /\ pc[h] = "admitted"
    /\ Purged(entries, t)[request[h]] = 0
    /\ faults < MaxFaults
    /\ faults' = faults + 1
    /\ Leaves(h, TRUE)
    /\ UNCHANGED <<stamp, storeVars, executed, evicted, now>>

\* The executor returned, with a result, an error or its timeout.
Finish(h) ==
    /\ pc[h] = "executing"
    /\ Leaves(h, TRUE)
    /\ UNCHANGED <<stamp, storeVars, executed, evicted, now, faults>>

-----------------------------------------------------------------------------
\* Time passes while every handler reaches the store within HandleTime.
Tick ==
    /\ now < MaxTime
    /\ \A h \in Handlers : pc[h] \in {"verified", "admitted"} =>
          now < verified[h] + HandleTime
    /\ now' = now + 1
    /\ UNCHANGED <<stamp, storeVars, handlerVars, executed, evicted, faults>>

\* The agent dies and starts again: NewNonceStore loads the file, refusing one
\* with more than MaxEntries, purges it and writes it back.
Restart ==
    /\ faults < MaxFaults
    /\ faults' = faults + 1
    /\ Cardinality(Known(file)) <= MaxEntries
    /\ entries' = Purged(file, now)
    /\ file' = entries'
    /\ pc' = [h \in Handlers |-> "idle"]
    /\ request' = [h \in Handlers |-> NoRequest]
    /\ verified' = [h \in Handlers |-> 0]
    /\ slots' = 0
    /\ UNCHANGED <<stamp, executed, evicted, now>>

-----------------------------------------------------------------------------
Handle(h) ==
    \/ \E m \in Requests : Verify(h, m)
    \/ Refuse(h)
    \/ Admit(h)
    \/ \E t \in verified[h]..now :
          Use(h, t) \/ UseReplay(h, t) \/ UsePersistFails(h, t)
    \/ Finish(h)

Next ==
    \/ \E h \in Handlers : Handle(h)
    \/ Tick
    \/ Restart

Spec == Init /\ [][Next]_vars

-----------------------------------------------------------------------------
(***************************************************************************)
(* Properties.                                                             *)
(***************************************************************************)

\* However often, early, late or concurrently a request is delivered, and
\* across restarts of the agent, it is executed at most once, unless the
\* store was full of live nonces and gave up the one of this request.
AtMostOnce == \A m \in Requests \ evicted : executed[m] <= 1

Holders == {h \in Handlers : pc[h] \in {"admitted", "executing"}}

\* Never more executions at a time than the semaphore has room for, and every
\* path through the handler gives its token back.
SlotsAccounted ==
    /\ Cardinality({h \in Handlers : pc[h] = "executing"}) <= MaxConcurrent
    /\ slots = Cardinality(Holders)

\* The file the agent wrote is one it accepts at its next start: load refuses
\* more than NonceCacheLimit entries.
FileLoads == Cardinality(Known(file)) <= MaxEntries
=============================================================================
