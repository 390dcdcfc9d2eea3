------------------------- MODULE AgentServer_proofs -------------------------
(***************************************************************************)
(* Proofs about AgentServer, for any requests, handlers, durations and     *)
(* limits.                                                                 *)
(***************************************************************************)
EXTENDS AgentServer, FiniteSetTheorems, TLAPS

\* The TTL covers the whole time a request may be accepted in: from the
\* earliest verification to the latest use.
WindowCovered == NonceTTL > 2 * MaxClockSkew + HandleTime

\* The cache has room for every request.
CacheCovers == Cardinality(Requests) <= MaxEntries

\* A handler on its way to the nonce store verified its request not long ago.
HandlerInv ==
    \A h \in Handlers :
        /\ pc[h] # "idle" => request[h] \in Requests
        /\ verified[h] <= now
        /\ pc[h] \in {"verified", "admitted"} =>
              /\ now <= verified[h] + HandleTime
              /\ verified[h] <= stamp[request[h]] + MaxClockSkew
              /\ stamp[request[h]] - MaxClockSkew <= verified[h]

\* The nonce of m is in the store until nobody can present it any more.
Remembered(store, m) ==
    \/ store[m] >= stamp[m] - MaxClockSkew + NonceTTL
    \/ store[m] = 0 /\ now >= stamp[m] - MaxClockSkew + NonceTTL

\* What was executed and not evicted is remembered, in memory and in the file.
ReplayInv ==
    \A m \in Requests \ evicted : executed[m] > 0 =>
        executed[m] = 1 /\ Remembered(entries, m) /\ Remembered(file, m)

\* The semaphore counts the handlers that hold a token.
SlotInv == slots = Cardinality(Holders) /\ slots <= MaxConcurrent

\* A trimmed store is a part of the store that fits the limit.
LEMMA TrimFits ==
    ASSUME NEW store \in [Requests -> Nat], NEW trimmed \in Trimmed(store)
    PROVE  /\ trimmed \in [Requests -> Nat]
           /\ Cardinality(Known(trimmed)) <= MaxEntries
           /\ \A m \in Requests : trimmed[m] \in {0, store[m]}
           /\ CacheCovers => trimmed = store
<1>1. IsFiniteSet(Known(store)) /\ Cardinality(Known(store)) \in Nat
  <2>1. Known(store) \in SUBSET Requests
    BY DEF Known
  <2> QED
    BY <2>1, FS_Subset, FS_CardinalityType, AgentConstants
<1>2. CASE Cardinality(Known(store)) <= MaxEntries
  BY <1>2 DEF Trimmed
<1>3. CASE ~(Cardinality(Known(store)) <= MaxEntries)
  <2>1. PICK kept \in SUBSET Known(store) :
          /\ Cardinality(kept) = MaxEntries
          /\ trimmed = [m \in Requests |-> IF m \in kept THEN store[m] ELSE 0]
    BY <1>3 DEF Trimmed
  <2>2. Known(trimmed) \in SUBSET kept
    BY <2>1 DEF Known
  <2>3. IsFiniteSet(kept)
    BY <1>1, FS_Subset
  <2>4. Cardinality(Known(trimmed)) <= MaxEntries
    BY <2>1, <2>2, <2>3, FS_Subset
  <2>5. ~CacheCovers
    <3>1. Known(store) \in SUBSET Requests
      BY DEF Known
    <3>2. /\ Cardinality(Known(store)) <= Cardinality(Requests)
          /\ Cardinality(Requests) \in Nat
      BY <3>1, FS_Subset, FS_CardinalityType, AgentConstants
    <3> QED
      BY <1>1, <1>3, <3>2, AgentConstants DEF CacheCovers
  <2> QED
    BY <2>1, <2>4, <2>5
<1> QED
  BY <1>2, <1>3

\* Purging keeps the type and forgets only.
LEMMA PurgeFits ==
    ASSUME NEW store \in [Requests -> Nat], NEW t
    PROVE  /\ Purged(store, t) \in [Requests -> Nat]
           /\ Known(Purged(store, t)) \in SUBSET Known(store)
BY DEF Purged, Known

\* The deadline of a handler survives the steps of the others.
LEMMA HandlerStep ==
    TypeOK /\ HandlerInv /\ [Next]_vars => HandlerInv'
<1> SUFFICES ASSUME TypeOK, HandlerInv, [Next]_vars
             PROVE  HandlerInv'
  OBVIOUS
<1> USE AgentConstants DEF storeVars, handlerVars, TypeOK, ControlPoints,
        HandlerInv
<1>1. ASSUME NEW h \in Handlers, NEW m \in Requests, Verify(h, m)
      PROVE  HandlerInv'
  BY <1>1 DEF Verify, InWindow
<1>2. ASSUME NEW h \in Handlers, Refuse(h)
      PROVE  HandlerInv'
  BY <1>2 DEF Refuse, Leaves
<1>3. ASSUME NEW h \in Handlers, Admit(h)
      PROVE  HandlerInv'
  BY <1>3 DEF Admit
<1>4. ASSUME NEW h \in Handlers, NEW t \in verified[h]..now, Use(h, t)
      PROVE  HandlerInv'
  BY <1>4 DEF Use
<1>5. ASSUME NEW h \in Handlers, NEW t \in verified[h]..now, UseReplay(h, t)
      PROVE  HandlerInv'
  BY <1>5 DEF UseReplay, Leaves
<1>6. ASSUME NEW h \in Handlers, NEW t \in verified[h]..now,
        UsePersistFails(h, t)
      PROVE  HandlerInv'
  BY <1>6 DEF UsePersistFails, Leaves
<1>7. ASSUME NEW h \in Handlers, Finish(h)
      PROVE  HandlerInv'
  BY <1>7 DEF Finish, Leaves
<1>8. CASE Tick
  BY <1>8 DEF Tick
<1>9. CASE Restart
  BY <1>9 DEF Restart
<1>10. CASE UNCHANGED vars
  BY <1>10 DEF vars
<1> HIDE DEF HandlerInv
<1> HIDE AgentConstants DEF storeVars, handlerVars, TypeOK, ControlPoints,
        HandlerInv
<1> QED
  BY <1>1, <1>2, <1>3, <1>4, <1>5, <1>6, <1>7, <1>8, <1>9, <1>10 DEF Next,
      Handle

\* What a step does to the set of handlers that hold a token.
LEMMA HolderStep ==
    ASSUME TypeOK, NEW h \in Handlers
    PROVE  /\ IsFiniteSet(Holders) /\ Cardinality(Holders) \in Nat
           /\ h \notin Holders =>
                 Cardinality(Holders \cup {h}) = Cardinality(Holders) + 1
           /\ h \in Holders =>
                 /\ Cardinality(Holders \ {h}) = Cardinality(Holders) - 1
                 /\ Cardinality(Holders) > 0
<1>1. Holders \in SUBSET Handlers
  BY DEF Holders
<1>2. IsFiniteSet(Holders) /\ Cardinality(Holders) \in Nat
  BY <1>1, FS_Subset, FS_CardinalityType, AgentConstants
<1>3. h \in Holders => Cardinality(Holders) # 0
  BY <1>2, FS_EmptySet
<1>4. h \notin Holders =>
        Cardinality(Holders \cup {h}) = Cardinality(Holders) + 1
  BY <1>2, FS_AddElement
<1>5. h \in Holders => Cardinality(Holders \ {h}) = Cardinality(Holders) - 1
  BY <1>2, FS_RemoveElement
<1> QED
  BY <1>2, <1>3, <1>4, <1>5

\* Every path takes and gives back one token.
LEMMA SlotStep ==
    TypeOK /\ SlotInv /\ [Next]_vars => SlotInv'
<1> SUFFICES ASSUME TypeOK, SlotInv, [Next]_vars
             PROVE  SlotInv'
  OBVIOUS
<1> USE AgentConstants DEF storeVars, handlerVars, TypeOK, ControlPoints,
        SlotInv
<1>1. ASSUME NEW h \in Handlers, NEW m \in Requests, Verify(h, m)
      PROVE  SlotInv'
  <2>1. Holders' = Holders
    BY <1>1 DEF Verify, InWindow, Holders
  <2> QED
    BY <1>1, <2>1 DEF Verify, InWindow
<1>2. ASSUME NEW h \in Handlers, Refuse(h)
      PROVE  SlotInv'
  <2>1. Holders' = Holders
    BY <1>2 DEF Refuse, Leaves, Holders
  <2> QED
    BY <1>2, <2>1 DEF Refuse, Leaves
<1>3. ASSUME NEW h \in Handlers, Admit(h)
      PROVE  SlotInv'
  <2>1. h \notin Holders
    BY <1>3 DEF Admit, Holders
  <2>2. Holders' = Holders \cup {h}
    BY <1>3 DEF Admit, Holders
  <2> QED
    BY <1>3, <2>1, <2>2, HolderStep DEF Admit
<1>4. ASSUME NEW h \in Handlers, NEW t \in verified[h]..now, Use(h, t)
      PROVE  SlotInv'
  <2>1. Holders' = Holders
    BY <1>4 DEF Use, Holders
  <2> QED
    BY <1>4, <2>1 DEF Use
<1>5. ASSUME NEW h \in Handlers, NEW t \in verified[h]..now, UseReplay(h, t)
      PROVE  SlotInv'
  <2>1. h \in Holders
    BY <1>5 DEF UseReplay, Leaves, Holders
  <2>2. Holders' = Holders \ {h}
    BY <1>5 DEF UseReplay, Leaves, Holders
  <2> QED
    BY <1>5, <2>1, <2>2, HolderStep DEF UseReplay, Leaves
<1>6. ASSUME NEW h \in Handlers, NEW t \in verified[h]..now,
        UsePersistFails(h, t)
      PROVE  SlotInv'
  <2>1. h \in Holders
    BY <1>6 DEF UsePersistFails, Leaves, Holders
  <2>2. Holders' = Holders \ {h}
    BY <1>6 DEF UsePersistFails, Leaves, Holders
  <2> QED
    BY <1>6, <2>1, <2>2, HolderStep DEF UsePersistFails, Leaves
<1>7. ASSUME NEW h \in Handlers, Finish(h)
      PROVE  SlotInv'
  <2>1. h \in Holders
    BY <1>7 DEF Finish, Leaves, Holders
  <2>2. Holders' = Holders \ {h}
    BY <1>7 DEF Finish, Leaves, Holders
  <2> QED
    BY <1>7, <2>1, <2>2, HolderStep DEF Finish, Leaves
<1>8. CASE Tick
  <2>1. Holders' = Holders
    BY <1>8 DEF Tick, Holders
  <2> QED
    BY <1>8, <2>1 DEF Tick
<1>9. CASE Restart
  <2>1. Holders' = {}
    BY <1>9 DEF Restart, Holders
  <2> QED
    BY <1>9, <2>1, FS_EmptySet DEF Restart
<1>10. CASE UNCHANGED vars
  <2>1. Holders' = Holders
    BY <1>10 DEF vars, Holders
  <2> QED
    BY <1>10, <2>1 DEF vars
<1> HIDE DEF SlotInv
<1> HIDE AgentConstants DEF storeVars, handlerVars, TypeOK, ControlPoints,
        SlotInv
<1> QED
  BY <1>1, <1>2, <1>3, <1>4, <1>5, <1>6, <1>7, <1>8, <1>9, <1>10 DEF Next,
      Handle

\* Every step preserves the types.
LEMMA TypeStep ==
    TypeOK /\ HandlerInv /\ SlotInv /\ [Next]_vars => TypeOK'
<1> SUFFICES ASSUME TypeOK, HandlerInv, SlotInv, [Next]_vars
             PROVE  TypeOK'
  OBVIOUS
<1> USE AgentConstants DEF storeVars, handlerVars, TypeOK, ControlPoints
<1>1. ASSUME NEW h \in Handlers, NEW m \in Requests, Verify(h, m)
      PROVE  TypeOK'
  BY <1>1 DEF Verify, InWindow
<1>2. ASSUME NEW h \in Handlers, Refuse(h)
      PROVE  TypeOK'
  BY <1>2 DEF Refuse, Leaves
<1>3. ASSUME NEW h \in Handlers, Admit(h)
      PROVE  TypeOK'
  BY <1>3 DEF Admit
<1>4. ASSUME NEW h \in Handlers, NEW t \in verified[h]..now, Use(h, t)
      PROVE  TypeOK'
  <2>1. request[h] \in Requests
    BY <1>4 DEF Use, HandlerInv
  <2>2. [Purged(entries, t) EXCEPT ![request[h]] = t + NonceTTL]
          \in [Requests -> Nat]
    BY <2>1, PurgeFits
  <2>3. entries' \in [Requests -> Nat] /\ file' = entries'
    BY <1>4, <2>2, TrimFits DEF Use
  <2>4. executed' \in [Requests -> 0..2] /\ evicted' \in SUBSET Requests
    <3>1. executed[request[h]] \in 0..2
      BY <2>1
    <3>2. CountUpToTwo(executed[request[h]]) \in 0..2
      BY <3>1 DEF CountUpToTwo
    <3> QED
      BY <1>4, <3>2 DEF Use, Known
  <2> QED
    BY <1>4, <2>3, <2>4 DEF Use
<1>5. ASSUME NEW h \in Handlers, NEW t \in verified[h]..now, UseReplay(h, t)
      PROVE  TypeOK'
  <2>1. slots' \in Nat
    <3>1. h \in Holders
      BY <1>5 DEF UseReplay, Leaves, Holders
    <3>2. slots > 0
      BY <3>1, HolderStep DEF SlotInv
    <3> QED
      BY <1>5, <3>2 DEF UseReplay, Leaves
  <2> QED
    BY <1>5, <2>1, PurgeFits DEF UseReplay, Leaves
<1>6. ASSUME NEW h \in Handlers, NEW t \in verified[h]..now,
        UsePersistFails(h, t)
      PROVE  TypeOK'
  <2>1. slots' \in Nat
    <3>1. h \in Holders
      BY <1>6 DEF UsePersistFails, Leaves, Holders
    <3>2. slots > 0
      BY <3>1, HolderStep DEF SlotInv
    <3> QED
      BY <1>6, <3>2 DEF UsePersistFails, Leaves
  <2> QED
    BY <1>6, <2>1, PurgeFits DEF UsePersistFails, Leaves
<1>7. ASSUME NEW h \in Handlers, Finish(h)
      PROVE  TypeOK'
  <2>1. slots' \in Nat
    <3>1. h \in Holders
      BY <1>7 DEF Finish, Leaves, Holders
    <3>2. slots > 0
      BY <3>1, HolderStep DEF SlotInv
    <3> QED
      BY <1>7, <3>2 DEF Finish, Leaves
  <2> QED
    BY <1>7, <2>1, PurgeFits DEF Finish, Leaves
<1>8. CASE Tick
  BY <1>8 DEF Tick
<1>9. CASE Restart
  BY <1>9, PurgeFits DEF Restart
<1>10. CASE UNCHANGED vars
  BY <1>10 DEF vars
<1> HIDE DEF TypeOK
<1> HIDE AgentConstants DEF storeVars, handlerVars, TypeOK, ControlPoints
<1> QED
  BY <1>1, <1>2, <1>3, <1>4, <1>5, <1>6, <1>7, <1>8, <1>9, <1>10 DEF Next,
      Handle

\* What is written to the file fits the limit.
LEMMA FileStep ==
    TypeOK /\ HandlerInv /\ FileLoads /\ [Next]_vars => FileLoads'
<1> SUFFICES ASSUME TypeOK, HandlerInv, FileLoads, [Next]_vars
             PROVE  FileLoads'
  OBVIOUS
<1> USE AgentConstants DEF storeVars, handlerVars, FileLoads
<1>1. ASSUME NEW h \in Handlers, NEW m \in Requests, Verify(h, m)
      PROVE  FileLoads'
  <2>1. file' = file
    BY <1>1 DEF Verify, InWindow
  <2> QED
    BY <2>1
<1>2. ASSUME NEW h \in Handlers, Refuse(h)
      PROVE  FileLoads'
  <2>1. file' = file
    BY <1>2 DEF Refuse, Leaves
  <2> QED
    BY <2>1
<1>3. ASSUME NEW h \in Handlers, Admit(h)
      PROVE  FileLoads'
  <2>1. file' = file
    BY <1>3 DEF Admit
  <2> QED
    BY <2>1
<1>4. ASSUME NEW h \in Handlers, NEW t \in verified[h]..now, Use(h, t)
      PROVE  FileLoads'
  <2>1. request[h] \in Requests
    BY <1>4 DEF Use, HandlerInv, TypeOK
  <2>2. [Purged(entries, t) EXCEPT ![request[h]] = t + NonceTTL]
          \in [Requests -> Nat]
    BY <2>1, PurgeFits DEF TypeOK
  <2> QED
    BY <1>4, <2>2, TrimFits DEF Use
<1>5. ASSUME NEW h \in Handlers, NEW t \in verified[h]..now, UseReplay(h, t)
      PROVE  FileLoads'
  <2>1. file' = file
    BY <1>5 DEF UseReplay, Leaves
  <2> QED
    BY <2>1
<1>6. ASSUME NEW h \in Handlers, NEW t \in verified[h]..now,
        UsePersistFails(h, t)
      PROVE  FileLoads'
  <2>1. file' = file
    BY <1>6 DEF UsePersistFails, Leaves
  <2> QED
    BY <2>1
<1>7. ASSUME NEW h \in Handlers, Finish(h)
      PROVE  FileLoads'
  <2>1. file' = file
    BY <1>7 DEF Finish, Leaves
  <2> QED
    BY <2>1
<1>8. CASE Tick
  <2>1. file' = file
    BY <1>8 DEF Tick
  <2> QED
    BY <2>1
<1>9. CASE Restart
  <2>1. file \in [Requests -> Nat] /\ Known(file) \in SUBSET Requests
    BY DEF TypeOK, Known
  <2>2. /\ IsFiniteSet(Known(file))
        /\ Cardinality(Known(file)) \in Nat
    BY <2>1, FS_Subset, FS_CardinalityType
  <2>3. Known(file') \in SUBSET Known(file)
    BY <1>9, <2>1, PurgeFits DEF Restart
  <2>4. /\ Cardinality(Known(file')) <= Cardinality(Known(file))
        /\ Cardinality(Known(file')) \in Nat
    BY <2>2, <2>3, FS_Subset, FS_CardinalityType
  <2> QED
    BY <2>2, <2>4
<1>10. CASE UNCHANGED vars
  <2>1. file' = file
    BY <1>10 DEF vars
  <2> QED
    BY <2>1
<1> HIDE DEF FileLoads
<1> HIDE AgentConstants DEF storeVars, handlerVars, FileLoads
<1> QED
  BY <1>1, <1>2, <1>3, <1>4, <1>5, <1>6, <1>7, <1>8, <1>9, <1>10 DEF Next,
      Handle

\* A remembered request is not executed again and stays remembered.
LEMMA ReplayStep ==
    WindowCovered /\ TypeOK /\ HandlerInv /\ ReplayInv /\ [Next]_vars
        => ReplayInv'
<1> SUFFICES ASSUME WindowCovered, TypeOK, HandlerInv, ReplayInv, [Next]_vars
             PROVE  ReplayInv'
  OBVIOUS
<1> USE AgentConstants DEF storeVars, handlerVars, TypeOK, HandlerInv,
        ReplayInv,
        Remembered
<1>1. ASSUME NEW h \in Handlers, NEW m \in Requests, Verify(h, m)
      PROVE  ReplayInv'
  BY <1>1 DEF Verify, InWindow
<1>2. ASSUME NEW h \in Handlers, Refuse(h)
      PROVE  ReplayInv'
  BY <1>2 DEF Refuse, Leaves
<1>3. ASSUME NEW h \in Handlers, Admit(h)
      PROVE  ReplayInv'
  BY <1>3 DEF Admit
<1>4. ASSUME NEW h \in Handlers, NEW t \in verified[h]..now, Use(h, t)
      PROVE  ReplayInv'
  <2>1. request[h] \in Requests
    BY <1>4 DEF Use
  <2> DEFINE added == [Purged(entries, t) EXCEPT ![request[h]] = t + NonceTTL]
  <2>2. request[h] \notin evicted => executed[request[h]] = 0
    <3> SUFFICES ASSUME request[h] \notin evicted, executed[request[h]] > 0
                 PROVE  FALSE
      BY <2>1
    <3>1. now < stamp[request[h]] - MaxClockSkew + NonceTTL
      BY <1>4, <2>1 DEF Use, WindowCovered
    <3>2. entries[request[h]] >= stamp[request[h]] - MaxClockSkew + NonceTTL
      BY <2>1, <3>1
    <3>3. entries[request[h]] > t /\ entries[request[h]] # 0
      BY <2>1, <3>1, <3>2
    <3> QED
      BY <1>4, <2>1, <3>3 DEF Use, Purged
  <2>3. added \in [Requests -> Nat]
    BY <2>1, PurgeFits
  <2>4. /\ entries' \in [Requests -> Nat] /\ file' = entries'
        /\ \A m \in Requests : entries'[m] \in {0, added[m]}
        /\ evicted' = evicted \cup (Known(added) \ Known(entries'))
    BY <1>4, <2>3, TrimFits DEF Use
  <2>5. ASSUME NEW m \in Requests, m \notin evicted'
        PROVE  m \notin evicted /\ entries'[m] = added[m]
    BY <2>3, <2>4, <2>5 DEF Known
  <2>6. ASSUME NEW m \in Requests, m \notin evicted', executed'[m] > 0
        PROVE  /\ executed'[m] = 1
               /\ Remembered(entries, m)' /\ Remembered(file, m)'
    <3>1. CASE m = request[h]
      <4>1. entries'[m] = t + NonceTTL /\ file'[m] = t + NonceTTL
        BY <2>1, <2>4, <2>5, <2>6, <3>1 DEF Purged
      <4>2. t >= stamp[m] - MaxClockSkew
        BY <1>4, <2>1, <3>1 DEF Use
      <4> QED
        BY <1>4, <2>1, <2>2, <2>5, <2>6, <3>1, <4>1, <4>2 DEF Use, CountUpToTwo
    <3>2. CASE m # request[h]
      <4>1. entries'[m] = Purged(entries, t)[m] /\ file'[m] = entries'[m]
        BY <2>1, <2>4, <2>5, <2>6, <3>2 DEF Purged
      <4>2. executed'[m] = executed[m] /\ stamp' = stamp /\ now' = now
        BY <1>4, <2>1, <3>2 DEF Use
      <4>3. m \notin evicted /\ executed[m] > 0
        BY <2>5, <2>6, <4>2
      <4>4. executed[m] = 1 /\ Remembered(entries, m)
        BY <4>3
      <4>5. t <= now /\ t \in Nat /\ entries[m] \in Nat
        OBVIOUS
      <4> QED
        BY <4>1, <4>2, <4>4, <4>5 DEF Purged
    <3> QED
      BY <3>1, <3>2
  <2> QED
    BY <2>6
<1>5. ASSUME NEW h \in Handlers, NEW t \in verified[h]..now, UseReplay(h, t)
      PROVE  ReplayInv'
  BY <1>5 DEF UseReplay, Leaves, Purged
<1>6. ASSUME NEW h \in Handlers, NEW t \in verified[h]..now,
        UsePersistFails(h, t)
      PROVE  ReplayInv'
  BY <1>6 DEF UsePersistFails, Leaves
<1>7. ASSUME NEW h \in Handlers, Finish(h)
      PROVE  ReplayInv'
  BY <1>7 DEF Finish, Leaves
<1>8. CASE Tick
  BY <1>8 DEF Tick
<1>9. CASE Restart
  BY <1>9 DEF Restart, Purged
<1>10. CASE UNCHANGED vars
  BY <1>10 DEF vars
<1> HIDE DEF ReplayInv
<1> HIDE AgentConstants DEF storeVars, handlerVars, TypeOK, HandlerInv,
        ReplayInv,
        Remembered
<1> QED
  BY <1>1, <1>2, <1>3, <1>4, <1>5, <1>6, <1>7, <1>8, <1>9, <1>10 DEF Next,
      Handle

\* The conjunction is inductive.
LEMMA AgentInvariant ==
    Spec => [](TypeOK /\ HandlerInv /\ SlotInv /\ FileLoads)
<1>1. Init => TypeOK /\ HandlerInv /\ SlotInv /\ FileLoads
  <2> SUFFICES ASSUME Init PROVE TypeOK /\ HandlerInv /\ SlotInv /\ FileLoads
    OBVIOUS
  <2> USE AgentConstants DEF Init
  <2>1. TypeOK
    BY DEF TypeOK, ControlPoints
  <2>2. HandlerInv
    BY DEF HandlerInv
  <2>3. SlotInv
    <3>1. Holders = {}
      BY DEF Holders
    <3> QED
      BY <3>1, FS_EmptySet DEF SlotInv
  <2>4. FileLoads
    <3>1. Known(file) = {}
      BY DEF Known
    <3> QED
      BY <3>1, FS_EmptySet DEF FileLoads
  <2> QED
    BY <2>1, <2>2, <2>3, <2>4
<1>2. TypeOK /\ HandlerInv /\ SlotInv /\ FileLoads /\ [Next]_vars
        => (TypeOK /\ HandlerInv /\ SlotInv /\ FileLoads)'
  BY TypeStep, HandlerStep, SlotStep, FileStep
<1> QED
  BY <1>1, <1>2, PTL DEF Spec

-----------------------------------------------------------------------------
(***************************************************************************)
(* Theorems.                                                               *)
(***************************************************************************)

\* The store, its file and the handlers keep their types.
THEOREM AgentTypeCorrect == Spec => []TypeOK
BY AgentInvariant, PTL

\* Tokens of Server.semaphore are never lost or created, so no more than
\* MaxConcurrent executions overlap.
THEOREM ConcurrencyTheorem == Spec => []SlotsAccounted
<1>1. TypeOK /\ SlotInv => SlotsAccounted
  <2> SUFFICES ASSUME TypeOK, SlotInv PROVE SlotsAccounted
    OBVIOUS
  <2> DEFINE E == {h \in Handlers : pc[h] = "executing"}
  <2>1. E \in SUBSET Holders /\ Holders \in SUBSET Handlers
    BY DEF Holders
  <2>2. IsFiniteSet(Holders) /\ Cardinality(Holders) \in Nat
    BY <2>1, FS_Subset, FS_CardinalityType, AgentConstants
  <2>3. Cardinality(E) <= Cardinality(Holders) /\ Cardinality(E) \in Nat
    BY <2>1, <2>2, FS_Subset, FS_CardinalityType
  <2>4. Cardinality(E) <= MaxConcurrent
    BY <2>2, <2>3, AgentConstants DEF SlotInv, TypeOK
  <2> QED
    BY <2>4 DEF SlotsAccounted, SlotInv
<1> QED
  BY <1>1, AgentInvariant, PTL

\* NonceStore.load accepts every file NonceStore wrote.
THEOREM FileTheorem == Spec => []FileLoads
BY AgentInvariant, PTL

\* A request is executed at most once, however it is delivered and whenever
\* the agent restarts, if the TTL of the nonces covers the time in which the
\* request can be accepted and trimLocked did not drop its nonce.
THEOREM AtMostOnceTheorem ==
    ASSUME WindowCovered
    PROVE  Spec => []AtMostOnce
<1>1. Init => ReplayInv
  BY DEF Init, ReplayInv
<1>2. TypeOK /\ HandlerInv /\ ReplayInv /\ [Next]_vars => ReplayInv'
  BY ReplayStep
<1>3. TypeOK /\ ReplayInv => AtMostOnce
  BY DEF TypeOK, ReplayInv, AtMostOnce
<1> QED
  BY <1>1, <1>2, <1>3, AgentInvariant, PTL DEF Spec

\* With NonceCacheLimit at the number of requests, trimLocked drops nothing.
THEOREM RoomTheorem ==
    ASSUME CacheCovers
    PROVE  Spec => [](evicted = {})
<1>1. Init => evicted = {}
  BY DEF Init
<1>2. TypeOK /\ HandlerInv /\ evicted = {} /\ [Next]_vars => (evicted = {})'
  <2> SUFFICES ASSUME TypeOK, HandlerInv, evicted = {}, [Next]_vars
               PROVE  evicted' = {}
    OBVIOUS
  <2>1. ASSUME NEW h \in Handlers, NEW t \in verified[h]..now, Use(h, t)
        PROVE  evicted' = {}
    <3>1. request[h] \in Requests
      BY <2>1 DEF Use, HandlerInv
    <3>2. t + NonceTTL \in Nat
      BY AgentConstants DEF TypeOK
    <3>3. [Purged(entries, t) EXCEPT ![request[h]] = t + NonceTTL]
            \in [Requests -> Nat]
      BY <3>1, <3>2, PurgeFits DEF TypeOK
    <3> QED
      BY <2>1, <3>3, TrimFits DEF Use
  <2>2. CASE \A h \in Handlers : \A t \in verified[h]..now : ~Use(h, t)
    BY <2>2 DEF Next, Handle, Verify, Refuse, Admit, UseReplay,
       UsePersistFails, Finish, Tick, Restart, vars
  <2> QED
    BY <2>1, <2>2
<1> QED
  BY <1>1, <1>2, AgentInvariant, PTL DEF Spec
=============================================================================
