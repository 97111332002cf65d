--------------------------- MODULE ServingProofs ---------------------------
(***************************************************************************)
(* Proofs about the parts of MCServing, each for its own specification and *)
(* all together, and about the cache of stored configs: a section for each *)
(* of HotReload, ScannerPool, StreamRelay, A2ATasks and ConfigRouterCache, *)
(* with its inductive invariant, one lemma per operation, and the results. *)
(***************************************************************************)
EXTENDS MCServing, MCConfigRouterCache, Integers, TLAPS, FiniteSetTheorems, SequenceTheorems,
        WellFoundedInduction

-----------------------------------------------------------------------------
(* HotReload                                                               *)

\* The fields that the arguments read.
ReloadTypeOK ==
    /\ generation \in Nat
    /\ DOMAIN entry = {"lock", "gen", "router"}
    /\ entry.gen \in Nat /\ entry.router.from \in Nat
    /\ DOMAIN request = Requests
    /\ \A q \in Requests :
          /\ DOMAIN request[q] = {"pc", "gen", "router"}
          /\ request[q].gen \in Nat /\ request[q].router.from \in Nat

\* The generation a router was built from is not older than the one it is
\* kept under.
EntryIsCurrent == entry.router.from >= entry.gen \/ ~entry.router.built

\* A request keeps or returns a router from no earlier than the generation it read.
ChosenIsCurrent ==
    \A q \in Requests :
        /\ request[q].gen <= generation
        /\ request[q].pc \in {"keep", "done"} => request[q].router.from >= request[q].gen

\* The inductive invariant of HotReload.
ReloadInv == ReloadTypeOK /\ EntryIsCurrent /\ ChosenIsCurrent

\* The settings at the start.
LEMMA ReloadInit == Init => ReloadInv
  BY DEF Init, ReloadInv, ReloadTypeOK, EntryIsCurrent, ChosenIsCurrent, NoRouter

\* A reload, a swap of the stored configs or an edit: the generation stays or grows.
LEMMA GenerationOnlyGrows ==
  ASSUME ReloadInv, generation' = generation \/ generation' = generation + 1,
         UNCHANGED <<entry, request>>
  PROVE  ReloadInv'
  BY DEF ReloadInv, ReloadTypeOK, EntryIsCurrent, ChosenIsCurrent

\* One step of routerFor.
LEMMA RouterForStep ==
  ASSUME ReloadInv, NEW q \in Requests, routerFor(q)
  PROVE  ReloadInv'
<1> USE DEF ReloadInv, ReloadTypeOK
<1>1. CASE ReadGeneration(q)
  <2>1. /\ request' = [request EXCEPT ![q].pc = "clone", ![q].gen = generation]
        /\ UNCHANGED generation
        /\ entry' = [entry EXCEPT !.lock = TRUE]
    BY <1>1 DEF ReadGeneration, Requesting, routerVars
  <2>2. EntryIsCurrent' /\ UNCHANGED <<entry.gen, entry.router>>
        /\ DOMAIN entry' = {"lock", "gen", "router"}
    BY <2>1 DEF EntryIsCurrent
  <2>3. /\ DOMAIN request' = Requests
        /\ DOMAIN request[q]' = {"pc", "gen", "router"}
        /\ request[q].pc' = "clone" /\ request[q].gen' = generation
        /\ UNCHANGED request[q].router
        /\ \A p \in Requests \ {q} : UNCHANGED request[p]
    BY <2>1
  <2>4. ReloadTypeOK'
    BY <2>1, <2>2, <2>3
  <2>5. ChosenIsCurrent'
    BY <2>1, <2>3 DEF ChosenIsCurrent
  <2>6. QED
    BY <2>2, <2>4, <2>5
<1>2. CASE Clone(q)
  <2> PICK d : d = IF entry.router.built /\ entry.gen = request[q].gen
                   THEN entry.router ELSE [built |-> TRUE, from |-> generation]
    OBVIOUS
  <2>1. d.from \in Nat /\ d.from >= request[q].gen
    BY DEF EntryIsCurrent, ChosenIsCurrent
  <2>2. /\ request' = [request EXCEPT ![q].pc = "keep", ![q].router = d]
        /\ UNCHANGED <<entry, generation>>
    BY <1>2 DEF Clone, CloneWithRoutes, Requesting, routerVars
  <2>3. /\ DOMAIN request' = Requests
        /\ DOMAIN request[q]' = {"pc", "gen", "router"}
        /\ request[q].router' = d /\ UNCHANGED request[q].gen
        /\ \A p \in Requests \ {q} : UNCHANGED request[p]
    BY <2>2
  <2>4. ReloadTypeOK' /\ EntryIsCurrent'
    BY <2>1, <2>2, <2>3 DEF EntryIsCurrent
  <2>5. ChosenIsCurrent'
    BY <2>1, <2>2, <2>3 DEF ChosenIsCurrent
  <2>6. QED
    BY <2>4, <2>5
<1>3. CASE Keep(q)
  <2>1. /\ request' = [request EXCEPT ![q].pc = "done"]
        /\ UNCHANGED generation
        /\ entry' = [lock |-> FALSE, gen |-> request[q].gen, router |-> request[q].router]
        /\ request[q].router.from >= request[q].gen
    BY <1>3 DEF Keep, Requesting, routerVars, ChosenIsCurrent
  <2>2. EntryIsCurrent' /\ entry.gen' \in Nat /\ entry.router.from' \in Nat
        /\ DOMAIN entry' = {"lock", "gen", "router"}
    BY <2>1 DEF EntryIsCurrent
  <2>3. /\ DOMAIN request' = Requests
        /\ DOMAIN request[q]' = {"pc", "gen", "router"}
        /\ UNCHANGED <<request[q].router, request[q].gen>>
        /\ \A p \in Requests \ {q} : UNCHANGED request[p]
    BY <2>1
  <2>4. ReloadTypeOK'
    BY <2>1, <2>2, <2>3
  <2>5. ChosenIsCurrent'
    BY <2>1, <2>3 DEF ChosenIsCurrent
  <2>6. QED
    BY <2>2, <2>4, <2>5
<1>4. QED
  BY <1>1, <1>2, <1>3 DEF routerFor

\* Every step keeps the invariant.
LEMMA ReloadStep == ReloadInv /\ [Next]_vars => ReloadInv'
<1> SUFFICES ASSUME ReloadInv, [Next]_vars  PROVE ReloadInv'
  OBVIOUS
<1>1. CASE \E q \in Requests : routerFor(q)
  BY <1>1, RouterForStep
<1>2. CASE BeginWrite \/ EndWrite
  <2>1. UNCHANGED <<generation, entry, request>>
    BY <1>2 DEF BeginWrite, EndWrite, routerVars
  <2>2. QED
    BY <2>1, GenerationOnlyGrows
<1>3. CASE FirstStat \/ FirstLoad \/ Stat \/ Load
  <2>1. UNCHANGED <<generation, entry, request>>
    BY <1>3 DEF FirstStat, FirstLoad, Stat, Load, Watching, routerVars
  <2>2. QED
    BY <2>1, GenerationOnlyGrows
<1>4. CASE ReplaceRoutes \/ SetCircuitBreaker
  <2>1. /\ generation' = generation \/ generation' = generation + 1
        /\ UNCHANGED <<entry, request>>
    BY <1>4 DEF ReplaceRoutes, SetCircuitBreaker
  <2>2. QED
    BY <2>1, GenerationOnlyGrows
<1>5. CASE SwapGuardrails \/ SetNamed \/ SetOrReset \/ SetShadowCircuitBreaker \/ CloseEngine
  <2>1. UNCHANGED <<generation, entry, request>>
    BY <1>5 DEF SwapGuardrails, SetNamed, SetOrReset, SetShadowCircuitBreaker, CloseEngine,
                routerVars
  <2>2. QED
    BY <2>1, GenerationOnlyGrows
<1>6. CASE UNCHANGED vars
  <2>1. UNCHANGED <<generation, entry, request>>
    BY <1>6 DEF vars, routerVars
  <2>2. QED
    BY <2>1, GenerationOnlyGrows
<1>7. QED
  BY <1>1, <1>2, <1>3, <1>4, <1>5, <1>6 DEF Next, startConfigReloader, applyHotConfig

\* A request that derives a router for an inline config gets one that was built from
\* settings no older than those in force when the request read the generation, whatever
\* reloads, swaps and other requests interleave with the build.
THEOREM DerivedRoutersAreCurrent == Spec => []DerivedIsCurrent
<1>1. ReloadInv => DerivedIsCurrent
  BY DEF ReloadInv, ChosenIsCurrent, DerivedIsCurrent
<1>2. QED
  BY ReloadInit, ReloadStep, <1>1, PTL DEF Spec

-----------------------------------------------------------------------------
(* ScannerPool                                                             *)

\* Scans at a label.
Count(label) == Cardinality(Pool!At(label))

\* The counters, and the scans.
PoolTypeOK ==
    /\ created \in Nat /\ idle \in Nat /\ open \in Nat
    /\ DOMAIN pc = Scans

\* Every instance is idle or used by one scan, every counted one exists or is
\* being created, and a closed pool has no idle one.
PoolInv ==
    /\ PoolTypeOK
    /\ open = idle + Count("using")
    /\ created = open + Count("create")
    /\ created <= PoolSize
    /\ closed => idle = 0

\* The operators of FiniteSets as the instance sees them.
LEMMA PoolSets ==
  \A S : (Pool!IsFiniteSet(S) <=> IsFiniteSet(S)) /\ Pool!Cardinality(S) = Cardinality(S)
<1>1. \A S : Pool!IsFiniteSet(S) <=> IsFiniteSet(S)
  BY DEF IsFiniteSet, Pool!IsFiniteSet
<1>2. \A S : Pool!Cardinality(S) = Cardinality(S)
  BY DEF Cardinality, Pool!Cardinality
<1>3. QED
  BY <1>1, <1>2

\* What the pool assumes of its constants.
LEMMA PoolConstants == IsFiniteSet(Scans) /\ PoolSize \in Nat \ {0}
  BY ServingAssumption, PoolSets DEF Pool!PoolAssumption

\* The scans at a label are finitely many, before and after a step.
LEMMA FiniteAt ==
  ASSUME NEW label
  PROVE  IsFiniteSet(Pool!At(label)) /\ Count(label) \in Nat /\ Count(label)' \in Nat
<1>1. Pool!At(label) \subseteq Scans /\ Pool!At(label)' \subseteq Scans
  BY DEF Pool!At
<1>2. IsFiniteSet(Pool!At(label)) /\ IsFiniteSet(Pool!At(label)')
  BY <1>1, PoolConstants, FS_Subset
<1>3. QED
  BY <1>2, FS_CardinalityType DEF Count

\* The numbers the pool counts with.
LEMMA PoolFacts == Count("using") \in Nat /\ Count("create") \in Nat /\ PoolSize \in Nat \ {0}
  BY FiniteAt, PoolConstants

\* One scan goes from label `from' to label `to'.
LEMMA ScanMoves ==
  ASSUME DOMAIN pc = Scans, NEW s \in Scans, NEW from, NEW to, from # to,
         pc[s] = from, pc' = [pc EXCEPT ![s] = to]
  PROVE  /\ DOMAIN pc' = Scans
         /\ Count("using")' = IF from = "using" THEN Count("using") - 1
                              ELSE IF to = "using" THEN Count("using") + 1
                              ELSE Count("using")
         /\ Count("create")' = IF from = "create" THEN Count("create") - 1
                               ELSE IF to = "create" THEN Count("create") + 1
                               ELSE Count("create")
<1>1. DOMAIN pc' = Scans /\ s \in Pool!At(from) /\ s \notin Pool!At(to)
  BY DEF Pool!At
<1>2. Pool!At(from)' = Pool!At(from) \ {s} /\ Pool!At(to)' = Pool!At(to) \cup {s}
  BY DEF Pool!At
<1>3. Cardinality(Pool!At(from) \ {s}) = Cardinality(Pool!At(from)) - 1
  BY <1>1, FiniteAt, FS_RemoveElement
<1>4. Cardinality(Pool!At(to) \cup {s}) = Cardinality(Pool!At(to)) + 1
  BY <1>1, FiniteAt, FS_AddElement
<1>5. ASSUME NEW label, label # from, label # to
      PROVE  Count(label)' = Count(label)
  <2>1. Pool!At(label)' = Pool!At(label)
    BY <1>5 DEF Pool!At
  <2>2. QED
    BY <2>1 DEF Count
<1>6. Count(from)' = Count(from) - 1 /\ Count(to)' = Count(to) + 1
  BY <1>2, <1>3, <1>4 DEF Count
<1>7. QED
  BY <1>1, <1>5, <1>6

\* The pool at the start.
LEMMA PoolInit == Pool!Init => PoolInv
<1> SUFFICES ASSUME Pool!Init  PROVE PoolInv
  OBVIOUS
<1>1. Pool!At("using") = {} /\ Pool!At("create") = {}
  BY DEF Pool!Init, Pool!At
<1>2. Count("using") = 0 /\ Count("create") = 0
  BY <1>1, FS_EmptySet DEF Count
<1>3. QED
  BY <1>2, PoolFacts DEF Pool!Init, PoolInv, PoolTypeOK

\* One step of acquire.
LEMMA AcquireStep ==
  ASSUME PoolInv, NEW s \in Scans, Pool!Acquire(s)
  PROVE  PoolInv'
<1> USE PoolFacts DEF PoolInv, PoolTypeOK, Pool!Goto
<1>1. CASE Pool!TryIdle(s)
  <2>1. CASE idle > 0
    <3>1. pc[s] = "start" /\ pc' = [pc EXCEPT ![s] = "using"]
      BY <1>1, <2>1 DEF Pool!TryIdle
    <3>2. /\ DOMAIN pc' = Scans
          /\ Count("using")' = Count("using") + 1 /\ Count("create")' = Count("create")
      BY <3>1, ScanMoves
    <3>3. QED
      BY <1>1, <2>1, <3>2 DEF Pool!TryIdle
  <2>2. CASE ~(idle > 0)
    <3>1. PICK to \in {"locked"} : pc[s] = "start" /\ pc' = [pc EXCEPT ![s] = to]
      BY <1>1, <2>2 DEF Pool!TryIdle
    <3>2. /\ DOMAIN pc' = Scans
        /\ Count("using")' = Count("using") /\ Count("create")' = Count("create")
      BY <3>1, ScanMoves
    <3>3. QED
      BY <1>1, <2>2, <3>2 DEF Pool!TryIdle
  <2>3. QED
    BY <2>1, <2>2
<1>2. CASE Pool!Grow(s)
  <2>1. CASE ~closed /\ created < PoolSize
    <3>1. pc[s] = "locked" /\ pc' = [pc EXCEPT ![s] = "create"]
      BY <1>2, <2>1 DEF Pool!Grow
    <3>2. /\ DOMAIN pc' = Scans
          /\ Count("create")' = Count("create") + 1 /\ Count("using")' = Count("using")
      BY <3>1, ScanMoves
    <3>3. QED
      BY <1>2, <2>1, <3>2 DEF Pool!Grow
  <2>2. CASE ~(~closed /\ created < PoolSize)
    <3>1. PICK to \in {"error", "wait"} :
             pc[s] = "locked" /\ pc' = [pc EXCEPT ![s] = to]
      BY <1>2, <2>2 DEF Pool!Grow
    <3>2. /\ DOMAIN pc' = Scans
        /\ Count("using")' = Count("using") /\ Count("create")' = Count("create")
      BY <3>1, ScanMoves
    <3>3. UNCHANGED <<created, idle, open, closed>>
      BY <1>2, <2>2 DEF Pool!Grow
    <3>4. QED
      BY <3>2, <3>3
  <2>3. QED
    BY <2>1, <2>2
<1>3. CASE Pool!Create(s)
  <2>1. pc[s] = "create" /\ pc' = [pc EXCEPT ![s] = "using"]
    BY <1>3 DEF Pool!Create
  <2>2. /\ DOMAIN pc' = Scans
        /\ Count("create")' = Count("create") - 1 /\ Count("using")' = Count("using") + 1
    BY <2>1, ScanMoves
  <2>3. QED
    BY <1>3, <2>2 DEF Pool!Create
<1>4. CASE Pool!CreateFails(s)
  <2>1. PICK to \in {"error", "wait"} :
           pc[s] = "create" /\ pc' = [pc EXCEPT ![s] = to]
    BY <1>4 DEF Pool!CreateFails
  <2>2. /\ DOMAIN pc' = Scans
        /\ Count("create")' = Count("create") - 1 /\ Count("using")' = Count("using")
    BY <2>1, ScanMoves
  <2>3. created' = created - 1 /\ UNCHANGED <<idle, open, closed>>
    BY <1>4 DEF Pool!CreateFails
  <2>4. Count("create")' \in Nat
    BY FiniteAt
  <2>5. QED
    BY <2>2, <2>3, <2>4
<1>5. CASE Pool!Take(s)
  <2>1. pc[s] = "wait" /\ pc' = [pc EXCEPT ![s] = "using"]
    BY <1>5 DEF Pool!Take
  <2>2. /\ DOMAIN pc' = Scans
        /\ Count("using")' = Count("using") + 1 /\ Count("create")' = Count("create")
    BY <2>1, ScanMoves
  <2>3. QED
    BY <1>5, <2>2 DEF Pool!Take
<1>6. CASE Pool!GiveUp(s)
  <2>1. PICK to \in {"error"} : pc[s] = "wait" /\ pc' = [pc EXCEPT ![s] = to]
    BY <1>6 DEF Pool!GiveUp
  <2>2. /\ DOMAIN pc' = Scans
        /\ Count("using")' = Count("using") /\ Count("create")' = Count("create")
    BY <2>1, ScanMoves
  <2>3. QED
    BY <1>6, <2>2 DEF Pool!GiveUp
<1>7. QED
  BY <1>1, <1>2, <1>3, <1>4, <1>5, <1>6 DEF Pool!Acquire

\* One step of the release of an instance.
LEMMA ReleaseStep ==
  ASSUME PoolInv, NEW s \in Scans, Pool!release(s)
  PROVE  PoolInv'
<1> USE PoolFacts DEF PoolInv, PoolTypeOK
<1>1. PICK to \in {"done"} : pc[s] = "using" /\ pc' = [pc EXCEPT ![s] = to]
  BY DEF Pool!release, Pool!Goto
<1>2. /\ DOMAIN pc' = Scans
      /\ Count("using")' = Count("using") - 1 /\ Count("create")' = Count("create")
  BY <1>1, ScanMoves
<1>3. Count("using")' \in Nat
  BY FiniteAt
<1>4. UNCHANGED closed
  BY DEF Pool!release
<1>5. \/ ~closed /\ idle' = idle + 1 /\ UNCHANGED <<created, open>>
      \/ created' = created - 1 /\ open' = open - 1 /\ UNCHANGED idle
  BY DEF Pool!release, Pool!Keeps
<1>6. QED
  BY <1>2, <1>3, <1>4, <1>5

\* Every step keeps the invariant.
LEMMA PoolStep == PoolInv /\ [Pool!Next]_(Pool!vars) => PoolInv'
<1> SUFFICES ASSUME PoolInv, [Pool!Next]_(Pool!vars)  PROVE PoolInv'
  OBVIOUS
<1>1. CASE \E s \in Scans : Pool!Acquire(s) \/ Pool!release(s)
  BY <1>1, AcquireStep, ReleaseStep
<1>2. CASE Pool!Close
  <2>1. UNCHANGED <<Count("using"), Count("create")>>
    BY <1>2 DEF Pool!Close, Count, Pool!At
  <2>2. QED
    BY <1>2, <2>1, PoolFacts DEF Pool!Close, PoolInv, PoolTypeOK
<1>3. CASE UNCHANGED Pool!vars
  <2>1. UNCHANGED <<Count("using"), Count("create")>>
    BY <1>3 DEF Pool!vars, Count, Pool!At
  <2>2. QED
    BY <1>3, <2>1 DEF Pool!vars, PoolInv, PoolTypeOK
<1>4. QED
  BY <1>1, <1>2, <1>3 DEF Pool!Next

\* The counts of the pool hold in every state.
THEOREM PoolInvariant == Pool!Spec => []PoolInv
  BY PoolInit, PoolStep, PTL DEF Pool!Spec

\* A pool that has been closed leaves no instance behind once its scans have ended, also
\* when close and a release or a creation interleave.
THEOREM ClosedPoolsLeaveNone == Pool!Spec => []ClosedLeavesNone
<1>1. PoolInv => ClosedLeavesNone
  BY PoolFacts, PoolSets DEF PoolInv, PoolTypeOK, ClosedLeavesNone, Pool!ClosedLeavesNone, Count
<1>2. QED
  BY <1>1, PoolInvariant, PTL

\* There are never more instances than the pool may have, those in creation included.
THEOREM PoolsAreBounded == Pool!Spec => []Pool!PoolBounded
<1>1. PoolInv => Pool!PoolBounded
  BY PoolFacts DEF PoolInv, PoolTypeOK, Pool!PoolBounded
<1>2. QED
  BY <1>1, PoolInvariant, PTL

-----------------------------------------------------------------------------
(* StreamRelay                                                             *)

\* What the body of script x holds, event by event, and how many events.
Event(x, k) ==
    IF k <= x.chunks THEN Stream!Content(k)
    ELSE IF x.end = "done" THEN Stream!UsageChunk ELSE Stream!ErrChunk

\* How many events the upstream sends.
Events(x) ==
    IF x.end = "bad" \/ (x.end = "done" /\ x.usage) THEN x.chunks + 1 ELSE x.chunks

\* The fields of the goroutines.
StreamShape ==
    /\ script \in Stream!Script
    /\ DOMAIN producer = {"pc", "item", "read"} /\ DOMAIN starter = {"pc", "item"}
    /\ DOMAIN relay = {"pc", "item", "idle", "end"}
    /\ DOMAIN consumer = {"pc", "received", "result"}
    /\ starter.pc \in {"connect", "first", "got", "ok", "failed"}

\* The consumer is in its loop.
Reading == consumer.pc \in {"reading", "write"}

\* Which goroutine may have ended which context, and who runs beside whom.
StreamControl ==
    /\ upstreamDone => consumer.pc \in {"drain", "ended"}
    /\ consumer.pc = "drain" => upstreamDone
    /\ draining => attemptDone
    /\ attemptDone => timer = "fired" \/ starter.pc = "failed" \/ relay.pc = "closed"
    /\ starter.pc \in {"connect", "first", "got"} => consumer.pc = "start" /\ relay.pc = "off"
    /\ starter.pc = "connect" =>
          producer.pc = "connect" /\ producer.read = 0 /\ consumer.received = <<>>
    /\ starter.pc = "failed" => attemptDone /\ consumer.pc = "ended" /\ relay.pc = "off"
    /\ starter.pc = "ok" => timer \notin {"armed", "fired"} /\ relay.pc # "off"
    /\ relay.pc = "grace" => ctxDone \/ upstreamDone
    /\ relay.pc \in {"finalsend", "grace"} => relay.item = Stream!ErrChunk
    /\ consumer.result = "complete" => consumer.pc = "ended"

\* No context has ended and the relay has not given up.
Live ==
    /\ ~ctxDone /\ ~attemptDone /\ ~upstreamDone
    /\ relay.pc \in {"off", "loop", "send"} /\ starter.pc # "connect"

\* The producer p has had n of its events taken.
ProducerAt(p, x, n) ==
    \/ p.pc = "read" /\ p.read = n /\ n <= x.chunks
    \/ /\ p.pc = "send" /\ n + 1 <= Events(x) /\ p.item = Event(x, n + 1)
       /\ p.read = IF n < x.chunks THEN n + 1 ELSE n
    \/ p.pc = "closed" /\ n = Events(x) /\ x.end # "hang"

\* How many events the consumer has.
Received == Len(consumer.received)

\* How many events have been taken from the producer.
Taken == IF starter.pc = "got" \/ relay.pc = "send" THEN Received + 1 ELSE Received

\* Every event is with the consumer, with one goroutine on its way there, or
\* not taken from the producer yet; none is lost, repeated or overtaken.
InOrder ==
    /\ consumer.received \in Seq(Stream!Chunk)
    /\ \A k \in 1..Received : consumer.received[k] = Event(script, k)
    /\ Reading => \A k \in 1..Received : consumer.received[k].kind # "err"
    /\ starter.pc \in {"first", "got"} => Received = 0
    /\ relay.pc = "send" => relay.item = Event(script, Received + 1)
    /\ starter.pc = "got" => starter.item = Event(script, 1)
    /\ ProducerAt(producer, script, Taken)

\* The consumer has all the upstream sent, and that was complete.
WholeReceived == script.end = "done" /\ consumer.received = Stream!Whole

\* Events keep their order; only a whole stream is complete.
StreamFlow ==
    /\ Live => InOrder
    /\ Reading /\ ~ctxDone /\ relay.pc = "closed" => WholeReceived
    /\ consumer.result = "complete" => WholeReceived

\* The inductive invariant of StreamRelay.
StreamInv == StreamShape /\ StreamControl /\ StreamFlow

\* The numbers of a script.
LEMMA ScriptFacts ==
  ASSUME NEW x \in Stream!Script
  PROVE  /\ x.chunks \in Nat /\ x.chunks <= MaxChunks /\ MaxChunks \in Nat
         /\ x.end \in {"done", "bad", "hang"} /\ Events(x) \in Nat
         /\ Events(x) \in {x.chunks, x.chunks + 1}
  BY ServingAssumption DEF Stream!Script, Stream!ChunksAssumption, Events

\* The kinds of its events.
LEMMA EventFacts ==
  ASSUME NEW x \in Stream!Script, NEW k \in 1..Events(x)
  PROVE  /\ Event(x, k) \in Stream!Chunk
         /\ Event(x, k).kind = "content" <=> k <= x.chunks
         /\ Event(x, k).kind = "err" <=> k > x.chunks /\ x.end = "bad"
<1>1. CASE k <= x.chunks
  <2>1. k \in 1..MaxChunks /\ Event(x, k) = Stream!Content(k)
    BY <1>1, ScriptFacts DEF Event
  <2>2. Stream!Content(k) \in Stream!Chunk /\ Stream!Content(k).kind = "content"
    BY <2>1 DEF Stream!Chunk, Stream!Content
  <2>3. QED
    BY <1>1, <2>1, <2>2, ScriptFacts
<1>2. CASE ~(k <= x.chunks)
  <2>1. x.end \in {"done", "bad"} /\ k > x.chunks
    BY <1>2, ScriptFacts DEF Events
  <2>2. Event(x, k) = IF x.end = "done" THEN Stream!UsageChunk ELSE Stream!ErrChunk
    BY <1>2 DEF Event
  <2>3. QED
    BY <1>2, <2>1, <2>2 DEF Stream!Chunk, Stream!UsageChunk, Stream!ErrChunk
<1>3. QED
  BY <1>1, <1>2

\* The events of a body that ended normally are Whole.
LEMMA EventsAreWhole ==
  ASSUME script \in Stream!Script, script.end = "done",
         NEW q \in Seq(Stream!Chunk), Len(q) = Events(script),
         \A k \in 1..Len(q) : q[k] = Event(script, k)
  PROVE  q = Stream!Whole
<1> PICK n \in Nat : n = script.chunks
  BY ScriptFacts
<1> PICK c : c = [k \in 1..n |-> Stream!Content(k)]
  OBVIOUS
<1> PICK d : d = IF script.usage THEN <<Stream!UsageChunk>> ELSE <<>>
  OBVIOUS
<1>1. c \in Seq(Stream!Chunk) /\ Len(c) = n
  <2>1. \A k \in 1..n : Stream!Content(k) \in Stream!Chunk
    BY ScriptFacts DEF Stream!Chunk
  <2>2. c \in [1..n -> Stream!Chunk]
    BY <2>1
  <2>3. QED
    BY <2>2
<1>2. d \in Seq(Stream!Chunk) /\ Len(d) = (IF script.usage THEN 1 ELSE 0)
      /\ (script.usage => d[1] = Stream!UsageChunk)
  <2>1. Stream!UsageChunk \in Stream!Chunk
    BY DEF Stream!Chunk
  <2>2. CASE script.usage
    <3>1. d = <<Stream!UsageChunk>>
      BY <2>2
    <3>2. QED
      BY <2>1, <2>2, <3>1
  <2>3. CASE ~script.usage
    <3>1. d = <<>>
      BY <2>3
    <3>2. QED
      BY <2>3, <3>1
  <2>4. QED
    BY <2>2, <2>3
<1> PICK w : w = c \o d
  OBVIOUS
<1>3. Stream!Whole = w
  BY DEF Stream!Whole
<1>4. /\ w \in Seq(Stream!Chunk)
      /\ Len(w) = n + Len(d)
      /\ \A k \in 1..(n + Len(d)) : w[k] = IF k <= n THEN c[k] ELSE d[k - n]
  BY <1>1, <1>2
<1>5. Len(q) = n + Len(d)
  BY <1>2 DEF Events
<1>6. ASSUME NEW k \in 1..Len(q)  PROVE q[k] = w[k]
  <2>1. CASE k <= n
    BY <1>4, <1>5, <2>1 DEF Event
  <2>2. CASE ~(k <= n)
    <3>1. script.usage /\ k - n = 1
      BY <1>2, <1>5, <2>2
    <3>2. QED
      BY <1>2, <1>4, <1>5, <2>2, <3>1 DEF Event
  <2>3. QED
    BY <2>1, <2>2
<1>7. QED
  BY <1>3, <1>4, <1>5, <1>6, SeqEqual

\* Somebody takes what the producer sends.
LEMMA SentMoves ==
  ASSUME StreamShape, NEW n \in Nat, ProducerAt(producer, script, n), producer.pc = "send"
  PROVE  ProducerAt(Stream!Sent, script, n + 1)
<1> PICK x \in Stream!Script : x = script
  BY DEF StreamShape
<1>1. /\ n + 1 \in 1..Events(x) /\ producer.item = Event(x, n + 1)
      /\ producer.read = IF n < x.chunks THEN n + 1 ELSE n
  BY ScriptFacts DEF ProducerAt
<1>2. Stream!Sent.pc = (IF n + 1 <= x.chunks THEN "read" ELSE "closed")
      /\ Stream!Sent.read = producer.read
  BY <1>1, EventFacts DEF Stream!Sent, StreamShape
<1>3. CASE n + 1 <= x.chunks
  BY <1>1, <1>2, <1>3, ScriptFacts DEF ProducerAt
<1>4. CASE ~(n + 1 <= x.chunks)
  <2>1. n + 1 = Events(x) /\ x.end # "hang"
    BY <1>1, <1>4, ScriptFacts DEF Events
  <2>2. QED
    BY <1>2, <1>4, <2>1 DEF ProducerAt
<1>5. QED
  BY <1>3, <1>4

\* The fields of a producer that has sent.
LEMMA SentShape ==
  ASSUME StreamShape
  PROVE  DOMAIN Stream!Sent = {"pc", "item", "read"}
  BY DEF StreamShape, Stream!Sent

\* A stream at the start.
LEMMA StreamInit == Stream!Init => StreamInv
  BY DEF Stream!Init, StreamInv, StreamShape, StreamControl, StreamFlow, Live, Reading

\* One step of the producer.
LEMMA ProducerStep ==
  ASSUME StreamInv, Stream!Producer
  PROVE  StreamInv'
<1> USE DEF StreamInv
<1>1. /\ producer.pc \in {"read", "send"}
      /\ UNCHANGED <<script, starter, relay, consumer, timer, ctxDone, upstreamDone,
                     attemptDone, draining>>
  BY DEF Stream!Producer, Stream!ProducerRead, Stream!ProducerCanceled
<1>2. DOMAIN producer' = {"pc", "item", "read"}
  BY DEF Stream!Producer, Stream!ProducerRead, Stream!ProducerCanceled, Stream!Emit, StreamShape
<1>3. StreamShape' /\ StreamControl'
  BY <1>1, <1>2 DEF StreamShape, StreamControl
<1>4. ASSUME Live  PROVE ProducerAt(producer', script, Taken)
  <2> PICK x \in Stream!Script : x = script
    BY DEF StreamShape
  <2> PICK n \in Nat : n = Taken /\ ProducerAt(producer, x, n)
    BY <1>4 DEF StreamFlow, InOrder, Taken, Received
  <2>1. ~Stream!AttemptCtxDone
    BY <1>4 DEF Live, Stream!AttemptCtxDone, Stream!UpstreamCtxDone
  <2>2. Stream!ProducerRead /\ producer.pc = "read" /\ producer.read = n /\ n <= x.chunks
    BY <2>1 DEF Stream!Producer, Stream!ProducerRead, Stream!ProducerCanceled, ProducerAt
  <2>3. CASE n < x.chunks
    <3>1. producer' = [pc |-> "send", item |-> Stream!Content(n + 1), read |-> n + 1]
      BY <2>1, <2>2, <2>3 DEF Stream!ProducerRead, Stream!Emit
    <3>2. QED
      BY <2>3, <3>1, ScriptFacts DEF ProducerAt, Event
  <2>4. CASE n = x.chunks /\ x.end = "done" /\ x.usage
    <3>1. producer' = [pc |-> "send", item |-> Stream!UsageChunk, read |-> n]
      BY <2>1, <2>2, <2>4, ScriptFacts DEF Stream!ProducerRead, Stream!Emit
    <3>2. QED
      BY <2>4, <3>1, ScriptFacts DEF ProducerAt, Event, Events
  <2>5. CASE n = x.chunks /\ x.end = "done" /\ ~x.usage
    <3>1. producer'.pc = "closed"
      BY <2>1, <2>2, <2>5, ScriptFacts DEF Stream!ProducerRead, StreamShape
    <3>2. QED
      BY <2>5, <3>1, ScriptFacts DEF ProducerAt, Events
  <2>6. CASE n = x.chunks /\ x.end = "bad"
    <3>1. producer' = [pc |-> "send", item |-> Stream!ErrChunk, read |-> n]
      BY <2>1, <2>2, <2>6, ScriptFacts DEF Stream!ProducerRead, Stream!Emit
    <3>2. QED
      BY <2>6, <3>1, ScriptFacts DEF ProducerAt, Event, Events
  <2>7. n < x.chunks \/ (n = x.chunks /\ x.end \in {"done", "bad"})
    BY <2>2, ScriptFacts DEF Stream!ProducerRead
  <2>8. QED
    BY <2>3, <2>4, <2>5, <2>6, <2>7
<1>5. StreamFlow'
  <2>1. Live' => Live
    BY <1>1 DEF Live
  <2>2. Live => InOrder'
    BY <1>1, <1>4 DEF StreamFlow, InOrder, Taken, Received, Reading
  <2>3. WholeReceived => WholeReceived'
    BY <1>1 DEF WholeReceived, Stream!Whole
  <2>4. QED
    BY <1>1, <2>1, <2>2, <2>3 DEF StreamFlow, Reading
<1>6. QED
  BY <1>3, <1>5

\* Steps after which the stream is not live, and nobody calls it complete.
LEMMA FlowEnds ==
  ASSUME StreamInv, ~Live', UNCHANGED script,
         Reading' /\ ~ctxDone' /\ relay.pc' = "closed" => WholeReceived',
         consumer.result' = "complete" => WholeReceived'
  PROVE  StreamFlow'
  BY DEF StreamFlow

\* One step of the goroutine that drains an attempt.
LEMMA DrainStep ==
  ASSUME StreamInv, Stream!Drain
  PROVE  StreamInv'
<1> USE DEF StreamInv
<1>1. /\ draining /\ producer.pc = "send" /\ producer' = Stream!Sent
      /\ UNCHANGED <<script, starter, relay, consumer, timer, ctxDone, upstreamDone,
                     attemptDone, draining>>
  BY DEF Stream!Drain
<1>2. StreamShape' /\ StreamControl'
  BY <1>1, SentShape DEF StreamShape, StreamControl
<1>3. ~Live'
  BY <1>1 DEF StreamControl, Live
<1>4. WholeReceived => WholeReceived'
  BY <1>1 DEF WholeReceived, Stream!Whole
<1>5. StreamFlow'
  BY <1>1, <1>3, <1>4 DEF StreamFlow, Reading
<1>6. QED
  BY <1>2, <1>5

\* An attempt that failed before its first event.
LEMMA FailedStep ==
  ASSUME StreamInv, NEW drain \in BOOLEAN, Stream!StartFailed(drain),
         starter.pc \in {"connect", "first", "got"},
         DOMAIN producer' = {"pc", "item", "read"}
  PROVE  StreamInv'
<1> USE DEF StreamInv
<1>1. /\ starter' = [pc |-> "failed", item |-> Stream!NoChunk]
      /\ attemptDone' = TRUE
      /\ consumer' = [consumer EXCEPT !.pc = "ended", !.result = "no-stream"]
      /\ UNCHANGED <<script, relay, ctxDone, upstreamDone>>
  BY DEF Stream!StartFailed
<1>2. /\ DOMAIN consumer' = {"pc", "received", "result"}
      /\ consumer.pc' = "ended" /\ consumer.result' = "no-stream"
  BY <1>1 DEF StreamShape
<1>3. StreamShape'
  BY <1>1, <1>2 DEF StreamShape
<1>4. StreamControl'
  BY <1>1, <1>2 DEF StreamControl
<1>5. StreamFlow'
  BY <1>1, <1>2, FlowEnds DEF Live, Reading
<1>6. QED
  BY <1>3, <1>4, <1>5

\* One step of the wait for the first event.
LEMMA StarterStep ==
  ASSUME StreamInv, Stream!Starter
  PROVE  StreamInv'
<1> USE DEF StreamInv
<1>1. CASE Stream!Connected
  <2>1. /\ starter.pc = "connect" /\ producer.pc = "connect" /\ producer.read = 0
        /\ consumer.received = <<>> /\ relay.pc = "off" /\ consumer.pc = "start"
        /\ starter' = [starter EXCEPT !.pc = "first"]
        /\ producer' = [producer EXCEPT !.pc = "read"]
        /\ UNCHANGED <<script, relay, consumer, timer, ctxDone, upstreamDone,
                       attemptDone, draining>>
    BY <1>1 DEF Stream!Connected, StreamControl
  <2>2. /\ DOMAIN starter' = {"pc", "item"} /\ starter.pc' = "first"
        /\ DOMAIN producer' = {"pc", "item", "read"} /\ producer.pc' = "read"
        /\ producer.read' = 0
    BY <2>1 DEF StreamShape
  <2>3. StreamShape'
    BY <2>1, <2>2 DEF StreamShape
  <2>4. StreamControl'
    BY <2>1, <2>2 DEF StreamControl
  <2>5. ProducerAt(producer', script, 0) /\ Received' = 0 /\ Taken' = 0
    BY <2>1, <2>2, ScriptFacts DEF ProducerAt, StreamShape, Received, Taken
  <2>6. InOrder'
    <3>1. consumer.received' \in Seq(Stream!Chunk)
      <4>1. consumer'.received = <<>>
        BY <2>1
      <4>2. QED
        BY <4>1, EmptySeq
    <3>2. \A k \in 1..Received' : FALSE
      BY <2>5
    <3>3. ProducerAt(producer, script, Taken)'
      BY <2>1, <2>5
    <3>4. QED
      BY <2>1, <2>2, <2>5, <3>1, <3>2, <3>3 DEF InOrder, Reading
  <2>7. QED
    BY <2>1, <2>3, <2>4, <2>6 DEF StreamFlow, Reading, StreamControl
<1>2. CASE Stream!ConnectFails
  <2>1. DOMAIN producer' = {"pc", "item", "read"}
    BY <1>2 DEF Stream!ConnectFails, StreamShape
  <2>2. QED
    BY <1>2, <2>1, FailedStep DEF Stream!ConnectFails
<1>3. CASE Stream!FirstChunk
  <2>1. /\ starter.pc = "first" /\ producer.pc = "send"
        /\ relay.pc = "off" /\ consumer.pc = "start"
        /\ starter' = [pc |-> "got", item |-> producer.item]
        /\ producer' = Stream!Sent
        /\ UNCHANGED <<script, relay, consumer, timer, ctxDone, upstreamDone,
                       attemptDone, draining>>
    BY <1>3 DEF Stream!FirstChunk, StreamControl
  <2>2. StreamShape'
    BY <2>1, SentShape DEF StreamShape
  <2>3. StreamControl'
    BY <2>1 DEF StreamControl
  <2>4. ASSUME Live  PROVE InOrder'
    <3>1. InOrder /\ Received = 0 /\ Taken = 0 /\ Taken' = 1 /\ Received' = 0
      BY <2>1, <2>4 DEF StreamFlow, InOrder, Taken, Received
    <3>2. ProducerAt(producer, script, 0)
      BY <3>1 DEF InOrder
    <3>3. ProducerAt(producer', script, 1)
      BY <2>1, <3>2, SentMoves
    <3>4. producer.item = Event(script, 1)
      BY <2>1, <3>2 DEF ProducerAt
    <3>5. QED
      BY <2>1, <3>1, <3>3, <3>4 DEF InOrder, Reading, Received
  <2>5. QED
    BY <2>1, <2>2, <2>3, <2>4 DEF StreamFlow, Reading, Live, StreamControl
<1>4. CASE Stream!NoFirstChunk
  <2> PICK drain \in BOOLEAN : Stream!StartFailed(drain)
    BY <1>4 DEF Stream!NoFirstChunk, Stream!AttemptCtxDone
  <2>1. QED
    BY <1>4, FailedStep DEF Stream!NoFirstChunk, StreamShape
<1>5. CASE Stream!StartRelay
  <2>1. /\ starter.pc = "got" /\ timer # "fired" /\ starter.item.kind # "err"
        /\ relay.pc = "off" /\ consumer.pc = "start"
        /\ timer' = Stream!StopTimer
        /\ starter' = [pc |-> "ok", item |-> Stream!NoChunk]
        /\ relay' = [relay EXCEPT !.pc = "send", !.item = starter.item]
        /\ consumer' = [consumer EXCEPT !.pc = "reading"]
        /\ UNCHANGED <<script, producer, ctxDone, upstreamDone, attemptDone, draining>>
    BY <1>5 DEF Stream!StartRelay, Stream!TooLate, Stream!FailedFirst, StreamControl
  <2>2. /\ DOMAIN relay' = {"pc", "item", "idle", "end"} /\ relay.pc' = "send"
        /\ relay.item' = starter.item
        /\ DOMAIN consumer' = {"pc", "received", "result"} /\ consumer.pc' = "reading"
        /\ UNCHANGED <<consumer.received, consumer.result>>
        /\ timer' \notin {"armed", "fired"}
    BY <2>1 DEF StreamShape, Stream!StopTimer
  <2>3. StreamShape'
    BY <2>1, <2>2 DEF StreamShape
  <2>4. ~attemptDone /\ ~upstreamDone /\ consumer.result # "complete"
    BY <2>1 DEF StreamControl
  <2>5. StreamControl'
    BY <2>1, <2>2, <2>4 DEF StreamControl
  <2>6. ASSUME Live  PROVE InOrder'
    <3>1. InOrder /\ Received = 0 /\ Taken = 1 /\ Taken' = 1 /\ Received' = 0
      BY <2>1, <2>2, <2>6 DEF StreamFlow, InOrder, Taken, Received
    <3>2. QED
      BY <2>1, <2>2, <3>1 DEF InOrder, Reading, Received
  <2>7. QED
    BY <2>1, <2>2, <2>3, <2>4, <2>5, <2>6 DEF StreamFlow, Reading, Live
<1>6. CASE Stream!FirstUnusable
  BY <1>6, FailedStep DEF Stream!FirstUnusable, StreamShape
<1>7. QED
  BY <1>1, <1>2, <1>3, <1>4, <1>5, <1>6 DEF Stream!Starter

\* The first-event timer.
LEMMA TimerStep ==
  ASSUME StreamInv, Stream!TimerFires
  PROVE  StreamInv'
<1> USE DEF StreamInv
<1>1. /\ timer = "armed" /\ timer' = "fired" /\ attemptDone' = TRUE
      /\ UNCHANGED <<script, producer, starter, relay, consumer, ctxDone, upstreamDone,
                     draining>>
  BY DEF Stream!TimerFires
<1>2. StreamShape' /\ StreamControl'
  BY <1>1 DEF StreamShape, StreamControl
<1>3. WholeReceived => WholeReceived'
  BY <1>1 DEF WholeReceived, Stream!Whole
<1>4. StreamFlow'
  BY <1>1, <1>3 DEF StreamFlow, Reading, Live
<1>5. QED
  BY <1>2, <1>4

\* The client goes away.
LEMMA DisconnectStep ==
  ASSUME StreamInv, Stream!Disconnect
  PROVE  StreamInv'
<1> USE DEF StreamInv
<1>1. /\ ctxDone' = TRUE
      /\ UNCHANGED <<script, producer, starter, relay, consumer, timer, upstreamDone,
                     attemptDone, draining>>
  BY DEF Stream!Disconnect
<1>2. StreamShape' /\ StreamControl'
  BY <1>1 DEF StreamShape, StreamControl
<1>3. WholeReceived => WholeReceived'
  BY <1>1 DEF WholeReceived, Stream!Whole
<1>4. StreamFlow'
  BY <1>1, <1>3 DEF StreamFlow, Reading, Live
<1>5. QED
  BY <1>2, <1>4

\* While the consumer reads and its client has not left, only the relay can
\* end a context, by its return.
LEMMA ReadingIsLive ==
  ASSUME StreamInv, Reading, ~ctxDone, relay.pc \in {"loop", "send"}
  PROVE  Live
  BY DEF StreamInv, StreamShape, StreamControl, Reading, Live

\* One step of the relay.
LEMMA RelayStep ==
  ASSUME StreamInv, Stream!Relay
  PROVE  StreamInv'
<1> USE DEF StreamInv
<1>0. /\ relay.pc \in {"loop", "send", "final", "finalsend", "grace"}
      /\ UNCHANGED <<script, starter, consumer, timer, ctxDone, upstreamDone>>
  BY DEF Stream!Relay, Stream!RelayReceive, Stream!RelaySourceClosed, Stream!RelayCanceled,
         Stream!IdleTimeout, Stream!SendFinal, Stream!FinalDropped
<1>1. starter.pc = "ok"
  BY <1>0 DEF StreamShape, StreamControl
<1>2. WholeReceived => WholeReceived'
  BY <1>0 DEF WholeReceived, Stream!Whole
<1>3. CASE Stream!RelayReceive
  <2>1. /\ relay.pc = "loop" /\ producer.pc = "send"
        /\ relay' = [relay EXCEPT !.pc = "send", !.item = producer.item]
        /\ producer' = Stream!Sent /\ UNCHANGED <<attemptDone, draining>>
    BY <1>3 DEF Stream!RelayReceive
  <2>2. /\ DOMAIN relay' = {"pc", "item", "idle", "end"} /\ relay.pc' = "send"
        /\ relay.item' = producer.item
    BY <2>1 DEF StreamShape
  <2>3. StreamShape' /\ StreamControl'
    BY <1>0, <1>1, <2>1, <2>2, SentShape DEF StreamShape, StreamControl
  <2>4. ASSUME Live  PROVE InOrder'
    <3> PICK n \in Nat : n = Received
      BY <2>4 DEF StreamFlow, InOrder, Received
    <3>1. InOrder /\ Taken = n /\ Taken' = n + 1 /\ Received' = n
      BY <1>0, <1>1, <2>1, <2>2, <2>4 DEF StreamFlow, Taken, Received
    <3>2. ProducerAt(producer, script, n)
      BY <3>1 DEF InOrder
    <3>3. ProducerAt(producer', script, n + 1)
      BY <2>1, <3>2, SentMoves
    <3>4. producer.item = Event(script, n + 1)
      BY <2>1, <3>2 DEF ProducerAt
    <3>5. QED
      BY <1>0, <1>1, <2>1, <2>2, <3>1, <3>3, <3>4 DEF InOrder, Reading, Received
  <2>5. QED
    BY <1>0, <1>2, <2>1, <2>2, <2>3, <2>4 DEF StreamFlow, Reading, Live
<1>4. CASE Stream!RelaySourceClosed
  <2>1. /\ relay.pc = "loop" /\ producer.pc = "closed" /\ attemptDone' = TRUE
        /\ relay' = [relay EXCEPT !.pc = "closed", !.item = Stream!NoChunk, !.end = "source"]
        /\ UNCHANGED producer
    BY <1>4 DEF Stream!RelaySourceClosed, Stream!CloseOut
  <2>2. DOMAIN relay' = {"pc", "item", "idle", "end"} /\ relay.pc' = "closed"
    BY <2>1 DEF StreamShape
  <2>3. StreamShape' /\ StreamControl'
    BY <1>0, <1>1, <2>1, <2>2 DEF StreamShape, StreamControl
  <2>4. ASSUME Reading, ~ctxDone  PROVE WholeReceived
    <3>1. InOrder
      BY <2>1, <2>4, ReadingIsLive DEF StreamFlow
    <3> PICK x \in Stream!Script : x = script
      BY DEF StreamShape
    <3>2. Received = Events(x) /\ x.end # "hang"
      BY <1>1, <2>1, <3>1 DEF InOrder, Taken, ProducerAt
    <3>3. x.end # "bad"
      <4> SUFFICES ASSUME x.end = "bad"  PROVE FALSE
        OBVIOUS
      <4>1. Events(x) = x.chunks + 1
        BY DEF Events
      <4>2. Events(x) \in 1..Events(x) /\ Events(x) > x.chunks
        BY <4>1, ScriptFacts
      <4>3. Event(x, Events(x)).kind = "err"
        BY <4>2, EventFacts
      <4>4. QED
        BY <2>4, <3>1, <3>2, <4>2, <4>3 DEF InOrder
    <3>4. x.end = "done"
      BY <3>2, <3>3, ScriptFacts
    <3>5. QED
      BY <3>1, <3>2, <3>4, EventsAreWhole DEF InOrder, Received, WholeReceived
  <2>5. QED
    BY <1>0, <1>2, <2>1, <2>2, <2>3, <2>4, FlowEnds DEF StreamFlow, Reading, Live
<1>5. CASE Stream!RelayCanceled \/ Stream!IdleTimeout \/ Stream!SendFinal
  <2>1. /\ relay.pc # "off" /\ DOMAIN relay' = {"pc", "item", "idle", "end"}
        /\ relay.pc' \in {"final", "finalsend", "grace"}
        /\ relay.pc' = "grace" => ctxDone \/ upstreamDone
        /\ relay.pc' \in {"finalsend", "grace"} => relay.item' = Stream!ErrChunk
        /\ UNCHANGED <<producer, attemptDone, draining>>
    BY <1>5 DEF StreamShape, Stream!RelayCanceled, Stream!IdleTimeout, Stream!SendFinal,
                Stream!UpstreamCtxDone
  <2>2. StreamShape'
    BY <1>0, <2>1 DEF StreamShape
  <2>3. attemptDone => timer = "fired" \/ starter.pc = "failed"
    BY <1>0 DEF StreamControl
  <2>4. StreamControl'
    BY <1>0, <1>1, <2>1, <2>3 DEF StreamControl
  <2>5. QED
    BY <1>0, <1>2, <2>1, <2>2, <2>4, FlowEnds DEF StreamFlow, Reading, Live
<1>6. CASE Stream!FinalDropped
  <2>1. /\ ctxDone \/ upstreamDone
        /\ relay' = [relay EXCEPT !.pc = "closed", !.item = Stream!NoChunk, !.end = "dropped"]
        /\ attemptDone' = TRUE /\ UNCHANGED producer
    BY <1>6 DEF Stream!FinalDropped, Stream!CloseOut, Stream!UpstreamCtxDone, StreamControl
  <2>2. DOMAIN relay' = {"pc", "item", "idle", "end"} /\ relay.pc' = "closed"
    BY <2>1 DEF StreamShape
  <2>3. StreamShape' /\ StreamControl'
    BY <1>0, <1>1, <2>1, <2>2 DEF StreamShape, StreamControl
  <2>4. ~(Reading /\ ~ctxDone)
    BY <2>1 DEF StreamControl, Reading
  <2>5. QED
    BY <1>0, <1>2, <2>1, <2>2, <2>3, <2>4, FlowEnds DEF StreamFlow, Reading, Live
<1>7. QED
  BY <1>3, <1>4, <1>5, <1>6 DEF Stream!Relay

\* The consumer's loop ends, complete only with the whole answer.
LEMMA EndsStep ==
  ASSUME StreamInv, NEW q, NEW result, Stream!Ends(q, result), Reading,
         result = "complete" => script.end = "done" /\ q = Stream!Whole,
         DOMAIN relay' = {"pc", "item", "idle", "end"},
         relay.pc' \in {relay.pc, "loop", "closed"}, relay.pc # "off",
         relay.pc' = relay.pc => UNCHANGED relay,
         UNCHANGED <<script, producer, starter, timer, ctxDone>>,
         \/ UNCHANGED <<attemptDone, draining>> /\ (relay.pc = "closed" => relay.pc' = "closed")
         \/ attemptDone' = TRUE /\ relay.pc' = "closed"
  PROVE  StreamInv'
<1> USE DEF StreamInv
<1>1. /\ consumer' = [pc |-> IF result = "complete" THEN "ended" ELSE "drain",
                      received |-> q, result |-> result]
      /\ upstreamDone' = TRUE
  BY DEF Stream!Ends
<1>2. /\ DOMAIN consumer' = {"pc", "received", "result"}
      /\ consumer.pc' \in {"ended", "drain"} /\ consumer.result' = result
      /\ consumer.received' = q /\ (result = "complete" => consumer.pc' = "ended")
  BY <1>1
<1>3. StreamShape' /\ starter.pc = "ok"
  BY <1>2 DEF StreamShape, StreamControl, Reading
<1>4. StreamControl'
  BY <1>1, <1>2, <1>3 DEF StreamControl
<1>5. UNCHANGED Stream!Whole
  BY DEF Stream!Whole
<1>6. StreamFlow'
  BY <1>1, <1>2, <1>5, FlowEnds DEF Live, Reading, WholeReceived
<1>7. QED
  BY <1>3, <1>4, <1>6

\* What Handed makes of the relay.
LEMMA HandedFacts ==
  ASSUME StreamInv, Stream!Handed, relay.pc \in {"send", "finalsend", "grace"}
  PROVE  /\ DOMAIN relay' = {"pc", "item", "idle", "end"}
         /\ \/ relay.pc = "send" /\ relay.pc' = "loop" /\ UNCHANGED <<attemptDone, draining>>
            \/ relay.pc # "send" /\ relay.pc' = "closed" /\ attemptDone' = TRUE
  BY DEF StreamInv, StreamShape, Stream!Handed, Stream!CloseOut

\* The consumer takes an event, or the end of the stream.
LEMMA ConsumeStep ==
  ASSUME StreamInv, Stream!Consume
  PROVE  StreamInv'
<1> USE DEF StreamInv
<1> PICK i : i = relay.item
  OBVIOUS
<1>1. /\ consumer.pc = "reading" /\ relay.pc \in {"send", "finalsend", "grace"}
      /\ Stream!Handed /\ UNCHANGED <<script, producer, starter, timer, ctxDone>>
  BY DEF Stream!Consume
<1>2. /\ DOMAIN relay' = {"pc", "item", "idle", "end"}
      /\ \/ relay.pc = "send" /\ relay.pc' = "loop" /\ UNCHANGED <<attemptDone, draining>>
         \/ relay.pc # "send" /\ relay.pc' = "closed" /\ attemptDone' = TRUE
  BY <1>1, HandedFacts
<1>3. CASE i.kind = "err"
  <2> PICK q, result : Stream!Ends(q, result) /\ result \in {"gone", "error"}
    BY <1>3 DEF Stream!Consume
  <2>1. QED
    BY <1>1, <1>2, EndsStep DEF Reading
<1>4. CASE i.kind # "err"
  <2>1. relay.pc = "send"
    BY <1>1, <1>4 DEF StreamControl, Stream!ErrChunk
  <2> PICK to \in {"write", "reading"} :
           consumer' = [consumer EXCEPT !.pc = to, !.received = Append(consumer.received, i)]
    BY <1>4 DEF Stream!Consume
  <2>2. UNCHANGED upstreamDone
    BY <1>4 DEF Stream!Consume
  <2>3. /\ DOMAIN consumer' = {"pc", "received", "result"} /\ consumer.pc' = to
        /\ consumer.received' = Append(consumer.received, i) /\ UNCHANGED consumer.result
    BY DEF StreamShape
  <2>4. StreamShape' /\ starter.pc = "ok"
    BY <1>1, <1>2, <2>3 DEF StreamShape, StreamControl
  <2>5. StreamControl'
    BY <1>1, <1>2, <2>1, <2>2, <2>3, <2>4 DEF StreamControl
  <2>6. ASSUME Live  PROVE InOrder'
    <3> PICK x \in Stream!Script : x = script
      BY DEF StreamShape
    <3> PICK r \in Seq(Stream!Chunk) : r = consumer.received
      BY <2>6 DEF StreamFlow, InOrder
    <3> PICK n \in Nat : n = Len(r)
      OBVIOUS
    <3>1. InOrder /\ Received = n /\ Taken = n + 1 /\ i = Event(x, n + 1)
          /\ ProducerAt(producer, x, n + 1)
      BY <2>1, <2>6 DEF StreamFlow, InOrder, Taken, Received
    <3>2. n + 1 \in 1..Events(x)
      <4>1. n + 1 <= Events(x)
        BY <3>1, ScriptFacts DEF ProducerAt
      <4>2. QED
        BY <4>1, ScriptFacts
    <3>3. i \in Stream!Chunk
      BY <3>1, <3>2, EventFacts
    <3> PICK w : w = Append(r, i)
      OBVIOUS
    <3>4. /\ w \in Seq(Stream!Chunk) /\ Len(w) = n + 1 /\ w[n + 1] = i
          /\ \A k \in 1..n : w[k] = r[k]
      BY <3>3, AppendProperties
    <3>5. consumer.received' = w /\ Received' = n + 1 /\ Taken' = n + 1
      BY <1>1, <1>2, <2>1, <2>3, <2>4, <3>4 DEF Received, Taken
    <3>6. \A k \in 1..n : r[k] = Event(x, k) /\ r[k].kind # "err"
      BY <1>1, <3>1 DEF InOrder, Reading, Received
    <3>7. \A k \in 1..(n + 1) : w[k] = Event(x, k) /\ w[k].kind # "err"
      <4> TAKE k \in 1..(n + 1)
      <4>1. CASE k = n + 1
        BY <1>4, <3>1, <3>4, <4>1
      <4>2. CASE k # n + 1
        BY <3>4, <3>6, <4>2
      <4>3. QED
        BY <4>1, <4>2
    <3>8. QED
      BY <1>1, <1>2, <2>1, <2>3, <2>4, <3>1, <3>4, <3>5, <3>7 DEF InOrder, Reading
  <2>7. consumer.result' # "complete"
    BY <1>1, <2>3 DEF StreamControl
  <2>8. StreamFlow'
    <3>1. Live' => Live
      BY <1>1, <1>2, <2>1, <2>2, <2>4 DEF Live
    <3>2. relay.pc' # "closed"
      BY <1>2, <2>1
    <3>3. QED
      BY <2>6, <2>7, <3>1, <3>2 DEF StreamFlow
  <2>9. QED
    BY <2>4, <2>5, <2>8
<1>5. QED
  BY <1>3, <1>4

\* One step of the consumer.
LEMMA ConsumerStep ==
  ASSUME StreamInv, Stream!Consumer
  PROVE  StreamInv'
<1> USE DEF StreamInv
<1>1. CASE Stream!Consume
  BY <1>1, ConsumeStep
<1>2. CASE Stream!ConsumeEnd
  <2>1. /\ consumer.pc = "reading" /\ Reading
        /\ UNCHANGED <<script, producer, starter, relay, timer, ctxDone, attemptDone, draining>>
    BY <1>2 DEF Stream!ConsumeEnd, Reading
  <2> PICK q : q = consumer.received
    OBVIOUS
  <2> PICK result \in {"complete", "gone"} :
         /\ Stream!Ends(q, result)
         /\ result = "complete" => relay.pc = "closed" /\ ~ctxDone
    BY <1>2 DEF Stream!ConsumeEnd, Stream!ClosedResult
  <2>2. result = "complete" => script.end = "done" /\ q = Stream!Whole
    BY <2>1 DEF StreamFlow, WholeReceived
  <2>3. DOMAIN relay' = {"pc", "item", "idle", "end"} /\ relay.pc # "off"
    BY <2>1 DEF StreamShape, StreamControl
  <2>4. QED
    BY <2>1, <2>2, <2>3, EndsStep
<1>3. CASE Stream!Write
  <2>1. /\ consumer.pc = "write" /\ Reading
        /\ UNCHANGED <<script, producer, starter, relay, timer, ctxDone, attemptDone, draining>>
    BY <1>3 DEF Stream!Write, Reading
  <2>2. CASE consumer' = [consumer EXCEPT !.pc = "reading"] /\ UNCHANGED upstreamDone
    <3>1. /\ DOMAIN consumer' = {"pc", "received", "result"} /\ consumer.pc' = "reading"
          /\ UNCHANGED <<consumer.received, consumer.result>> /\ Reading'
      BY <2>2 DEF StreamShape, Reading
    <3>2. StreamShape'
      BY <2>1, <3>1 DEF StreamShape
    <3>3. StreamControl'
      BY <2>1, <2>2, <3>1 DEF StreamControl
    <3>4. UNCHANGED <<Received, Taken>> /\ (Live' => Live)
          /\ (WholeReceived => WholeReceived')
      BY <2>1, <2>2, <3>1 DEF Received, Taken, Live, WholeReceived, Stream!Whole
    <3>5. InOrder => InOrder'
      BY <2>1, <3>1, <3>4 DEF InOrder
    <3>6. StreamFlow'
      BY <2>1, <3>1, <3>4, <3>5 DEF StreamFlow
    <3>7. QED
      BY <3>2, <3>3, <3>6
  <2>3. CASE Stream!Ends(consumer.received, "gone")
    <3> PICK q, result : q = consumer.received /\ result = "gone"
      OBVIOUS
    <3>1. DOMAIN relay' = {"pc", "item", "idle", "end"} /\ relay.pc # "off"
      BY <2>1 DEF StreamShape, StreamControl
    <3>2. QED
      BY <2>1, <2>3, <3>1, EndsStep
  <2>4. QED
    BY <1>3, <2>2, <2>3 DEF Stream!Write
<1>4. CASE Stream!DrainOut
  <2>1. /\ consumer.pc = "drain" /\ UNCHANGED <<script, producer, starter, timer, ctxDone,
                                                 upstreamDone>>
    BY <1>4 DEF Stream!DrainOut
  <2>2. starter.pc = "ok" /\ ~(consumer.result = "complete")
    BY <2>1 DEF StreamShape, StreamControl
  <2>3. CASE relay.pc \in {"send", "finalsend", "grace"} /\ Stream!Handed /\ UNCHANGED consumer
    <3>1. /\ DOMAIN relay' = {"pc", "item", "idle", "end"}
          /\ \/ relay.pc = "send" /\ relay.pc' = "loop" /\ UNCHANGED <<attemptDone, draining>>
             \/ relay.pc # "send" /\ relay.pc' = "closed" /\ attemptDone' = TRUE
      BY <2>3, HandedFacts
    <3>2. StreamShape' /\ StreamControl'
      BY <2>1, <2>2, <2>3, <3>1 DEF StreamShape, StreamControl
    <3>3. upstreamDone
      BY <2>1 DEF StreamControl
    <3>4. QED
      BY <2>1, <2>2, <2>3, <3>2, <3>3, FlowEnds DEF Live, Reading
  <2>4. CASE /\ relay.pc = "closed" /\ consumer' = [consumer EXCEPT !.pc = "ended"]
             /\ UNCHANGED <<relay, attemptDone, draining>>
    <3>1. /\ DOMAIN consumer' = {"pc", "received", "result"} /\ consumer.pc' = "ended"
          /\ UNCHANGED consumer.result
      BY <2>4 DEF StreamShape
    <3>2. StreamShape' /\ StreamControl'
      BY <2>1, <2>2, <2>4, <3>1 DEF StreamShape, StreamControl
    <3>3. QED
      BY <2>1, <2>2, <2>4, <3>1, <3>2, FlowEnds DEF Live, Reading
  <2>5. QED
    BY <1>4, <2>3, <2>4 DEF Stream!DrainOut
<1>5. QED
  BY <1>1, <1>2, <1>3, <1>4 DEF Stream!Consumer

\* Every step keeps the invariant.
LEMMA StreamStep == StreamInv /\ [Stream!Next]_(Stream!vars) => StreamInv'
<1> SUFFICES ASSUME StreamInv, [Stream!Next]_(Stream!vars)  PROVE StreamInv'
  OBVIOUS
<1>1. CASE UNCHANGED Stream!vars
  <2>1. UNCHANGED <<script, producer, starter, relay, consumer, timer, ctxDone, upstreamDone,
                    attemptDone, draining>>
    BY <1>1 DEF Stream!vars
  <2>2. UNCHANGED <<Received, Taken, Stream!Whole>>
    BY <2>1 DEF Received, Taken, Stream!Whole
  <2>3. StreamShape' /\ StreamControl'
    BY <2>1 DEF StreamInv, StreamShape, StreamControl
  <2>4. StreamFlow'
    BY <2>1, <2>2 DEF StreamInv, StreamFlow, Live, Reading, InOrder, WholeReceived
  <2>5. QED
    BY <2>3, <2>4 DEF StreamInv
<1>2. QED
  BY <1>1, ProducerStep, DrainStep, StarterStep, TimerStep, RelayStep, ConsumerStep,
     DisconnectStep DEF Stream!Next

\* A stream that the client sees as complete holds every event the upstream sent, in
\* order, and the upstream ended it properly: no timeout, failure or disconnect in between
\* turns a truncated answer into a complete one.
THEOREM CompleteStreamsAreWhole == Stream!Spec => []CompleteMeansWhole
<1>1. StreamInv => CompleteMeansWhole
  BY DEF StreamInv, StreamFlow, WholeReceived, CompleteMeansWhole, Stream!CompleteMeansWhole
<1>2. QED
  BY StreamInit, StreamStep, <1>1, PTL DEF Stream!Spec

\* What makes a stream fail that the gateway did not.
Cause ==
    \/ script.connect = "refused" \/ script.end = "bad" \/ Stream!Whole = <<>>
    \/ relay.idle \/ timer = "fired" \/ ctxDone

\* An error chunk is the upstream's until the relay makes one, which it does because of
\* silence or of a context that ended, and a failed stream has had its cause.
Causes ==
    /\ producer.pc = "send" /\ producer.item.kind = "err" => script.end = "bad"
    /\ starter.pc = "got" /\ starter.item.kind = "err" => script.end = "bad"
    /\ relay.pc = "send" /\ relay.item.kind = "err" => script.end = "bad"
    /\ relay.pc \in {"final", "finalsend", "grace"} => relay.idle \/ ctxDone \/ upstreamDone
    /\ consumer.result \in {"error", "no-stream"} => Cause

\* After a send the producer reads on or has ended.
LEMMA SentGoesOn == ASSUME StreamShape PROVE Stream!Sent.pc # "send"
  BY DEF StreamShape, Stream!Sent

\* A cause stays one.
LEMMA CauseStays ==
  ASSUME Cause, UNCHANGED script, relay.idle => relay'.idle, timer = "fired" => timer' = "fired",
         ctxDone => ctxDone'
  PROVE  Cause'
<1>1. Stream!Whole' = Stream!Whole
  BY DEF Stream!Whole
<1>2. QED
  BY <1>1 DEF Cause

\* Before the relay starts, the attempt's context ends for a cause.
LEMMA EarlyEndHasCause ==
  ASSUME StreamInv, starter.pc \in {"connect", "first", "got"}, Stream!AttemptCtxDone
  PROVE  Cause
  BY DEF StreamInv, StreamControl, Stream!AttemptCtxDone, Stream!UpstreamCtxDone, Cause

\* A source that closes before its first chunk had nothing to send.
LEMMA EmptyHasCause ==
  ASSUME StreamInv, starter.pc = "first", producer.pc = "closed", ~Stream!AttemptCtxDone
  PROVE  Cause
<1>1. Live
  BY DEF StreamInv, StreamControl, Live, Stream!AttemptCtxDone, Stream!UpstreamCtxDone
<1>2. PICK x \in Stream!Script : x = script
  BY DEF StreamInv, StreamShape
<1>3. Taken = 0 /\ ProducerAt(producer, x, 0)
  BY <1>1, <1>2 DEF StreamInv, StreamControl, StreamFlow, InOrder, Taken
<1>4. Events(x) = 0 /\ x.end # "hang"
  BY <1>3 DEF ProducerAt
<1>5. x.chunks = 0 /\ (x.end = "bad" \/ ~x.usage)
  BY <1>4, ScriptFacts DEF Events
<1>6. CASE x.end = "bad"
  BY <1>2, <1>6 DEF Cause
<1>7. CASE ~x.usage
  <2>1. Stream!Whole = <<>>
    BY <1>2, <1>5, <1>7 DEF Stream!Whole
  <2>2. QED
    BY <2>1 DEF Cause
<1>8. QED
  BY <1>5, <1>6, <1>7

\* An attempt that fails before the relay starts.
LEMMA FailedHasCause ==
  ASSUME StreamInv, Causes, NEW drain \in BOOLEAN, Stream!StartFailed(drain), Cause, producer'.pc # "send" \/ UNCHANGED producer
  PROVE  Causes'
<1>1. /\ starter'.pc = "failed" /\ UNCHANGED <<script, relay, ctxDone, upstreamDone>>
      /\ timer = "fired" => timer' = "fired"
  BY DEF Stream!StartFailed, Stream!StopTimer
<1>2. Cause'
  BY <1>1, CauseStays
<1>3. QED
  BY <1>1, <1>2 DEF Causes

\* The steps of the producer and of the goroutine that drains it.
LEMMA ProducerHasCause ==
  ASSUME StreamInv, Causes, Stream!Producer \/ Stream!Drain
  PROVE  Causes'
<1>1. UNCHANGED <<script, starter, relay, consumer, timer, ctxDone, upstreamDone>>
  BY DEF Stream!Producer, Stream!Drain, Stream!ProducerRead, Stream!ProducerCanceled
<1>2. Cause => Cause'
  BY <1>1, CauseStays
<1>3. producer'.pc = "send" /\ producer'.item.kind = "err" => script.end = "bad"
  <2>1. CASE Stream!ProducerRead
    <3> SUFFICES ASSUME producer'.pc = "send", producer'.item.kind = "err"  PROVE script.end = "bad"
      OBVIOUS
    <3>1. ASSUME NEW i, NEW n, Stream!Emit(i, n)  PROVE producer'.item = i
      BY <3>1 DEF Stream!Emit, StreamInv, StreamShape
    <3>2. \A k : Stream!Content(k).kind # "err"
      BY DEF Stream!Content
    <3>3. Stream!UsageChunk.kind # "err"
      BY DEF Stream!UsageChunk
    <3>4. QED
      BY <2>1, <3>1, <3>2, <3>3 DEF Stream!ProducerRead, StreamInv, StreamShape
  <2>2. CASE Stream!ProducerCanceled
    BY <2>2 DEF Stream!ProducerCanceled, StreamInv, StreamShape
  <2>3. CASE Stream!Drain
    BY <2>3, SentGoesOn DEF Stream!Drain, StreamInv
  <2>4. QED
    BY <2>1, <2>2, <2>3 DEF Stream!Producer
<1>4. QED
  BY <1>1, <1>2, <1>3 DEF Causes

\* The steps of the wait for the first event.
LEMMA StarterHasCause ==
  ASSUME StreamInv, Causes, Stream!Starter
  PROVE  Causes'
<1>1. CASE Stream!Connected
  <2>1. /\ producer'.pc = "read" /\ starter'.pc = "first"
        /\ UNCHANGED <<script, relay, consumer, timer, ctxDone, upstreamDone>>
    BY <1>1 DEF Stream!Connected, StreamInv, StreamShape
  <2>2. Cause => Cause'
    BY <2>1, CauseStays
  <2>3. QED
    BY <2>1, <2>2 DEF Causes
<1>2. CASE Stream!ConnectFails
  <2>1. Cause /\ producer'.pc # "send" /\ Stream!StartFailed(FALSE)
    BY <1>2, EarlyEndHasCause DEF Stream!ConnectFails, StreamInv, StreamShape, Cause
  <2>2. QED
    BY <2>1, FailedHasCause
<1>3. CASE Stream!FirstChunk
  <2>1. /\ producer.pc = "send" /\ starter' = [pc |-> "got", item |-> producer.item]
        /\ producer'.pc # "send"
        /\ UNCHANGED <<script, relay, consumer, timer, ctxDone, upstreamDone>>
    BY <1>3, SentGoesOn DEF Stream!FirstChunk, StreamInv
  <2>2. Cause => Cause'
    BY <2>1, CauseStays
  <2>3. QED
    BY <2>1, <2>2 DEF Causes
<1>4. CASE Stream!NoFirstChunk
  <2>1. Cause
    BY <1>4, EarlyEndHasCause, EmptyHasCause DEF Stream!NoFirstChunk
  <2>2. Stream!StartFailed(Stream!AttemptCtxDone) /\ UNCHANGED producer
    BY <1>4 DEF Stream!NoFirstChunk
  <2>3. Stream!StartFailed(TRUE) \/ Stream!StartFailed(FALSE)
    BY <2>2 DEF Stream!StartFailed
  <2>4. QED
    BY <2>1, <2>2, <2>3, FailedHasCause
<1>5. CASE Stream!StartRelay
  <2>1. /\ starter.pc = "got" /\ starter.item.kind # "err" /\ timer # "fired" /\ starter'.pc = "ok"
        /\ relay' = [relay EXCEPT !.pc = "send", !.item = starter.item]
        /\ consumer' = [consumer EXCEPT !.pc = "reading"]
        /\ UNCHANGED <<script, producer, ctxDone, upstreamDone>>
    BY <1>5 DEF Stream!StartRelay, Stream!TooLate, Stream!FailedFirst
  <2>2. /\ relay'.pc = "send" /\ relay'.item.kind # "err" /\ relay'.idle = relay.idle
        /\ consumer'.result = consumer.result
    BY <2>1 DEF StreamInv, StreamShape
  <2>3. Cause => Cause'
    BY <2>1, <2>2, CauseStays
  <2>4. QED
    BY <2>1, <2>2, <2>3 DEF Causes
<1>6. CASE Stream!FirstUnusable
  <2>1. Cause /\ Stream!StartFailed(TRUE) /\ UNCHANGED producer
    BY <1>6 DEF Stream!FirstUnusable, Stream!TooLate, Stream!FailedFirst, Causes, Cause
  <2>2. QED
    BY <2>1, FailedHasCause
<1>7. QED
  BY <1>1, <1>2, <1>3, <1>4, <1>5, <1>6 DEF Stream!Starter

\* The steps of the relay.
LEMMA RelayHasCause ==
  ASSUME StreamInv, Causes, Stream!Relay
  PROVE  Causes'
<1>1. UNCHANGED <<script, starter, consumer, timer, ctxDone, upstreamDone>>
  BY DEF Stream!Relay, Stream!RelayReceive, Stream!RelaySourceClosed, Stream!RelayCanceled,
         Stream!IdleTimeout, Stream!SendFinal, Stream!FinalDropped
<1>2. /\ relay.idle => relay'.idle
      /\ relay'.pc = "send" /\ relay'.item.kind = "err" => script.end = "bad"
      /\ relay'.pc \in {"final", "finalsend", "grace"} => relay'.idle \/ ctxDone \/ upstreamDone
      /\ producer'.pc # "send" \/ UNCHANGED producer
  <2>1. CASE Stream!RelayReceive
    BY <2>1, SentGoesOn DEF Stream!RelayReceive, StreamInv, StreamShape, Causes
  <2>2. CASE Stream!RelaySourceClosed \/ Stream!FinalDropped
    BY <2>2 DEF Stream!RelaySourceClosed, Stream!FinalDropped, Stream!CloseOut, StreamInv, StreamShape
  <2>3. CASE Stream!RelayCanceled \/ Stream!IdleTimeout \/ Stream!SendFinal
    BY <2>3 DEF Stream!RelayCanceled, Stream!IdleTimeout, Stream!SendFinal, Stream!UpstreamCtxDone,
                StreamInv, StreamShape, Causes
  <2>4. QED
    BY <2>1, <2>2, <2>3 DEF Stream!Relay
<1>3. Cause => Cause'
  BY <1>1, <1>2, CauseStays
<1>4. QED
  BY <1>1, <1>2, <1>3 DEF Causes

\* The steps of the consumer.
LEMMA ConsumerHasCause ==
  ASSUME StreamInv, Causes, Stream!Consumer
  PROVE  Causes'
<1>1. UNCHANGED <<script, producer, starter, timer, ctxDone>> /\ (upstreamDone => upstreamDone')
  BY DEF Stream!Consumer, Stream!Consume, Stream!ConsumeEnd, Stream!Write, Stream!DrainOut, Stream!Ends
<1>2. /\ relay'.idle = relay.idle
      /\ \/ relay'.pc = relay.pc /\ relay'.item = relay.item
         \/ relay'.pc \in {"loop", "closed"}
  <2>1. CASE Stream!Consume \/ Stream!DrainOut
    BY <2>1 DEF Stream!Consume, Stream!DrainOut, Stream!Handed, Stream!CloseOut, StreamInv, StreamShape
  <2>2. CASE Stream!ConsumeEnd \/ Stream!Write
    BY <2>2 DEF Stream!ConsumeEnd, Stream!Write
  <2>3. QED
    BY <2>1, <2>2 DEF Stream!Consumer
<1>3. Cause => Cause'
  BY <1>1, <1>2, CauseStays
<1>4. consumer'.result \in {"error", "no-stream"} => Cause
  <2>1. CASE Stream!Consume
    <3>1. CASE relay.item.kind = "err"
      <4>1. consumer.pc = "reading" /\ ~upstreamDone /\ relay.pc \in {"send", "finalsend", "grace"}
        BY <2>1 DEF Stream!Consume, StreamInv, StreamControl
      <4>2. QED
        BY <3>1, <4>1 DEF Causes, Cause
    <3>2. CASE relay.item.kind # "err"
      BY <2>1, <3>2 DEF Stream!Consume, StreamInv, StreamShape, Causes
    <3>3. QED
      BY <3>1, <3>2
  <2>2. CASE Stream!ConsumeEnd
    BY <2>2 DEF Stream!ConsumeEnd, Stream!Ends, Stream!ClosedResult
  <2>3. CASE Stream!Write
    BY <2>3 DEF Stream!Write, Stream!Ends, StreamInv, StreamShape, Causes
  <2>4. CASE Stream!DrainOut
    BY <2>4 DEF Stream!DrainOut, StreamInv, StreamShape, Causes
  <2>5. QED
    BY <2>1, <2>2, <2>3, <2>4 DEF Stream!Consumer
<1>5. QED
  BY <1>1, <1>2, <1>3, <1>4 DEF Causes

\* A stream, or the start of one, fails only for a cause outside the gateway: the upstream
\* refused it, failed, sent nothing or was silent for longer than a timeout, or the client left.  The
\* gateway's goroutines and channels never break one that both ends keep up.
THEOREM FailuresHaveCauses == Stream!Spec => []Stream!FailureHasCause
<1>1. Stream!Init => Causes
  BY DEF Stream!Init, Causes
<1>2. StreamInv /\ Causes /\ [Stream!Next]_(Stream!vars) => Causes'
  <2> SUFFICES ASSUME StreamInv, Causes, [Stream!Next]_(Stream!vars)  PROVE Causes'
    OBVIOUS
  <2>1. CASE Stream!TimerFires \/ Stream!Disconnect \/ UNCHANGED Stream!vars
    <3>1. /\ UNCHANGED <<script, producer, starter, relay, consumer, upstreamDone>>
          /\ timer = "fired" => timer' = "fired"
          /\ ctxDone => ctxDone'
      BY <2>1 DEF Stream!TimerFires, Stream!Disconnect, Stream!vars
    <3>2. Cause => Cause'
      BY <3>1, CauseStays
    <3>3. QED
      BY <3>1, <3>2 DEF Causes
  <2>2. QED
    BY <2>1, ProducerHasCause, StarterHasCause, RelayHasCause, ConsumerHasCause DEF Stream!Next
<1>3. Causes => Stream!FailureHasCause
  BY DEF Causes, Cause, Stream!FailureHasCause
<1>4. QED
  BY StreamInit, StreamStep, <1>1, <1>2, <1>3, PTL DEF Stream!Spec

-----------------------------------------------------------------------------
(* A2ATasks                                                                *)

\* The fields of a task.
TaskFields == {"pc", "owner", "createdAt", "place", "state", "artifacts", "cancel", "stopped"}

\* A task has an answer exactly if it completed, and can be stopped while it
\* works; nobody reaches one before it was made.
TaskOK(k) ==
    /\ DOMAIN k = TaskFields
    /\ k.state \in Registry!State /\ k.artifacts \in Nat
    /\ k.artifacts > 0 <=> k.state = "completed"
    /\ k.state = "working" => k.cancel = TRUE
    /\ k.pc = "idle" => k.state = "working"
    /\ k.pc # "idle" => k.owner \in Owners

\* What a step may make of a task.
Later(k, n) ==
    /\ k.pc # "idle" => n.pc # "idle" /\ n.owner = k.owner
    /\ k.pc \in {"working", "done"} => n.pc \in {"working", "done"}
    /\ Registry!isTerminal(k.state) => n.state = k.state

\* Every task is one.
TasksShape == DOMAIN task = Tasks /\ \A t \in Tasks : TaskOK(task[t])

\* A list holds tasks of its owner that were put.
Listed ==
    /\ DOMAIN owners = Owners
    /\ \A o \in Owners : \A u \in owners[o] :
          u \in Tasks /\ task[u].owner = o /\ task[u].pc \in {"working", "done"}

\* A client holds tasks that were made.
Found ==
    /\ DOMAIN client = Clients
    /\ \A c \in Clients : client[c] # Registry!NoTask =>
          client[c] \in Tasks /\ task[client[c]].pc # "idle"

\* Who is inside put holds the lock.
HoldsLock == \A t \in Tasks : task[t].pc \in {"put", "scan", "evict"} => lock = t

\* What has been seen as finished stays finished.
FinishedStay == \A u \in finished : u \in Tasks /\ Registry!isTerminal(task[u].state)

\* The tasks that the scan has passed were working when it asked them, so they
\* were not finished when it began.
ScanOK ==
    /\ evicting.owner \in Owners
    /\ evicting.left \subseteq owners[evicting.owner]
    /\ evicting.victim \in owners[evicting.owner]
    /\ \A u \in owners[evicting.owner] : u \in finished => u \in evicting.left

\* The victim is in the list of the owner it is taken from, and is a finished task unless none was.
VictimOK ==
    /\ evicting.owner \in Owners
    /\ evicting.victim \in owners[evicting.owner]
    /\ \/ Registry!isTerminal(task[evicting.victim].state)
       \/ finished \cap owners[evicting.owner] = {}

\* The locals of put.
EvictionOK ==
    /\ DOMAIN evicting = {"owner", "left", "victim"}
    /\ \A t \in Tasks :
          /\ task[t].pc = "scan" => ScanOK
          /\ task[t].pc = "evict" => VictimOK

\* The inductive invariant of A2ATasks.
RegistryInv == TasksShape /\ Listed /\ Found /\ HoldsLock /\ FinishedStay /\ EvictionOK

\* What a step may not do to a finished task.
TerminalStep ==
    \A t \in Tasks :
       /\ Registry!isTerminal(task[t].state) => task'[t].state = task[t].state
       /\ task'[t].artifacts > 0 <=> task'[t].state = "completed"

\* What a task that a step takes from the lists must be.
EvictedStep ==
    \A t \in Registry!Stored \ (Registry!Stored' \cup pruned') :
       \/ Registry!isTerminal(task[t].state)
       \/ /\ finished \cap owners[task[t].owner] = {}
          /\ task'[t].state = "canceled" /\ task'[t].stopped

\* The registry at the start.
LEMMA RegistryInit == Registry!Init => RegistryInv
<1> SUFFICES ASSUME Registry!Init  PROVE RegistryInv
  OBVIOUS
<1> PICK o : o = CHOOSE p \in Owners : TRUE
  OBVIOUS
<1>1. /\ task = [t \in Tasks |-> Registry!Unused(o)]
      /\ owners = [p \in Owners |-> {}]
      /\ client = [c \in Clients |-> Registry!NoTask]
      /\ finished = {}
      /\ evicting = Registry!NoEviction(o)
  BY DEF Registry!Init
<1>2. \A t \in Tasks : TaskOK(task[t]) /\ task[t].pc = "idle"
  <2> PICK k : k = Registry!NewTask(o, 0)
    OBVIOUS
  <2>1. /\ DOMAIN k = TaskFields /\ k.state = "working" /\ k.artifacts = 0
        /\ k.cancel = TRUE
    BY DEF Registry!NewTask, TaskFields
  <2> PICK i : i = [k EXCEPT !.pc = "idle"]
    OBVIOUS
  <2>2. /\ DOMAIN i = TaskFields /\ i.state = "working" /\ i.artifacts = 0
        /\ i.cancel = TRUE /\ i.pc = "idle"
    BY <2>1 DEF TaskFields
  <2>3. TaskOK(i)
    BY <2>2 DEF TaskOK, Registry!State
  <2>4. \A t \in Tasks : task[t] = i
    BY <1>1 DEF Registry!Unused
  <2>5. QED
    BY <2>2, <2>3, <2>4
<1>3. QED
  BY <1>1, <1>2 DEF RegistryInv, TasksShape, Listed, Found, HoldsLock, FinishedStay, EvictionOK,
                    Registry!NoEviction

\* Every task stays, or moves on.
TasksMove ==
    /\ TasksShape'
    /\ \A t \in Tasks : Later(task[t], task'[t])

\* One task moves on.
LEMMA MoveTask ==
  ASSUME RegistryInv, NEW u \in Tasks, NEW k, TaskOK(k), Later(task[u], k),
         task' = [task EXCEPT ![u] = k]
  PROVE  TasksMove
  BY DEF RegistryInv, TasksShape, TasksMove, Later

\* No task that moves on leaves a final state.
LEMMA MovesAreTerminal ==
  ASSUME TasksMove
  PROVE  TerminalStep
  BY DEF TasksMove, TerminalStep, TasksShape, Later, TaskOK

\* The lists stay as they are when tasks move on.
LEMMA MoveKeepsLists ==
  ASSUME RegistryInv, TasksMove, UNCHANGED owners
  PROVE  Listed' /\ EvictedStep
  BY DEF RegistryInv, TasksMove, TasksShape, Listed, Later, EvictedStep, Registry!Stored

\* So do the tasks that clients hold.
LEMMA MoveKeepsFound ==
  ASSUME RegistryInv, TasksMove, UNCHANGED client
  PROVE  Found'
  BY DEF RegistryInv, TasksMove, Found, Later

\* So do the finished ones.
LEMMA MoveKeepsFinished ==
  ASSUME RegistryInv, TasksMove, UNCHANGED finished
  PROVE  FinishedStay'
  BY DEF RegistryInv, TasksMove, FinishedStay, Later

\* Steps beside a put: nobody takes or gives the lock.
LEMMA BesidePut ==
  ASSUME RegistryInv, TasksMove, UNCHANGED <<owners, lock, evicting, finished>>,
         \A t \in Tasks : task'[t].pc \in {"put", "scan", "evict"} => task'[t].pc = task[t].pc,
         Found'
  PROVE  RegistryInv' /\ TerminalStep /\ EvictedStep
<1>1. HoldsLock'
  BY DEF RegistryInv, HoldsLock
<1>2. ScanOK => ScanOK'
  BY DEF ScanOK
<1>3. VictimOK => VictimOK'
  <2> SUFFICES ASSUME VictimOK  PROVE VictimOK'
    OBVIOUS
  <2>1. evicting.victim \in Tasks
    BY DEF RegistryInv, Listed, VictimOK
  <2>2. QED
    BY <2>1 DEF VictimOK, TasksMove, Later
<1>4. EvictionOK'
  BY <1>2, <1>3 DEF RegistryInv, EvictionOK
<1>5. QED
  BY <1>1, <1>4, MovesAreTerminal, MoveKeepsLists, MoveKeepsFinished
     DEF RegistryInv, TasksMove

\* A client sends a message: a new task.
LEMMA NewTaskStep ==
  ASSUME RegistryInv, NEW t \in Tasks, Registry!newA2ATask(t)
  PROVE  RegistryInv' /\ TerminalStep /\ EvictedStep
<1> PICK o \in Owners : task' = [task EXCEPT ![t] = Registry!NewTask(o, now)]
  BY DEF Registry!newA2ATask
<1> PICK k : k = Registry!NewTask(o, now)
  OBVIOUS
<1>1. /\ DOMAIN k = TaskFields /\ k.state = "working" /\ k.artifacts = 0
      /\ k.cancel = TRUE /\ k.pc = "new" /\ k.owner = o
  BY DEF Registry!NewTask, TaskFields
<1>2. task[t].pc = "idle" /\ task[t].state = "working" /\ DOMAIN task = Tasks
  BY DEF Registry!newA2ATask, RegistryInv, TasksShape, TaskOK
<1>3. TaskOK(k) /\ Later(task[t], k)
  BY <1>1, <1>2 DEF TaskOK, Later, Registry!State, Registry!isTerminal
<1>4. TasksMove
  BY <1>3, MoveTask
<1>5. UNCHANGED <<owners, lock, evicting, finished, client>>
  BY DEF Registry!newA2ATask
<1>6. \A u \in Tasks : task'[u].pc \in {"put", "scan", "evict"} => task'[u].pc = task[u].pc
  BY <1>1, <1>2
<1>7. QED
  BY <1>4, <1>5, <1>6, BesidePut, MoveKeepsFound

\* The inference ends.
LEMMA AnswerStep ==
  ASSUME RegistryInv, NEW t \in Tasks, Registry!Answer(t)
  PROVE  RegistryInv' /\ TerminalStep /\ EvictedStep
<1> PICK k \in {Registry!complete(t), Registry!fail(t)} : task' = [task EXCEPT ![t] = k]
  BY DEF Registry!Answer
<1>1. DOMAIN task = Tasks /\ TaskOK(task[t]) /\ task[t].pc = "working"
  BY DEF Registry!Answer, RegistryInv, TasksShape
<1> PICK m : m = task[t]
  OBVIOUS
<1>2. /\ DOMAIN k = TaskFields /\ k.owner = m.owner /\ k.pc = "done"
      /\ k.state = (IF m.state # "working" THEN m.state ELSE k.state)
      /\ m.state = "working" => k.state \in {"completed", "failed"}
      /\ k.artifacts = (IF m.state = "working" /\ k.state = "completed"
                        THEN m.artifacts + 1 ELSE m.artifacts)
  BY <1>1 DEF Registry!complete, Registry!fail, TaskOK, TaskFields
<1>3. TaskOK(k) /\ Later(m, k)
  BY <1>1, <1>2 DEF TaskOK, Later, Registry!State, Registry!isTerminal
<1>4. TasksMove
  BY <1>3, MoveTask
<1>5. UNCHANGED <<owners, lock, evicting, finished, client>>
  BY DEF Registry!Answer
<1>6. \A u \in Tasks : task'[u].pc \in {"put", "scan", "evict"} => task'[u].pc = task[u].pc
  BY <1>1, <1>2
<1>7. QED
  BY <1>4, <1>5, <1>6, BesidePut, MoveKeepsFound

\* requestCancel changes a working task alone, and stops it.
LEMMA CancelMoves ==
  ASSUME RegistryInv, NEW u \in Tasks, task[u].pc # "idle",
         NEW k, k = Registry!requestCancel(u)
  PROVE  /\ TaskOK(k) /\ Later(task[u], k) /\ k.pc = task[u].pc
         /\ Registry!isTerminal(task[u].state) \/ (k.state = "canceled" /\ k.stopped)
<1>1. TaskOK(task[u])
  BY DEF RegistryInv, TasksShape
<1>2. CASE Registry!isTerminal(task[u].state)
  BY <1>1, <1>2 DEF Registry!requestCancel, Later
<1>3. CASE ~Registry!isTerminal(task[u].state)
  <2> PICK m : m = task[u]
    OBVIOUS
  <2>1. m.state = "working" /\ m.cancel = TRUE
    BY <1>1, <1>3 DEF TaskOK, Registry!State, Registry!isTerminal
  <2>2. k = [m EXCEPT !.state = "canceled", !.stopped = m.stopped \/ m.cancel]
    BY <1>3 DEF Registry!requestCancel
  <2>3. /\ DOMAIN k = TaskFields /\ k.state = "canceled" /\ k.stopped /\ k.pc = m.pc
        /\ k.owner = m.owner /\ k.artifacts = m.artifacts
    BY <1>1, <2>1, <2>2 DEF TaskOK, TaskFields
  <2>4. TaskOK(k)
    BY <1>1, <2>1, <2>3 DEF TaskOK, Registry!State
  <2>5. Later(m, k)
    BY <1>3, <2>3 DEF Later
  <2>6. QED
    BY <2>3, <2>4, <2>5
<1>4. QED
  BY <1>2, <1>3

\* tasks/cancel.
LEMMA CancelTaskStep ==
  ASSUME RegistryInv, NEW c \in Clients, Registry!CancelTask(c)
  PROVE  RegistryInv' /\ TerminalStep /\ EvictedStep
<1> PICK u : u = client[c]
  OBVIOUS
<1>1. u \in Tasks /\ task[u].pc # "idle" /\ DOMAIN task = Tasks
  BY DEF Registry!CancelTask, RegistryInv, Found, TasksShape
<1> PICK k : k = Registry!requestCancel(u)
  OBVIOUS
<1>2. task' = [task EXCEPT ![u] = k] /\ client' = [client EXCEPT ![c] = Registry!NoTask]
  BY DEF Registry!CancelTask
<1>3. TaskOK(k) /\ Later(task[u], k) /\ k.pc = task[u].pc
  BY <1>1, CancelMoves
<1>4. TasksMove
  BY <1>1, <1>2, <1>3, MoveTask
<1>5. UNCHANGED <<owners, lock, evicting, finished>>
  BY DEF Registry!CancelTask
<1>6. \A v \in Tasks : task'[v].pc \in {"put", "scan", "evict"} => task'[v].pc = task[v].pc
  BY <1>1, <1>2, <1>3
<1>7. Found'
  BY <1>2, <1>4 DEF RegistryInv, TasksMove, Found, Later
<1>8. QED
  BY <1>4, <1>5, <1>6, <1>7, BesidePut

\* A step that leaves the tasks alone.
LEMMA NobodyMoves ==
  ASSUME RegistryInv, UNCHANGED task
  PROVE  TasksMove
  BY DEF RegistryInv, TasksShape, TasksMove, Later

\* tasks/get.
LEMMA GetStep ==
  ASSUME RegistryInv, NEW c \in Clients, Registry!get(c)
  PROVE  RegistryInv' /\ TerminalStep /\ EvictedStep
<1>1. UNCHANGED <<task, owners, lock, evicting, finished>>
  BY DEF Registry!get
<1>2. PICK u \in Registry!Stored : client' = [client EXCEPT ![c] = u]
  BY DEF Registry!get
<1>3. u \in Tasks /\ task[u].pc # "idle"
  BY DEF Registry!Stored, RegistryInv, Listed
<1>4. Found'
  BY <1>1, <1>2, <1>3 DEF RegistryInv, Found
<1>5. QED
  BY <1>1, <1>4, NobodyMoves, BesidePut

\* Steps of time alone.
LEMMA RegistryRests ==
  ASSUME RegistryInv, UNCHANGED <<task, owners, lock, evicting, finished, client>>
  PROVE  RegistryInv' /\ TerminalStep /\ EvictedStep
  BY NobodyMoves, BesidePut, MoveKeepsFound

\* A step of the put that holds the lock: a new pc of its task t.
LEMMA MovePut ==
  ASSUME RegistryInv, NEW t \in Tasks, task[t].pc \in {"new", "put", "scan", "evict"},
         NEW to \in {"put", "scan", "evict", "working"},
         task' = [task EXCEPT ![t].pc = to]
  PROVE  /\ TasksMove
         /\ task'[t].pc = to /\ \A u \in Tasks \ {t} : UNCHANGED task[u]
         /\ \A u \in Tasks : UNCHANGED task[u].state
<1> PICK m : m = task[t]
  OBVIOUS
<1>1. DOMAIN task = Tasks /\ TaskOK(m)
  BY DEF RegistryInv, TasksShape
<1> PICK k : k = [m EXCEPT !.pc = to]
  OBVIOUS
<1>2. /\ DOMAIN k = TaskFields /\ k.pc = to
      /\ k.owner = m.owner /\ k.state = m.state /\ k.artifacts = m.artifacts
      /\ k.cancel = m.cancel
  BY <1>1 DEF TaskOK, TaskFields
<1>3. TaskOK(k)
  BY <1>1, <1>2 DEF TaskOK
<1>4. Later(m, k)
  BY <1>2 DEF Later
<1>5. task' = [task EXCEPT ![t] = k]
  BY <1>1
<1>6. QED
  BY <1>1, <1>2, <1>3, <1>4, <1>5, MoveTask

\* put takes the lock and prunes.
LEMMA PutLockStep ==
  ASSUME RegistryInv, NEW t \in Tasks, Registry!PutLock(t)
  PROVE  RegistryInv' /\ TerminalStep /\ EvictedStep
<1>1. /\ task[t].pc = "new" /\ lock = Registry!NoTask /\ lock' = t
      /\ task' = [task EXCEPT ![t].pc = "put"]
      /\ UNCHANGED <<evicting, client, finished>>
  BY DEF Registry!PutLock
<1>2. /\ TasksMove
      /\ task'[t].pc = "put" /\ \A u \in Tasks \ {t} : UNCHANGED task[u]
  BY <1>1, MovePut
<1>3. HoldsLock' /\ EvictionOK'
  <2>1. \A u \in Tasks \ {t} : task'[u].pc \notin {"put", "scan", "evict"}
    BY <1>1, <1>2, ServingAssumption DEF RegistryInv, HoldsLock, Registry!TasksAssumption
  <2>2. QED
    BY <1>1, <1>2, <2>1 DEF RegistryInv, HoldsLock, EvictionOK
<1>4. /\ DOMAIN owners' = Owners
      /\ \A o \in Owners : owners'[o] \subseteq owners[o]
      /\ \A o \in Owners : \A u \in owners[o] : u \in owners'[o] \/ u \in pruned'
  BY DEF Registry!PutLock, Registry!prune, Registry!Stored, RegistryInv, Listed
<1>5. Listed' /\ EvictedStep
  BY <1>2, <1>4 DEF RegistryInv, Listed, TasksMove, Later, EvictedStep, Registry!Stored
<1>6. QED
  BY <1>1, <1>2, <1>3, <1>5, MovesAreTerminal, MoveKeepsFound, MoveKeepsFinished
     DEF RegistryInv, TasksMove

\* Only the holder of the lock is in put.
LEMMA OnlyHolder ==
  ASSUME RegistryInv, NEW t \in Tasks, task[t].pc \in {"put", "scan", "evict"}
  PROVE  \A u \in Tasks \ {t} : task[u].pc \notin {"put", "scan", "evict"}
  BY DEF RegistryInv, HoldsLock

\* put finds a list full.
LEMMA StartEvictStep ==
  ASSUME RegistryInv, NEW t \in Tasks, Registry!StartEvict(t)
  PROVE  RegistryInv' /\ TerminalStep /\ EvictedStep
<1>1. /\ task[t].pc = "put" /\ task' = [task EXCEPT ![t].pc = "scan"]
      /\ UNCHANGED <<owners, lock, client>>
      /\ finished' = {u \in Tasks : Registry!isTerminal(task[u].state)}
  BY DEF Registry!StartEvict
<1>2. /\ TasksMove
      /\ task'[t].pc = "scan" /\ \A u \in Tasks \ {t} : UNCHANGED task[u]
      /\ \A u \in Tasks : UNCHANGED task[u].state
  BY <1>1, MovePut
<1>0. Registry!MakesRoom(task[t].owner) \subseteq Owners
  BY <1>1 DEF Registry!MakesRoom, Registry!largestOwners, RegistryInv, TasksShape, TaskOK
<1>3. PICK o \in Owners : \E v \in owners[o] :
          evicting' = [owner |-> o, left |-> owners[o], victim |-> v]
  BY <1>0 DEF Registry!StartEvict, Registry!First
<1>4. ScanOK' /\ DOMAIN evicting' = {"owner", "left", "victim"}
  BY <1>1, <1>3 DEF ScanOK
<1>5. HoldsLock' /\ EvictionOK'
  BY <1>1, <1>2, <1>4, OnlyHolder DEF RegistryInv, HoldsLock, EvictionOK
<1>6. FinishedStay'
  BY <1>1, <1>2 DEF FinishedStay
<1>7. QED
  BY <1>1, <1>2, <1>5, <1>6, MovesAreTerminal, MoveKeepsFound, MoveKeepsLists
     DEF RegistryInv, TasksMove

\* evictLocked looks at the next task of the list.
LEMMA ScanStep ==
  ASSUME RegistryInv, NEW t \in Tasks, Registry!Scan(t)
  PROVE  RegistryInv' /\ TerminalStep /\ EvictedStep
<1>1. task[t].pc = "scan" /\ UNCHANGED <<owners, lock, client, finished>>
  BY DEF Registry!Scan
<1>2. ScanOK
  BY <1>1 DEF RegistryInv, EvictionOK
<1> PICK u \in Registry!First(evicting.left) :
        /\ evicting' = [evicting EXCEPT !.left = evicting.left \ {u},
                          !.victim = IF Registry!isTerminal(task[u].state) THEN u ELSE @]
        /\ task' = IF Registry!isTerminal(task[u].state) \/ evicting.left \ {u} = {}
                   THEN [task EXCEPT ![t].pc = "evict"] ELSE task
  BY DEF Registry!Scan
<1>3. u \in evicting.left /\ u \in owners[evicting.owner] /\ u \in Tasks
  BY <1>2 DEF Registry!First, ScanOK, RegistryInv, Listed
<1>4. /\ DOMAIN evicting' = {"owner", "left", "victim"}
      /\ evicting'.owner = evicting.owner /\ evicting'.left = evicting.left \ {u}
      /\ evicting'.victim =
            IF Registry!isTerminal(task[u].state) THEN u ELSE evicting.victim
  BY DEF RegistryInv, EvictionOK
<1>5. CASE Registry!isTerminal(task[u].state) \/ evicting.left \ {u} = {}
  <2>1. /\ TasksMove
        /\ task'[t].pc = "evict" /\ \A v \in Tasks \ {t} : UNCHANGED task[v]
        /\ \A v \in Tasks : UNCHANGED task[v].state
    BY <1>1, <1>5, MovePut
  <2>2. VictimOK'
    <3>1. CASE Registry!isTerminal(task[u].state)
      BY <1>1, <1>2, <1>3, <1>4, <2>1, <3>1 DEF VictimOK, ScanOK
    <3>2. CASE ~Registry!isTerminal(task[u].state)
      <4>1. u \notin finished /\ evicting.left = {u}
        BY <1>3, <1>5, <3>2 DEF RegistryInv, FinishedStay
      <4>2. finished \cap owners[evicting.owner] = {}
        BY <1>2, <4>1 DEF ScanOK
      <4>3. QED
        BY <1>1, <1>2, <1>4, <3>2, <4>2 DEF VictimOK, ScanOK
    <3>3. QED
      BY <3>1, <3>2
  <2>3. HoldsLock' /\ EvictionOK'
    BY <1>1, <1>4, <2>1, <2>2, OnlyHolder DEF RegistryInv, HoldsLock, EvictionOK
  <2>4. QED
    BY <1>1, <2>1, <2>3, MovesAreTerminal, MoveKeepsFound, MoveKeepsLists, MoveKeepsFinished
       DEF RegistryInv, TasksMove
<1>6. CASE ~(Registry!isTerminal(task[u].state) \/ evicting.left \ {u} = {})
  <2>1. UNCHANGED task
    BY <1>6
  <2>2. u \notin finished
    BY <1>6 DEF RegistryInv, FinishedStay
  <2>3. ScanOK'
    BY <1>1, <1>2, <1>4, <1>6, <2>2 DEF ScanOK
  <2>4. HoldsLock' /\ EvictionOK'
    BY <1>1, <1>4, <2>1, <2>3, OnlyHolder DEF RegistryInv, HoldsLock, EvictionOK
  <2>5. QED
    BY <1>1, <2>1, <2>4, NobodyMoves, MovesAreTerminal, MoveKeepsFound, MoveKeepsLists,
       MoveKeepsFinished DEF RegistryInv, TasksMove
<1>7. QED
  BY <1>5, <1>6

\* The victim is canceled and leaves its list.
LEMMA EvictStep ==
  ASSUME RegistryInv, NEW t \in Tasks, Registry!Evict(t)
  PROVE  RegistryInv' /\ TerminalStep /\ EvictedStep
<1>1. task[t].pc = "evict" /\ UNCHANGED <<lock, client, finished>>
  BY DEF Registry!Evict
<1>2. VictimOK /\ DOMAIN task = Tasks
  BY <1>1 DEF RegistryInv, EvictionOK, TasksShape
<1> PICK v, o : v = evicting.victim /\ o = evicting.owner
  OBVIOUS
<1>3. /\ o \in Owners /\ v \in owners[o] /\ v \in Tasks /\ task[v].owner = o
      /\ task[v].pc \in {"working", "done"} /\ v # t
  BY <1>1, <1>2 DEF VictimOK, RegistryInv, Listed
<1> PICK k : k = Registry!requestCancel(v)
  OBVIOUS
<1>4. /\ TaskOK(k) /\ Later(task[v], k) /\ k.pc = task[v].pc
      /\ Registry!isTerminal(task[v].state) \/ (k.state = "canceled" /\ k.stopped)
  BY <1>3, CancelMoves
<1> PICK m : m = [task[t] EXCEPT !.pc = "put"]
  OBVIOUS
<1>5. TaskOK(m) /\ Later(task[t], m) /\ m.pc = "put"
  <2>1. TaskOK(task[t])
    BY DEF RegistryInv, TasksShape
  <2>2. /\ DOMAIN m = TaskFields /\ m.pc = "put"
        /\ m.owner = task[t].owner /\ m.state = task[t].state
        /\ m.artifacts = task[t].artifacts /\ m.cancel = task[t].cancel
    BY <2>1 DEF TaskOK, TaskFields
  <2>3. TaskOK(m)
    BY <1>1, <2>1, <2>2 DEF TaskOK
  <2>4. QED
    BY <1>1, <2>2, <2>3 DEF Later
<1>6. /\ DOMAIN task' = Tasks /\ task'[v] = k /\ task'[t] = m
      /\ \A u \in Tasks \ {t, v} : UNCHANGED task[u]
  BY <1>2, <1>3 DEF Registry!Evict
<1>7. TasksMove
  BY <1>4, <1>5, <1>6 DEF RegistryInv, TasksShape, TasksMove, Later
<1>8. /\ DOMAIN owners' = Owners /\ owners'[o] = owners[o] \ {v}
      /\ \A p \in Owners \ {o} : UNCHANGED owners[p]
  BY <1>3 DEF Registry!Evict, RegistryInv, Listed
<1>9. Listed'
  BY <1>7, <1>8 DEF RegistryInv, Listed, TasksMove, Later
<1>10. EvictedStep
  <2>1. \A u \in Registry!Stored \ Registry!Stored' : u = v
    BY <1>8 DEF Registry!Stored
  <2>2. QED
    BY <1>2, <1>3, <1>4, <1>6, <2>1 DEF EvictedStep, VictimOK
<1>11. DOMAIN evicting' = {"owner", "left", "victim"}
  BY DEF Registry!Evict, Registry!NoEviction
<1>12. HoldsLock' /\ EvictionOK'
  <2>1. \A u \in Tasks \ {t} : task'[u].pc \notin {"put", "scan", "evict"}
    <3>1. \A u \in Tasks \ {t} : task'[u].pc = task[u].pc
      BY <1>4, <1>6
    <3>2. QED
      BY <1>1, <3>1, OnlyHolder
  <2>2. HoldsLock'
    BY <1>1, <2>1 DEF RegistryInv, HoldsLock
  <2>3. EvictionOK'
    BY <1>5, <1>6, <1>11, <2>1 DEF EvictionOK
  <2>4. QED
    BY <2>2, <2>3
<1>13. QED
  BY <1>1, <1>7, <1>9, <1>10, <1>12, MovesAreTerminal, MoveKeepsFound, MoveKeepsFinished
     DEF RegistryInv, TasksMove

\* The new task joins the list of its owner.
LEMMA InsertStep ==
  ASSUME RegistryInv, NEW t \in Tasks, Registry!Insert(t)
  PROVE  RegistryInv' /\ TerminalStep /\ EvictedStep
<1>1. task[t].pc = "put" /\ finished' = {} /\ UNCHANGED <<evicting, client>>
  BY DEF Registry!Insert
<1> PICK m, n : m = task[t] /\ n = Registry!NextPlace
  OBVIOUS
<1>2. DOMAIN task = Tasks /\ TaskOK(m) /\ m.owner \in Owners
  BY <1>1 DEF RegistryInv, TasksShape, TaskOK
<1> PICK k : k = [m EXCEPT !.pc = "working", !.place = n]
  OBVIOUS
<1>3. /\ DOMAIN k = TaskFields /\ k.pc = "working"
      /\ k.owner = m.owner /\ k.state = m.state /\ k.artifacts = m.artifacts
      /\ k.cancel = m.cancel
  BY <1>2 DEF TaskOK, TaskFields
<1>4. TaskOK(k) /\ Later(m, k)
  BY <1>1, <1>2, <1>3 DEF TaskOK, Later
<1>5. task' = [task EXCEPT ![t] = k]
  BY <1>2 DEF Registry!Insert
<1>6. TasksMove
  BY <1>4, <1>5, MoveTask
<1>7. /\ DOMAIN owners' = Owners /\ owners'[m.owner] = owners[m.owner] \cup {t}
      /\ \A p \in Owners \ {m.owner} : UNCHANGED owners[p]
  BY <1>2 DEF Registry!Insert, RegistryInv, Listed
<1>8. Listed'
  BY <1>2, <1>3, <1>5, <1>6, <1>7 DEF RegistryInv, Listed, TasksMove, Later
<1>9. EvictedStep
  BY <1>7 DEF EvictedStep, Registry!Stored
<1>10. \A u \in Tasks : task'[u].pc \notin {"put", "scan", "evict"}
  BY <1>1, <1>2, <1>3, <1>5, OnlyHolder
<1>11. HoldsLock' /\ EvictionOK' /\ FinishedStay'
  BY <1>1, <1>10 DEF RegistryInv, HoldsLock, EvictionOK, FinishedStay
<1>12. QED
  BY <1>1, <1>6, <1>8, <1>9, <1>11, MovesAreTerminal, MoveKeepsFound
     DEF RegistryInv, TasksMove

\* Every step keeps the invariant, the final states and the evicted tasks in order.
LEMMA RegistryStep ==
  ASSUME RegistryInv, [Registry!Next]_(Registry!vars)
  PROVE  RegistryInv' /\ TerminalStep /\ EvictedStep
<1>1. CASE \E t \in Tasks : Registry!SendMessage(t)
  BY <1>1, NewTaskStep, PutLockStep, StartEvictStep, ScanStep, EvictStep, InsertStep, AnswerStep
     DEF Registry!SendMessage
<1>2. CASE \E c \in Clients : Registry!get(c) \/ Registry!CancelTask(c)
  BY <1>2, GetStep, CancelTaskStep
<1>3. CASE Registry!Tick
  BY <1>3, RegistryRests DEF Registry!Tick
<1>4. CASE UNCHANGED Registry!vars
  BY <1>4, RegistryRests DEF Registry!vars
<1>5. QED
  BY <1>1, <1>2, <1>3, <1>4 DEF Registry!Next

\* A task in a final state stays in it, and only a completed one has artifacts, whether
\* the answer, a cancellation or an eviction comes first.
THEOREM FinalStatesStay == Registry!Spec => TerminalIsFinal
<1>1. RegistryInv /\ [Registry!Next]_(Registry!vars) => RegistryInv'
  BY RegistryStep
<1>2. RegistryInv /\ [Registry!Next]_(Registry!vars) => [TerminalStep]_(Registry!vars)
  BY RegistryStep
<1>3. QED
  BY RegistryInit, <1>1, <1>2, PTL
     DEF Registry!Spec, TerminalIsFinal, Registry!TerminalIsFinal, TerminalStep

\* A task that leaves the registry other than by its age was finished, or its inference
\* is canceled: none runs on that nobody can see or stop.
THEOREM EvictionsStopTasks == Registry!Spec => EvictedAreStopped
<1>1. RegistryInv /\ [Registry!Next]_(Registry!vars) => RegistryInv'
  BY RegistryStep
<1>2. RegistryInv /\ [Registry!Next]_(Registry!vars) => [EvictedStep]_(Registry!vars)
  BY RegistryStep
<1>3. QED
  BY RegistryInit, <1>1, <1>2, PTL
     DEF Registry!Spec, EvictedAreStopped, Registry!EvictedAreStopped, EvictedStep

-----------------------------------------------------------------------------
(* MCServing                                                               *)

\* The parts together, as the run checks them: a step of one leaves the others alone.
THEOREM ServingIsSafe ==
  ServingSpec => [](DerivedIsCurrent /\ ClosedLeavesNone /\ CompleteMeansWhole)
<1> DEFINE Safe == ReloadInv /\ PoolInv /\ StreamInv
<1>1. ServingInit => Safe
  BY ReloadInit, PoolInit, StreamInit DEF ServingInit
<1>2. Safe /\ [ServingNext]_servingVars => Safe'
  <2> SUFFICES ASSUME Safe, [ServingNext]_servingVars  PROVE Safe'
    OBVIOUS
  <2>1. /\ [Next]_vars
        /\ [Pool!Next]_(Pool!vars)
        /\ [Stream!Next]_(Stream!vars)
    BY DEF ServingNext, servingVars, poolVars, streamVars, Pool!vars, Stream!vars
  <2>2. QED
    BY <2>1, ReloadStep, PoolStep, StreamStep
<1>3. Safe => DerivedIsCurrent /\ ClosedLeavesNone /\ CompleteMeansWhole
  <2>1. ReloadInv => DerivedIsCurrent
    BY DEF ReloadInv, ChosenIsCurrent, DerivedIsCurrent
  <2>2. PoolInv => ClosedLeavesNone
    BY PoolFacts, PoolSets DEF PoolInv, PoolTypeOK, ClosedLeavesNone, Pool!ClosedLeavesNone, Count
  <2>3. StreamInv => CompleteMeansWhole
    BY DEF StreamInv, StreamFlow, WholeReceived, CompleteMeansWhole, Stream!CompleteMeansWhole
  <2>4. QED
    BY <2>1, <2>2, <2>3
<1>4. QED
  BY <1>1, <1>2, <1>3, PTL DEF ServingSpec

-----------------------------------------------------------------------------
(* ConfigRouterCache                                                       *)

\* A row of gateway_configs.
Rows == [name : Names \cup {"none"}, version : Nat, enabled : BOOLEAN]
\* The table.
Tables == [Ids -> Rows]

\* What the table's own constraints guarantee: a row that exists has a name,
\* and no two rows have the same.
GoodTable(t) ==
    /\ t \in Tables
    /\ \A i \in Ids : t[i].enabled \/ t[i].version > 0 => t[i].name \in Names
    /\ \A i, j \in Ids : t[i].name \in Names /\ t[i].name = t[j].name => i = j

\* The tables so far, and when they changed.
TablesOK ==
    /\ hist \in Seq(Tables) /\ Len(hist) >= 1
    /\ db = hist[Len(hist)]
    /\ \A k \in 1..Len(hist) : GoodTable(hist[k])
    /\ DOMAIN completed = Cache!Refs
    /\ \A r \in Cache!Refs : completed[r] \in 1..Len(hist)
    /\ DOMAIN changed = Ids
    /\ \A i \in Ids : changed[i] \in 0..Len(hist)
    /\ admin \subseteq Cache!Refs

\* The entry says what the table held for the key at some time from since on.
HoldsAt(tables, key, e, since) ==
    /\ e.asOf \in 1..Len(tables)
    /\ since <= e.asOf
    /\ Cache!Read(tables[e.asOf], key) = e.value

\* What is cached is no older than the last invalidation of its key.
ItemsOK ==
    \A item \in positive \cup negative :
        /\ item.key \in Cache!Refs
        /\ HoldsAt(hist, item.key, item.entry, completed[item.key])

\* An entry is as new as its row, or an invalidation that finds it is due.
Fresh(e, table, lastChange, due) ==
    /\ e.value.id \in Ids
    /\ \/ e.asOf >= lastChange[e.value.id] /\ e.value.name = table[e.value.id].name
       \/ due \cap Cache!Keys(e) # {}

\* An entry is cached under all its keys.
WholeEntries(lru) ==
    \A item \in lru : \A key \in Cache!Keys(item.entry) :
        \E other \in lru : other.key = key /\ other.entry = item.entry

\* The positive cache: one item for a key, whole entries, each as new as its row.
PositiveOK ==
    /\ IsFiniteSet(positive)
    /\ uses \in Nat
    /\ \A item \in positive :
          item.used \in Nat /\ item.used <= uses /\ Fresh(item.entry, db, changed, admin)
    /\ \A item, other \in positive : item.key = other.key => item = other
    /\ WholeEntries(positive)

\* A result that may still be stored is newer than every invalidation.
MayStore(e) ==
    /\ \A r \in Cache!Refs : completed[r] <= e.asOf
    /\ e.value # Cache!NotFound => Fresh(e, db, changed, admin)

\* The locals of a lookup.
CallerOK(c) ==
    /\ DOMAIN caller[c] = DOMAIN Cache!Idle
    /\ caller[c].ok \in BOOLEAN
    /\ caller[c].epoch \in Nat /\ caller[c].epoch <= epoch
    /\ caller[c].pc # "idle" =>
          caller[c].ref \in Cache!Refs /\ caller[c].from \in 1..Len(hist)
    /\ caller[c].pc \in {"idle", "wait", "load"} => ~caller[c].ok
    /\ caller[c].pc \in {"store", "done"} /\ caller[c].ok =>
          HoldsAt(hist, caller[c].ref, caller[c].entry, caller[c].from)
    /\ caller[c].pc = "store" /\ caller[c].ok /\ caller[c].epoch = epoch =>
          MayStore(caller[c].entry)

\* Of every lookup.
CallersOK ==
    /\ epoch \in Nat
    /\ DOMAIN caller = Callers
    /\ \A c \in Callers : CallerOK(c)

\* Reader o runs the read of ref, and read or will read the table no earlier
\* than since.
Reads(o, ref, since) ==
    /\ o \in Callers
    /\ caller[o].pc \in {"load", "store"}
    /\ caller[o].ref = ref
    /\ caller[o].pc = "store" /\ caller[o].ok => since <= caller[o].entry.asOf

\* Every shared read has a reader, for those who wait too.
ReadsOK ==
    /\ DOMAIN inflight = Cache!Refs
    /\ \A r \in Cache!Refs : inflight[r] # "none" => Reads(inflight[r], r, completed[r])
    /\ \A c \in Callers :
          caller[c].pc = "wait" => Reads(caller[c].owner, caller[c].ref, caller[c].from)

\* The inductive invariant of ConfigRouterCache.
CacheInv == TablesOK /\ ItemsOK /\ PositiveOK /\ CallersOK /\ ReadsOK

-----------------------------------------------------------------------------
(* The constants, the table and the LRU.                                   *)

\* What the cache assumes of its constants.
LEMMA CacheConstantFacts ==
  /\ Ids \cap Names = {} /\ "none" \notin Ids \cup Names \cup Callers
  /\ Capacity \in Nat /\ Capacity >= 2
  /\ NegCapacity \in Nat
  /\ Cache!Refs = Ids \cup Names
  BY CacheConstants DEF Cache!CacheAssumption, Cache!Refs

\* The operator of FiniteSets as the instance sees it.
LEMMA CacheSets == \A S : Cache!Cardinality(S) = Cardinality(S)
  BY DEF Cardinality, Cache!Cardinality

\* A row is read by its id and by its name alike.
LEMMA ReadFacts ==
  ASSUME NEW t, GoodTable(t), NEW ref \in Cache!Refs, NEW v, v = Cache!Read(t, ref),
         v # Cache!NotFound
  PROVE  /\ v.id \in Ids /\ v.name \in Names /\ v.name = t[v.id].name
         /\ Cache!Read(t, v.id) = v /\ Cache!Read(t, v.name) = v
<1> DEFINE Named(r) == {i \in Ids : t[i].enabled /\ (i = r \/ t[i].name = r)}
           One(i) == [id |-> i, name |-> t[i].name, version |-> t[i].version]
<1>1. \A r : Cache!Read(t, r) = IF Named(r) = {} THEN Cache!NotFound
                                ELSE One(CHOOSE i \in Named(r) : TRUE)
  BY DEF Cache!Read
<1>2. Named(ref) # {} /\ v = One(CHOOSE i \in Named(ref) : TRUE)
  BY <1>1
<1> PICK j \in Ids : j = CHOOSE i \in Named(ref) : TRUE
  BY <1>2
<1>3. j \in Named(ref) /\ v = One(j)
  BY <1>2
<1>4. t[j].enabled /\ t[j].name \in Names
  BY <1>3 DEF GoodTable
<1>5. Named(j) = {j}
  BY <1>4, CacheConstantFacts DEF GoodTable
<1> PICK n : n = t[j].name
  OBVIOUS
<1>6. Named(n) = {j}
  BY <1>4, CacheConstantFacts DEF GoodTable
<1>7. Cache!Read(t, j) = One(j)
  BY <1>1, <1>5
<1>8. Cache!Read(t, n) = One(j)
  <2>1. (CHOOSE i \in Named(n) : TRUE) \in Named(n)
    BY <1>6
  <2>2. (CHOOSE i \in Named(n) : TRUE) = j
    BY <1>6, <2>1, Zenon
  <2>3. Named(n) # {}
    BY <1>6
  <2> HIDE DEF Named, One
  <2>4. QED
    BY <1>1, <2>2, <2>3
<1>9. v.id = j /\ v.name = t[j].name
  BY <1>3
<1>10. QED
  BY <1>3, <1>4, <1>7, <1>8, <1>9

\* The back of a list in which every item has been used.
LEMMA BackIsOldest ==
  ASSUME NEW lru, lru # {}, \A item \in lru : item.used \in Nat
  PROVE  Cache!Back(lru) \in lru /\ \A other \in lru : Cache!Back(lru).used <= other.used
<1> PICK U : U = {item.used : item \in lru}
  OBVIOUS
<1> PICK Less : Less = {ss \in Nat \X Nat : ss[1] < ss[2]}
  OBVIOUS
<1>1. IsWellFoundedOn(Less, Nat)
  BY NatLessThanWellFounded, Zenon DEF OpToRel
<1>2. U \subseteq Nat /\ U # {}
  OBVIOUS
<1>3. PICK m \in U : \A n \in U : ~(<<n, m>> \in Less)
  BY <1>1, <1>2, WFMin, Zenon
<1>4. ASSUME NEW n \in U PROVE m <= n
  <2>1. m \in Nat /\ n \in Nat
    BY <1>2
  <2>2. n < m => <<n, m>> \in Less
    BY <2>1
  <2>3. QED
    BY <1>3, <2>1, <2>2
<1>5. PICK item \in lru : item.used = m
  OBVIOUS
<1>6. \A other \in lru : item.used <= other.used
  BY <1>4, <1>5
<1>7. QED
  BY <1>6 DEF Cache!Back

\* Making room for the items of one entry takes other entries, and whole ones.
LEMMA EvictWhole ==
  ASSUME NEW rest, NEW new, NEW e, NEW cap \in Nat,
         \A item \in rest : item.used \in Nat /\ item.entry # e,
         \A item \in new : item.used \in Nat /\ item.entry = e,
         \A item \in rest, other \in new : item.used < other.used,
         Cardinality(new) <= cap
  PROVE  \E E : Cache!EvictOldest(rest \cup new, e, cap)
                    = {item \in rest : item.entry \notin E} \cup new
<1> PICK all : all = rest \cup new
  OBVIOUS
<1>1. CASE Cardinality(all) <= cap
  <2> PICK E : E = {}
    OBVIOUS
  <2>1. Cache!EvictOldest(all, e, cap) = {item \in rest : item.entry \notin E} \cup new
    BY <1>1, CacheSets DEF Cache!EvictOldest
  <2>2. QED
    BY <2>1
<1>2. CASE ~(Cardinality(all) <= cap)
  <2>1. rest # {}
    BY <1>2
  <2> PICK b : b = Cache!Back(all)
    OBVIOUS
  <2>2. b \in all /\ \A other \in all : b.used <= other.used
    BY <2>1, BackIsOldest
  <2> PICK old \in rest : TRUE
    BY <2>1
  <2>3. b \in rest /\ b.entry # e
    <3>1. b.used <= old.used /\ old.used \in Nat
      BY <2>2
    <3>2. b \notin new
      <4>1. SUFFICES ASSUME b \in new PROVE FALSE
        OBVIOUS
      <4>2. old.used < b.used /\ b.used \in Nat
        BY <4>1
      <4>3. QED
        BY <3>1, <4>2
    <3>3. QED
      BY <2>2, <3>2
  <2>4. Cache!EvictOldest(all, e, cap) = Cache!WithoutEntry(all, b.entry)
    BY <1>2, <2>3, CacheSets DEF Cache!EvictOldest
  <2>5. Cache!WithoutEntry(all, b.entry)
          = {item \in rest : item.entry \notin {b.entry}} \cup new
    BY <2>3 DEF Cache!WithoutEntry
  <2>6. QED
    BY <2>4, <2>5
<1>3. QED
  BY <1>1, <1>2

\* Making room only takes items.
LEMMA EvictTakes ==
  ASSUME NEW lru, NEW e, NEW cap
  PROVE  Cache!EvictOldest(lru, e, cap) \subseteq lru
  BY DEF Cache!EvictOldest, Cache!WithoutEntry

-----------------------------------------------------------------------------
(* The steps that change the table.                                        *)

\* The cache at the start.
LEMMA CacheInit == Cache!Init => CacheInv
<1> SUFFICES ASSUME Cache!Init PROVE CacheInv
  OBVIOUS
<1> USE DEF Cache!Init
<1>1. GoodTable(db)
  BY CacheConstantFacts DEF GoodTable, Tables, Rows, Cache!NoRow
<1>2. hist \in Seq(Tables) /\ Len(hist) = 1 /\ hist[1] = db
  BY <1>1 DEF GoodTable
<1>3. TablesOK
  BY <1>1, <1>2 DEF TablesOK
<1>4. ItemsOK
  BY DEF ItemsOK
<1>5. PositiveOK
  BY FS_EmptySet DEF PositiveOK, WholeEntries
<1>6. CallersOK
  <2>1. ASSUME NEW c \in Callers PROVE CallerOK(c)
    <3>1. caller[c] = Cache!Idle
      OBVIOUS
    <3>2. caller[c].pc = "idle" /\ caller[c].epoch = 0 /\ epoch = 0
      BY <3>1 DEF Cache!Idle
    <3>3. ~caller[c].ok /\ caller[c].ok \in BOOLEAN
      BY <3>1 DEF Cache!Idle
    <3>4. DOMAIN caller[c] = DOMAIN Cache!Idle
      BY <3>1
    <3>5. QED
      BY <3>2, <3>3, <3>4 DEF CallerOK
  <2>2. QED
    BY <2>1 DEF CallersOK
<1>7. ReadsOK
  BY DEF ReadsOK, Cache!Idle
<1>8. QED
  BY <1>3, <1>4, <1>5, <1>6, <1>7 DEF CacheInv

\* A change of the table.
LEMMA ChangeStep ==
  ASSUME CacheInv, NEW i \in Ids, NEW row \in Rows, row.name \in Names,
         \A j \in Ids \ {i} : db[j].name # row.name,
         NEW refs \in SUBSET Cache!Refs, refs \cap {i, db[i].name} # {},
         Cache!Change(i, row, refs)
  PROVE  CacheInv'
<1> USE DEF CacheInv
<1> PICK n \in Nat : n = Len(hist)
  BY DEF TablesOK
<1> PICK t : t = [db EXCEPT ![i] = row]
  OBVIOUS
<1>1. /\ db' = t /\ hist' = Append(hist, t) /\ admin = {} /\ admin' = refs
      /\ changed' = [changed EXCEPT ![i] = Len(hist')]
      /\ UNCHANGED <<completed, positive, negative, inflight, epoch, caller, uses>>
  BY DEF Cache!Change
<1>2. db \in Tables /\ GoodTable(db) /\ n \in 1..n
  BY DEF TablesOK, GoodTable
<1>3. t \in Tables /\ t[i] = row /\ \A j \in Ids \ {i} : t[j] = db[j]
  BY <1>2 DEF Tables
<1>4. GoodTable(t)
  BY <1>2, <1>3 DEF GoodTable
<1>5. /\ hist' \in Seq(Tables) /\ Len(hist') = n + 1 /\ hist'[n + 1] = t
      /\ \A k \in 1..n : hist'[k] = hist[k]
  BY <1>1, <1>3, AppendProperties DEF TablesOK
<1>6. TablesOK'
  <2>1. \A k \in 1..Len(hist') : GoodTable(hist'[k])
    BY <1>4, <1>5 DEF TablesOK
  <2>2. \A r \in Cache!Refs : completed'[r] \in 1..Len(hist')
    BY <1>1, <1>5 DEF TablesOK
  <2>3. DOMAIN changed' = Ids /\ \A j \in Ids : changed'[j] \in 0..Len(hist')
    BY <1>1, <1>5 DEF TablesOK
  <2>4. db' = hist'[Len(hist')] /\ Len(hist') >= 1
    BY <1>1, <1>5
  <2>5. DOMAIN completed' = Cache!Refs /\ admin' \subseteq Cache!Refs
    BY <1>1 DEF TablesOK
  <2>6. QED
    BY <1>5, <2>1, <2>2, <2>3, <2>4, <2>5 DEF TablesOK
<1>7. \A key, e, since : HoldsAt(hist, key, e, since) => HoldsAt(hist', key, e, since)
  BY <1>5 DEF HoldsAt
<1>8. ASSUME NEW e, Fresh(e, db, changed, admin) PROVE Fresh(e, db', changed', admin')
  <2>1. /\ e.value.id \in Ids /\ e.asOf >= changed[e.value.id]
        /\ e.value.name = db[e.value.id].name
    BY <1>1, <1>8 DEF Fresh
  <2>2. CASE e.value.id = i
    BY <1>1, <2>1, <2>2 DEF Fresh, Cache!Keys
  <2>3. CASE e.value.id # i
    <3>1. changed'[e.value.id] = changed[e.value.id] /\ t[e.value.id] = db[e.value.id]
      BY <1>1, <1>3, <2>1, <2>3 DEF TablesOK
    <3>2. QED
      BY <1>1, <2>1, <3>1 DEF Fresh
  <2>4. QED
    BY <2>2, <2>3
<1>9. ItemsOK'
  BY <1>1, <1>7 DEF ItemsOK
<1>10. PositiveOK'
  BY <1>1, <1>8 DEF PositiveOK
<1>11. CallersOK'
  <2> SUFFICES ASSUME NEW c \in Callers PROVE CallerOK(c)'
    BY <1>1 DEF CallersOK
  <2>1. CallerOK(c)
    BY DEF CallersOK
  <2>2. MayStore(caller[c].entry) => MayStore(caller[c].entry)'
    BY <1>1, <1>8 DEF MayStore
  <2>3. caller[c].from \in 1..n => caller[c].from \in 1..Len(hist')
    BY <1>5
  <2>4. QED
    BY <1>1, <1>7, <2>1, <2>2, <2>3 DEF CallerOK
<1>12. ReadsOK'
  BY <1>1 DEF ReadsOK, Reads
<1>13. QED
  BY <1>6, <1>9, <1>10, <1>11, <1>12

\* A request of the dashboard changes the table.
LEMMA AdminStep == CacheInv /\ Cache!Admin => CacheInv'
<1> SUFFICES ASSUME CacheInv, NEW i \in Ids, NEW enabled \in BOOLEAN,
                    \/ \E name \in Names : \/ Cache!Put(i, name, enabled)
                                           \/ Cache!Rename(i, name, enabled)
                    \/ \E j \in Ids : Cache!Conflict(i, j, enabled)
                    \/ \E ref \in Cache!Refs : Cache!Patch(i, ref, enabled)
             PROVE  CacheInv'
  BY DEF Cache!Admin
<1>1. db \in Tables /\ GoodTable(db) /\ Len(hist) \in Nat
  BY DEF CacheInv, TablesOK, GoodTable
<1>2. Cache!Exists(i) => db[i].name \in Names /\ \A j \in Ids \ {i} : db[j].name # db[i].name
  BY <1>1 DEF Cache!Exists, GoodTable
<1>3. ASSUME NEW name \in Names,
             Cache!Put(i, name, enabled) \/ Cache!Rename(i, name, enabled)
      PROVE  CacheInv'
  <2> PICK row : row = Cache!Row(name, enabled)
    OBVIOUS
  <2>1. row \in Rows /\ row.name = name
    BY <1>1 DEF Cache!Row, Rows
  <2>2. \A j \in Ids \ {i} : db[j].name # name
    BY <1>1, <1>3 DEF Cache!Put, Cache!Rename, Cache!NameFree, GoodTable
  <2>3. Cache!Change(i, row, {i, name})
    BY <1>3 DEF Cache!Put, Cache!Rename
  <2>4. {i, name} \in SUBSET Cache!Refs
    BY CacheConstantFacts
  <2>5. QED
    BY <2>1, <2>2, <2>3, <2>4, ChangeStep
<1>4. ASSUME NEW j \in Ids, Cache!Conflict(i, j, enabled) PROVE CacheInv'
  <2> PICK name : name = db[i].name
    OBVIOUS
  <2> PICK row : row = Cache!Row(name, enabled)
    OBVIOUS
  <2>1. name \in Names /\ \A k \in Ids \ {i} : db[k].name # name
    BY <1>2, <1>4 DEF Cache!Conflict
  <2>2. row \in Rows /\ row.name = name
    BY <1>1, <2>1 DEF Cache!Row, Rows
  <2>3. Cache!Change(i, row, {j, name})
    BY <1>4 DEF Cache!Conflict
  <2>4. {j, name} \in SUBSET Cache!Refs
    BY <2>1, CacheConstantFacts
  <2>5. QED
    BY <2>1, <2>2, <2>3, <2>4, ChangeStep
<1>5. ASSUME NEW ref \in Cache!Refs, Cache!Patch(i, ref, enabled) PROVE CacheInv'
  <2> PICK row : row = [db[i] EXCEPT !.enabled = enabled]
    OBVIOUS
  <2>1. row \in Rows /\ row.name = db[i].name
    BY <1>1 DEF Tables, Rows
  <2>2. row.name \in Names /\ \A k \in Ids \ {i} : db[k].name # row.name
    BY <1>2, <1>5, <2>1 DEF Cache!Patch
  <2>3. Cache!Change(i, row, {ref}) /\ ref \in {i, db[i].name}
    BY <1>5 DEF Cache!Patch
  <2>4. {ref} \in SUBSET Cache!Refs
    OBVIOUS
  <2>5. QED
    BY <2>1, <2>2, <2>3, <2>4, ChangeStep
<1>6. QED
  BY <1>3, <1>4, <1>5

-----------------------------------------------------------------------------
(* What the operations do to the lists.                                    *)

\* An invalidation takes whole entries, and every one with one of the keys.
LEMMA DroppedWhole ==
  ASSUME WholeEntries(positive), NEW refs, NEW S, S = Cache!DropEntries(refs)
  PROVE  /\ S \subseteq positive /\ WholeEntries(S)
         /\ \A item \in S : item.key \notin refs /\ Cache!Keys(item.entry) \cap refs = {}
<1>1. \A item : item \in S <=>
          item \in positive /\ ~\E hit \in positive : hit.key \in refs /\ hit.entry = item.entry
  BY DEF Cache!DropEntries
<1>2. \A item \in S : item.key \notin refs /\ Cache!Keys(item.entry) \cap refs = {}
  BY <1>1 DEF WholeEntries
<1>3. WholeEntries(S)
  <2> SUFFICES ASSUME NEW item \in S, NEW key \in Cache!Keys(item.entry)
               PROVE  \E other \in S : other.key = key /\ other.entry = item.entry
    BY DEF WholeEntries
  <2>1. PICK other \in positive : other.key = key /\ other.entry = item.entry
    BY <1>1 DEF WholeEntries
  <2>2. other \in S
    BY <1>1, <2>1
  <2>3. QED
    BY <2>1, <2>2
<1>4. QED
  BY <1>1, <1>2, <1>3

\* Taking all items of some entries leaves whole ones.
LEMMA WithoutEntriesWhole ==
  ASSUME NEW lru, WholeEntries(lru), NEW E, NEW S, S = {item \in lru : item.entry \notin E}
  PROVE  WholeEntries(S)
<1> SUFFICES ASSUME NEW item \in S, NEW key \in Cache!Keys(item.entry)
             PROVE  \E other \in S : other.key = key /\ other.entry = item.entry
  BY DEF WholeEntries
<1>1. PICK other \in lru : other.key = key /\ other.entry = item.entry
  BY DEF WholeEntries
<1>2. QED
  BY <1>1

\* A key that is there has an item.
LEMMA PeekFinds ==
  ASSUME NEW lru, NEW key, Cache!Has(lru, key)
  PROVE  \E item \in lru : item.key = key /\ item.entry = Cache!Peek(lru, key)
  BY DEF Cache!Has, Cache!Peek

\* The fields of an item.
LEMMA ItemFields ==
  ASSUME NEW key, NEW e, NEW use, NEW item, item = Cache!Item(key, e, use)
  PROVE  item.key = key /\ item.entry = e /\ item.used = use
  BY DEF Cache!Item

\* What is left when entries go.
LEMMA PositiveShrinks ==
  ASSUME PositiveOK, positive' \subseteq positive, WholeEntries(positive'),
         uses' \in Nat, uses <= uses', UNCHANGED <<db, changed, admin>>
  PROVE  PositiveOK'
<1>1. IsFiniteSet(positive')
  BY FS_Subset DEF PositiveOK
<1>2. \A item \in positive' : item.used \in Nat /\ item.used <= uses'
  BY DEF PositiveOK
<1>3. \A item \in positive' : Fresh(item.entry, db', changed', admin')
  BY DEF PositiveOK
<1>4. QED
  BY <1>1, <1>2, <1>3 DEF PositiveOK

\* An expired entry goes with all its keys.
LEMMA ExpiredGoes ==
  ASSUME PositiveOK, NEW ref,
         positive' = IF Cache!Has(positive, ref)
                     THEN Cache!WithoutEntry(positive, Cache!Peek(positive, ref)) ELSE positive,
         uses' \in Nat, uses <= uses', UNCHANGED <<db, changed, admin>>
  PROVE  positive' \subseteq positive /\ PositiveOK'
<1> PICK e : e = Cache!Peek(positive, ref)
  OBVIOUS
<1> PICK E : E = {e}
  OBVIOUS
<1>1. Cache!WithoutEntry(positive, e) = {item \in positive : item.entry \notin E}
  BY DEF Cache!WithoutEntry
<1>2. WholeEntries(positive)
  BY DEF PositiveOK
<1>3. positive' \subseteq positive /\ WholeEntries(positive')
  BY <1>1, <1>2, WithoutEntriesWhole
<1>4. QED
  BY <1>3, PositiveShrinks

\* A hit makes its items the newest.
LEMMA UsedMovesToFront ==
  ASSUME PositiveOK, NEW ref, Cache!Has(positive, ref),
         positive' = Cache!MoveToFront(positive, ref),
         uses' = uses + 1, UNCHANGED <<db, changed, admin>>
  PROVE  PositiveOK'
<1> USE DEF PositiveOK
<1> PICK e : e = Cache!Peek(positive, ref)
  OBVIOUS
<1> PICK new : new = Cache!Item(ref, e, uses + 1)
  OBVIOUS
<1>1. PICK old \in positive : old.key = ref /\ old.entry = e
  BY PeekFinds
<1>2. new.key = ref /\ new.entry = e /\ new.used = uses + 1
  BY ItemFields
<1>3. positive' = (positive \ {old}) \cup {new}
  BY <1>1 DEF Cache!MoveToFront, Cache!Without
<1>4. IsFiniteSet(positive')
  <2>1. IsFiniteSet(positive \ {old})
    BY FS_RemoveElement
  <2>2. IsFiniteSet((positive \ {old}) \cup {new})
    BY <2>1, FS_AddElement
  <2>3. QED
    BY <1>3, <2>2
<1>5. \A item \in positive' : item.used \in Nat /\ item.used <= uses'
  BY <1>2, <1>3
<1>6. \A item \in positive' : Fresh(item.entry, db', changed', admin')
  BY <1>1, <1>2, <1>3
<1>7. \A item, other \in positive' : item.key = other.key => item = other
  BY <1>1, <1>2, <1>3
<1>8. WholeEntries(positive')
  <2> SUFFICES ASSUME NEW item \in positive', NEW key \in Cache!Keys(item.entry)
               PROVE  \E other \in positive' : other.key = key /\ other.entry = item.entry
    BY DEF WholeEntries
  <2>1. \E was \in positive : was.entry = item.entry
    BY <1>1, <1>2, <1>3
  <2>2. PICK other \in positive : other.key = key /\ other.entry = item.entry
    BY <2>1 DEF WholeEntries
  <2>3. QED
    BY <1>1, <1>2, <1>3, <2>2
<1>9. QED
  BY <1>4, <1>5, <1>6, <1>7, <1>8

\* put of one key of an entry: what goes are other entries, all of each.
LEMMA OnePut ==
  ASSUME NEW rest, NEW new, NEW key, NEW e, NEW u \in Nat,
         \A item \in rest : item.used \in Nat /\ item.used <= u /\ item.entry # e,
         \A item \in rest \cup new : item.key # key,
         \A item \in new : item.used \in Nat /\ item.used > u /\ item.entry = e,
         IsFiniteSet(new), Cardinality(new) <= 1, NEW v \in Nat, v > u
  PROVE  \E E : Cache!put(rest \cup new, key, e, Capacity, v)
                  = {item \in rest : item.entry \notin E} \cup (new \cup {Cache!Item(key, e, v)})
<1>1. PICK n : n = Cache!Item(key, e, v)
  OBVIOUS
<1>2. n.key = key /\ n.entry = e /\ n.used = v
  BY <1>1, ItemFields
<1>3. PICK more : more = new \cup {n}
  OBVIOUS
<1>4. Cache!Without(rest \cup new, key) \cup {n} = rest \cup more
  BY <1>3 DEF Cache!Without
<1>5. Cardinality(more) <= Capacity /\ Capacity \in Nat
  <2>1. n \notin new
    BY <1>2
  <2>2. Cardinality(more) = Cardinality(new) + 1
    BY <1>3, <2>1, FS_AddElement
  <2>3. Cardinality(new) \in Nat
    BY FS_CardinalityType
  <2>4. QED
    BY <2>2, <2>3, CacheConstantFacts
<1>6. \A item \in more : item.used \in Nat /\ item.entry = e
  BY <1>2, <1>3
<1>7. ASSUME NEW item \in rest, NEW other \in more PROVE item.used < other.used
  <2>1. item.used \in Nat /\ item.used <= u
    BY <1>7
  <2>2. other.used \in Nat /\ other.used > u
    BY <1>2, <1>3, <1>7
  <2>3. QED
    BY <2>1, <2>2
<1>8. \A item \in rest : item.used \in Nat /\ item.entry # e
  OBVIOUS
<1>9. \E E : Cache!EvictOldest(rest \cup more, e, Capacity)
               = {item \in rest : item.entry \notin E} \cup more
  <2>1. \A item \in rest, other \in more : item.used < other.used
    BY <1>7
  <2>2. QED
    BY <1>5, <1>6, <1>8, <2>1, EvictWhole
<1>10. Cache!put(rest \cup new, key, e, Capacity, v)
         = Cache!EvictOldest(rest \cup more, e, Capacity)
  BY <1>1, <1>4 DEF Cache!put
<1>11. QED
  BY <1>1, <1>3, <1>9, <1>10

\* A new entry takes its two keys, and nothing of it is evicted on the way.
LEMMA TwoPuts ==
  ASSUME NEW rest, NEW a, NEW b, a # b, NEW e, NEW u \in Nat,
         \A item \in rest : /\ item.used \in Nat /\ item.used <= u
                            /\ item.entry # e /\ item.key \notin {a, b}
  PROVE  \E E : Cache!put(Cache!put(rest, a, e, Capacity, u + 1), b, e, Capacity, u + 2)
                  = {item \in rest : item.entry \notin E}
                      \cup {Cache!Item(a, e, u + 1), Cache!Item(b, e, u + 2)}
<1>1. PICK n1 : n1 = Cache!Item(a, e, u + 1)
  OBVIOUS
<1>2. PICK n2 : n2 = Cache!Item(b, e, u + 2)
  OBVIOUS
<1>3. n1.key = a /\ n1.entry = e /\ n1.used = u + 1
  BY <1>1, ItemFields
<1>4. u + 1 \in Nat /\ u + 2 \in Nat /\ u + 1 > u /\ u + 2 > u
  OBVIOUS
<1>5. PICK E : Cache!put(rest, a, e, Capacity, u + 1)
                 = {item \in rest : item.entry \notin E} \cup {n1}
  <2>1. PICK none : none = {}
    OBVIOUS
  <2>2. IsFiniteSet(none) /\ Cardinality(none) <= 1
    BY <2>1, FS_EmptySet
  <2>3. /\ \A item \in rest \cup none : item.key # a
        /\ \A item \in none : item.used \in Nat /\ item.used > u /\ item.entry = e
        /\ \A item \in rest : item.used \in Nat /\ item.used <= u /\ item.entry # e
        /\ rest \cup none = rest /\ none \cup {n1} = {n1}
    BY <2>1
  <2>4. \E E : Cache!put(rest \cup none, a, e, Capacity, u + 1)
                 = {item \in rest : item.entry \notin E} \cup (none \cup {n1})
    BY <1>1, <1>4, <2>2, <2>3, OnePut
  <2>5. QED
    BY <2>3, <2>4
<1>6. PICK kept : kept = {item \in rest : item.entry \notin E}
  OBVIOUS
<1>7. PICK F : Cache!put(kept \cup {n1}, b, e, Capacity, u + 2)
                 = {item \in kept : item.entry \notin F} \cup {n1, n2}
  <2>1. PICK new : new = {n1}
    OBVIOUS
  <2>2. IsFiniteSet(new) /\ Cardinality(new) <= 1
    <3>1. IsFiniteSet(new) /\ Cardinality(new) = 1
      BY <2>1, FS_Singleton
    <3>2. QED
      BY <3>1
  <2>3. \A item \in new : item.used \in Nat /\ item.used > u /\ item.entry = e
    BY <1>3, <1>4, <2>1
  <2>4. \A item \in kept : item.used \in Nat /\ item.used <= u /\ item.entry # e
    BY <1>6
  <2>5. \A item \in kept \cup new : item.key # b
    BY <1>3, <1>6, <2>1
  <2>6. \E G : Cache!put(kept \cup new, b, e, Capacity, u + 2)
                 = {item \in kept : item.entry \notin G} \cup (new \cup {n2})
    BY <1>2, <1>4, <2>2, <2>3, <2>4, <2>5, OnePut
  <2>7. new \cup {n2} = {n1, n2}
    BY <2>1
  <2>8. QED
    BY <2>1, <2>6, <2>7
<1>8. PICK G : G = E \cup F
  OBVIOUS
<1>9. {item \in kept : item.entry \notin F} = {item \in rest : item.entry \notin G}
  BY <1>6, <1>8
<1>10. QED
  BY <1>1, <1>2, <1>5, <1>6, <1>7, <1>9

\* put of both keys of a new entry.
LEMMA NewEntryIsWhole ==
  ASSUME PositiveOK, NEW e, e.value.id \in Ids, e.value.name \in Names,
         Fresh(e, db, changed, admin), Cache!StorePositive(e),
         UNCHANGED <<db, changed, admin>>
  PROVE  /\ PositiveOK'
         /\ \A item \in positive' : item \in positive
                \/ (item.key \in {e.value.name, e.value.id} /\ item.entry = e)
<1>1. PICK a : a = e.value.name
  OBVIOUS
<1>2. PICK b : b = e.value.id
  OBVIOUS
<1>3. PICK n1 : n1 = Cache!Item(a, e, uses + 1)
  OBVIOUS
<1>4. PICK n2 : n2 = Cache!Item(b, e, uses + 2)
  OBVIOUS
<1>5. /\ n1.key = a /\ n1.entry = e /\ n1.used = uses + 1
      /\ n2.key = b /\ n2.entry = e /\ n2.used = uses + 2
  BY <1>3, <1>4, ItemFields
<1>6. a # b /\ Cache!Keys(e) = {a, b} /\ uses \in Nat
  BY <1>1, <1>2, CacheConstantFacts DEF Cache!Keys, PositiveOK
<1>7. PICK rest : rest = Cache!DropEntries({a, b})
  OBVIOUS
<1>8. /\ rest \subseteq positive /\ WholeEntries(rest)
      /\ \A item \in rest : item.key \notin {a, b} /\ item.entry # e
  <2>1. WholeEntries(positive)
    BY DEF PositiveOK
  <2>2. QED
    BY <1>6, <1>7, <2>1, DroppedWhole
<1>9. \A item \in rest : /\ item.used \in Nat /\ item.used <= uses
                         /\ item.entry # e /\ item.key \notin {a, b}
  BY <1>8 DEF PositiveOK
<1>10. positive' = Cache!put(Cache!put(rest, a, e, Capacity, uses + 1), b, e, Capacity, uses + 2)
       /\ uses' = uses + 2
  BY <1>1, <1>2, <1>6, <1>7 DEF Cache!StorePositive
<1>11. PICK E : positive' = {item \in rest : item.entry \notin E} \cup {n1, n2}
  BY <1>3, <1>4, <1>6, <1>9, <1>10, TwoPuts
<1>12. PICK left : left = {item \in rest : item.entry \notin E}
  OBVIOUS
<1>13. positive' = left \cup {n1, n2} /\ left \subseteq rest /\ left \subseteq positive
  BY <1>8, <1>11, <1>12
<1>14. WholeEntries(left)
  BY <1>8, <1>12, WithoutEntriesWhole
<1>15. IsFiniteSet(positive')
  <2>1. IsFiniteSet(left)
    BY <1>13, FS_Subset DEF PositiveOK
  <2>2. IsFiniteSet(left \cup {n1})
    BY <2>1, FS_AddElement
  <2>3. IsFiniteSet((left \cup {n1}) \cup {n2})
    BY <2>2, FS_AddElement
  <2>4. (left \cup {n1}) \cup {n2} = positive'
    BY <1>13
  <2>5. QED
    BY <2>3, <2>4
<1>16. ASSUME NEW item \in positive' PROVE item.used \in Nat /\ item.used <= uses'
  <2>1. CASE item \in left
    BY <1>6, <1>9, <1>10, <1>13, <2>1
  <2>2. CASE item \in {n1, n2}
    BY <1>5, <1>6, <1>10, <2>2
  <2>3. QED
    BY <1>13, <2>1, <2>2
<1>17. \A item \in positive' : Fresh(item.entry, db', changed', admin')
  BY <1>5, <1>13 DEF PositiveOK
<1>18. \A item, other \in positive' : item.key = other.key => item = other
  <2>1. \A item, other \in left : item.key = other.key => item = other
    BY <1>13 DEF PositiveOK
  <2>2. \A item \in left : item.key # a /\ item.key # b
    BY <1>8, <1>13
  <2>3. n1.key = a /\ n2.key = b /\ a # b
    BY <1>5, <1>6
  <2>4. QED
    BY <1>13, <2>1, <2>2, <2>3
<1>19. WholeEntries(positive')
  <2> SUFFICES ASSUME NEW item \in positive', NEW key \in Cache!Keys(item.entry)
               PROVE  \E other \in positive' : other.key = key /\ other.entry = item.entry
    BY DEF WholeEntries
  <2>1. CASE item \in left
    BY <1>13, <1>14, <2>1 DEF WholeEntries
  <2>2. CASE item \in {n1, n2}
    BY <1>5, <1>6, <1>13, <2>2
  <2>3. QED
    BY <1>13, <2>1, <2>2
<1>20. PositiveOK'
  <2>1. uses' \in Nat
    BY <1>6, <1>10
  <2>2. QED
    BY <1>15, <1>16, <1>17, <1>18, <1>19, <2>1 DEF PositiveOK
<1>21. QED
  BY <1>1, <1>2, <1>5, <1>13, <1>20

-----------------------------------------------------------------------------
(* invalidate and the steps of a lookup.                                   *)

\* invalidate.
LEMMA InvalidateStep ==
  ASSUME CacheInv, Cache!invalidate
  PROVE  CacheInv'
<1> USE DEF CacheInv
<1>1. /\ epoch' = epoch + 1 /\ positive' = Cache!DropEntries(admin)
      /\ negative' = {item \in negative : item.key \notin admin}
      /\ inflight' = [r \in Cache!Refs |-> IF r \in admin THEN "none" ELSE inflight[r]]
      /\ completed' = [r \in Cache!Refs |-> IF r \in admin THEN Len(hist) ELSE completed[r]]
      /\ admin' = {} /\ UNCHANGED <<db, hist, changed, caller, uses>>
  BY DEF Cache!invalidate, Cache!ForgetInflight
<1>2. /\ positive' \subseteq positive /\ WholeEntries(positive')
      /\ \A item \in positive' : item.key \notin admin /\ Cache!Keys(item.entry) \cap admin = {}
  <2>1. WholeEntries(positive)
    BY DEF PositiveOK
  <2>2. QED
    BY <1>1, <2>1, DroppedWhole
<1>3. TablesOK'
  <2>1. DOMAIN completed' = Cache!Refs
    BY <1>1
  <2>2. ASSUME NEW r \in Cache!Refs PROVE completed'[r] \in 1..Len(hist')
    BY <1>1 DEF TablesOK
  <2>3. admin' \subseteq Cache!Refs
    BY <1>1
  <2>4. QED
    BY <1>1, <2>1, <2>2, <2>3 DEF TablesOK
<1>4. ItemsOK'
  <2> SUFFICES ASSUME NEW item \in positive' \cup negative'
               PROVE  /\ item.key \in Cache!Refs
                      /\ HoldsAt(hist', item.key, item.entry, completed'[item.key])
    BY DEF ItemsOK
  <2>1. item \in positive \cup negative /\ item.key \notin admin
    BY <1>1, <1>2
  <2>2. item.key \in Cache!Refs /\ HoldsAt(hist, item.key, item.entry, completed[item.key])
    BY <2>1 DEF ItemsOK
  <2>3. completed'[item.key] = completed[item.key]
    BY <1>1, <2>1, <2>2
  <2>4. QED
    BY <1>1, <2>2, <2>3
<1>5. PositiveOK'
  <2>1. IsFiniteSet(positive')
    BY <1>2, FS_Subset DEF PositiveOK
  <2>2. \A item \in positive' : Fresh(item.entry, db', changed', admin')
    BY <1>1, <1>2 DEF PositiveOK, Fresh
  <2>3. QED
    BY <1>1, <1>2, <2>1, <2>2 DEF PositiveOK
<1>6. CallersOK'
  <2>1. ASSUME NEW c \in Callers PROVE CallerOK(c)'
    <3>1. CallerOK(c) /\ epoch \in Nat
      BY DEF CallersOK
    <3>2. caller'[c].epoch \in Nat /\ caller'[c].epoch <= epoch' /\ caller'[c].epoch # epoch'
      BY <1>1, <3>1 DEF CallerOK
    <3>3. QED
      BY <1>1, <3>1, <3>2 DEF CallerOK
  <2>2. epoch' \in Nat /\ DOMAIN caller' = Callers
    BY <1>1 DEF CallersOK
  <2>3. QED
    BY <2>1, <2>2 DEF CallersOK
<1>7. ReadsOK'
  <2>1. DOMAIN inflight' = Cache!Refs
    BY <1>1
  <2>2. ASSUME NEW r \in Cache!Refs, inflight'[r] # "none"
        PROVE  Reads(inflight[r], r, completed[r])'
    <3>1. r \notin admin /\ inflight'[r] = inflight[r] /\ completed'[r] = completed[r]
      BY <1>1, <2>2
    <3>2. QED
      BY <1>1, <2>2, <3>1 DEF ReadsOK, Reads
  <2>3. \A c \in Callers :
          caller'[c].pc = "wait" => Reads(caller[c].owner, caller[c].ref, caller[c].from)'
    BY <1>1 DEF ReadsOK, Reads
  <2>4. QED
    BY <2>1, <2>2, <2>3 DEF ReadsOK
<1>8. QED
  BY <1>3, <1>4, <1>5, <1>6, <1>7

\* A step of one caller that leaves the table alone.
LEMMA OneCaller ==
  ASSUME CacheInv, NEW c \in Callers, UNCHANGED Cache!tableVars, UNCHANGED epoch,
         DOMAIN caller' = Callers, \A d \in Callers \ {c} : caller'[d] = caller[d],
         CallerOK(c)'
  PROVE  TablesOK' /\ CallersOK'
<1>1. UNCHANGED <<db, hist, admin, completed, changed>>
  BY DEF Cache!tableVars
<1>2. TablesOK'
  BY <1>1 DEF CacheInv, TablesOK
<1>3. ASSUME NEW d \in Callers \ {c} PROVE CallerOK(d)'
  BY <1>1, <1>3 DEF CacheInv, CallersOK, CallerOK, MayStore
<1>4. QED
  BY <1>2, <1>3 DEF CacheInv, CallersOK

\* Nobody waits for a caller that does not read.
LEMMA NoReader ==
  ASSUME CacheInv, NEW c \in Callers, UNCHANGED <<completed, inflight>>,
         \A d \in Callers \ {c} : caller'[d] = caller[d],
         caller[c].pc \notin {"load", "store"}, caller'[c].pc # "wait"
  PROVE  ReadsOK'
<1>1. \A o, ref, since : Reads(o, ref, since) => o # c /\ Reads(o, ref, since)'
  BY DEF Reads
<1>2. ASSUME NEW r \in Cache!Refs, inflight[r]' # "none"
      PROVE  Reads(inflight[r], r, completed[r])'
  BY <1>2 DEF CacheInv, ReadsOK, Reads
<1>3. ASSUME NEW d \in Callers, caller[d].pc' = "wait"
      PROVE  Reads(caller[d].owner, caller[d].ref, caller[d].from)'
  <2>1. d # c
    BY <1>3
  <2>2. Reads(caller[d].owner, caller[d].ref, caller[d].from) /\ caller'[d] = caller[d]
    BY <1>3, <2>1 DEF CacheInv, ReadsOK
  <2>3. QED
    BY <2>2 DEF Reads
<1>4. QED
  BY <1>2, <1>3 DEF CacheInv, ReadsOK

\* No item is new.
LEMMA SameItems ==
  ASSUME CacheInv, UNCHANGED Cache!tableVars,
         \A item \in positive' \cup negative' : item \in positive \cup negative
  PROVE  ItemsOK'
  BY DEF CacheInv, ItemsOK, Cache!tableVars

\* A lookup that the cache answers.
LEMMA LookupHitStep ==
  ASSUME CacheInv, NEW c \in Callers, NEW ref \in Cache!Refs, Cache!LookupHit(c, ref)
  PROVE  CacheInv'
<1>1. UNCHANGED <<db, hist, admin, completed, changed, inflight, epoch>>
      /\ UNCHANGED Cache!tableVars /\ uses' = uses + 1 /\ uses \in Nat
      /\ caller[c].pc = "idle"
  BY DEF Cache!LookupHit, Cache!tableVars, CacheInv, PositiveOK
<1>2. PICK e : /\ HoldsAt(hist, ref, e, completed[ref])
               /\ Cache!Return(c, ref, e)
               /\ PositiveOK'
               /\ \A item \in positive' \cup negative' :
                     item \in positive \cup negative \/ (item.key = ref /\ item.entry = e)
  <2>1. CASE /\ Cache!Live(positive, ref)
             /\ positive' = Cache!MoveToFront(positive, ref)
             /\ Cache!Return(c, ref, Cache!Peek(positive, ref))
             /\ UNCHANGED negative
    <3>1. PICK e : e = Cache!Peek(positive, ref)
      OBVIOUS
    <3>2. Cache!Has(positive, ref)
      BY <2>1 DEF Cache!Live
    <3>3. PICK old \in positive : old.key = ref /\ old.entry = e
      BY <3>1, <3>2, PeekFinds
    <3>4. HoldsAt(hist, ref, e, completed[ref])
      BY <3>3 DEF CacheInv, ItemsOK
    <3>5. PositiveOK'
      BY <1>1, <2>1, <3>2, UsedMovesToFront DEF CacheInv
    <3>6. \A item \in positive' : item \in positive \/ (item.key = ref /\ item.entry = e)
      BY <2>1, <3>1, ItemFields DEF Cache!MoveToFront, Cache!Without
    <3>7. QED
      BY <2>1, <3>1, <3>4, <3>5, <3>6
  <2>2. CASE /\ ~Cache!Live(positive, ref) /\ Cache!Live(negative, ref)
             /\ positive' = IF Cache!Has(positive, ref)
                            THEN Cache!WithoutEntry(positive, Cache!Peek(positive, ref))
                            ELSE positive
             /\ negative' = Cache!MoveToFront(negative, ref)
             /\ Cache!Return(c, ref, Cache!Peek(negative, ref))
    <3>1. PICK e : e = Cache!Peek(negative, ref)
      OBVIOUS
    <3>2. Cache!Has(negative, ref)
      BY <2>2 DEF Cache!Live
    <3>3. PICK old \in negative : old.key = ref /\ old.entry = e
      BY <3>1, <3>2, PeekFinds
    <3>4. HoldsAt(hist, ref, e, completed[ref])
      BY <3>3 DEF CacheInv, ItemsOK
    <3>5. positive' \subseteq positive /\ PositiveOK'
      <4>1. uses' \in Nat /\ uses <= uses'
        BY <1>1
      <4>2. QED
        BY <1>1, <2>2, <4>1, ExpiredGoes DEF CacheInv
    <3>6. \A item \in negative' : item \in negative \/ (item.key = ref /\ item.entry = e)
      BY <2>2, <3>1, ItemFields DEF Cache!MoveToFront, Cache!Without
    <3>7. QED
      BY <2>2, <3>1, <3>4, <3>5, <3>6
  <2>3. QED
    BY <2>1, <2>2 DEF Cache!LookupHit
<1>3. ItemsOK'
  BY <1>1, <1>2 DEF CacheInv, ItemsOK
<1>4. /\ DOMAIN caller' = Callers /\ \A d \in Callers \ {c} : caller'[d] = caller[d]
      /\ caller'[c] = [Cache!Idle EXCEPT !.pc = "done", !.ref = ref, !.from = completed[ref],
                                         !.since = Cache!LastChange, !.entry = e, !.ok = TRUE]
  BY <1>2 DEF Cache!Return, CacheInv, CallersOK
<1>5. /\ DOMAIN caller'[c] = DOMAIN Cache!Idle /\ caller'[c].pc = "done"
      /\ caller'[c].ref = ref /\ caller'[c].from = completed[ref] /\ caller'[c].entry = e
      /\ caller'[c].epoch = 0
  BY <1>4 DEF Cache!Idle
<1>6. caller'[c].ok = TRUE
  BY <1>4 DEF Cache!Idle
<1>7. CallerOK(c)'
  <2>1. completed[ref] \in 1..Len(hist) /\ epoch \in Nat
    BY DEF CacheInv, TablesOK, CallersOK
  <2>2. caller'[c].epoch \in Nat /\ caller'[c].epoch <= epoch'
    BY <1>1, <1>5, <2>1
  <2>3. caller'[c].ref \in Cache!Refs /\ caller'[c].from \in 1..Len(hist')
    BY <1>1, <1>5, <2>1
  <2>4. HoldsAt(hist', caller'[c].ref, caller'[c].entry, caller'[c].from)
    BY <1>1, <1>2, <1>5
  <2>5. caller'[c].ok \in BOOLEAN
    BY <1>6
  <2>6. QED
    BY <1>5, <2>2, <2>3, <2>4, <2>5 DEF CallerOK
<1>8. TablesOK' /\ CallersOK'
  BY <1>1, <1>4, <1>7, OneCaller
<1>9. ReadsOK'
  BY <1>1, <1>4, <1>5, NoReader
<1>10. QED
  BY <1>2, <1>3, <1>8, <1>9 DEF CacheInv

\* A lookup that reads, or waits for a read.
LEMMA LookupMissStep ==
  ASSUME CacheInv, NEW c \in Callers, NEW ref \in Cache!Refs, Cache!LookupMiss(c, ref)
  PROVE  CacheInv'
<1>1. PICK joins \in BOOLEAN : joins <=> inflight[ref] # "none"
  OBVIOUS
<1>2. PICK at : at = IF joins THEN "wait" ELSE "load"
  OBVIOUS
<1>3. PICK o : o = IF joins THEN inflight[ref] ELSE c
  OBVIOUS
<1>4. /\ UNCHANGED <<db, hist, admin, completed, changed, epoch, uses>>
      /\ UNCHANGED Cache!tableVars /\ caller[c].pc = "idle"
      /\ caller' = [caller EXCEPT ![c] =
              [Cache!Idle EXCEPT !.pc = at, !.ref = ref, !.owner = o,
                                 !.from = completed[ref], !.since = Cache!LastChange,
                                 !.epoch = epoch, !.eid = lookups']]
      /\ inflight' = IF joins THEN inflight ELSE [inflight EXCEPT ![ref] = c]
  BY <1>1, <1>2, <1>3 DEF Cache!LookupMiss, Cache!tableVars
<1>5. /\ positive' = IF Cache!Has(positive, ref)
                     THEN Cache!WithoutEntry(positive, Cache!Peek(positive, ref)) ELSE positive
      /\ negative' \subseteq negative
  BY DEF Cache!LookupMiss, Cache!Without
<1>6. positive' \subseteq positive /\ PositiveOK'
  <2>1. PositiveOK /\ uses' \in Nat /\ uses <= uses'
    BY <1>4 DEF CacheInv, PositiveOK
  <2>2. QED
    BY <1>4, <1>5, <2>1, ExpiredGoes
<1>7. ItemsOK'
  BY <1>4, <1>5, <1>6, SameItems
<1>8. /\ DOMAIN caller' = Callers /\ \A d \in Callers \ {c} : caller'[d] = caller[d]
      /\ caller'[c] = [Cache!Idle EXCEPT !.pc = at, !.ref = ref, !.owner = o,
                                 !.from = completed[ref], !.since = Cache!LastChange,
                                 !.epoch = epoch, !.eid = lookups']
  BY <1>4 DEF CacheInv, CallersOK
<1>9. /\ DOMAIN caller'[c] = DOMAIN Cache!Idle /\ caller'[c].pc = at
      /\ caller'[c].ref = ref /\ caller'[c].from = completed[ref] /\ caller'[c].owner = o
      /\ caller'[c].epoch = epoch
  BY <1>8 DEF Cache!Idle
<1>10. caller'[c].ok = FALSE
  BY <1>8 DEF Cache!Idle
<1>11. completed[ref] \in 1..Len(hist) /\ epoch \in Nat
  BY DEF CacheInv, TablesOK, CallersOK
<1>12. CallerOK(c)'
  <2>1. caller'[c].epoch \in Nat /\ caller'[c].epoch <= epoch'
    BY <1>4, <1>9, <1>11
  <2>2. caller'[c].ref \in Cache!Refs /\ caller'[c].from \in 1..Len(hist')
    BY <1>4, <1>9, <1>11
  <2>3. caller'[c].ok \in BOOLEAN /\ ~caller'[c].ok
    BY <1>10
  <2>4. QED
    BY <1>2, <1>9, <2>1, <2>2, <2>3 DEF CallerOK
<1>13. TablesOK' /\ CallersOK'
  BY <1>4, <1>8, <1>12, OneCaller
<1>14. ReadsOK'
  <2>1. \A x, r, since : Reads(x, r, since) => x # c /\ Reads(x, r, since)'
    BY <1>4, <1>8 DEF Reads
  <2>2. Reads(o, ref, completed[ref])'
    <3>1. CASE joins
      BY <1>1, <1>3, <1>4, <2>1, <3>1 DEF CacheInv, ReadsOK
    <3>2. CASE ~joins
      BY <1>2, <1>3, <1>9, <3>2 DEF Reads
    <3>3. QED
      BY <3>1, <3>2
  <2>3. DOMAIN inflight' = Cache!Refs
    BY <1>4 DEF CacheInv, ReadsOK
  <2>4. ASSUME NEW r \in Cache!Refs, inflight'[r] # "none"
        PROVE  Reads(inflight[r], r, completed[r])'
    <3>1. CASE r = ref /\ ~joins
      <4>1. inflight'[r] = o /\ completed'[r] = completed[ref]
        BY <1>3, <1>4, <3>1 DEF CacheInv, ReadsOK
      <4>2. QED
        BY <1>4, <2>2, <3>1, <4>1 DEF Reads
    <3>2. CASE ~(r = ref /\ ~joins)
      <4>1. inflight'[r] = inflight[r] /\ completed'[r] = completed[r]
        BY <1>4, <3>2 DEF CacheInv, ReadsOK
      <4>2. Reads(inflight[r], r, completed[r])
        BY <2>4, <4>1 DEF CacheInv, ReadsOK
      <4>3. QED
        BY <1>4, <1>8, <4>1, <4>2 DEF Reads
    <3>3. QED
      BY <3>1, <3>2
  <2>5. ASSUME NEW d \in Callers, caller'[d].pc = "wait"
        PROVE  Reads(caller[d].owner, caller[d].ref, caller[d].from)'
    <3>1. CASE d = c
      BY <1>4, <1>9, <2>2, <3>1 DEF Reads
    <3>2. CASE d # c
      <4>1. caller'[d] = caller[d]
        BY <1>8, <3>2
      <4>2. Reads(caller[d].owner, caller[d].ref, caller[d].from)
        BY <2>5, <4>1 DEF CacheInv, ReadsOK
      <4>3. QED
        BY <1>4, <1>8, <4>1, <4>2 DEF Reads
    <3>3. QED
      BY <3>1, <3>2
  <2>6. QED
    BY <2>3, <2>4, <2>5 DEF ReadsOK
<1>15. QED
  BY <1>6, <1>7, <1>13, <1>14 DEF CacheInv

\* The caches stay as they are.
LEMMA ListsRest ==
  ASSUME CacheInv, UNCHANGED Cache!tableVars, UNCHANGED <<positive, negative, uses>>
  PROVE  ItemsOK' /\ PositiveOK'
  BY DEF CacheInv, ItemsOK, PositiveOK, Cache!tableVars

\* The steps in which a caller that reads nothing ends or leaves.
LEMMA LeaveStep ==
  ASSUME CacheInv, NEW c \in Callers, Cache!LookupCanceled(c) \/ Cache!Done(c)
  PROVE  CacheInv'
<1>1. /\ UNCHANGED Cache!tableVars
      /\ UNCHANGED <<db, hist, admin, completed, changed, positive, negative, inflight,
                     epoch, uses>>
  BY DEF Cache!LookupCanceled, Cache!Done, Cache!tableVars
<1>2. CallerOK(c) /\ DOMAIN caller = Callers /\ epoch \in Nat
  BY DEF CacheInv, CallersOK
<1>3. /\ DOMAIN caller' = Callers /\ \A d \in Callers \ {c} : caller'[d] = caller[d]
      /\ caller[c].pc \notin {"load", "store"} /\ caller'[c].pc # "wait"
      /\ CallerOK(c)'
  <2>1. CASE Cache!LookupCanceled(c)
    <3>1. caller' = [caller EXCEPT ![c].pc = "done"] /\ caller[c].pc = "wait"
      BY <2>1 DEF Cache!LookupCanceled
    <3>2. /\ DOMAIN caller' = Callers /\ \A d \in Callers \ {c} : caller'[d] = caller[d]
          /\ DOMAIN caller'[c] = DOMAIN Cache!Idle /\ caller'[c].pc = "done"
          /\ caller'[c].epoch = caller[c].epoch /\ caller'[c].ref = caller[c].ref
          /\ caller'[c].from = caller[c].from /\ caller'[c].ok = caller[c].ok
      BY <1>2, <3>1 DEF CallerOK, Cache!Idle
    <3>3. ~caller'[c].ok /\ caller'[c].ok \in BOOLEAN
      BY <1>2, <3>1, <3>2 DEF CallerOK
    <3>4. CallerOK(c)'
      BY <1>1, <1>2, <3>1, <3>2, <3>3 DEF CallerOK
    <3>5. QED
      BY <3>1, <3>2, <3>4
  <2>2. CASE Cache!Done(c)
    <3>1. caller' = [caller EXCEPT ![c] = Cache!Idle] /\ caller[c].pc = "done"
      BY <2>2 DEF Cache!Done
    <3>2. /\ DOMAIN caller' = Callers /\ \A d \in Callers \ {c} : caller'[d] = caller[d]
          /\ caller'[c] = Cache!Idle
      BY <1>2, <3>1
    <3>3. caller'[c].pc = "idle" /\ caller'[c].epoch = 0
      BY <3>2 DEF Cache!Idle
    <3>4. ~caller'[c].ok /\ caller'[c].ok \in BOOLEAN
      BY <3>2 DEF Cache!Idle
    <3>5. DOMAIN caller'[c] = DOMAIN Cache!Idle
      BY <3>2
    <3>6. CallerOK(c)'
      BY <1>1, <1>2, <3>3, <3>4, <3>5 DEF CallerOK
    <3>7. QED
      BY <3>1, <3>2, <3>3, <3>6
  <2>3. QED
    BY <2>1, <2>2
<1>4. TablesOK' /\ CallersOK'
  BY <1>1, <1>3, OneCaller
<1>5. ReadsOK'
  BY <1>1, <1>3, NoReader
<1>6. QED
  BY <1>1, <1>4, <1>5, ListsRest DEF CacheInv

\* A reader reads the table.
LEMMA CacheLoadStep ==
  ASSUME CacheInv, NEW c \in Callers, Cache!Load(c)
  PROVE  CacheInv'
<1>1. PICK ok \in BOOLEAN :
        caller' = [caller EXCEPT ![c].pc = "store", ![c].ok = ok,
                                 ![c].entry = IF ok THEN Cache!NewEntry(c) ELSE Cache!NoEntry]
  BY DEF Cache!Load
<1>2. PICK e : e = IF ok THEN Cache!NewEntry(c) ELSE Cache!NoEntry
  OBVIOUS
<1>3. /\ UNCHANGED Cache!tableVars /\ caller[c].pc = "load"
      /\ UNCHANGED <<db, hist, admin, completed, changed, positive, negative, inflight,
                     epoch, uses>>
  BY DEF Cache!Load, Cache!tableVars
<1>4. CallerOK(c) /\ DOMAIN caller = Callers /\ epoch \in Nat
  BY DEF CacheInv, CallersOK
<1>5. /\ DOMAIN caller' = Callers /\ \A d \in Callers \ {c} : caller'[d] = caller[d]
      /\ DOMAIN caller'[c] = DOMAIN Cache!Idle /\ caller'[c].pc = "store"
      /\ caller'[c].epoch = caller[c].epoch /\ caller'[c].ref = caller[c].ref
      /\ caller'[c].from = caller[c].from /\ caller'[c].ok = ok /\ caller'[c].entry = e
  BY <1>1, <1>2, <1>4 DEF CallerOK, Cache!Idle
<1>6. ok => e.asOf = Len(hist) /\ e.value = Cache!Read(db, caller[c].ref)
  BY <1>2 DEF Cache!NewEntry
<1>7. caller[c].ref \in Cache!Refs /\ caller[c].from \in 1..Len(hist)
  BY <1>3, <1>4 DEF CallerOK
<1>8. ok => HoldsAt(hist, caller[c].ref, e, caller[c].from)
  BY <1>6, <1>7 DEF HoldsAt, CacheInv, TablesOK
<1>9. ok => MayStore(e)
  <2> SUFFICES ASSUME ok PROVE MayStore(e)
    OBVIOUS
  <2>1. GoodTable(db)
    BY DEF CacheInv, TablesOK
  <2>2. ASSUME e.value # Cache!NotFound PROVE Fresh(e, db, changed, admin)
    <3>1. PICK v : v = Cache!Read(db, caller[c].ref)
      OBVIOUS
    <3>2. v.id \in Ids /\ v.name = db[v.id].name
      BY <1>6, <1>7, <2>1, <2>2, <3>1, ReadFacts
    <3>3. changed[v.id] \in 0..Len(hist)
      BY <3>2 DEF CacheInv, TablesOK
    <3>4. QED
      BY <1>6, <3>1, <3>2, <3>3 DEF Fresh
  <2>3. \A r \in Cache!Refs : completed[r] <= e.asOf
    BY <1>6 DEF CacheInv, TablesOK
  <2>4. QED
    BY <2>2, <2>3 DEF MayStore
<1>10. CallerOK(c)'
  <2>1. ok => MayStore(e)'
    BY <1>3, <1>9 DEF MayStore
  <2>2. caller'[c].epoch \in Nat /\ caller'[c].epoch <= epoch'
    BY <1>3, <1>4, <1>5 DEF CallerOK
  <2>3. ok => MayStore(caller[c].entry)'
    BY <1>5, <2>1 DEF MayStore
  <2>4. QED
    BY <1>3, <1>5, <1>7, <1>8, <2>2, <2>3 DEF CallerOK
<1>11. TablesOK' /\ CallersOK'
  BY <1>3, <1>5, <1>10, OneCaller
<1>12. ReadsOK'
  <2>1. ASSUME NEW x, NEW r, NEW since \in 0..Len(hist), Reads(x, r, since)
        PROVE  Reads(x, r, since)'
    <3>1. x \in Callers /\ caller[x].pc \in {"load", "store"} /\ caller[x].ref = r
      BY <2>1 DEF Reads
    <3>2. CASE x = c
      BY <1>5, <1>6, <3>1, <3>2 DEF Reads
    <3>3. CASE x # c
      BY <1>5, <2>1, <3>1, <3>3 DEF Reads
    <3>4. QED
      BY <3>2, <3>3
  <2>2. ASSUME NEW r \in Cache!Refs, inflight[r]' # "none"
        PROVE  Reads(inflight[r], r, completed[r])'
    <3>1. PICK x : x = inflight[r]
      OBVIOUS
    <3>2. PICK since : since = completed[r]
      OBVIOUS
    <3>3. Reads(x, r, since) /\ since \in 0..Len(hist)
      BY <1>3, <2>2, <3>1, <3>2 DEF CacheInv, ReadsOK, TablesOK
    <3>4. Reads(x, r, since)'
      BY <2>1, <3>3
    <3>5. QED
      BY <1>3, <3>1, <3>2, <3>4 DEF Reads
  <2>3. ASSUME NEW d \in Callers, caller[d].pc' = "wait"
        PROVE  Reads(caller[d].owner, caller[d].ref, caller[d].from)'
    <3>1. d # c /\ caller'[d] = caller[d]
      BY <1>5, <2>3
    <3>2. PICK x : x = caller[d].owner
      OBVIOUS
    <3>3. PICK r : r = caller[d].ref
      OBVIOUS
    <3>4. PICK since : since = caller[d].from
      OBVIOUS
    <3>5. Reads(x, r, since)
      BY <2>3, <3>1, <3>2, <3>3, <3>4 DEF CacheInv, ReadsOK
    <3>6. since \in 0..Len(hist)
      BY <2>3, <3>1, <3>4 DEF CacheInv, CallersOK, CallerOK
    <3>7. Reads(x, r, since)'
      BY <2>1, <3>5, <3>6
    <3>8. QED
      BY <3>1, <3>2, <3>3, <3>4, <3>7 DEF Reads
  <2>4. QED
    BY <1>3, <2>2, <2>3 DEF CacheInv, ReadsOK
<1>13. QED
  BY <1>3, <1>11, <1>12, ListsRest DEF CacheInv

\* What a read has found goes into the lists only while it is current.
LEMMA StoredIsCurrent ==
  ASSUME CacheInv, NEW c \in Callers, Cache!Store(c)
  PROVE  ItemsOK' /\ PositiveOK'
<1>1. PICK e : e = caller[c].entry
  OBVIOUS
<1>2. PICK ref : ref = caller[c].ref
  OBVIOUS
<1>3. /\ UNCHANGED Cache!tableVars /\ caller[c].pc = "store"
      /\ UNCHANGED <<db, hist, admin, completed, changed>>
      /\ IF ~Cache!Stores(c) THEN UNCHANGED <<positive, negative, uses>>
         ELSE IF e.value = Cache!NotFound THEN Cache!StoreNegative(ref, e)
         ELSE Cache!StorePositive(e)
  BY <1>1, <1>2 DEF Cache!Store, Cache!tableVars
<1>4. CASE ~Cache!Stores(c)
  BY <1>3, <1>4, ListsRest
<1>5. CASE Cache!Stores(c)
  <2>1. /\ ref \in Cache!Refs /\ HoldsAt(hist, ref, e, caller[c].from)
        /\ MayStore(e)
    BY <1>1, <1>2, <1>3, <1>5 DEF Cache!Stores, CacheInv, CallersOK, CallerOK
  <2>2. \A r \in Cache!Refs :
          Cache!Read(hist[e.asOf], r) = e.value => HoldsAt(hist, r, e, completed[r])
    BY <2>1 DEF MayStore, HoldsAt
  <2>3. CASE e.value = Cache!NotFound
    <3>1. Cache!StoreNegative(ref, e)
      BY <1>3, <1>5, <2>3
    <3>2. \A item \in negative' : item \in negative \/ (item.key = ref /\ item.entry = e)
      BY <3>1, EvictTakes, ItemFields DEF Cache!StoreNegative, Cache!put, Cache!Without
    <3>3. HoldsAt(hist, ref, e, completed[ref])
      BY <2>1, <2>2 DEF HoldsAt
    <3>4. ItemsOK'
      BY <1>3, <2>1, <3>1, <3>2, <3>3 DEF CacheInv, ItemsOK, Cache!StoreNegative
    <3>5. positive' = positive /\ uses' \in Nat /\ uses <= uses' /\ WholeEntries(positive')
      BY <3>1 DEF Cache!StoreNegative, CacheInv, PositiveOK
    <3>6. PositiveOK'
      BY <1>3, <3>5, PositiveShrinks DEF CacheInv
    <3>7. QED
      BY <3>4, <3>6
  <2>4. CASE e.value # Cache!NotFound
    <3>1. Cache!StorePositive(e)
      BY <1>3, <1>5, <2>4
    <3>2. GoodTable(hist[e.asOf]) /\ Cache!Read(hist[e.asOf], ref) = e.value
      BY <2>1 DEF CacheInv, TablesOK, HoldsAt
    <3>3. PICK v : v = e.value
      OBVIOUS
    <3>4. PICK t : t = hist[e.asOf]
      OBVIOUS
    <3>5. /\ v.id \in Ids /\ v.name \in Names
          /\ Cache!Read(t, v.id) = v /\ Cache!Read(t, v.name) = v
      BY <2>1, <2>4, <3>2, <3>3, <3>4, ReadFacts
    <3>6. /\ PositiveOK'
          /\ \A item \in positive' : item \in positive
                \/ (item.key \in {v.name, v.id} /\ item.entry = e)
      BY <1>3, <2>1, <2>4, <3>1, <3>3, <3>5, NewEntryIsWhole DEF CacheInv, MayStore
    <3>7. \A key \in {v.name, v.id} :
            key \in Cache!Refs /\ HoldsAt(hist, key, e, completed[key])
      BY <2>2, <3>3, <3>4, <3>5, CacheConstantFacts
    <3>8. negative' \subseteq negative
      BY <3>1 DEF Cache!StorePositive
    <3>9. ItemsOK'
      BY <1>3, <3>6, <3>7, <3>8 DEF CacheInv, ItemsOK
    <3>10. QED
      BY <3>6, <3>9
  <2>5. QED
    BY <2>3, <2>4
<1>6. QED
  BY <1>4, <1>5

\* A reader stores its result and ends its read.
LEMMA StoreStep ==
  ASSUME CacheInv, NEW c \in Callers, Cache!Store(c)
  PROVE  CacheInv'
<1>1. PICK e : e = caller[c].entry
  OBVIOUS
<1>2. PICK ref : ref = caller[c].ref
  OBVIOUS
<1>3. /\ UNCHANGED <<db, hist, admin, completed, changed, epoch>> /\ caller[c].pc = "store"
      /\ inflight' = IF inflight[ref] = c THEN [inflight EXCEPT ![ref] = "none"] ELSE inflight
      /\ caller' = [d \in Callers |->
              IF d = c \/ Cache!Wakes(c, d)
              THEN [caller[d] EXCEPT !.pc = "done", !.entry = e, !.ok = caller[c].ok]
              ELSE caller[d]]
  BY <1>1, <1>2 DEF Cache!Store, Cache!tableVars
<1>4. CallerOK(c) /\ DOMAIN caller = Callers /\ epoch \in Nat
  BY DEF CacheInv, CallersOK
<1>5. TablesOK'
  BY <1>3 DEF CacheInv, TablesOK
<1>6. DOMAIN caller' = Callers
  BY <1>3
<1>7. \A d \in Callers : ~(d = c \/ Cache!Wakes(c, d)) => caller'[d] = caller[d]
  BY <1>3
<1>8. ASSUME NEW d \in Callers, d = c \/ Cache!Wakes(c, d)
      PROVE  caller'[d].pc = "done" /\ CallerOK(d)'
  <2>1. CallerOK(d)
    BY DEF CacheInv, CallersOK
  <2>2. /\ DOMAIN caller'[d] = DOMAIN Cache!Idle /\ caller'[d].pc = "done"
        /\ caller'[d].epoch = caller[d].epoch /\ caller'[d].ref = caller[d].ref
        /\ caller'[d].from = caller[d].from /\ caller'[d].entry = e
    BY <1>3, <1>8, <2>1 DEF CallerOK, Cache!Idle
  <2>3. caller'[d].ok = caller[c].ok
    BY <1>3, <1>8, <2>1 DEF CallerOK, Cache!Idle
  <2>4. caller'[d].ok \in BOOLEAN
    BY <1>4, <2>3 DEF CallerOK
  <2>5. caller[d].ref = ref /\ (caller[c].ok => caller[d].from <= e.asOf)
    <3>1. CASE d = c
      BY <1>1, <1>2, <1>3, <1>4, <3>1 DEF CallerOK, HoldsAt
    <3>2. CASE Cache!Wakes(c, d)
      <4>1. Reads(c, caller[d].ref, caller[d].from)
        BY <3>2 DEF Cache!Wakes, CacheInv, ReadsOK
      <4>2. QED
        BY <1>1, <1>2, <1>3, <4>1 DEF Reads
    <3>3. QED
      BY <1>8, <3>1, <3>2
  <2>6. caller[d].pc # "idle"
    BY <1>3, <1>8 DEF Cache!Wakes
  <2>7. caller'[d].ok => HoldsAt(hist', caller'[d].ref, caller'[d].entry, caller'[d].from)
    BY <1>1, <1>2, <1>3, <1>4, <2>2, <2>3, <2>5 DEF CallerOK, HoldsAt
  <2>8. QED
    BY <1>3, <2>1, <2>2, <2>4, <2>6, <2>7 DEF CallerOK
<1>9. CallersOK'
  <2>1. ASSUME NEW d \in Callers, ~(d = c \/ Cache!Wakes(c, d)) PROVE CallerOK(d)'
    BY <1>3, <1>7, <2>1 DEF CacheInv, CallersOK, CallerOK, MayStore
  <2>2. \A d \in Callers : CallerOK(d)'
    BY <1>8, <2>1
  <2>3. QED
    BY <1>3, <1>4, <1>6, <2>2 DEF CallersOK
<1>10. ReadsOK'
  <2>1. \A x, r, since : Reads(x, r, since) /\ x # c => Reads(x, r, since)'
    BY <1>7 DEF Reads, Cache!Wakes
  <2>2. DOMAIN inflight' = Cache!Refs
    BY <1>3 DEF CacheInv, ReadsOK
  <2>3. ASSUME NEW r \in Cache!Refs, inflight'[r] # "none"
        PROVE  Reads(inflight[r], r, completed[r])'
    <3>1. inflight'[r] = inflight[r]
      BY <1>3, <2>3 DEF CacheInv, ReadsOK
    <3>2. Reads(inflight[r], r, completed[r])
      BY <2>3, <3>1 DEF CacheInv, ReadsOK
    <3>3. inflight[r] # c
      <4>1. ASSUME inflight[r] = c PROVE FALSE
        <5>1. r = ref
          BY <1>2, <3>2, <4>1 DEF Reads
        <5>2. QED
          BY <1>3, <2>2, <2>3, <4>1, <5>1 DEF CacheInv, ReadsOK
      <4>2. QED
        BY <4>1
    <3>4. PICK x : x = inflight[r]
      OBVIOUS
    <3>5. PICK since : since = completed[r]
      OBVIOUS
    <3>6. Reads(x, r, since)'
      BY <2>1, <3>2, <3>3, <3>4, <3>5
    <3>7. QED
      BY <1>3, <3>1, <3>4, <3>5, <3>6 DEF Reads
  <2>4. ASSUME NEW d \in Callers, caller'[d].pc = "wait"
        PROVE  Reads(caller[d].owner, caller[d].ref, caller[d].from)'
    <3>1. caller'[d] = caller[d] /\ ~Cache!Wakes(c, d)
      BY <1>7, <1>8, <2>4
    <3>2. PICK x : x = caller[d].owner
      OBVIOUS
    <3>3. PICK r : r = caller[d].ref
      OBVIOUS
    <3>4. PICK since : since = caller[d].from
      OBVIOUS
    <3>5. Reads(x, r, since) /\ x # c
      BY <2>4, <3>1, <3>2, <3>3, <3>4 DEF CacheInv, ReadsOK, Cache!Wakes
    <3>6. Reads(x, r, since)'
      BY <2>1, <3>5
    <3>7. QED
      BY <3>1, <3>2, <3>3, <3>4, <3>6 DEF Reads
  <2>5. QED
    BY <2>2, <2>3, <2>4 DEF ReadsOK
<1>11. QED
  BY <1>5, <1>9, <1>10, StoredIsCurrent DEF CacheInv

\* Only entries expire.
LEMMA CacheRests ==
  ASSUME CacheInv, UNCHANGED <<db, hist, admin, completed, changed, positive, negative,
                               inflight, epoch, caller, uses>>
  PROVE  CacheInv'
  BY DEF CacheInv, TablesOK, ItemsOK, PositiveOK, CallersOK, CallerOK, MayStore, ReadsOK, Reads

\* Every step keeps the invariant.
LEMMA CacheStep == CacheInv /\ [Cache!Next]_(Cache!vars) => CacheInv'
<1> SUFFICES ASSUME CacheInv, [Cache!Next]_(Cache!vars) PROVE CacheInv'
  OBVIOUS
<1>1. CASE Cache!Admin
  BY <1>1, AdminStep
<1>2. CASE Cache!invalidate
  BY <1>2, InvalidateStep
<1>3. CASE \E c \in Callers : Cache!Lookup(c)
  BY <1>3, LookupHitStep, LookupMissStep DEF Cache!Lookup
<1>4. CASE \E c \in Callers : Cache!Load(c) \/ Cache!Store(c) \/ Cache!Done(c)
  BY <1>4, CacheLoadStep, StoreStep, LeaveStep
<1>5. CASE \E c \in Callers : Cache!LookupCanceled(c)
  BY <1>5, LeaveStep
<1>6. CASE Cache!Expire
  BY <1>6, CacheRests DEF Cache!Expire, Cache!tableVars
<1>7. CASE UNCHANGED Cache!vars
  BY <1>7, CacheRests DEF Cache!vars
<1>8. QED
  BY <1>1, <1>2, <1>3, <1>4, <1>5, <1>6, <1>7 DEF Cache!Next

\* The invariant of the cache holds in every state.
THEOREM CacheInvariant == CacheSpec => []CacheInv
  BY CacheInit, CacheStep, PTL DEF CacheSpec, Cache!Spec

\* What a lookup returns was the table's row at some moment since its own reference was last
\* invalidated before the lookup began, whatever invalidations, shared reads, evictions and
\* other lookups interleave with it.  (An invalidation of the row's other key is not covered.)
THEOREM LookupsAreCurrent == CacheSpec => []LookupIsCurrent
<1>1. CacheInv => LookupIsCurrent
  <2> SUFFICES ASSUME CacheInv, NEW c \in Callers, caller[c].pc = "done", caller[c].ok
               PROVE  \E k \in caller[c].from .. Len(hist) :
                          Cache!Read(hist[k], caller[c].ref) = caller[c].entry.value
    BY DEF LookupIsCurrent, Cache!LookupIsCurrent
  <2>1. /\ HoldsAt(hist, caller[c].ref, caller[c].entry, caller[c].from)
        /\ caller[c].from \in 1..Len(hist)
    BY DEF CacheInv, CallersOK, CallerOK
  <2>2. QED
    BY <2>1 DEF HoldsAt
<1>2. QED
  BY <1>1, CacheInvariant, PTL

\* Between changes no resolved config is cached from before the last change to its row,
\* also when a read that began before the change ends after it.
THEOREM CachedConfigsAreCurrent == CacheSpec => []CacheIsCurrent
<1>1. CacheInv => CacheIsCurrent
  BY DEF CacheInv, PositiveOK, Fresh, CacheIsCurrent, Cache!CacheIsCurrent
<1>2. QED
  BY <1>1, CacheInvariant, PTL

\* An entry is cached under its id and its name, or under neither, through evictions.
THEOREM EntriesAreWhole == CacheSpec => []Cache!CachedTogether
<1>1. CacheInv => Cache!CachedTogether
  <2> SUFFICES ASSUME CacheInv, NEW item \in positive, NEW key \in Cache!Keys(item.entry)
               PROVE  Cache!Has(positive, key) /\ Cache!Peek(positive, key) = item.entry
    BY DEF Cache!CachedTogether
  <2>1. PICK other \in positive : other.key = key /\ other.entry = item.entry
    BY DEF CacheInv, PositiveOK, WholeEntries
  <2>2. Cache!Has(positive, key)
    BY <2>1 DEF Cache!Has
  <2>3. PICK found \in positive : found.key = key /\ found.entry = Cache!Peek(positive, key)
    BY <2>2, PeekFinds
  <2>4. found = other
    BY <2>1, <2>3 DEF CacheInv, PositiveOK
  <2>5. QED
    BY <2>1, <2>2, <2>3, <2>4
<1>2. QED
  BY <1>1, CacheInvariant, PTL

\* A lookup waits only for a read that runs and will end its wait.
THEOREM WaitersHaveReaders == CacheSpec => []Cache!WaitsForRunningRead
<1>1. CacheInv => Cache!WaitsForRunningRead
  BY DEF CacheInv, ReadsOK, Reads, Cache!WaitsForRunningRead
<1>2. QED
  BY <1>1, CacheInvariant, PTL
=============================================================================
