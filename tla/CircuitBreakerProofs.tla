----------------------- MODULE CircuitBreakerProofs -----------------------
(***************************************************************************)
(* TLAPS proofs about CircuitBreaker, for every set of providers and call  *)
(* slots, every threshold and every cooldown.                              *)
(*                                                                         *)
(* OneLiveProbe is not inductive: a late success can close a circuit whose *)
(* probe is still out, and later failures can open it again.  The          *)
(* strengthening says where every unreported probe stands (ProbePlaced):   *)
(* it owns the slot, or it is past its lifetime, or the deadline of the    *)
(* open circuit is past its lifetime, or the circuit is closed.            *)
(***************************************************************************)
EXTENDS CircuitBreaker, TLAPS

\* An entry that became open at time o, seen at time t: it is closed exactly
\* below the threshold, its deadlines lie at most one cooldown ahead, an open
\* one at least one cooldown after o, and only a half-open one has a probe.
GoodEntry(e, o, t) ==
    /\ e.state = "closed" <=> e.failures < Threshold
    /\ o <= t
    /\ e.state = "open" =>
          e.openUntil <= t + Cooldown /\ e.openUntil >= o + Cooldown
    /\ e.state = "half-open" => e.probeExpires <= t + Cooldown
    /\ e.state # "half-open" => e.probe = 0

GoodEntries == \A p \in Providers : GoodEntry(entries[p], openedAt[p], now)

\* Probe IDs come from lastProbe and are never handed out twice.
ProbeIDs ==
    /\ \A p \in Providers : entries[p].probe <= lastProbe
    /\ \A c \in Calls : /\ admission[c].probe <= lastProbe
                        /\ admission[c].at <= now
    /\ \A c, d \in Calls :
          admission[c].probe # 0 /\ admission[c].probe = admission[d].probe
              => c = d

\* Where an unreported probe, granted at time at, stands with entry e at t.
Placed(e, probe, at, t) ==
    \/ e.state = "closed"
    \/ e.state = "open" /\ e.openUntil >= at + Cooldown
    \/ e.state = "half-open" /\ e.probe = probe /\ e.probeExpires = at + Cooldown
    \/ e.state = "half-open" /\ e.probe # probe /\ t >= at + Cooldown

ProbePlaced ==
    \A c \in Calls :
        Holds(c) /\ admission[c].probe # 0 =>
            Placed(entries[admission[c].provider], admission[c].probe,
                   admission[c].at, now)

IInv ==
    /\ TypeOK
    /\ GoodEntries
    /\ ProbeIDs
    /\ SlotHasHolder
    /\ ProbePlaced
    /\ OneLiveProbe
-----------------------------------------------------------------------------
(* What the entry operators return.                                        *)

\* Every method leaves a well-formed entry.
LEMMA EntryTypes ==
    ASSUME NEW e \in Entry, NEW t \in Nat, NEW probe \in Nat
    PROVE  /\ NewEntry \in Entry
           /\ AcquireEntry(e, t, probe) \in Entry
           /\ SuccessEntry(e) \in Entry
           /\ FailureEntry(e, t, probe) \in Entry
           /\ ReleaseEntry(e, probe) \in Entry
<1>0. t + Cooldown \in Nat
  BY SettingsAssumption
<1>1. NewEntry \in Entry
  BY DEF NewEntry, Entry, CircuitState
<1>2. AcquireEntry(e, t, probe) \in Entry
  BY <1>0 DEF AcquireEntry, IsProbe, Entry, CircuitState
<1>3. SuccessEntry(e) \in Entry
  BY <1>1 DEF SuccessEntry
<1>4. FailureEntry(e, t, probe) \in Entry
  <2>1. CountFailure(e, t) \in Entry
    <3>1. e.failures + 1 \in Nat
      BY DEF Entry
    <3>2. [e EXCEPT !.failures = e.failures + 1] \in Entry
      BY <3>1 DEF Entry
    <3>3. [e EXCEPT !.failures = e.failures + 1, !.state = "open",
                    !.openUntil = t + Cooldown] \in Entry
      BY <1>0, <3>1 DEF Entry, CircuitState
    <3> QED
      BY <3>2, <3>3 DEF CountFailure
  <2>2. [e EXCEPT !.state = "open", !.openUntil = t + Cooldown,
                  !.probe = 0, !.probeExpires = 0] \in Entry
    BY <1>0 DEF Entry, CircuitState
  <2> QED
    BY <2>1, <2>2 DEF FailureEntry
<1>5. ReleaseEntry(e, probe) \in Entry
  BY DEF ReleaseEntry, Entry, CircuitState
<1> QED
  BY <1>1, <1>2, <1>3, <1>4, <1>5

\* An admission turns a circuit that is not closed half-open, with the new
\* probe in its slot and nothing else changed.
LEMMA AcquireFields ==
    ASSUME NEW e \in Entry, NEW t \in Nat, NEW id \in Nat
    PROVE  LET f == AcquireEntry(e, t, id)
           IN  /\ e.state = "closed" => f = e
               /\ e.state # "closed" =>
                     /\ f.state = "half-open"
                     /\ f.probe = id
                     /\ f.probeExpires = t + Cooldown
               /\ f.failures = e.failures
  BY DEF AcquireEntry, IsProbe, Entry, CircuitState

\* The three outcomes of recordFailure: ignored, the probe's verdict, counted.
LEMMA FailureFields ==
    ASSUME NEW e \in Entry, NEW t \in Nat, NEW probe \in Nat
    PROVE  LET f == FailureEntry(e, t, probe)
           IN  /\ e.state = "half-open" /\ (probe = 0 \/ probe # e.probe) => f = e
               /\ e.state = "half-open" /\ probe # 0 /\ probe = e.probe =>
                     /\ f.state = "open"
                     /\ f.failures = e.failures
                     /\ f.openUntil = t + Cooldown
                     /\ f.probe = 0
               /\ e.state # "half-open" =>
                     /\ f.failures = e.failures + 1
                     /\ f.probe = e.probe
                     /\ e.failures + 1 >= Threshold =>
                           f.state = "open" /\ f.openUntil = t + Cooldown
                     /\ e.failures + 1 < Threshold =>
                           f.state = e.state /\ f.openUntil = e.openUntil
  BY SettingsAssumption DEF FailureEntry, CountFailure, Entry, CircuitState

\* A release changes the entry only when its probe owns the slot, and then it
\* only empties the slot.
LEMMA ReleaseFields ==
    ASSUME NEW e \in Entry, NEW probe \in Nat
    PROVE  LET f == ReleaseEntry(e, probe)
           IN  /\ ~(probe # 0 /\ e.state = "half-open" /\ e.probe = probe) => f = e
               /\ probe # 0 /\ e.state = "half-open" /\ e.probe = probe =>
                     /\ f.state = "half-open"
                     /\ f.failures = e.failures
                     /\ f.probe = 0
                     /\ f.probeExpires = 0
  BY DEF ReleaseEntry, Entry, CircuitState

-----------------------------------------------------------------------------
(* Type correctness.                                                       *)

\* NewCircuitBreaker starts well typed: every entry closed, no call admitted.
LEMMA InitTypeOK == Init => TypeOK
  BY DEF Init, TypeOK, NewEntry, Entry, CircuitState

\* Acquire, the reports of an Admission and the passing of time keep the types.
LEMMA NextTypeOK == TypeOK /\ [Next]_vars => TypeOK'
<1> SUFFICES ASSUME TypeOK, [Next]_vars PROVE TypeOK'
  OBVIOUS
<1>1. ASSUME NEW p \in Providers, NEW e \in Entry, SetEntry(p, e)
      PROVE  entries' \in [Providers -> Entry] /\ openedAt' \in [Providers -> Nat]
  BY <1>1 DEF TypeOK, SetEntry
<1>2. ASSUME NEW c \in Calls, NEW p \in Providers, Acquire(c, p)
      PROVE  TypeOK'
  <2> DEFINE e == entries[p]
             id == IF IsProbe(e) THEN lastProbe + 1 ELSE 0
  <2>1. e \in Entry /\ id \in Nat /\ now \in Nat
    BY DEF TypeOK
  <2>2. AcquireEntry(e, now, id) \in Entry
    BY <2>1, EntryTypes
  <2>3. SetEntry(p, AcquireEntry(e, now, id))
    BY <1>2 DEF Acquire
  <2>4. entries' \in [Providers -> Entry] /\ openedAt' \in [Providers -> Nat]
    BY <1>1, <2>2, <2>3
  <2>5. lastProbe' \in Nat /\ now' \in Nat
    BY <1>2, <2>1 DEF Acquire, TypeOK
  <2>6. admission' \in [Calls -> Admission \cup {NoAdmission}]
    <3>1. [provider |-> p, probe |-> id, at |-> now] \in Admission
      BY <2>1 DEF Admission
    <3>2. admission' = [admission EXCEPT ![c] = [provider |-> p, probe |-> id, at |-> now]]
      BY <1>2 DEF Acquire
    <3> QED
      BY <3>1, <3>2 DEF TypeOK
  <2> QED
    BY <2>4, <2>5, <2>6 DEF TypeOK
<1>3. ASSUME NEW c \in Calls, NEW e \in Entry, Holds(c), Report(c, e)
      PROVE  TypeOK'
  <2>1. admission[c].provider \in Providers
    BY <1>3 DEF TypeOK, Holds, Admission
  <2> QED
    BY <1>1, <1>3, <2>1 DEF TypeOK, Report
<1>4. ASSUME NEW c \in Calls, Holds(c)
      PROVE  entries[admission[c].provider] \in Entry /\ admission[c].probe \in Nat
  BY <1>4 DEF TypeOK, Holds, Admission
<1>5. ASSUME NEW c \in Calls, Success(c) \/ Failure(c) \/ Release(c)
      PROVE  TypeOK'
  <2>0. Holds(c) /\ now \in Nat
    BY <1>5 DEF Success, Failure, Release, TypeOK
  <2>1. CASE Success(c)
    BY <1>3, <1>4, <2>0, <2>1, EntryTypes DEF Success
  <2>2. CASE Failure(c)
    BY <1>3, <1>4, <2>0, <2>2, EntryTypes DEF Failure
  <2>3. CASE Release(c)
    BY <1>3, <1>4, <2>0, <2>3, EntryTypes DEF Release
  <2> QED
    BY <1>5, <2>1, <2>2, <2>3
<1>6. ASSUME NEW p \in Providers, RecordSuccess(p) \/ RecordFailure(p)
      PROVE  TypeOK'
  <2>1. entries[p] \in Entry /\ now \in Nat /\ 0 \in Nat
    BY DEF TypeOK
  <2>2. SuccessEntry(entries[p]) \in Entry /\ FailureEntry(entries[p], now, 0) \in Entry
    BY <2>1, EntryTypes
  <2> QED
    BY <1>1, <1>6, <2>2 DEF RecordSuccess, RecordFailure, TypeOK
<1>7. CASE Tick
  BY <1>7 DEF Tick, TypeOK
<1>8. CASE UNCHANGED vars
  BY <1>8 DEF vars, TypeOK
<1> QED
  BY <1>2, <1>5, <1>6, <1>7, <1>8 DEF Next

\* Every reachable state of the breaker is well typed: in particular a call
\* slot holds nothing or an Admission for one of the providers.
THEOREM TypeCorrect == Spec => []TypeOK
  BY InitTypeOK, NextTypeOK, PTL DEF Spec
-----------------------------------------------------------------------------
(* One entry: what an admission and a report keep.                         *)

\* The time openedAt records when e is replaced by f at time t.
Opened(e, f, o, t) == IF f.state = "open" /\ e.state # "open" THEN t ELSE o

\* An admission keeps the entry good; if the circuit is not closed, every
\* other probe is past its lifetime, so the new one is the only live probe.
LEMMA AcquireKeeps ==
    ASSUME NEW e \in Entry, NEW o \in Nat, NEW t \in Nat, NEW id \in Nat,
           GoodEntry(e, o, t), Admits(e, t)
    PROVE  LET f == AcquireEntry(e, t, id)
           IN  /\ GoodEntry(f, Opened(e, f, o, t), t)
               /\ e.state # "closed" =>
                     /\ Placed(f, id, t, t)
                     /\ \A x, at \in Nat :
                          x # 0 /\ x # id /\ Placed(e, x, at, t) =>
                              /\ t >= at + Cooldown
                              /\ Placed(f, x, at, t)
<1> DEFINE f == AcquireEntry(e, t, id)
<1>1. f \in Entry
  BY EntryTypes
<1>2. /\ e.state = "closed" => f = e
      /\ e.state # "closed" => /\ f.state = "half-open"
                               /\ f.probe = id
                               /\ f.probeExpires = t + Cooldown
      /\ f.failures = e.failures
  BY AcquireFields
<1> HIDE DEF f
<1>3. GoodEntry(f, Opened(e, f, o, t), t)
  BY <1>1, <1>2, SettingsAssumption DEF GoodEntry, Opened, Entry, CircuitState
<1>4. ASSUME e.state # "closed"
      PROVE  Placed(f, id, t, t)
  BY <1>2, <1>4 DEF Placed
<1>5. ASSUME e.state # "closed", NEW x \in Nat, NEW at \in Nat,
             x # 0, x # id, Placed(e, x, at, t)
      PROVE  t >= at + Cooldown /\ Placed(f, x, at, t)
  <2>1. t >= at + Cooldown
    BY <1>5, SettingsAssumption DEF Placed, Admits, HalfOpenFree, Entry, CircuitState
  <2> QED
    BY <1>2, <1>5, <2>1 DEF Placed
<1> QED
  BY <1>3, <1>4, <1>5 DEF f

\* A report of probe (0 for an ordinary call) keeps the entry good, leaves
\* the slot as it was or empties it, leaves it taken only if another probe
\* owns it, and does not disturb where the other probes stand.
LEMMA ReportKeeps ==
    ASSUME NEW e \in Entry, NEW o \in Nat, NEW t \in Nat, NEW probe \in Nat,
           NEW f, GoodEntry(e, o, t),
           \/ f = SuccessEntry(e)
           \/ f = FailureEntry(e, t, probe)
           \/ f = ReleaseEntry(e, probe)
    PROVE  /\ f \in Entry
           /\ GoodEntry(f, Opened(e, f, o, t), t)
           /\ f.probe = e.probe \/ f.probe = 0
           /\ f.probe # 0 => f.probe # probe
           /\ \A x, at \in Nat :
                 x # 0 /\ x # probe /\ at <= t /\ Placed(e, x, at, t) =>
                     Placed(f, x, at, t)
<1>1. f \in Entry
  BY EntryTypes
<1>2. CASE f = SuccessEntry(e)
  BY <1>1, <1>2, SettingsAssumption
  DEF SuccessEntry, NewEntry, GoodEntry, Opened, Placed, Entry, CircuitState
<1>3. CASE f = FailureEntry(e, t, probe)
  <2>1. /\ e.state = "half-open" /\ (probe = 0 \/ probe # e.probe) => f = e
        /\ e.state = "half-open" /\ probe # 0 /\ probe = e.probe =>
              /\ f.state = "open"
              /\ f.failures = e.failures
              /\ f.openUntil = t + Cooldown
              /\ f.probe = 0
        /\ e.state # "half-open" =>
              /\ f.failures = e.failures + 1
              /\ f.probe = e.probe
              /\ e.failures + 1 >= Threshold =>
                    f.state = "open" /\ f.openUntil = t + Cooldown
              /\ e.failures + 1 < Threshold =>
                    f.state = e.state /\ f.openUntil = e.openUntil
    BY <1>3, FailureFields
  <2>2. GoodEntry(f, Opened(e, f, o, t), t)
    BY <1>1, <2>1, SettingsAssumption DEF GoodEntry, Opened, Entry, CircuitState
  <2>3. /\ f.probe = e.probe \/ f.probe = 0
        /\ f.probe # 0 => f.probe # probe
    BY <2>1 DEF GoodEntry
  <2>4. ASSUME NEW x \in Nat, NEW at \in Nat,
               x # 0, x # probe, at <= t, Placed(e, x, at, t)
        PROVE  Placed(f, x, at, t)
    BY <1>1, <2>1, <2>4, SettingsAssumption
    DEF Placed, GoodEntry, Entry, CircuitState
  <2> QED
    BY <1>1, <2>2, <2>3, <2>4
<1>4. CASE f = ReleaseEntry(e, probe)
  <2>1. /\ ~(probe # 0 /\ e.state = "half-open" /\ e.probe = probe) => f = e
        /\ probe # 0 /\ e.state = "half-open" /\ e.probe = probe =>
              /\ f.state = "half-open"
              /\ f.failures = e.failures
              /\ f.probe = 0
              /\ f.probeExpires = 0
    BY <1>4, ReleaseFields
  <2>2. GoodEntry(f, Opened(e, f, o, t), t)
    BY <1>1, <2>1, SettingsAssumption DEF GoodEntry, Opened, Entry, CircuitState
  <2>3. /\ f.probe = e.probe \/ f.probe = 0
        /\ f.probe # 0 => f.probe # probe
    BY <2>1 DEF GoodEntry
  <2>4. ASSUME NEW x \in Nat, NEW at \in Nat,
               x # 0, x # probe, at <= t, Placed(e, x, at, t)
        PROVE  Placed(f, x, at, t)
    BY <2>1, <2>4 DEF Placed
  <2> QED
    BY <1>1, <2>2, <2>3, <2>4
<1> QED
  BY <1>2, <1>3, <1>4
-----------------------------------------------------------------------------
(* The inductive invariant.                                                *)

\* NewCircuitBreaker establishes the invariant: no circuit is open and no
\* probe exists.
LEMMA InitIInv == Init => IInv
<1> SUFFICES ASSUME Init PROVE IInv
  OBVIOUS
<1>1. TypeOK
  BY InitTypeOK
<1>2. GoodEntries
  BY SettingsAssumption DEF Init, GoodEntries, GoodEntry, NewEntry
<1>3. ProbeIDs
  BY DEF Init, ProbeIDs, NewEntry, NoAdmission
<1>4. SlotHasHolder
  BY DEF Init, SlotHasHolder, NewEntry
<1>5. ProbePlaced /\ OneLiveProbe
  BY DEF Init, ProbePlaced, OneLiveProbe, LiveProbe, Holds
<1> QED
  BY <1>1, <1>2, <1>3, <1>4, <1>5 DEF IInv

\* Replacing one good entry by another keeps all entries good.
LEMMA SetEntryGood ==
    ASSUME TypeOK, GoodEntries, NEW p \in Providers, NEW f \in Entry,
           SetEntry(p, f), now' = now,
           GoodEntry(f, Opened(entries[p], f, openedAt[p], now), now)
    PROVE  GoodEntries'
<1> SUFFICES ASSUME NEW q \in Providers
             PROVE  GoodEntry(entries'[q], openedAt'[q], now)
  BY DEF GoodEntries
<1>1. CASE q = p
  <2>1. entries'[q] = f /\ openedAt'[q] = Opened(entries[p], f, openedAt[p], now)
    BY <1>1 DEF SetEntry, TypeOK, Opened
  <2> QED
    BY <2>1
<1>2. CASE q # p
  <2>1. entries'[q] = entries[q] /\ openedAt'[q] = openedAt[q]
    BY <1>2 DEF SetEntry, TypeOK
  <2> QED
    BY <2>1 DEF GoodEntries
<1> QED
  BY <1>1, <1>2

\* A report, of a call c that holds a probe or none, and a record without an
\* Admission: f replaces the entry of p, and the calls keep or drop theirs.
LEMMA ReportInv ==
    ASSUME IInv, NEW p \in Providers, NEW probe \in Nat, NEW f,
           \/ f = SuccessEntry(entries[p])
           \/ f = FailureEntry(entries[p], now, probe)
           \/ f = ReleaseEntry(entries[p], probe),
           SetEntry(p, f), UNCHANGED <<lastProbe, now>>, TypeOK',
           \A d \in Calls :
              \/ admission'[d] = admission[d] /\ (probe = 0 \/ admission[d].probe # probe)
              \/ admission'[d] = NoAdmission
                 /\ (Holds(d) => admission[d].provider = p /\ admission[d].probe = probe)
    PROVE  IInv'
<1> DEFINE e == entries[p]
<1>1. e \in Entry /\ openedAt[p] \in Nat /\ now \in Nat /\ lastProbe \in Nat
  BY DEF IInv, TypeOK
<1>2. /\ f \in Entry
      /\ GoodEntry(f, Opened(e, f, openedAt[p], now), now)
      /\ f.probe = e.probe \/ f.probe = 0
      /\ f.probe # 0 => f.probe # probe
      /\ \A x, at \in Nat :
            x # 0 /\ x # probe /\ at <= now /\ Placed(e, x, at, now) =>
                Placed(f, x, at, now)
  <2>1. GoodEntry(e, openedAt[p], now)
    BY DEF IInv, GoodEntries
  <2> QED
    BY <1>1, <2>1, ReportKeeps
<1>3. entries'[p] = f /\ \A q \in Providers : q # p => entries'[q] = entries[q]
  BY DEF IInv, TypeOK, SetEntry
<1>4. GoodEntries'
  BY <1>2, SetEntryGood DEF IInv
<1>5. ProbeIDs'
  BY <1>1, <1>2, <1>3 DEF IInv, ProbeIDs, NoAdmission
<1>6. SlotHasHolder'
  <2> SUFFICES ASSUME NEW q \in Providers, entries'[q].probe # 0
               PROVE  /\ entries'[q].state = "half-open"
                      /\ \E c \in Calls : /\ admission'[c] # NoAdmission
                                          /\ admission'[c].provider = q
                                          /\ admission'[c].probe = entries'[q].probe
    BY DEF SlotHasHolder, Holds
  <2>1. entries'[q].probe = entries[q].probe
    BY <1>2, <1>3
  <2>2. entries'[q].state = "half-open"
    BY <1>4 DEF GoodEntries, GoodEntry
  <2>3. PICK c \in Calls : /\ Holds(c)
                           /\ admission[c].provider = q
                           /\ admission[c].probe = entries[q].probe
    BY <2>1 DEF IInv, SlotHasHolder
  <2>4. admission'[c] = admission[c]
    <3>1. CASE q = p
      BY <1>2, <1>3, <2>1, <2>3, <3>1
    <3>2. CASE q # p
      BY <2>3, <3>2
    <3> QED
      BY <3>1, <3>2
  <2> QED
    BY <2>1, <2>2, <2>3, <2>4 DEF Holds
<1>7. ProbePlaced'
  <2> SUFFICES ASSUME NEW c \in Calls, admission'[c] # NoAdmission,
                      admission'[c].probe # 0
               PROVE  Placed(entries'[admission'[c].provider],
                             admission'[c].probe, admission'[c].at, now)
    BY DEF ProbePlaced, Holds
  <2>1. admission'[c] = admission[c] /\ admission[c].probe # probe
    BY DEF NoAdmission
  <2>2. /\ admission[c].probe \in Nat /\ admission[c].at \in Nat
        /\ admission[c].at <= now
        /\ admission[c].provider \in Providers
    BY <2>1 DEF IInv, TypeOK, ProbeIDs, Admission
  <2>3. Placed(entries[admission[c].provider], admission[c].probe,
               admission[c].at, now)
    BY <2>1 DEF IInv, ProbePlaced, Holds
  <2> QED
    BY <1>2, <1>3, <2>1, <2>2, <2>3
<1>8. OneLiveProbe'
  <2>1. ASSUME NEW c \in Calls, NEW q \in Providers, LiveProbe(c, q)'
        PROVE  LiveProbe(c, q)
    BY <2>1 DEF LiveProbe, Holds
  <2> QED
    BY <2>1 DEF IInv, OneLiveProbe
<1> QED
  BY <1>4, <1>5, <1>6, <1>7, <1>8 DEF IInv

\* An admission.
LEMMA AcquireInv ==
    ASSUME IInv, NEW c \in Calls, NEW p \in Providers, Acquire(c, p), TypeOK'
    PROVE  IInv'
<1> DEFINE e == entries[p]
           id == IF IsProbe(e) THEN lastProbe + 1 ELSE 0
           f == AcquireEntry(e, now, id)
           a == [provider |-> p, probe |-> id, at |-> now]
<1>1. /\ e \in Entry /\ openedAt[p] \in Nat /\ now \in Nat /\ lastProbe \in Nat
      /\ id \in Nat
  BY DEF IInv, TypeOK
<1>2. /\ ~Holds(c) /\ Admits(e, now) /\ SetEntry(p, f) /\ now' = now
      /\ lastProbe' = (IF IsProbe(e) THEN id ELSE lastProbe)
      /\ admission' = [admission EXCEPT ![c] = a]
  BY DEF Acquire
<1>3. /\ f \in Entry
      /\ GoodEntry(f, Opened(e, f, openedAt[p], now), now)
      /\ e.state # "closed" =>
            /\ Placed(f, id, now, now)
            /\ \A x, at \in Nat :
                 x # 0 /\ x # id /\ Placed(e, x, at, now) =>
                     now >= at + Cooldown /\ Placed(f, x, at, now)
  <2>1. GoodEntry(e, openedAt[p], now)
    BY DEF IInv, GoodEntries
  <2>2. f \in Entry
    BY <1>1, EntryTypes
  <2> QED
    BY <1>1, <1>2, <2>1, <2>2, AcquireKeeps
<1>4. /\ e.state = "closed" => f = e /\ id = 0
      /\ e.state # "closed" => f.state = "half-open" /\ f.probe = id /\ id = lastProbe + 1
  BY <1>1, AcquireFields DEF IsProbe
<1> HIDE DEF f, id
<1>5. entries'[p] = f /\ \A q \in Providers : q # p => entries'[q] = entries[q]
  BY <1>2 DEF IInv, TypeOK, SetEntry
<1>6. admission'[c] = a /\ \A d \in Calls : d # c => admission'[d] = admission[d]
  BY <1>2 DEF IInv, TypeOK
<1>7. a.provider = p /\ a.probe = id /\ a.at = now
  OBVIOUS
<1> HIDE DEF a
<1>8. lastProbe' \in Nat /\ lastProbe <= lastProbe' /\ id <= lastProbe'
  BY <1>1, <1>2, <1>4 DEF IsProbe
<1>9. \A d \in Calls : /\ admission[d].probe \in Nat
                       /\ admission[d].probe <= lastProbe
                       /\ admission[d].at \in Nat
                       /\ admission[d].at <= now
  BY DEF IInv, TypeOK, ProbeIDs, Admission, NoAdmission
<1>10. GoodEntries'
  BY <1>2, <1>3, SetEntryGood DEF IInv
<1>11. ProbeIDs'
  <2>1. \A q \in Providers : entries'[q].probe <= lastProbe'
    <3>1. \A q \in Providers : entries[q].probe \in Nat /\ entries[q].probe <= lastProbe
      BY DEF IInv, TypeOK, ProbeIDs, Entry
    <3>2. f.probe \in Nat /\ f.probe <= lastProbe'
      BY <1>1, <1>3, <1>4, <1>8, <3>1 DEF Entry
    <3> QED
      BY <1>1, <1>5, <1>8, <3>1, <3>2
  <2>2. \A d \in Calls : admission'[d].probe <= lastProbe' /\ admission'[d].at <= now'
    BY <1>1, <1>2, <1>6, <1>7, <1>8, <1>9
  <2>3. ASSUME NEW d1 \in Calls, NEW d2 \in Calls, admission'[d1].probe # 0,
               admission'[d1].probe = admission'[d2].probe
        PROVE  d1 = d2
    <3>1. id # 0 => \A d \in Calls : admission[d].probe # id
      BY <1>1, <1>4, <1>9
    <3> QED
      BY <1>6, <1>7, <2>3, <3>1 DEF IInv, ProbeIDs
  <2> QED
    BY <2>1, <2>2, <2>3 DEF ProbeIDs
<1>12. SlotHasHolder'
  <2> SUFFICES ASSUME NEW q \in Providers, entries'[q].probe # 0
               PROVE  /\ entries'[q].state = "half-open"
                      /\ \E d \in Calls : /\ admission'[d] # NoAdmission
                                          /\ admission'[d].provider = q
                                          /\ admission'[d].probe = entries'[q].probe
    BY DEF SlotHasHolder, Holds
  <2>1. CASE q = p /\ e.state # "closed"
    <3>1. a # NoAdmission
      BY <1>7, <1>4, <1>1, ProvidersAssumption DEF NoAdmission
    <3> QED
      BY <1>4, <1>5, <1>6, <1>7, <2>1, <3>1
  <2>2. CASE q # p \/ e.state = "closed"
    <3>1. entries'[q] = entries[q]
      BY <1>4, <1>5, <2>2
    <3>2. PICK d \in Calls : /\ Holds(d)
                             /\ admission[d].provider = q
                             /\ admission[d].probe = entries[q].probe
      BY <3>1 DEF IInv, SlotHasHolder
    <3>3. d # c
      BY <1>2, <3>2
    <3> QED
      BY <1>6, <3>1, <3>2, <3>3 DEF IInv, SlotHasHolder, Holds
  <2> QED
    BY <2>1, <2>2
<1>13. ProbePlaced'
  <2> SUFFICES ASSUME NEW d \in Calls, admission'[d] # NoAdmission,
                      admission'[d].probe # 0
               PROVE  Placed(entries'[admission'[d].provider],
                             admission'[d].probe, admission'[d].at, now)
    BY <1>2 DEF ProbePlaced, Holds
  <2>1. CASE d = c
    BY <1>3, <1>4, <1>5, <1>6, <1>7, <2>1
  <2>2. CASE d # c
    <3>1. admission'[d] = admission[d]
      BY <1>6, <2>2
    <3>2. admission[d].provider \in Providers
      BY <3>1 DEF IInv, TypeOK, Admission
    <3>3. Placed(entries[admission[d].provider], admission[d].probe,
                 admission[d].at, now)
      BY <3>1 DEF IInv, ProbePlaced, Holds
    <3>4. CASE admission[d].provider # p \/ e.state = "closed"
      BY <1>4, <1>5, <3>1, <3>2, <3>3, <3>4
    <3>5. CASE admission[d].provider = p /\ e.state # "closed"
      <4>1. admission[d].probe # id
        BY <1>1, <1>4, <1>9, <3>5
      <4> QED
        BY <1>3, <1>5, <1>9, <3>1, <3>3, <3>5, <4>1
    <3> QED
      BY <3>4, <3>5
  <2> QED
    BY <2>1, <2>2
<1>14. OneLiveProbe'
  <2>1. ASSUME NEW d \in Calls, NEW q \in Providers, d # c, LiveProbe(d, q)'
        PROVE  LiveProbe(d, q)
    BY <1>2, <1>6, <2>1 DEF LiveProbe, Holds
  <2>2. ASSUME NEW d \in Calls, NEW q \in Providers, d # c,
               LiveProbe(d, q)', LiveProbe(c, q)'
        PROVE  FALSE
    <3>1. q = p /\ id # 0
      BY <1>6, <1>7, <2>2 DEF LiveProbe
    <3>2. e.state # "closed"
      BY <1>4, <3>1
    <3>3. /\ Holds(d) /\ admission[d].provider = p /\ admission[d].probe # 0
          /\ now < admission[d].at + Cooldown
      BY <2>1, <2>2, <3>1 DEF LiveProbe
    <3>4. Placed(e, admission[d].probe, admission[d].at, now)
      BY <3>3 DEF IInv, ProbePlaced
    <3>5. admission[d].probe # id
      BY <1>1, <1>4, <1>9, <3>2
    <3>6. now >= admission[d].at + Cooldown
      BY <1>3, <1>9, <3>2, <3>3, <3>4, <3>5
    <3> QED
      BY <1>1, <1>9, <3>3, <3>6, SettingsAssumption
  <2> QED
    BY <2>1, <2>2 DEF IInv, OneLiveProbe
<1> QED
  BY <1>10, <1>11, <1>12, <1>13, <1>14 DEF IInv

\* Every step keeps the invariant.
LEMMA NextIInv == IInv /\ [Next]_vars => IInv'
<1> SUFFICES ASSUME IInv, [Next]_vars PROVE IInv'
  OBVIOUS
<1>1. TypeOK /\ TypeOK'
  BY NextTypeOK DEF IInv
<1>2. ASSUME NEW c \in Calls, NEW p \in Providers, Acquire(c, p)
      PROVE  IInv'
  BY <1>1, <1>2, AcquireInv
<1>3. ASSUME NEW c \in Calls, Success(c) \/ Failure(c) \/ Release(c)
      PROVE  IInv'
  <2> DEFINE p == admission[c].provider
             probe == admission[c].probe
  <2>1. Holds(c)
    BY <1>3 DEF Success, Failure, Release
  <2>2. p \in Providers /\ probe \in Nat
    BY <1>1, <2>1 DEF TypeOK, Holds, Admission
  <2>3. PICK f : /\ \/ f = SuccessEntry(entries[p])
                    \/ f = FailureEntry(entries[p], now, probe)
                    \/ f = ReleaseEntry(entries[p], probe)
                 /\ Report(c, f)
    BY <1>3 DEF Success, Failure, Release
  <2>4. /\ SetEntry(p, f)
        /\ admission' = [admission EXCEPT ![c] = NoAdmission]
        /\ UNCHANGED <<lastProbe, now>>
    BY <2>3 DEF Report
  <2>5. ASSUME NEW d \in Calls
        PROVE  \/ admission'[d] = admission[d]
                  /\ (probe = 0 \/ admission[d].probe # probe)
               \/ admission'[d] = NoAdmission
                  /\ (Holds(d) => admission[d].provider = p
                                  /\ admission[d].probe = probe)
    <3>1. CASE d = c
      BY <1>1, <2>4, <3>1 DEF TypeOK
    <3>2. CASE d # c
      <4>1. admission'[d] = admission[d]
        BY <1>1, <2>4, <3>2 DEF TypeOK
      <4>2. probe = 0 \/ admission[d].probe # probe
        BY <3>2 DEF IInv, ProbeIDs
      <4> QED
        BY <4>1, <4>2
    <3> QED
      BY <3>1, <3>2
  <2> HIDE DEF p, probe
  <2> QED
    BY <1>1, <2>2, <2>3, <2>4, <2>5, ReportInv
<1>4. ASSUME NEW p \in Providers, RecordSuccess(p) \/ RecordFailure(p)
      PROVE  IInv'
  <2>1. PICK f : /\ \/ f = SuccessEntry(entries[p])
                    \/ f = FailureEntry(entries[p], now, 0)
                    \/ f = ReleaseEntry(entries[p], 0)
                 /\ SetEntry(p, f)
                 /\ UNCHANGED <<lastProbe, now, admission>>
    BY <1>4 DEF RecordSuccess, RecordFailure
  <2>2. \A d \in Calls :
           \/ admission'[d] = admission[d] /\ (0 = 0 \/ admission[d].probe # 0)
           \/ admission'[d] = NoAdmission
              /\ (Holds(d) => admission[d].provider = p /\ admission[d].probe = 0)
    BY <2>1
  <2>3. 0 \in Nat
    OBVIOUS
  <2> QED
    BY <1>1, <2>1, <2>2, <2>3, ReportInv
<1>5. CASE Tick
  <2>1. /\ now \in Nat /\ now' = now + 1
        /\ UNCHANGED <<entries, lastProbe, admission, openedAt>>
    BY <1>1, <1>5 DEF Tick, TypeOK
  <2>2. GoodEntries'
    BY <1>1, <2>1, SettingsAssumption
    DEF IInv, GoodEntries, GoodEntry, TypeOK, Entry
  <2>3. ProbeIDs'
    BY <1>1, <2>1 DEF IInv, ProbeIDs, TypeOK, Admission, NoAdmission
  <2>4. SlotHasHolder'
    BY <2>1 DEF IInv, SlotHasHolder, Holds
  <2>5. ProbePlaced'
    <3> SUFFICES ASSUME NEW c \in Calls, Holds(c), admission[c].probe # 0
                 PROVE  Placed(entries[admission[c].provider], admission[c].probe,
                               admission[c].at, now')
      BY <2>1 DEF ProbePlaced, Holds
    <3>1. admission[c].at \in Nat
      BY <1>1 DEF TypeOK, Admission, NoAdmission
    <3> QED
      BY <2>1, <3>1, SettingsAssumption DEF IInv, ProbePlaced, Placed
  <2>6. OneLiveProbe'
    <3>1. ASSUME NEW c \in Calls, NEW q \in Providers, LiveProbe(c, q)'
          PROVE  LiveProbe(c, q)
      <4>1. admission[c].at \in Nat
        BY <1>1 DEF TypeOK, Admission, NoAdmission
      <4> QED
        BY <2>1, <3>1, <4>1, SettingsAssumption DEF LiveProbe, Holds
    <3> QED
      BY <3>1 DEF IInv, OneLiveProbe
  <2> QED
    BY <1>1, <2>2, <2>3, <2>4, <2>5, <2>6 DEF IInv
<1>6. CASE UNCHANGED vars
  BY <1>1, <1>6
  DEF vars, IInv, GoodEntries, ProbeIDs, SlotHasHolder, ProbePlaced,
      OneLiveProbe, LiveProbe, Holds
<1> QED
  BY <1>2, <1>3, <1>4, <1>5, <1>6 DEF Next

\* The inductive invariant holds in every reachable state of the breaker: each
\* entry is good and each outstanding probe is known to its circuit or expired.
THEOREM InvariantHolds == Spec => []IInv
  BY InitIInv, NextIInv, PTL DEF Spec

-----------------------------------------------------------------------------
(* The properties of the breaker, for every value of the constants.        *)

\* At most one unexpired probe per provider, also across late reports that
\* close and reopen the circuit (Acquire, recordFailure).
THEOREM OneLiveProbeHolds == Spec => []OneLiveProbe
<1>1. IInv => OneLiveProbe
  BY DEF IInv
<1> QED
  BY <1>1, InvariantHolds, PTL

\* A taken probe slot is owned by a call that has not reported yet.
THEOREM SlotHasHolderHolds == Spec => []SlotHasHolder
<1>1. IInv => SlotHasHolder
  BY DEF IInv
<1> QED
  BY <1>1, InvariantHolds, PTL

\* A circuit is closed exactly while it counts fewer than Threshold failures.
THEOREM ClosedBelowThresholdHolds == Spec => []ClosedBelowThreshold
<1>1. IInv => ClosedBelowThreshold
  BY DEF IInv, GoodEntries, GoodEntry, ClosedBelowThreshold
<1> QED
  BY <1>1, InvariantHolds, PTL

\* Whatever was reported or lost, one quiet cooldown makes every provider
\* available again.
THEOREM NeverWedgedHolds == Spec => []NeverWedged
<1>1. IInv => NeverWedged
  <2> SUFFICES ASSUME IInv, NEW p \in Providers
               PROVE  Available(entries[p], now + Cooldown)
    BY DEF NeverWedged
  <2>1. entries[p] \in Entry /\ now \in Nat /\ GoodEntry(entries[p], openedAt[p], now)
    BY DEF IInv, TypeOK, GoodEntries
  <2>2. CASE entries[p].state = "closed"
    BY <2>2 DEF Available
  <2>3. CASE entries[p].state = "open"
    <3>1. ~(now + Cooldown < entries[p].openUntil)
      BY <2>1, <2>3, SettingsAssumption DEF GoodEntry, Entry
    <3> QED
      BY <2>3, <3>1 DEF Available
  <2>4. CASE entries[p].state = "half-open"
    <3>1. ~(now + Cooldown < entries[p].probeExpires)
      BY <2>1, <2>4, SettingsAssumption DEF GoodEntry, Entry
    <3> QED
      BY <2>4, <3>1 DEF Available
  <2> QED
    BY <2>1, <2>2, <2>3, <2>4 DEF Entry, CircuitState
<1> QED
  BY <1>1, InvariantHolds, PTL

\* An open circuit admits nobody within one cooldown of opening.
THEOREM NoAdmissionInCooldownHolds == Spec => NoAdmissionInCooldown
<1> DEFINE Step == \A c \in Calls :
              ~Holds(c) /\ admission'[c] # NoAdmission =>
                  LET p == admission'[c].provider
                  IN  entries[p].state = "open" => now >= openedAt[p] + Cooldown
<1>1. IInv /\ [Next]_vars => [Step]_vars
  <2> SUFFICES ASSUME IInv, Next, NEW c \in Calls, ~Holds(c),
                      admission'[c] # NoAdmission,
                      entries[admission'[c].provider].state = "open"
               PROVE  now >= openedAt[admission'[c].provider] + Cooldown
    BY DEF vars
  <2>1. TypeOK
    BY DEF IInv
  <2>2. PICK d \in Calls, p \in Providers : Acquire(d, p)
    <3>1. admission'[c] # admission[c]
      BY DEF Holds
    <3>2. ASSUME NEW d \in Calls, NEW e, Report(d, e)
          PROVE  FALSE
      BY <2>1, <3>1, <3>2 DEF Report, TypeOK
    <3> QED
      BY <3>1, <3>2
      DEF Next, Success, Failure, Release, RecordSuccess, RecordFailure, Tick
  <2>3. c = d
    BY <2>1, <2>2 DEF Acquire, TypeOK, Holds
  <2>4. admission'[c].provider = p /\ Admits(entries[p], now)
    BY <2>1, <2>2, <2>3 DEF Acquire, TypeOK
  <2>5. entries[p] \in Entry /\ openedAt[p] \in Nat /\ now \in Nat
        /\ GoodEntry(entries[p], openedAt[p], now)
    BY <2>1 DEF IInv, TypeOK, GoodEntries
  <2> QED
    BY <2>4, <2>5, SettingsAssumption DEF Admits, GoodEntry, Entry
<1> QED
  BY <1>1, InvariantHolds, PTL DEF Spec, NoAdmissionInCooldown

\* Only the owner of the slot reopens a half-open circuit or frees the slot.
THEOREM ProbeDecidesHolds == Spec => ProbeDecides
<1> DEFINE Step == \A p \in Providers :
              LET e == entries[p]
                  f == entries'[p]
              IN  /\ e.state = "half-open" /\ e.probe # 0
                  /\ \/ f.state = "open"
                     \/ f.state = "half-open" /\ f.probe = 0
                  => \E c \in Calls : /\ Holds(c)
                                      /\ admission[c].provider = p
                                      /\ admission[c].probe = e.probe
                                      /\ admission'[c] = NoAdmission
<1>1. IInv /\ [Next]_vars => [Step]_vars
  <2> SUFFICES ASSUME IInv, Next, NEW p \in Providers,
                      entries[p].state = "half-open", entries[p].probe # 0,
                      \/ entries'[p].state = "open"
                      \/ entries'[p].state = "half-open" /\ entries'[p].probe = 0
               PROVE  \E c \in Calls : /\ Holds(c)
                                       /\ admission[c].provider = p
                                       /\ admission[c].probe = entries[p].probe
                                       /\ admission'[c] = NoAdmission
    BY DEF vars
  <2>1. TypeOK /\ entries[p] \in Entry /\ now \in Nat /\ lastProbe \in Nat
    BY DEF IInv, TypeOK
  <2>2. entries'[p] # entries[p]
    OBVIOUS
  <2>3. ASSUME NEW q \in Providers, NEW e, SetEntry(q, e)
        PROVE  q = p /\ entries'[p] = e
    BY <2>1, <2>2, <2>3 DEF SetEntry, TypeOK
  <2>4. ASSUME NEW c \in Calls, NEW q \in Providers, Acquire(c, q)
        PROVE  FALSE
    <3>1. PICK id \in Nat : SetEntry(q, AcquireEntry(entries[q], now, id)) /\ id # 0
      <4>1. IsProbe(entries[q])
        <5>1. q = p
          BY <2>3, <2>4 DEF Acquire
        <5> QED
          BY <5>1 DEF IsProbe
      <4> QED
        BY <2>1, <2>4, <4>1 DEF Acquire
    <3>2. q = p /\ entries'[p] = AcquireEntry(entries[p], now, id)
      BY <2>3, <3>1
    <3> QED
      BY <2>1, <3>1, <3>2, AcquireFields
  <2>5. ASSUME NEW q \in Providers, RecordSuccess(q) \/ RecordFailure(q)
        PROVE  FALSE
    <3>1. q = p /\ (\/ entries'[p] = SuccessEntry(entries[p])
                    \/ entries'[p] = FailureEntry(entries[p], now, 0))
      BY <2>3, <2>5 DEF RecordSuccess, RecordFailure
    <3>2. 0 \in Nat
      OBVIOUS
    <3> QED
      BY <2>1, <2>2, <3>1, <3>2, FailureFields DEF SuccessEntry, NewEntry
  <2>6. ~Tick
    BY <2>2 DEF Tick
  <2>7. PICK c \in Calls : Success(c) \/ Failure(c) \/ Release(c)
    BY <2>4, <2>5, <2>6 DEF Next
  <2>8. /\ Holds(c) /\ admission[c].provider \in Providers
        /\ admission[c].probe \in Nat
    BY <2>1, <2>7 DEF Success, Failure, Release, TypeOK, Holds, Admission
  <2>9. /\ admission[c].provider = p
        /\ admission' = [admission EXCEPT ![c] = NoAdmission]
        /\ \/ entries'[p] = SuccessEntry(entries[p])
           \/ entries'[p] = FailureEntry(entries[p], now, admission[c].probe)
           \/ entries'[p] = ReleaseEntry(entries[p], admission[c].probe)
    BY <2>3, <2>7, <2>8 DEF Success, Failure, Release, Report
  <2>10. admission[c].probe = entries[p].probe
    BY <2>1, <2>2, <2>8, <2>9, FailureFields, ReleaseFields DEF SuccessEntry, NewEntry
  <2>11. admission'[c] = NoAdmission
    BY <2>1, <2>9 DEF TypeOK
  <2> QED
    BY <2>8, <2>9, <2>10, <2>11
<1> QED
  BY <1>1, InvariantHolds, PTL DEF Spec, ProbeDecides

\* Asking Available and calling Acquire at the same moment give the same
\* answer: a question that takes no probe slot, as "would a call be admitted
\* now" must not, has not drifted from the admission itself.
THEOREM AvailableMatchesAcquireHolds == Spec => []AvailableMatchesAcquire
<1>1. ASSUME TypeOK, NEW p \in Providers
      PROVE  Available(entries[p], now) <=> Admits(entries[p], now)
  <2>1. /\ entries[p].state \in {"closed", "open", "half-open"}
        /\ entries[p].openUntil \in Nat /\ entries[p].probeExpires \in Nat /\ now \in Nat
    BY <1>1 DEF TypeOK, Entry, CircuitState
  <2>2. CASE entries[p].state = "closed"
    BY <2>2 DEF Available, Admits
  <2>3. CASE entries[p].state = "open"
    BY <2>1, <2>3 DEF Available, Admits
  <2>4. CASE entries[p].state = "half-open"
    BY <2>1, <2>4 DEF Available, Admits, HalfOpenFree
  <2> QED
    BY <2>1, <2>2, <2>3, <2>4
<1>2. TypeOK => AvailableMatchesAcquire
  BY <1>1 DEF AvailableMatchesAcquire
<1> QED
  BY <1>2, TypeCorrect, PTL
=============================================================================
