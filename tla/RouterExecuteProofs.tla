------------------------ MODULE RouterExecuteProofs ------------------------
(***************************************************************************)
(* TLAPS proofs about RouterExecute, for every set of requests, providers  *)
(* and errors, every chain and every number of retries and of breakers.    *)
(*                                                                         *)
(* IInv says of every request where its loop stands (Positioned: an        *)
(* admission is held exactly during a call, the index stays in the chain)  *)
(* and what its caller's departure still allows (Late).  Both are          *)
(* predicates of one request record, so each action is described once, by  *)
(* the record it leaves (StepFacts), and the properties follow from that.  *)
(***************************************************************************)
EXTENDS RouterExecute, FiniteSetTheorems, TLAPS

\* Where the loop of a request stands.
Positioned(q) ==
    /\ 1 <= q.i /\ q.i <= Len(q.chain) + 1
    /\ q.attempt <= MaxRetries
    /\ q.pc \in {"call", "failed", "wait"} => q.i <= Len(q.chain)
    /\ q.pc = "idle" => q.i = 1 /\ q.attempt = 0
    /\ q.pc = "call" => q.admission \in Admission
    /\ q.pc # "call" => q.admission = NoAdmission

\* What a request with n late calls may still do.
Late(q, n) ==
    /\ n \in 0..1
    /\ ~q.ctxDone => n = 0
    /\ n = 1 => q.pc \in {"call", "failed", "done"}

IInv ==
    /\ TypeOK
    /\ \A r \in Requests : Positioned(req[r]) /\ Late(req[r], lateCalls[r])

\* A later point of the attempt, a later attempt or a later provider.
Rank == [idle |-> 0, wait |-> 1, try |-> 2, call |-> 3, failed |-> 4, done |-> 5]

MovesOn(q, n) ==
    \/ n.i = q.i /\ n.attempt = q.attempt /\ Rank[n.pc] > Rank[q.pc]
    \/ n.i = q.i /\ n.attempt = q.attempt + 1
    \/ n.i = q.i + 1 /\ n.attempt = 0

-----------------------------------------------------------------------------
(* One step of one request.                                                *)

\* The fields of a request record.
LEMMA RequestFields ==
    ASSUME NEW q \in Request
    PROVE  /\ q.pc \in {"idle", "try", "call", "failed", "wait", "done"}
           /\ q.kind \in AllKinds /\ q.hasRoute \in BOOLEAN /\ q.ctxDone \in BOOLEAN
           /\ q.chain \in Chains \cup {<<>>} /\ q.chain \in Seq(Providers)
           /\ Len(q.chain) \in Nat
           /\ q.i \in Nat /\ q.attempt \in Nat
           /\ q.admission \in Admission \cup {NoAdmission}
           /\ q.err \in Failures \cup {NoError} /\ q.result \in Results
<1>1. /\ q.chain \in Chains \cup {<<>>} /\ q.i \in Nat /\ q.attempt \in Nat
      /\ q.pc \in {"idle", "try", "call", "failed", "wait", "done"}
      /\ q.kind \in AllKinds /\ q.hasRoute \in BOOLEAN /\ q.ctxDone \in BOOLEAN
      /\ q.admission \in Admission \cup {NoAdmission}
      /\ q.err \in Failures \cup {NoError} /\ q.result \in Results
  BY DEF Request
<1>2. <<>> \in Seq(Providers)
  OBVIOUS
<1>3. q.chain \in Seq(Providers)
  BY <1>1, <1>2, RouterAssumption
<1>4. Len(q.chain) \in Nat
  BY <1>3
<1> QED
  BY <1>1, <1>3, <1>4

\* A provider of the chain is a provider.
LEMMA CurrentFacts ==
    ASSUME TypeOK, NEW r \in Requests, Positioned(req[r]), InChain(r)
    PROVE  Current(r) \in Providers
<1>1. req[r].chain \in Seq(Providers) /\ req[r].i \in Nat
  BY RequestFields DEF TypeOK
<1> QED
  BY <1>1 DEF Current, InChain, Positioned

\* What a step of a request's loop leaves: a well-placed record further on, and
\* no late call beyond the one that a cancellation in the middle of an attempt
\* allows.
LEMMA StepFacts ==
    ASSUME IInv, NEW r \in Requests, Start(r) \/ Step(r)
    PROVE  \E q \in Request :
              /\ req' = [req EXCEPT ![r] = q]
              /\ Positioned(q) /\ MovesOn(req[r], q)
              /\ q.ctxDone = req[r].ctxDone
              /\ Late(q, lateCalls'[r])
              /\ \A s \in Requests \ {r} : lateCalls'[s] = lateCalls[s]
              /\ lateCalls' \in [Requests -> Nat]
              /\ tried' \in [Requests -> SUBSET Providers]
<1> DEFINE q0 == req[r]
<1>1. /\ q0 \in Request /\ Positioned(q0) /\ Late(q0, lateCalls[r])
      /\ req \in [Requests -> Request]
      /\ lateCalls \in [Requests -> Nat]
      /\ tried \in [Requests -> SUBSET Providers]
  BY DEF IInv, TypeOK
<1>2. CASE Start(r)
  <2>1. PICK kind \in Kinds, chain \in Chains, hasRoute \in BOOLEAN :
           req' = [req EXCEPT ![r].kind = kind,
                              ![r].chain = chain,
                              ![r].hasRoute = hasRoute,
                              ![r].pc = IF chain = <<>> THEN "done" ELSE "try",
                              ![r].result = IF chain = <<>> THEN "no-provider"
                                            ELSE "none"]
    BY <1>2 DEF Start
  <2> DEFINE q == [q0 EXCEPT !.kind = kind, !.chain = chain, !.hasRoute = hasRoute,
                             !.pc = IF chain = <<>> THEN "done" ELSE "try",
                             !.result = IF chain = <<>> THEN "no-provider" ELSE "none"]
  <2>2. req' = [req EXCEPT ![r] = q]
    BY <1>1, <2>1
  <2>3. q0.pc = "idle" /\ UNCHANGED <<tried, lateCalls>>
    BY <1>2 DEF Start
  <2>4. q \in Request
    BY <1>1, RouterAssumption DEF Request, Results
  <2>5. /\ q.pc \in {"done", "try"} /\ q.i = q0.i /\ q.attempt = q0.attempt
        /\ q.admission = q0.admission /\ q.ctxDone = q0.ctxDone /\ q.chain = chain
    BY <1>1 DEF Request
  <2>6. Len(chain) \in Nat
    BY RouterAssumption
  <2> HIDE DEF q
  <2>7. Positioned(q) /\ MovesOn(q0, q)
    BY <1>1, <2>3, <2>5, <2>6 DEF Positioned, MovesOn, Rank
  <2>8. Late(q, lateCalls'[r])
    BY <1>1, <2>3, <2>5 DEF Late
  <2> QED
    BY <1>1, <2>2, <2>3, <2>4, <2>5, <2>7, <2>8
<1>3. ASSUME NextProvider(r), InChain(r), UNCHANGED lateCalls, lateCalls[r] = 0,
             q0.admission = NoAdmission
      PROVE  \E q \in Request :
              /\ req' = [req EXCEPT ![r] = q]
              /\ Positioned(q) /\ MovesOn(req[r], q)
              /\ q.ctxDone = req[r].ctxDone
              /\ Late(q, lateCalls'[r])
              /\ \A s \in Requests \ {r} : lateCalls'[s] = lateCalls[s]
              /\ lateCalls' \in [Requests -> Nat]
              /\ tried' \in [Requests -> SUBSET Providers]
  <2> DEFINE q == [q0 EXCEPT !.pc = "try", !.i = @ + 1, !.attempt = 0, !.err = NoError]
  <2>1. req' = [req EXCEPT ![r] = q]
    BY <1>1, <1>3 DEF NextProvider
  <2>2. q \in Request
    <3>1. q0.i + 1 \in Nat
      BY <1>1, RequestFields
    <3> QED
      BY <1>1, <3>1 DEF Request
  <2>3. /\ q.pc = "try" /\ q.i = q0.i + 1 /\ q.attempt = 0
        /\ q.chain = q0.chain /\ q.ctxDone = q0.ctxDone /\ q.admission = q0.admission
    BY <1>1 DEF Request
  <2>4. tried' \in [Requests -> SUBSET Providers]
    BY <1>1, <1>3, CurrentFacts DEF NextProvider, IInv
  <2> HIDE DEF q
  <2>5. Positioned(q) /\ MovesOn(q0, q)
    BY <1>1, <1>3, <2>3, RequestFields, RouterAssumption DEF Positioned, MovesOn, InChain
  <2>6. Late(q, lateCalls'[r])
    BY <1>1, <1>3, <2>3 DEF Late
  <2> QED
    BY <1>1, <1>3, <2>1, <2>2, <2>3, <2>4, <2>5, <2>6
<1>4. CASE Skip(r) \/ Refused(r)
  BY <1>1, <1>3, <1>4 DEF Skip, Refused, Positioned, Late
<1>5. CASE Fallback(r)
  BY <1>1, <1>3, <1>5 DEF Fallback, Positioned, Late, InChain
<1>6. CASE allowProvider(r)
  <2> DEFINE p == Current(r)
             id == IF IsProbe(entries[breaker][p]) THEN lastProbe[breaker] + 1 ELSE 0
             a == [breaker |-> breaker, provider |-> p, probe |-> id, at |-> now]
             q == [q0 EXCEPT !.pc = "call", !.admission = a]
  <2>1. /\ q0.pc = "try" /\ InChain(r)
        /\ req' = [req EXCEPT ![r] = q]
        /\ lateCalls' = [lateCalls EXCEPT ![r] = IF q0.ctxDone THEN @ + 1 ELSE @]
        /\ UNCHANGED tried
    BY <1>1, <1>6 DEF allowProvider
  <2>2. a \in Admission
    <3>1. p \in Providers
      BY <1>1, <2>1, CurrentFacts DEF IInv
    <3>2. breaker \in Breakers /\ now \in Nat /\ lastProbe[breaker] + 1 \in Nat
      BY RouterAssumption DEF IInv, TypeOK, Breakers
    <3> QED
      BY <3>1, <3>2 DEF Admission
  <2> HIDE DEF a
  <2>3. q \in Request
    BY <1>1, <2>2 DEF Request
  <2>4. /\ q.pc = "call" /\ q.admission = a /\ q.chain = q0.chain
        /\ q.i = q0.i /\ q.attempt = q0.attempt /\ q.ctxDone = q0.ctxDone
    BY <1>1 DEF Request
  <2> HIDE DEF q
  <2>5. Positioned(q) /\ MovesOn(q0, q)
    BY <1>1, <2>1, <2>2, <2>4 DEF Positioned, MovesOn, Rank, InChain
  <2>6. Late(q, lateCalls'[r])
    BY <1>1, <2>1, <2>4 DEF Late
  <2>7. lateCalls' \in [Requests -> Nat]
    BY <1>1, <2>1
  <2> QED
    BY <1>1, <2>1, <2>3, <2>4, <2>5, <2>6, <2>7
<1>7. CASE Exhaust(r)
  <2> DEFINE q == [q0 EXCEPT !.pc = "done", !.result = "exhausted"]
  <2>1. q0.pc = "try" /\ req' = [req EXCEPT ![r] = q] /\ UNCHANGED <<tried, lateCalls>>
    BY <1>1, <1>7 DEF Exhaust
  <2>2. q \in Request
    BY <1>1, <1>7 DEF Request, Results
  <2>3. /\ q.pc = "done" /\ q.attempt = q0.attempt /\ q.admission = q0.admission
        /\ q.chain = q0.chain /\ q.i = q0.i /\ q.ctxDone = q0.ctxDone
    BY <1>1 DEF Request
  <2> HIDE DEF q
  <2>4. Positioned(q) /\ MovesOn(q0, q)
    BY <1>1, <2>1, <2>3, RequestFields, RouterAssumption DEF Positioned, MovesOn, Rank, Attempts
  <2>5. Late(q, lateCalls'[r])
    BY <1>1, <2>1, <2>3 DEF Late
  <2> QED
    BY <1>1, <2>1, <2>2, <2>3, <2>4, <2>5
<1>8. CASE Answer(r)
  <2> DEFINE q == [q0 EXCEPT !.pc = "done", !.result = "ok", !.admission = NoAdmission]
  <2>1. q0.pc = "call" /\ req' = [req EXCEPT ![r] = q] /\ UNCHANGED <<tried, lateCalls>>
    BY <1>1, <1>8 DEF Answer
  <2>2. q \in Request
    BY <1>1, <1>8 DEF Request, Results
  <2>3. /\ q.pc = "done" /\ q.attempt = q0.attempt /\ q.admission = NoAdmission
        /\ q.chain = q0.chain /\ q.i = q0.i /\ q.ctxDone = q0.ctxDone
    BY <1>1 DEF Request
  <2> HIDE DEF q
  <2>4. Positioned(q) /\ MovesOn(q0, q)
    BY <1>1, <2>1, <2>3, RequestFields, RouterAssumption DEF Positioned, MovesOn, Rank, Attempts
  <2>5. Late(q, lateCalls'[r])
    BY <1>1, <2>1, <2>3 DEF Late
  <2> QED
    BY <1>1, <2>1, <2>2, <2>3, <2>4, <2>5
<1>9. CASE \E err \in Failures : Fail(r, err)
  <2>0. PICK err \in Failures : Fail(r, err)
    BY <1>9
  <2> DEFINE q == [q0 EXCEPT !.pc = "failed", !.err = err, !.admission = NoAdmission]
  <2>1. q0.pc = "call" /\ req' = [req EXCEPT ![r] = q] /\ UNCHANGED <<tried, lateCalls>>
    BY <1>1, <2>0 DEF Fail
  <2>2. q \in Request
    BY <1>1, <2>0 DEF Request, Results
  <2>3. /\ q.pc = "failed" /\ q.attempt = q0.attempt /\ q.admission = NoAdmission
        /\ q.chain = q0.chain /\ q.i = q0.i /\ q.ctxDone = q0.ctxDone
    BY <1>1 DEF Request
  <2> HIDE DEF q
  <2>4. Positioned(q) /\ MovesOn(q0, q)
    BY <1>1, <2>1, <2>3, RequestFields, RouterAssumption DEF Positioned, MovesOn, Rank, Attempts
  <2>5. Late(q, lateCalls'[r])
    BY <1>1, <2>1, <2>3 DEF Late
  <2> QED
    BY <1>1, <2>1, <2>2, <2>3, <2>4, <2>5
<1>10. CASE CallerGone(r)
  <2> DEFINE q == [q0 EXCEPT !.pc = "done", !.err = NoError,
                             !.result = IF q0.kind = "media" THEN "exhausted"
                                        ELSE "canceled"]
  <2>1. q0.pc = "failed" /\ req' = [req EXCEPT ![r] = q] /\ UNCHANGED <<tried, lateCalls>>
    BY <1>1, <1>10 DEF CallerGone
  <2>2. q \in Request
    BY <1>1, <1>10 DEF Request, Results
  <2>3. /\ q.pc = "done" /\ q.attempt = q0.attempt /\ q.admission = q0.admission
        /\ q.chain = q0.chain /\ q.i = q0.i /\ q.ctxDone = q0.ctxDone
    BY <1>1 DEF Request
  <2> HIDE DEF q
  <2>4. Positioned(q) /\ MovesOn(q0, q)
    BY <1>1, <2>1, <2>3, RequestFields, RouterAssumption DEF Positioned, MovesOn, Rank, Attempts
  <2>5. Late(q, lateCalls'[r])
    BY <1>1, <2>1, <2>3 DEF Late
  <2> QED
    BY <1>1, <2>1, <2>2, <2>3, <2>4, <2>5
<1>11. CASE Retry(r)
  <2> DEFINE q == [q0 EXCEPT !.pc = "wait", !.attempt = @ + 1, !.err = NoError]
  <2>1. q0.pc = "failed" /\ ~q0.ctxDone /\ q0.attempt + 1 < Attempts(r) /\ req' = [req EXCEPT ![r] = q] /\ UNCHANGED <<tried, lateCalls>>
    BY <1>1, <1>11 DEF Retry
  <2>2. q \in Request
    <3>1. q0.attempt + 1 \in Nat
      BY <1>1, RequestFields
    <3> QED
      BY <1>1, <3>1 DEF Request
  <2>3. /\ q.pc = "wait" /\ q.attempt = q0.attempt + 1 /\ q.admission = q0.admission
        /\ q.chain = q0.chain /\ q.i = q0.i /\ q.ctxDone = q0.ctxDone
    BY <1>1 DEF Request
  <2> HIDE DEF q
  <2>4. Positioned(q) /\ MovesOn(q0, q)
    BY <1>1, <2>1, <2>3, RequestFields, RouterAssumption DEF Positioned, MovesOn, Rank, Attempts
  <2>5. Late(q, lateCalls'[r])
    BY <1>1, <2>1, <2>3 DEF Late
  <2> QED
    BY <1>1, <2>1, <2>2, <2>3, <2>4, <2>5
<1>12. CASE WaitOver(r)
  <2> DEFINE q == [q0 EXCEPT !.pc = "try"]
  <2>1. q0.pc = "wait" /\ req' = [req EXCEPT ![r] = q] /\ UNCHANGED <<tried, lateCalls>>
    BY <1>1, <1>12 DEF WaitOver
  <2>2. q \in Request
    BY <1>1, <1>12 DEF Request, Results
  <2>3. /\ q.pc = "try" /\ q.attempt = q0.attempt /\ q.admission = q0.admission
        /\ q.chain = q0.chain /\ q.i = q0.i /\ q.ctxDone = q0.ctxDone
    BY <1>1 DEF Request
  <2> HIDE DEF q
  <2>4. Positioned(q) /\ MovesOn(q0, q)
    BY <1>1, <2>1, <2>3, RequestFields, RouterAssumption DEF Positioned, MovesOn, Rank, Attempts
  <2>5. Late(q, lateCalls'[r])
    BY <1>1, <2>1, <2>3 DEF Late
  <2> QED
    BY <1>1, <2>1, <2>2, <2>3, <2>4, <2>5
<1>13. CASE WaitCanceled(r)
  <2> DEFINE q == [q0 EXCEPT !.pc = "done", !.result = "canceled"]
  <2>1. q0.pc = "wait" /\ req' = [req EXCEPT ![r] = q] /\ UNCHANGED <<tried, lateCalls>>
    BY <1>1, <1>13 DEF WaitCanceled
  <2>2. q \in Request
    BY <1>1, <1>13 DEF Request, Results
  <2>3. /\ q.pc = "done" /\ q.attempt = q0.attempt /\ q.admission = q0.admission
        /\ q.chain = q0.chain /\ q.i = q0.i /\ q.ctxDone = q0.ctxDone
    BY <1>1 DEF Request
  <2> HIDE DEF q
  <2>4. Positioned(q) /\ MovesOn(q0, q)
    BY <1>1, <2>1, <2>3, RequestFields, RouterAssumption DEF Positioned, MovesOn, Rank, Attempts
  <2>5. Late(q, lateCalls'[r])
    BY <1>1, <2>1, <2>3 DEF Late
  <2> QED
    BY <1>1, <2>1, <2>2, <2>3, <2>4, <2>5
<1> QED
  BY <1>2, <1>4, <1>5, <1>6, <1>7, <1>8, <1>9, <1>10, <1>11, <1>12, <1>13 DEF Step

-----------------------------------------------------------------------------
(* The breakers.                                                           *)

\* What the entry operators return is an entry, and only a reported failure can
\* raise the failure count or open a circuit.
LEMMA EntryFacts ==
    ASSUME NEW e \in Entry, NEW t \in Nat, NEW probe \in Nat
    PROVE  /\ AcquireEntry(e, t, probe) \in Entry
           /\ SuccessEntry(e) \in Entry
           /\ FailureEntry(e, t, probe) \in Entry
           /\ ReleaseEntry(e, probe) \in Entry
           /\ AcquireEntry(e, t, probe).failures = e.failures
           /\ AcquireEntry(e, t, probe).state = "open" => e.state = "open"
           /\ SuccessEntry(e).failures = 0 /\ SuccessEntry(e).state = "closed"
           /\ ReleaseEntry(e, probe).failures = e.failures
           /\ ReleaseEntry(e, probe).state = e.state
<1>1. t + Cooldown \in Nat /\ e.failures + 1 \in Nat
  BY SettingsAssumption DEF Entry
<1>2. AcquireEntry(e, t, probe) \in Entry
  BY <1>1 DEF AcquireEntry, Entry, CircuitState
<1>3. SuccessEntry(e) \in Entry
  BY DEF SuccessEntry, NewEntry, Entry, CircuitState
<1>4. CountFailure(e, t) \in Entry
  BY <1>1 DEF CountFailure, Entry, CircuitState
<1>5. FailureEntry(e, t, probe) \in Entry
  BY <1>1, <1>4 DEF FailureEntry, Entry, CircuitState
<1>6. ReleaseEntry(e, probe) \in Entry
  BY DEF ReleaseEntry, Entry, CircuitState
<1>7. /\ AcquireEntry(e, t, probe).failures = e.failures
      /\ AcquireEntry(e, t, probe).state = "open" => e.state = "open"
  BY DEF AcquireEntry, IsProbe, Entry
<1>8. SuccessEntry(e).failures = 0 /\ SuccessEntry(e).state = "closed"
  BY DEF SuccessEntry, NewEntry
<1>9. /\ ReleaseEntry(e, probe).failures = e.failures
      /\ ReleaseEntry(e, probe).state = e.state
  BY DEF ReleaseEntry, Entry
<1> QED
  BY <1>2, <1>3, <1>5, <1>6, <1>7, <1>8, <1>9

\* Where the report of a call goes: to an entry of the breaker that admitted it.
LEMMA AdmissionFacts ==
    ASSUME IInv, NEW r \in Requests, req[r].pc = "call"
    PROVE  /\ req[r].admission.breaker \in Breakers
           /\ req[r].admission.provider \in Providers
           /\ req[r].admission.probe \in Nat /\ req[r].admission.at \in Nat
           /\ AdmissionEntry(r) \in Entry
<1>1. req[r].admission \in Admission
  BY DEF IInv, Positioned
<1> QED
  BY <1>1 DEF Admission, AdmissionEntry, IInv, TypeOK

\* A report installs its entry there and nowhere else.
LEMMA ReportFacts ==
    ASSUME IInv, NEW r \in Requests, req[r].pc = "call", NEW e \in Entry, Report(r, e)
    PROVE  /\ entries' \in [Breakers -> [Providers -> Entry]]
           /\ openedAt' \in [Breakers -> [Providers -> Nat]]
           /\ lastProbe' = lastProbe
           /\ entries'[req[r].admission.breaker][req[r].admission.provider] = e
           /\ \A b \in Breakers, p \in Providers :
                 \/ b = req[r].admission.breaker /\ p = req[r].admission.provider
                 \/ entries'[b][p] = entries[b][p]
<1> DEFINE ab == req[r].admission.breaker
           ap == req[r].admission.provider
<1>1. ab \in Breakers /\ ap \in Providers
  BY AdmissionFacts
<1>2. /\ entries' = [entries EXCEPT ![ab][ap] = e]
      /\ \/ openedAt' = openedAt
         \/ openedAt' = [openedAt EXCEPT ![ab][ap] = now]
      /\ lastProbe' = lastProbe
  BY DEF Report
<1>3. /\ entries \in [Breakers -> [Providers -> Entry]]
      /\ openedAt \in [Breakers -> [Providers -> Nat]] /\ now \in Nat
  BY RouterAssumption DEF IInv, TypeOK
<1> HIDE DEF ab, ap
<1>4. entries' \in [Breakers -> [Providers -> Entry]]
  BY <1>1, <1>2, <1>3
<1>5. openedAt' \in [Breakers -> [Providers -> Nat]]
  BY <1>1, <1>2, <1>3
<1>6. entries'[ab][ap] = e
  BY <1>1, <1>2, <1>3
<1>7. \A b \in Breakers, p \in Providers :
         (b = ab /\ p = ap) \/ entries'[b][p] = entries[b][p]
  BY <1>1, <1>2, <1>3
<1> QED
  BY <1>2, <1>4, <1>5, <1>6, <1>7 DEF ab, ap

\* Every step keeps the breakers' state well typed.
LEMMA BreakersTyped ==
    ASSUME IInv, [Next]_vars
    PROVE  /\ entries' \in [Breakers -> [Providers -> Entry]]
           /\ lastProbe' \in [Breakers -> Nat]
           /\ openedAt' \in [Breakers -> [Providers -> Nat]]
           /\ now' \in 0..MaxClock
           /\ breaker' \in Breakers
<1> USE DEF breakerVars
<1>1. /\ entries \in [Breakers -> [Providers -> Entry]]
      /\ lastProbe \in [Breakers -> Nat]
      /\ openedAt \in [Breakers -> [Providers -> Nat]]
      /\ now \in 0..MaxClock /\ now \in Nat
      /\ breaker \in Breakers
  BY RouterAssumption DEF IInv, TypeOK
<1>2. CASE UNCHANGED breakerVars /\ UNCHANGED <<now, breaker>>
  BY <1>1, <1>2
<1>3. ASSUME NEW r \in Requests, allowProvider(r)
      PROVE  /\ entries' \in [Breakers -> [Providers -> Entry]]
             /\ lastProbe' \in [Breakers -> Nat]
             /\ UNCHANGED <<openedAt, now, breaker>>
  <2> DEFINE p == Current(r)
             e == entries[breaker][p]
             id == IF IsProbe(e) THEN lastProbe[breaker] + 1 ELSE 0
  <2>1. /\ entries' = [entries EXCEPT ![breaker][p] = AcquireEntry(e, now, id)]
        /\ lastProbe' = [lastProbe EXCEPT ![breaker] = IF IsProbe(e) THEN id ELSE @]
        /\ InChain(r)
        /\ UNCHANGED <<openedAt, now, breaker>>
    BY <1>3 DEF allowProvider
  <2>2. p \in Providers
    BY <2>1, CurrentFacts DEF IInv
  <2>3. id \in Nat
    BY <1>1
  <2>4. e \in Entry
    BY <1>1, <2>2
  <2>5. AcquireEntry(e, now, id) \in Entry
    BY <1>1, <2>3, <2>4, EntryFacts
  <2> HIDE DEF p, e, id
  <2> QED
    BY <1>1, <2>1, <2>2, <2>3, <2>5
<1>4. ASSUME NEW r \in Requests, Answer(r)
      PROVE  /\ entries' \in [Breakers -> [Providers -> Entry]]
             /\ openedAt' \in [Breakers -> [Providers -> Nat]]
             /\ UNCHANGED <<lastProbe, now, breaker>>
  BY <1>1, <1>4, AdmissionFacts, ReportFacts, EntryFacts DEF Answer
<1>5. ASSUME NEW r \in Requests, NEW err \in Failures, Fail(r, err)
      PROVE  /\ entries' \in [Breakers -> [Providers -> Entry]]
             /\ openedAt' \in [Breakers -> [Providers -> Nat]]
             /\ UNCHANGED <<lastProbe, now, breaker>>
  BY <1>1, <1>5, AdmissionFacts, ReportFacts, EntryFacts DEF Fail, recordAttemptFailure
<1>6. CASE \E r \in Requests : Step(r)
  BY <1>1, <1>2, <1>3, <1>4, <1>5, <1>6
     DEF Step, Skip, Refused, Exhaust, CallerGone, Retry, Fallback, WaitOver, WaitCanceled
<1>7. CASE \E r \in Requests : Start(r) \/ Cancel(r)
  BY <1>2, <1>7 DEF Start, Cancel
<1>8. CASE SetCircuitBreaker \/ Tick
  BY <1>1, <1>8, RouterAssumption DEF SetCircuitBreaker, Tick, Breakers
<1>9. CASE UNCHANGED vars
  BY <1>2, <1>9 DEF vars
<1> QED
  BY <1>6, <1>7, <1>8, <1>9 DEF Next, AllDone

-----------------------------------------------------------------------------
\* The invariant holds before the first request.
LEMMA Initially == Init => IInv
<1> SUFFICES ASSUME Init PROVE IInv
  OBVIOUS
<1>1. NewEntry \in Entry
  BY DEF NewEntry, Entry, CircuitState
<1> DEFINE q == [pc |-> "idle", kind |-> "chat", chain |-> <<>>,
                 hasRoute |-> FALSE, i |-> 1, attempt |-> 0,
                 admission |-> NoAdmission, ctxDone |-> FALSE,
                 err |-> NoError, result |-> "none"]
<1>2. q \in Request
  BY DEF Request, AllKinds, Results
<1>3. Positioned(q)
  BY RouterAssumption DEF Positioned
<1>4. Late(q, 0)
  BY DEF Late
<1>5. req = [r \in Requests |-> q] /\ lateCalls = [r \in Requests |-> 0]
  BY DEF Init
<1>6. TypeOK
  BY <1>1, <1>2, <1>5, RouterAssumption DEF Init, TypeOK, Breakers
<1> HIDE DEF q
<1> QED
  BY <1>3, <1>4, <1>5, <1>6 DEF IInv

\* Every step of a request, of its caller, of the settings and of the clock
\* keeps the invariant.
LEMMA Inductive == IInv /\ [Next]_vars => IInv'
<1> SUFFICES ASSUME IInv, [Next]_vars PROVE IInv'
  OBVIOUS
<1>1. /\ req \in [Requests -> Request]
      /\ tried \in [Requests -> SUBSET Providers]
      /\ lateCalls \in [Requests -> Nat]
  BY DEF IInv, TypeOK
<1> DEFINE Loops == /\ req \in [Requests -> Request]
                    /\ tried \in [Requests -> SUBSET Providers]
                    /\ lateCalls \in [Requests -> Nat]
                    /\ \A r \in Requests :
                          Positioned(req[r]) /\ Late(req[r], lateCalls[r])
<1>2. ASSUME NEW r \in Requests, Start(r) \/ Step(r) PROVE Loops'
  <2>1. PICK q \in Request :
              /\ req' = [req EXCEPT ![r] = q]
              /\ Positioned(q)
              /\ Late(q, lateCalls'[r])
              /\ \A s \in Requests \ {r} : lateCalls'[s] = lateCalls[s]
              /\ lateCalls' \in [Requests -> Nat]
              /\ tried' \in [Requests -> SUBSET Providers]
    BY <1>2, StepFacts
  <2>2. req' \in [Requests -> Request]
    BY <1>1, <2>1
  <2>3. ASSUME NEW s \in Requests PROVE Positioned(req'[s]) /\ Late(req'[s], lateCalls'[s])
    BY <1>1, <2>1 DEF IInv
  <2> QED
    BY <2>1, <2>2, <2>3 DEF Positioned, Late
<1>3. ASSUME NEW r \in Requests, Cancel(r) PROVE Loops'
  <2> DEFINE q == [req[r] EXCEPT !.ctxDone = TRUE]
  <2>1. /\ req' = [req EXCEPT ![r] = q] /\ UNCHANGED <<tried, lateCalls>>
        /\ ~req[r].ctxDone
    BY <1>3 DEF Cancel
  <2>2. q \in Request
    BY <1>1 DEF Request
  <2>3. /\ q.pc = req[r].pc /\ q.chain = req[r].chain /\ q.i = req[r].i
        /\ q.attempt = req[r].attempt /\ q.admission = req[r].admission /\ q.ctxDone
    BY <1>1 DEF Request
  <2> HIDE DEF q
  <2>4. Positioned(q) /\ Late(q, lateCalls[r])
    BY <2>1, <2>3 DEF IInv, Positioned, Late
  <2>5. ASSUME NEW s \in Requests PROVE Positioned(req'[s]) /\ Late(req'[s], lateCalls'[s])
    BY <1>1, <2>1, <2>4 DEF IInv
  <2>6. req' \in [Requests -> Request]
    BY <1>1, <2>1, <2>2
  <2> QED
    BY <1>1, <2>1, <2>5, <2>6 DEF Positioned, Late
<1>4. ASSUME UNCHANGED <<req, tried, lateCalls>> PROVE Loops'
  <2>1. req' = req /\ tried' = tried /\ lateCalls' = lateCalls
    BY <1>4
  <2>2. ASSUME NEW s \in Requests PROVE Positioned(req'[s]) /\ Late(req'[s], lateCalls'[s])
    BY <2>1 DEF IInv
  <2>3. /\ req' \in [Requests -> Request]
        /\ tried' \in [Requests -> SUBSET Providers]
        /\ lateCalls' \in [Requests -> Nat]
    BY <1>1, <2>1
  <2> QED
    BY <2>2, <2>3 DEF Positioned, Late
<1>5. ASSUME SetCircuitBreaker \/ Tick \/ AllDone \/ UNCHANGED vars PROVE Loops'
  BY <1>4, <1>5 DEF vars, SetCircuitBreaker, Tick, AllDone
<1>6. Loops'
  BY <1>2, <1>3, <1>5 DEF Next
<1> QED
  BY <1>6, BreakersTyped DEF IInv, TypeOK

\* Every behaviour of the router's loops satisfies the invariant.
THEOREM Invariance == Spec => []IInv
<1> QED
  BY Initially, Inductive, PTL DEF Spec

\* After its caller is gone a request begins at most one more provider call,
\* whatever retries and fallbacks it has left: the loop looks at ctx.Err() after
\* every failed attempt.
THEOREM OneLateCall == Spec => []OneCallAfterCancel
<1>1. IInv => OneCallAfterCancel
  BY DEF IInv, Late, OneCallAfterCancel
<1> QED
  BY <1>1, Invariance, PTL

-----------------------------------------------------------------------------
(* What a request tried before it failed.                                  *)

\* The providers that the loop has passed are among those it tried, T, and it gives
\* up at the end of the chain unless its caller is gone.
Passed(q, T) ==
    /\ \A k \in 1..(q.i - 1) : q.chain[k] \in T
    /\ q.result = "exhausted" => q.pc = "done" /\ (q.ctxDone \/ q.i > Len(q.chain))

PassedInv == \A r \in Requests : Passed(req[r], tried[r])

\* The loop moves on to the next provider.
LEMMA NextIsPassed ==
    ASSUME IInv, NEW r \in Requests, Passed(req[r], tried[r]), NextProvider(r), req[r].pc # "done"
    PROVE  Passed(req'[r], tried'[r])
<1>1. req[r] \in Request /\ req[r].i \in Nat /\ DOMAIN req = Requests /\ DOMAIN tried = Requests
  BY RequestFields DEF IInv, TypeOK
<1>2. /\ tried'[r] = tried[r] \cup {req[r].chain[req[r].i]}
      /\ req'[r] = [req[r] EXCEPT !.pc = "try", !.i = @ + 1, !.attempt = 0, !.err = NoError]
  BY <1>1 DEF NextProvider, Current
<1>3. /\ req'[r].chain = req[r].chain /\ req'[r].i = req[r].i + 1
      /\ req'[r].result = req[r].result
  BY <1>1, <1>2 DEF Request
<1>4. ASSUME NEW k \in 1..(req'[r].i - 1)  PROVE req'[r].chain[k] \in tried'[r]
  <2>1. k \in 1..(req[r].i - 1) \/ k = req[r].i
    BY <1>1, <1>3, <1>4
  <2> QED
    BY <1>2, <1>3, <2>1 DEF Passed
<1> QED
  BY <1>3, <1>4 DEF Passed

\* The loop stays where it is, or the request ends.
LEMMA StayingIsPassed ==
    ASSUME IInv, NEW r \in Requests, Passed(req[r], tried[r]), NEW q, req' = [req EXCEPT ![r] = q],
           UNCHANGED tried, q.i = req[r].i, q.chain = req[r].chain,
           q.result = "exhausted" => q.pc = "done" /\ (q.ctxDone \/ ~InChain(r))
    PROVE  Passed(req'[r], tried'[r])
<1>1. req'[r] = q /\ tried' = tried
  BY DEF IInv, TypeOK
<1>2. req[r].i \in Nat /\ Len(req[r].chain) \in Nat
  BY RequestFields DEF IInv, TypeOK
<1> QED
  BY <1>1, <1>2 DEF Passed, InChain

\* One step of one request.
LEMMA StepIsPassed ==
    ASSUME IInv, NEW r \in Requests, Passed(req[r], tried[r]), Start(r) \/ Step(r) \/ Cancel(r)
    PROVE  Passed(req'[r], tried'[r])
<1>1. /\ req[r] \in Request /\ Positioned(req[r])
      /\ req[r].i \in Nat /\ DOMAIN req = Requests /\ DOMAIN tried = Requests
  BY RequestFields DEF IInv, TypeOK
<1>2. req[r].pc # "done" /\ req[r].result # "exhausted"
  BY <1>1 DEF Passed, Start, Step, Cancel, Skip, allowProvider, Refused, Exhaust, Answer, Fail, CallerGone, Retry,
              Fallback, WaitOver, WaitCanceled
<1>3. CASE Start(r)
  <2>1. PICK kind \in Kinds, chain \in Chains, hasRoute \in BOOLEAN :
           req' = [req EXCEPT ![r].kind = kind,
                              ![r].chain = chain,
                              ![r].hasRoute = hasRoute,
                              ![r].pc = IF chain = <<>> THEN "done" ELSE "try",
                              ![r].result = IF chain = <<>> THEN "no-provider"
                                            ELSE "none"]
    BY <1>3 DEF Start
  <2>2. req[r].i = 1
    BY <1>1, <1>3 DEF Start, Positioned
  <2>3. req'[r].i = 1 /\ req'[r].result # "exhausted"
    BY <1>1, <2>1, <2>2 DEF Request
  <2> QED
    BY <2>3 DEF Passed
<1>4. CASE Skip(r) \/ Refused(r) \/ Fallback(r)
  BY <1>2, <1>4, NextIsPassed DEF Skip, Refused, Fallback
<1>5. CASE allowProvider(r)
  <2>1. PICK a : req' = [req EXCEPT ![r].pc = "call", ![r].admission = a]
    BY <1>5 DEF allowProvider
  <2>2. PICK q : q = [req[r] EXCEPT !.pc = "call", !.admission = a]
    OBVIOUS
  <2>3. req' = [req EXCEPT ![r] = q] /\ q.i = req[r].i /\ q.chain = req[r].chain /\ q.result = req[r].result
    BY <1>1, <2>1, <2>2 DEF Request
  <2> QED
    BY <1>2, <1>5, <2>3, StayingIsPassed DEF allowProvider
<1>6. CASE Exhaust(r)
  <2>1. PICK q : q = [req[r] EXCEPT !.pc = "done", !.result = "exhausted"]
    OBVIOUS
  <2>2. req' = [req EXCEPT ![r] = q] /\ q.i = req[r].i /\ q.chain = req[r].chain /\ q.pc = "done"
    BY <1>1, <1>6, <2>1 DEF Request, Exhaust
  <2> QED
    BY <1>6, <2>2, StayingIsPassed DEF Exhaust
<1>7. CASE Answer(r)
  <2>1. PICK q : q = [req[r] EXCEPT !.pc = "done", !.result = "ok", !.admission = NoAdmission]
    OBVIOUS
  <2>2. req' = [req EXCEPT ![r] = q] /\ q.i = req[r].i /\ q.chain = req[r].chain /\ q.result = "ok"
    BY <1>1, <1>7, <2>1 DEF Request, Answer
  <2> QED
    BY <1>7, <2>2, StayingIsPassed DEF Answer
<1>8. CASE \E err \in Failures : Fail(r, err)
  <2>1. PICK err \in Failures : Fail(r, err)
    BY <1>8
  <2>2. PICK q : q = [req[r] EXCEPT !.pc = "failed", !.err = err, !.admission = NoAdmission]
    OBVIOUS
  <2>3. req' = [req EXCEPT ![r] = q] /\ q.i = req[r].i /\ q.chain = req[r].chain /\ q.result = req[r].result
    BY <1>1, <2>1, <2>2 DEF Request, Fail
  <2> QED
    BY <1>2, <2>1, <2>3, StayingIsPassed DEF Fail
<1>9. CASE CallerGone(r)
  <2>1. PICK result : req' = [req EXCEPT ![r].pc = "done", ![r].result = result, ![r].err = NoError]
    BY <1>9 DEF CallerGone
  <2>2. PICK q : q = [req[r] EXCEPT !.pc = "done", !.result = result, !.err = NoError]
    OBVIOUS
  <2>3. req' = [req EXCEPT ![r] = q] /\ q.i = req[r].i /\ q.chain = req[r].chain /\ q.pc = "done"
        /\ q.ctxDone = req[r].ctxDone
    BY <1>1, <2>1, <2>2 DEF Request
  <2> QED
    BY <1>9, <2>3, StayingIsPassed DEF CallerGone
<1>10. CASE Retry(r)
  <2>1. PICK q : q = [req[r] EXCEPT !.pc = "wait", !.attempt = @ + 1, !.err = NoError]
    OBVIOUS
  <2>2. req' = [req EXCEPT ![r] = q] /\ q.i = req[r].i /\ q.chain = req[r].chain /\ q.result = req[r].result
    BY <1>1, <1>10, <2>1 DEF Request, Retry
  <2> QED
    BY <1>2, <1>10, <2>2, StayingIsPassed DEF Retry
<1>11. CASE WaitOver(r)
  <2>1. PICK q : q = [req[r] EXCEPT !.pc = "try"]
    OBVIOUS
  <2>2. req' = [req EXCEPT ![r] = q] /\ q.i = req[r].i /\ q.chain = req[r].chain /\ q.result = req[r].result
    BY <1>1, <1>11, <2>1 DEF Request, WaitOver
  <2> QED
    BY <1>2, <1>11, <2>2, StayingIsPassed DEF WaitOver
<1>12. CASE WaitCanceled(r)
  <2>1. PICK q : q = [req[r] EXCEPT !.pc = "done", !.result = "canceled"]
    OBVIOUS
  <2>2. req' = [req EXCEPT ![r] = q] /\ q.i = req[r].i /\ q.chain = req[r].chain /\ q.result = "canceled"
    BY <1>1, <1>12, <2>1 DEF Request, WaitCanceled
  <2> QED
    BY <1>12, <2>2, StayingIsPassed DEF WaitCanceled
<1>13. CASE Cancel(r)
  <2>1. PICK q : q = [req[r] EXCEPT !.ctxDone = TRUE]
    OBVIOUS
  <2>2. req' = [req EXCEPT ![r] = q] /\ q.i = req[r].i /\ q.chain = req[r].chain /\ q.result = req[r].result
    BY <1>1, <1>13, <2>1 DEF Request, Cancel
  <2> QED
    BY <1>2, <1>13, <2>2, StayingIsPassed DEF Cancel
<1> QED
  BY <1>3, <1>4, <1>5, <1>6, <1>7, <1>8, <1>9, <1>10, <1>11, <1>12, <1>13 DEF Step

\* The other requests are where they were.
LEMMA OthersStay ==
    ASSUME IInv, NEW r \in Requests, NEW s \in Requests \ {r}, Start(r) \/ Step(r) \/ Cancel(r)
    PROVE  req'[s] = req[s] /\ tried'[s] = tried[s]
<1>1. DOMAIN req = Requests /\ DOMAIN tried = Requests
  BY DEF IInv, TypeOK
<1>2. CASE Start(r) \/ Cancel(r)
  BY <1>1, <1>2 DEF Start, Cancel
<1>3. CASE Skip(r) \/ Refused(r) \/ Fallback(r)
  BY <1>1, <1>3 DEF Skip, Refused, Fallback, NextProvider
<1>4. CASE allowProvider(r)
  BY <1>1, <1>4 DEF allowProvider
<1>5. CASE Exhaust(r) \/ Answer(r) \/ CallerGone(r) \/ Retry(r) \/ WaitOver(r) \/ WaitCanceled(r)
  BY <1>1, <1>5 DEF Exhaust, Answer, CallerGone, Retry, WaitOver, WaitCanceled
<1>6. CASE \E err \in Failures : Fail(r, err)
  BY <1>1, <1>6 DEF Fail
<1> QED
  BY <1>2, <1>3, <1>4, <1>5, <1>6 DEF Step

\* "all providers failed" is said only of a chain that was used up: unless its caller is
\* gone, a request gives up after every provider of its chain refused it, could not serve
\* it or failed it, whatever the breakers, the retries and other requests do meanwhile.
THEOREM ExhaustedTriedAll == Spec => []ExhaustedMeansAllTried
<1>1. Init => PassedInv
  BY DEF Init, PassedInv, Passed
<1>2. IInv /\ PassedInv /\ [Next]_vars => PassedInv'
  <2> SUFFICES ASSUME IInv, PassedInv, [Next]_vars, NEW s \in Requests
               PROVE  Passed(req'[s], tried'[s])
    BY DEF PassedInv, Passed
  <2>1. CASE \E r \in Requests : Start(r) \/ Step(r) \/ Cancel(r)
    <3>1. PICK r \in Requests : Start(r) \/ Step(r) \/ Cancel(r)
      BY <2>1
    <3>2. CASE r = s
      BY <3>1, <3>2, StepIsPassed DEF PassedInv
    <3>3. CASE r # s
      BY <3>1, <3>3, OthersStay DEF PassedInv
    <3> QED
      BY <3>2, <3>3
  <2>2. CASE SetCircuitBreaker \/ Tick \/ AllDone \/ UNCHANGED vars
    BY <2>2 DEF SetCircuitBreaker, Tick, AllDone, vars, PassedInv
  <2> QED
    BY <2>1, <2>2 DEF Next
<1>3. IInv /\ PassedInv => ExhaustedMeansAllTried
  <2> SUFFICES ASSUME IInv, PassedInv, NEW r \in Requests, req[r].result = "exhausted", ~req[r].ctxDone,
                      NEW k \in 1..Len(req[r].chain)
               PROVE  req[r].chain[k] \in tried[r]
    BY DEF ExhaustedMeansAllTried
  <2>1. req[r].i \in Nat /\ Len(req[r].chain) \in Nat
    BY RequestFields DEF IInv, TypeOK
  <2> QED
    BY <2>1 DEF PassedInv, Passed
<1> QED
  BY <1>1, <1>2, <1>3, Initially, Inductive, PTL DEF Spec

-----------------------------------------------------------------------------
(* The loops end.                                                          *)

\* Moving on raises the position: an attempt has fewer than six points, and a
\* provider at most MaxRetries + 1 attempts.
LEMMA MovesPosition ==
    ASSUME NEW q \in Request, NEW n \in Request, Positioned(q), Positioned(n),
           MovesOn(q, n)
    PROVE  Position(n) > Position(q)
<1> DEFINE M == MaxRetries + 1
<1>1. /\ q.i \in Nat /\ q.attempt \in Nat /\ q.attempt <= MaxRetries
      /\ n.i \in Nat /\ n.attempt \in Nat /\ M \in Nat
  BY RequestFields, RouterAssumption DEF Positioned
<1>2. Rank[q.pc] \in 0..5 /\ Rank[n.pc] \in 0..5
  BY RequestFields DEF Rank
<1>3. /\ Position(q) = (q.i * M + q.attempt) * 6 + Rank[q.pc]
      /\ Position(n) = (n.i * M + n.attempt) * 6 + Rank[n.pc]
  BY DEF Position, Rank
<1>4. q.i * M \in Nat /\ n.i * M \in Nat
  BY <1>1
<1>5. n.i = q.i + 1 => n.i * M = q.i * M + M
  BY <1>1
<1>6. CASE n.i = q.i /\ n.attempt = q.attempt /\ Rank[n.pc] > Rank[q.pc]
  BY <1>1, <1>2, <1>3, <1>4, <1>6
<1>7. CASE n.i = q.i /\ n.attempt = q.attempt + 1
  BY <1>1, <1>2, <1>3, <1>4, <1>7
<1>8. CASE n.i = q.i + 1 /\ n.attempt = 0
  <2>1. q.attempt + 1 <= M
    BY <1>1, RouterAssumption
  <2> HIDE DEF M
  <2> DEFINE done == q.i * M
  <2>2. /\ Position(n) = (done + M) * 6 + Rank[n.pc]
        /\ Position(q) = (done + q.attempt) * 6 + Rank[q.pc]
        /\ done \in Nat
    BY <1>1, <1>3, <1>4, <1>5, <1>8
  <2> HIDE DEF done
  <2> QED
    BY <1>1, <1>2, <2>1, <2>2
<1> QED
  BY <1>6, <1>7, <1>8 DEF MovesOn

\* The provider loops end, whatever the providers and the breakers do: every
\* step of a request raises its position, and the number of providers and of
\* attempts bounds it.
THEOREM LoopsMoveOn == Spec => EveryStepMovesOn
<1> DEFINE Moves(r) ==
       \/ req'[r] = [req[r] EXCEPT !.ctxDone = req'[r].ctxDone]
       \/ /\ Position(req'[r]) > Position(req[r])
          /\ req'[r].i <= Len(req'[r].chain) + 1
          /\ req'[r].attempt <= MaxRetries
<1>1. ASSUME IInv, [Next]_vars, NEW r \in Requests
      PROVE  Moves(r)
  <2>1. req \in [Requests -> Request] /\ req[r] \in Request /\ Positioned(req[r])
    BY <1>1 DEF IInv, TypeOK
  <2>2. CASE req'[r] = req[r]
    BY <2>1, <2>2 DEF Request
  <2>3. ASSUME NEW s \in Requests, Start(s) \/ Step(s) PROVE Moves(r)
    <3>1. PICK q \in Request :
             req' = [req EXCEPT ![s] = q] /\ Positioned(q) /\ MovesOn(req[s], q)
      BY <1>1, <2>3, StepFacts
    <3>2. CASE s # r
      BY <2>1, <2>2, <3>1, <3>2
    <3>3. CASE s = r
      <4>1. req'[r] = q
        BY <2>1, <3>1, <3>3
      <4>2. Position(q) > Position(req[r])
        BY <2>1, <3>1, <3>3, MovesPosition
      <4> QED
        BY <3>1, <4>1, <4>2 DEF Positioned
    <3> QED
      BY <3>2, <3>3
  <2>4. ASSUME NEW s \in Requests, Cancel(s) PROVE Moves(r)
    BY <2>1, <2>2, <2>4 DEF Cancel, Request
  <2>5. CASE UNCHANGED req
    BY <2>2, <2>5
  <2> QED
    BY <1>1, <2>3, <2>4, <2>5 DEF Next, vars, SetCircuitBreaker, Tick, AllDone
<1>2. IInv /\ [Next]_vars => [\A r \in Requests : Moves(r)]_vars
  BY <1>1
<1> QED
  BY <1>2, Invariance, PTL DEF Spec, EveryStepMovesOn

-----------------------------------------------------------------------------
(* Blame.                                                                  *)

\* A circuit is blamed only for what the provider did: its failure count grows,
\* or it opens, only in the step that reports a failed call, of this breaker and
\* provider, whose caller was there and whose error does not blame the request.
THEOREM BlameIsTheProviders == Spec => BlamesOnlyProviderFaults
<1> DEFINE Blamed(b, p) ==
       \/ entries'[b][p].failures > entries[b][p].failures
       \/ entries'[b][p].state = "open" /\ entries[b][p].state # "open"
           Culprit(b, p) ==
       \E r \in Requests :
          /\ req[r].admission.breaker = b /\ req[r].admission.provider = p
          /\ ~req[r].ctxDone
          /\ req'[r].pc = "failed"
          /\ req'[r].err.kind \in {"network", "upstream"}
          /\ req'[r].err.status \notin (400..499) \ {408, 429}
<1>1. ASSUME IInv, [Next]_vars, NEW b \in Breakers, NEW p \in Providers, Blamed(b, p)
      PROVE  Culprit(b, p)
  <2>1. /\ entries \in [Breakers -> [Providers -> Entry]]
        /\ entries[b][p] \in Entry /\ entries[b][p].failures \in Nat
        /\ lastProbe \in [Breakers -> Nat] /\ breaker \in Breakers /\ now \in Nat
        /\ req \in [Requests -> Request]
    BY <1>1, RouterAssumption DEF IInv, TypeOK, Entry
  <2>2. entries'[b][p] # entries[b][p]
    BY <1>1, <2>1
  <2>3. ASSUME NEW r \in Requests, allowProvider(r) PROVE FALSE
    <3> DEFINE cur == Current(r)
               e == entries[breaker][cur]
               id == IF IsProbe(e) THEN lastProbe[breaker] + 1 ELSE 0
    <3>1. /\ entries' = [entries EXCEPT ![breaker][cur] = AcquireEntry(e, now, id)]
          /\ InChain(r)
      BY <2>3 DEF allowProvider
    <3>2. cur \in Providers
      BY <1>1, <3>1, CurrentFacts DEF IInv
    <3>3. e \in Entry /\ id \in Nat /\ now \in Nat
      BY <2>1, <3>2
    <3> HIDE DEF cur, id
    <3>4. b = breaker /\ p = cur /\ entries'[b][p] = AcquireEntry(e, now, id)
      BY <2>1, <2>2, <3>1, <3>2
    <3>5. e = entries[b][p]
      BY <3>4
    <3> HIDE DEF e
    <3>6. /\ AcquireEntry(e, now, id).failures = e.failures
          /\ AcquireEntry(e, now, id).state = "open" => e.state = "open"
      BY <3>3, EntryFacts
    <3> QED
      BY <1>1, <2>1, <3>4, <3>5, <3>6
  <2>4. ASSUME NEW r \in Requests, Answer(r) PROVE FALSE
    <3>1. /\ b = req[r].admission.breaker /\ p = req[r].admission.provider
          /\ entries'[b][p] = SuccessEntry(AdmissionEntry(r))
      BY <1>1, <2>1, <2>2, <2>4, AdmissionFacts, ReportFacts, EntryFacts DEF Answer
    <3> QED
      BY <1>1, <2>1, <2>4, <3>1 DEF SuccessEntry, NewEntry
  <2>5. ASSUME NEW r \in Requests, NEW err \in Failures, Fail(r, err)
        PROVE  Culprit(b, p)
    <3>1. req[r].pc = "call" /\ recordAttemptFailure(r, err)
      BY <2>5 DEF Fail
    <3>2. /\ AdmissionEntry(r) \in Entry /\ req[r].admission.probe \in Nat
      BY <1>1, <3>1, AdmissionFacts
    <3> DEFINE blame == FailureEntry(AdmissionEntry(r), now, req[r].admission.probe)
               back == ReleaseEntry(AdmissionEntry(r), req[r].admission.probe)
    <3>3. /\ blame \in Entry /\ back \in Entry
          /\ back.failures = AdmissionEntry(r).failures
          /\ back.state = AdmissionEntry(r).state
      BY <2>1, <3>2, EntryFacts
    <3>4. \/ countsAsProviderFailure(req[r].ctxDone, err) /\ Report(r, blame)
          \/ ~countsAsProviderFailure(req[r].ctxDone, err) /\ Report(r, back)
      BY <3>1 DEF recordAttemptFailure
    <3> HIDE DEF blame, back
    <3>5. b = req[r].admission.breaker /\ p = req[r].admission.provider
      BY <1>1, <2>2, <3>1, <3>3, <3>4, ReportFacts
    <3>6. countsAsProviderFailure(req[r].ctxDone, err)
      <4> SUFFICES ASSUME Report(r, back) PROVE FALSE
        BY <3>4
      <4>1. entries'[b][p] = back
        BY <1>1, <3>1, <3>5, <3>3, ReportFacts
      <4>2. entries[b][p] = AdmissionEntry(r)
        BY <3>5 DEF AdmissionEntry
      <4> QED
        BY <1>1, <2>1, <3>3, <4>1, <4>2
    <3>7. req'[r].pc = "failed" /\ req'[r].err = err
      BY <2>1, <2>5 DEF Fail, Request
    <3>8. err.kind \in {"network", "upstream"} /\ ~req[r].ctxDone
      BY <3>6, RouterAssumption DEF countsAsProviderFailure, Error
    <3>9. err.status \notin (400..499) \ {408, 429}
      BY <3>6 DEF countsAsProviderFailure
    <3> QED
      BY <3>5, <3>7, <3>8, <3>9
  <2>6. entries' # entries
    BY <2>2
  <2>7. ASSUME NEW r \in Requests, Step(r) PROVE Culprit(b, p)
    BY <2>3, <2>4, <2>5, <2>6, <2>7
       DEF Step, breakerVars, Skip, Refused, Exhaust, CallerGone, Retry, Fallback,
           WaitOver, WaitCanceled
  <2> QED
    BY <1>1, <2>6, <2>7
       DEF Next, vars, breakerVars, Start, Cancel, SetCircuitBreaker, Tick, AllDone
<1>2. IInv /\ [Next]_vars =>
         [\A b \in Breakers, p \in Providers : Blamed(b, p) => Culprit(b, p)]_vars
  BY <1>1
<1> QED
  BY <1>2, Invariance, PTL DEF Spec, BlamesOnlyProviderFaults

-----------------------------------------------------------------------------
(* The requests and one breaker.                                           *)

NoneHeld == [provider |-> "none", probe |-> 0, at |-> 0]

\* The steps that CircuitBreaker allows, written out for breaker b.
Acquired(b, r, p) ==
    LET e  == entries[b][p]
        id == IF IsProbe(e) THEN lastProbe[b] + 1 ELSE 0
    IN  /\ HeldOf(b)[r] = NoneHeld
        /\ Admits(e, now)
        /\ entries'[b] = [entries[b] EXCEPT ![p] = AcquireEntry(e, now, id)]
        /\ openedAt'[b] = openedAt[b]
        /\ lastProbe'[b] = IF IsProbe(e) THEN id ELSE lastProbe[b]
        /\ HeldOf(b)' = [HeldOf(b) EXCEPT ![r] = [provider |-> p, probe |-> id, at |-> now]]
        /\ now' = now

Reported(b, r, e) ==
    LET p == HeldOf(b)[r].provider
    IN  /\ HeldOf(b)[r] # NoneHeld
        /\ entries'[b] = [entries[b] EXCEPT ![p] = e]
        /\ openedAt'[b] = IF e.state = "open" /\ entries[b][p].state # "open"
                          THEN [openedAt[b] EXCEPT ![p] = now] ELSE openedAt[b]
        /\ HeldOf(b)' = [HeldOf(b) EXCEPT ![r] = NoneHeld]
        /\ lastProbe'[b] = lastProbe[b] /\ now' = now

Answered(b, r) == Reported(b, r, SuccessEntry(entries[b][HeldOf(b)[r].provider]))
Failed(b, r) ==
    Reported(b, r, FailureEntry(entries[b][HeldOf(b)[r].provider], now, HeldOf(b)[r].probe))
GivenBack(b, r) ==
    Reported(b, r, ReleaseEntry(entries[b][HeldOf(b)[r].provider], HeldOf(b)[r].probe))

Idle(b) ==
    /\ entries'[b] = entries[b] /\ openedAt'[b] = openedAt[b]
    /\ lastProbe'[b] = lastProbe[b] /\ HeldOf(b)' = HeldOf(b)

BreakerStep(b) ==
    \/ \E r \in Requests, p \in Providers : Acquired(b, r, p)
    \/ \E r \in Requests : Answered(b, r) \/ Failed(b, r) \/ GivenBack(b, r)
    \/ Idle(b) /\ now < MaxClock /\ now' = now + 1
    \/ Idle(b) /\ now' = now

\* A step that leaves every admission alone leaves what breaker b granted alone.
LEMMA HeldUnchanged ==
    ASSUME NEW b \in Breakers,
           \A s \in Requests : req'[s].admission = req[s].admission
    PROVE  HeldOf(b)' = HeldOf(b)
  BY DEF HeldOf

\* An admission is one step of the breaker that grants it and none of another.
LEMMA AcquireRefines ==
    ASSUME IInv, NEW r \in Requests, allowProvider(r), NEW b \in Breakers
    PROVE  BreakerStep(b)
<1> DEFINE p == Current(r)
           e == entries[breaker][p]
           id == IF IsProbe(e) THEN lastProbe[breaker] + 1 ELSE 0
           a == [breaker |-> breaker, provider |-> p, probe |-> id, at |-> now]
<1>1. /\ req[r].pc = "try" /\ InChain(r) /\ Admits(e, now)
      /\ entries' = [entries EXCEPT ![breaker][p] = AcquireEntry(e, now, id)]
      /\ lastProbe' = [lastProbe EXCEPT ![breaker] = IF IsProbe(e) THEN id ELSE @]
      /\ req' = [req EXCEPT ![r].pc = "call", ![r].admission = a]
      /\ UNCHANGED <<openedAt, now>>
  BY DEF allowProvider
<1>2. /\ entries \in [Breakers -> [Providers -> Entry]]
      /\ lastProbe \in [Breakers -> Nat] /\ breaker \in Breakers
      /\ req \in [Requests -> Request]
  BY DEF IInv, TypeOK
<1>3. p \in Providers
  BY <1>1, CurrentFacts DEF IInv
<1>4. req[r].admission = NoAdmission
  BY <1>1 DEF IInv, Positioned
<1>5. /\ req'[r].admission = a
      /\ \A s \in Requests \ {r} : req'[s] = req[s]
  BY <1>1, <1>2 DEF Request
<1>6. /\ HeldOf(b)[r] = NoneHeld
      /\ \A s \in Requests \ {r} : HeldOf(b)'[s] = HeldOf(b)[s]
      /\ HeldOf(b)'[r] = IF b = breaker
                         THEN [provider |-> p, probe |-> id, at |-> now] ELSE NoneHeld
  BY <1>4, <1>5 DEF HeldOf, NoneHeld, NoAdmission, Breakers
<1>7. CASE b = breaker
  <2>1. HeldOf(b)' = [HeldOf(b) EXCEPT ![r] = [provider |-> p, probe |-> id, at |-> now]]
    BY <1>6, <1>7 DEF HeldOf
  <2>2. /\ entries'[b] = [entries[b] EXCEPT ![p] = AcquireEntry(e, now, id)]
        /\ openedAt'[b] = openedAt[b]
        /\ lastProbe'[b] = IF IsProbe(e) THEN id ELSE lastProbe[b]
    BY <1>1, <1>2, <1>3, <1>7
  <2>3. Acquired(b, r, p)
    BY <1>1, <1>6, <1>7, <2>1, <2>2 DEF Acquired
  <2> QED
    BY <1>3, <2>3 DEF BreakerStep
<1>8. CASE b # breaker
  <2>1. HeldOf(b)' = HeldOf(b)
    BY <1>6, <1>8 DEF HeldOf
  <2> QED
    BY <1>1, <1>2, <1>8, <2>1 DEF BreakerStep, Idle
<1> QED
  BY <1>7, <1>8

\* A report is one step of the breaker that admitted the call, also when a
\* reload has replaced it since, and none of another.
LEMMA ReportRefines ==
    ASSUME IInv, NEW r \in Requests, req[r].pc = "call", NEW e \in Entry, Report(r, e),
           req'[r].admission = NoAdmission, now' = now,
           \A s \in Requests \ {r} : req'[s] = req[s],
           NEW b \in Breakers
    PROVE  /\ b = req[r].admission.breaker => Reported(b, r, e)
           /\ b # req[r].admission.breaker => Idle(b)
           /\ b = req[r].admission.breaker =>
                 /\ HeldOf(b)[r].provider = req[r].admission.provider
                 /\ HeldOf(b)[r].probe = req[r].admission.probe
<1> DEFINE ab == req[r].admission.breaker
           ap == req[r].admission.provider
<1>1. /\ ab \in Breakers /\ ap \in Providers /\ ap # "none"
  BY AdmissionFacts, RouterAssumption
<1>2. /\ entries' = [entries EXCEPT ![ab][ap] = e]
      /\ openedAt' = IF e.state = "open" /\ entries[ab][ap].state # "open"
                     THEN [openedAt EXCEPT ![ab][ap] = now] ELSE openedAt
      /\ lastProbe' = lastProbe
  BY DEF Report
<1>3. /\ entries \in [Breakers -> [Providers -> Entry]]
      /\ openedAt \in [Breakers -> [Providers -> Nat]]
  BY DEF IInv, TypeOK
<1>4. /\ \A s \in Requests \ {r} : HeldOf(b)'[s] = HeldOf(b)[s]
      /\ HeldOf(b)'[r] = NoneHeld
      /\ b = ab => /\ HeldOf(b)[r].provider = ap
                   /\ HeldOf(b)[r].probe = req[r].admission.probe
      /\ b # ab => HeldOf(b)[r] = NoneHeld
  BY DEF HeldOf, NoneHeld, NoAdmission, Breakers
<1>5. b = ab => HeldOf(b)[r] # NoneHeld
  BY <1>1, <1>4 DEF NoneHeld
<1> HIDE DEF ab, ap
<1>6. ASSUME b = ab PROVE Reported(b, r, e)
  <2>1. HeldOf(b)' = [HeldOf(b) EXCEPT ![r] = NoneHeld]
    BY <1>4 DEF HeldOf
  <2>2. entries'[b] = [entries[b] EXCEPT ![ap] = e]
    BY <1>1, <1>2, <1>3, <1>6
  <2>3. openedAt'[b] = IF e.state = "open" /\ entries[b][ap].state # "open"
                       THEN [openedAt[b] EXCEPT ![ap] = now] ELSE openedAt[b]
    BY <1>1, <1>2, <1>3, <1>6
  <2> QED
    BY <1>2, <1>4, <1>5, <1>6, <2>1, <2>2, <2>3 DEF Reported
<1>7. ASSUME b # ab PROVE Idle(b)
  <2>1. HeldOf(b)' = HeldOf(b)
    BY <1>4, <1>7 DEF HeldOf
  <2>2. entries'[b] = entries[b] /\ openedAt'[b] = openedAt[b]
    BY <1>1, <1>2, <1>3, <1>7
  <2> QED
    BY <1>2, <2>1, <2>2 DEF Idle
<1> QED
  BY <1>4, <1>6, <1>7 DEF ab, ap

\* Every step of the router is a step, or none, of each breaker.
LEMMA NextRefines ==
    ASSUME IInv, [Next]_vars, NEW b \in Breakers
    PROVE  BreakerStep(b)
<1>1. req \in [Requests -> Request]
  BY DEF IInv, TypeOK
<1>2. ASSUME UNCHANGED breakerVars, now' = now,
             \A s \in Requests : req'[s].admission = req[s].admission
      PROVE  BreakerStep(b)
  BY <1>2, HeldUnchanged DEF breakerVars, BreakerStep, Idle
<1>3. ASSUME NEW r \in Requests, Answer(r) PROVE BreakerStep(b)
  <2>1. /\ req[r].pc = "call" /\ Report(r, SuccessEntry(AdmissionEntry(r)))
        /\ req'[r].admission = NoAdmission /\ now' = now
        /\ \A s \in Requests \ {r} : req'[s] = req[s]
    BY <1>1, <1>3 DEF Answer, Request
  <2>2. SuccessEntry(AdmissionEntry(r)) \in Entry
    BY DEF SuccessEntry, NewEntry, Entry, CircuitState
  <2>3. \/ Idle(b)
        \/ /\ b = req[r].admission.breaker
           /\ Reported(b, r, SuccessEntry(AdmissionEntry(r)))
    BY <2>1, <2>2, ReportRefines
  <2> QED
    BY <2>1, <2>3 DEF BreakerStep, Answered, SuccessEntry
<1>4. ASSUME NEW r \in Requests, NEW err \in Failures, Fail(r, err)
      PROVE  BreakerStep(b)
  <2> DEFINE blame == FailureEntry(AdmissionEntry(r), now, req[r].admission.probe)
             back == ReleaseEntry(AdmissionEntry(r), req[r].admission.probe)
  <2>1. /\ req[r].pc = "call"
        /\ Report(r, blame) \/ Report(r, back)
        /\ req'[r].admission = NoAdmission /\ now' = now
        /\ \A s \in Requests \ {r} : req'[s] = req[s]
    BY <1>1, <1>4 DEF Fail, recordAttemptFailure, Request
  <2>2. blame \in Entry /\ back \in Entry
    <3>1. now \in Nat
      BY RouterAssumption DEF IInv, TypeOK
    <3> QED
      BY <2>1, <3>1, AdmissionFacts, EntryFacts
  <2>3. CASE b # req[r].admission.breaker
    BY <2>1, <2>2, <2>3, ReportRefines DEF BreakerStep
  <2>4. CASE b = req[r].admission.breaker
    <3>1. /\ AdmissionEntry(r) = entries[b][HeldOf(b)[r].provider]
          /\ req[r].admission.probe = HeldOf(b)[r].probe
      BY <2>1, <2>2, <2>4, ReportRefines DEF AdmissionEntry
    <3>2. Reported(b, r, blame) \/ Reported(b, r, back)
      BY <2>1, <2>2, <2>4, ReportRefines
    <3> QED
      BY <3>1, <3>2 DEF BreakerStep, Failed, GivenBack
  <2> QED
    BY <2>3, <2>4
<1>5. ASSUME NEW r \in Requests, Step(r) PROVE BreakerStep(b)
  <2>1. ASSUME \/ Skip(r) \/ Refused(r) \/ Fallback(r) \/ Exhaust(r) \/ CallerGone(r)
               \/ Retry(r) \/ WaitOver(r) \/ WaitCanceled(r)
        PROVE  /\ UNCHANGED breakerVars /\ now' = now
               /\ \A s \in Requests : req'[s].admission = req[s].admission
    <3>1. UNCHANGED breakerVars /\ now' = now
      BY <2>1 DEF Skip, Refused, Fallback, Exhaust, CallerGone, Retry, WaitOver, WaitCanceled
    <3>2. CASE NextProvider(r)
      BY <1>1, <3>1, <3>2 DEF NextProvider, Request
    <3>3. CASE Exhaust(r) \/ WaitCanceled(r)
      BY <1>1, <3>1, <3>3 DEF Exhaust, WaitCanceled, Request
    <3>4. CASE CallerGone(r)
      BY <1>1, <3>1, <3>4 DEF CallerGone, Request
    <3>5. CASE Retry(r)
      BY <1>1, <3>1, <3>5 DEF Retry, Request
    <3>6. CASE WaitOver(r)
      BY <1>1, <3>1, <3>6 DEF WaitOver, Request
    <3> QED
      BY <2>1, <3>2, <3>3, <3>4, <3>5, <3>6 DEF Skip, Refused, Fallback
  <2> QED
    BY <1>2, <1>3, <1>4, <1>5, <2>1, AcquireRefines DEF Step
<1>6. ASSUME NEW r \in Requests, Start(r) \/ Cancel(r) PROVE BreakerStep(b)
  <2>1. UNCHANGED breakerVars /\ now' = now
    BY <1>6 DEF Start, Cancel
  <2>2. \A s \in Requests : req'[s].admission = req[s].admission
    <3>1. CASE Cancel(r)
      BY <1>1, <3>1 DEF Cancel, Request
    <3>2. CASE Start(r)
      <4>1. PICK kind \in Kinds, chain \in Chains, hasRoute \in BOOLEAN :
              req' = [req EXCEPT ![r].kind = kind,
                                 ![r].chain = chain,
                                 ![r].hasRoute = hasRoute,
                                 ![r].pc = IF chain = <<>> THEN "done" ELSE "try",
                                 ![r].result = IF chain = <<>> THEN "no-provider"
                                               ELSE "none"]
        BY <3>2 DEF Start
      <4> QED
        BY <1>1, <4>1 DEF Request
    <3> QED
      BY <1>6, <3>1, <3>2
  <2> QED
    BY <1>2, <2>1, <2>2
<1>7. CASE SetCircuitBreaker
  BY <1>2, <1>7 DEF SetCircuitBreaker
<1>8. CASE Tick
  <2>1. HeldOf(b)' = HeldOf(b)
    BY <1>8, HeldUnchanged DEF Tick
  <2> QED
    BY <1>8, <2>1 DEF Tick, BreakerStep, Idle, breakerVars
<1>9. CASE AllDone \/ UNCHANGED vars
  BY <1>2, <1>9 DEF AllDone, vars, breakerVars
<1> QED
  BY <1>5, <1>6, <1>7, <1>8, <1>9 DEF Next

\* Probe IDs stay within the bound that RefinesBreakers gives CircuitBreaker.
WithinProbeBound == lastProbe[1] <= ProbeBound /\ lastProbe[MaxBreakers] <= ProbeBound

\* The bound is a number, and the first and the last breaker are breakers.
LEMMA BoundFacts ==
    ProbeBound \in Nat /\ 1 \in Breakers /\ MaxBreakers \in Breakers
<1>1. Cardinality(Requests) \in Nat /\ Cardinality(Providers) \in Nat
  BY RouterAssumption, FS_CardinalityType
<1>2. Cardinality(Requests) * Cardinality(Providers) \in Nat
  BY <1>1
<1> QED
  BY <1>2, RouterAssumption DEF ProbeBound, Breakers

\* To the breaker that the router started with, every step is a step of CircuitBreaker.
LEMMA FirstNext ==
    ASSUME IInv, [Next]_vars, WithinProbeBound, WithinProbeBound'
    PROVE  [FirstBreaker!Next]_FirstBreaker!vars
<1>1. BreakerStep(1) /\ lastProbe[1] \in Nat
  BY NextRefines, BoundFacts DEF IInv, TypeOK
<1>2. ASSUME NEW r \in Requests, NEW p \in Providers, Acquired(1, r, p)
      PROVE  FirstBreaker!Acquire(r, p)
  BY <1>1, <1>2, BoundFacts
     DEF Acquired, WithinProbeBound, NoneHeld, FirstBreaker!Acquire, FirstBreaker!Holds,
         FirstBreaker!NoAdmission, FirstBreaker!SetEntry, FirstBreaker!IsProbe,
         FirstBreaker!AcquireEntry, FirstBreaker!Admits, FirstBreaker!HalfOpenFree,
         IsProbe, AcquireEntry, Admits, HalfOpenFree
<1>3. ASSUME NEW r \in Requests, NEW e, Reported(1, r, e)
      PROVE  FirstBreaker!Holds(r) /\ FirstBreaker!Report(r, e)
  BY <1>3
     DEF Reported, NoneHeld, FirstBreaker!Holds, FirstBreaker!NoAdmission, FirstBreaker!Report,
         FirstBreaker!SetEntry
<1>4. ASSUME NEW r \in Requests, Answered(1, r)
      PROVE  FirstBreaker!Success(r)
  BY <1>3, <1>4
     DEF Answered, SuccessEntry, NewEntry, FirstBreaker!Success, FirstBreaker!SuccessEntry,
         FirstBreaker!NewEntry
<1>5. ASSUME NEW r \in Requests, Failed(1, r)
      PROVE  FirstBreaker!Failure(r)
  BY <1>3, <1>5
     DEF Failed, FailureEntry, CountFailure, FirstBreaker!Failure, FirstBreaker!FailureEntry,
         FirstBreaker!CountFailure
<1>6. ASSUME NEW r \in Requests, GivenBack(1, r)
      PROVE  FirstBreaker!Release(r)
  BY <1>3, <1>6
     DEF GivenBack, ReleaseEntry, FirstBreaker!Release, FirstBreaker!ReleaseEntry
<1>7. CASE Idle(1) /\ now < MaxClock /\ now' = now + 1
  BY <1>7 DEF Idle, FirstBreaker!Next, FirstBreaker!Tick
<1>8. CASE Idle(1) /\ now' = now
  BY <1>8 DEF Idle, FirstBreaker!vars
<1> QED
  BY <1>1, <1>2, <1>4, <1>5, <1>6, <1>7, <1>8 DEF BreakerStep, FirstBreaker!Next

\* So it is to the breaker that the last reload installs.
LEMMA LastNext ==
    ASSUME IInv, [Next]_vars, WithinProbeBound, WithinProbeBound'
    PROVE  [LastBreaker!Next]_LastBreaker!vars
<1>1. BreakerStep(MaxBreakers) /\ lastProbe[MaxBreakers] \in Nat
  BY NextRefines, BoundFacts DEF IInv, TypeOK
<1>2. ASSUME NEW r \in Requests, NEW p \in Providers, Acquired(MaxBreakers, r, p)
      PROVE  LastBreaker!Acquire(r, p)
  BY <1>1, <1>2, BoundFacts
     DEF Acquired, WithinProbeBound, NoneHeld, LastBreaker!Acquire, LastBreaker!Holds,
         LastBreaker!NoAdmission, LastBreaker!SetEntry, LastBreaker!IsProbe,
         LastBreaker!AcquireEntry, LastBreaker!Admits, LastBreaker!HalfOpenFree,
         IsProbe, AcquireEntry, Admits, HalfOpenFree
<1>3. ASSUME NEW r \in Requests, NEW e, Reported(MaxBreakers, r, e)
      PROVE  LastBreaker!Holds(r) /\ LastBreaker!Report(r, e)
  BY <1>3
     DEF Reported, NoneHeld, LastBreaker!Holds, LastBreaker!NoAdmission, LastBreaker!Report,
         LastBreaker!SetEntry
<1>4. ASSUME NEW r \in Requests, Answered(MaxBreakers, r)
      PROVE  LastBreaker!Success(r)
  BY <1>3, <1>4
     DEF Answered, SuccessEntry, NewEntry, LastBreaker!Success, LastBreaker!SuccessEntry,
         LastBreaker!NewEntry
<1>5. ASSUME NEW r \in Requests, Failed(MaxBreakers, r)
      PROVE  LastBreaker!Failure(r)
  BY <1>3, <1>5
     DEF Failed, FailureEntry, CountFailure, LastBreaker!Failure, LastBreaker!FailureEntry,
         LastBreaker!CountFailure
<1>6. ASSUME NEW r \in Requests, GivenBack(MaxBreakers, r)
      PROVE  LastBreaker!Release(r)
  BY <1>3, <1>6
     DEF GivenBack, ReleaseEntry, LastBreaker!Release, LastBreaker!ReleaseEntry
<1>7. CASE Idle(MaxBreakers) /\ now < MaxClock /\ now' = now + 1
  BY <1>7 DEF Idle, LastBreaker!Next, LastBreaker!Tick
<1>8. CASE Idle(MaxBreakers) /\ now' = now
  BY <1>8 DEF Idle, LastBreaker!vars
<1> QED
  BY <1>1, <1>2, <1>4, <1>5, <1>6, <1>7, <1>8 DEF BreakerStep, LastBreaker!Next

\* The breaker that a reload retires while calls are out, and the one that it
\* installs, both see a legal history: as long as probe IDs stay within the bound
\* that the refinement gives CircuitBreaker (a bound of the model, the code has
\* none), what the requests do to each of them is a behaviour of CircuitBreaker.
THEOREM Refinement == Spec /\ []WithinProbeBound => RefinesBreakers
<1>1. Init => FirstBreaker!Init /\ LastBreaker!Init
  BY BoundFacts
     DEF Init, FirstBreaker!Init, LastBreaker!Init, HeldOf, NoAdmission, Breakers, NewEntry,
         FirstBreaker!NewEntry, LastBreaker!NewEntry, FirstBreaker!NoAdmission,
         LastBreaker!NoAdmission
<1> QED
  BY <1>1, FirstNext, LastNext, Invariance, PTL
     DEF Spec, RefinesBreakers, FirstBreaker!Spec, LastBreaker!Spec
=============================================================================
