--------------------------- MODULE CircuitBreaker ---------------------------
(***************************************************************************)
(* CircuitBreaker (internal/router/circuitbreaker.go) under concurrent     *)
(* calls.  Every method holds the breaker's mutex for its whole body, so a *)
(* method is one action.  A call slot holds at most one Admission at a     *)
(* time and may report its outcome at any later time, or never: a slow     *)
(* call, a hung call and a call that was counted as lost are the same slot *)
(* that has not reported yet.                                              *)
(***************************************************************************)
EXTENDS CircuitEntry

CONSTANTS
    Providers,
    Calls,          \* concurrent call slots
    MaxClock,       \* bound: the clock stops here
    MaxProbes,      \* bound: probe IDs handed out
    MaxFailures     \* bound: failures recorded without an Admission

ASSUME BoundsAssumption ==
    MaxClock \in Nat /\ MaxProbes \in Nat /\ MaxFailures \in Nat

\* "none" is kept for the Admission of a call slot that holds none.
ASSUME ProvidersAssumption == "none" \notin Providers

VARIABLES
    entries,        \* b.entries: provider -> circuitEntry (missing = closed)
    lastProbe,      \* b.lastProbe
    now,            \* the clock
    admission,      \* call -> the Admission it has not reported yet
    openedAt        \* history: when the provider's circuit last became open

vars == <<entries, lastProbe, now, admission, openedAt>>

\* An Admission; at, when it was granted, is history.
Admission == [provider : Providers, probe : Nat, at : Nat]

NoAdmission == [provider |-> "none", probe |-> 0, at |-> 0]

Holds(c) == admission[c] # NoAdmission

TypeOK ==
    /\ entries \in [Providers -> Entry]
    /\ lastProbe \in Nat
    /\ now \in Nat
    /\ admission \in [Calls -> Admission \cup {NoAdmission}]
    /\ openedAt \in [Providers -> Nat]

-----------------------------------------------------------------------------
Init ==
    /\ entries = [p \in Providers |-> NewEntry]
    /\ lastProbe = 0
    /\ now = 0
    /\ admission = [c \in Calls |-> NoAdmission]
    /\ openedAt = [p \in Providers |-> 0]

\* Install e as the entry of p.
SetEntry(p, e) ==
    /\ entries' = [entries EXCEPT ![p] = e]
    /\ openedAt' = IF e.state = "open" /\ entries[p].state # "open"
                   THEN [openedAt EXCEPT ![p] = now] ELSE openedAt

\* Acquire that admits the call.  Only a probe takes a new ID.
Acquire(c, p) ==
    LET e  == entries[p]
        id == IF IsProbe(e) THEN lastProbe + 1 ELSE 0
    IN  /\ ~Holds(c)
        /\ Admits(e, now)
        /\ id <= MaxProbes
        /\ SetEntry(p, AcquireEntry(e, now, id))
        /\ lastProbe' = IF IsProbe(e) THEN id ELSE lastProbe
        /\ admission' = [admission EXCEPT ![c] =
                            [provider |-> p, probe |-> id, at |-> now]]
        /\ UNCHANGED now

\* The three reports an Admission can end in.
Report(c, e) ==
    /\ Holds(c)
    /\ SetEntry(admission[c].provider, e)
    /\ admission' = [admission EXCEPT ![c] = NoAdmission]
    /\ UNCHANGED <<lastProbe, now>>

Success(c) ==
    Holds(c) /\ Report(c, SuccessEntry(entries[admission[c].provider]))

Failure(c) ==
    Holds(c) /\ Report(c, FailureEntry(entries[admission[c].provider], now,
                                       admission[c].probe))

Release(c) ==
    Holds(c) /\ Report(c, ReleaseEntry(entries[admission[c].provider],
                                       admission[c].probe))

\* Outcomes that are not tied to an Admission.
RecordSuccess(p) ==
    /\ SetEntry(p, SuccessEntry(entries[p]))
    /\ UNCHANGED <<lastProbe, now, admission>>

RecordFailure(p) ==
    /\ entries[p].failures < MaxFailures
    /\ SetEntry(p, FailureEntry(entries[p], now, 0))
    /\ UNCHANGED <<lastProbe, now, admission>>

\* Time passes between the steps of the calls.
Tick ==
    /\ now < MaxClock
    /\ now' = now + 1
    /\ UNCHANGED <<entries, lastProbe, admission, openedAt>>

Next ==
    \/ \E c \in Calls, p \in Providers : Acquire(c, p)
    \/ \E c \in Calls : Success(c)
    \/ \E c \in Calls : Failure(c)
    \/ \E c \in Calls : Release(c)
    \/ \E p \in Providers : RecordSuccess(p)
    \/ \E p \in Providers : RecordFailure(p)
    \/ Tick

Spec == Init /\ [][Next]_vars
-----------------------------------------------------------------------------
\* A probe that its holder has not reported and that is not lost yet.
LiveProbe(c, p) ==
    /\ Holds(c)
    /\ admission[c].provider = p
    /\ admission[c].probe # 0
    /\ now < admission[c].at + Cooldown

\* "exactly one request (the probe) may reach the provider at a time": no two
\* calls hold probes of one provider that are both younger than the cooldown,
\* also when late reports closed and reopened the circuit in between.
OneLiveProbe ==
    \A c, d \in Calls, p \in Providers :
        LiveProbe(c, p) /\ LiveProbe(d, p) => c = d

\* The circuit is closed exactly while fewer than Threshold failures were
\* counted since the last success, whatever probes and late reports did.
ClosedBelowThreshold ==
    \A p \in Providers :
        entries[p].state = "closed" <=> entries[p].failures < Threshold

\* No circuit wedges: in every state, if nobody reports anything for one
\* cooldown, Available is true again (a lost probe cannot hold its slot).
NeverWedged ==
    \A p \in Providers : Available(entries[p], now + Cooldown)

\* A taken probe slot belongs to a half-open circuit and to a call that has
\* not reported: every report (Success, Failure, Release) frees it.
SlotHasHolder ==
    \A p \in Providers :
        entries[p].probe # 0 =>
            /\ entries[p].state = "half-open"
            /\ \E c \in Calls : /\ Holds(c)
                                /\ admission[c].provider = p
                                /\ admission[c].probe = entries[p].probe

\* Available answers what Acquire would do now.
AvailableMatchesAcquire ==
    \A p \in Providers : Available(entries[p], now) <=> Admits(entries[p], now)

\* Only the probe that owns the slot turns a half-open circuit open again, or
\* frees the slot while the circuit stays half-open; a late report, or one of
\* a probe already replaced, does neither.
ProbeDecides ==
    [][\A p \in Providers :
          LET e == entries[p]
              f == entries'[p]
          IN  /\ e.state = "half-open" /\ e.probe # 0
              /\ \/ f.state = "open"
                 \/ f.state = "half-open" /\ f.probe = 0
              => \E c \in Calls : /\ Holds(c)
                                  /\ admission[c].provider = p
                                  /\ admission[c].probe = e.probe
                                  /\ admission'[c] = NoAdmission]_vars

\* In the open state no call is admitted until a full cooldown has passed
\* since the circuit opened.
NoAdmissionInCooldown ==
    [][\A c \in Calls :
          ~Holds(c) /\ admission'[c] # NoAdmission =>
              LET p == admission'[c].provider
              IN  entries[p].state = "open" => now >= openedAt[p] + Cooldown]_vars

\* The comment on CircuitBreaker: a circuit that opened "stays open for
\* cooldown".  Refuted: a failure reported late, while the circuit is already
\* open, sets a new deadline.
OpenForOneCooldown ==
    \A p \in Providers :
        entries[p].state = "open" => entries[p].openUntil = openedAt[p] + Cooldown
=============================================================================
