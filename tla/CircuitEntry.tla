---------------------------- MODULE CircuitEntry ----------------------------
(***************************************************************************)
(* The circuit of one provider (internal/router/circuitbreaker.go): the    *)
(* record circuitEntry and what each method of CircuitBreaker does to it   *)
(* under the breaker's mutex.  The operators are pure; t is the value of   *)
(* b.now() read inside the method.  lastFailure is left out: the code      *)
(* writes it and never reads it.  The zero time.Time is 0, and so is the   *)
(* probe ID of an ordinary call.                                           *)
(***************************************************************************)
EXTENDS Integers

CONSTANTS
    Threshold,      \* consecutive counted failures that open a circuit
    Cooldown        \* how long a circuit stays open, and a probe's lifetime

\* NewCircuitBreaker replaces a threshold or a cooldown <= 0 by a default.
ASSUME SettingsAssumption ==
    /\ Threshold \in Nat \ {0}
    /\ Cooldown \in Nat \ {0}

CircuitState == {"closed", "open", "half-open"}

Entry == [state        : CircuitState,
          failures     : Nat,
          openUntil    : Nat,
          probe        : Nat,
          probeExpires : Nat]

NewEntry ==
    [state |-> "closed", failures |-> 0, openUntil |-> 0,
     probe |-> 0, probeExpires |-> 0]

-----------------------------------------------------------------------------
(* Acquire: whether a call is admitted at time t, and the entry after an   *)
(* admission that is handed the fresh probe ID id.  A refusal leaves the   *)
(* entry as it is.                                                         *)

HalfOpenFree(e, t) == e.probe = 0 \/ t >= e.probeExpires

Admits(e, t) ==
    \/ e.state = "closed"
    \/ e.state = "open" /\ t >= e.openUntil
    \/ e.state = "half-open" /\ HalfOpenFree(e, t)

\* A call admitted by a circuit that is not closed is the half-open probe.
IsProbe(e) == e.state # "closed"

\* Mutant: the slot of a probe expires before its cooldown is over.
AcquireEntryShort(e, t, id) ==
    IF IsProbe(e)
    THEN [e EXCEPT !.state = "half-open", !.probe = id,
                   !.probeExpires = t + Cooldown - 1]
    ELSE e

\* Mutant: the slot of a probe outlives a cooldown.
AcquireEntryLong(e, t, id) ==
    IF IsProbe(e)
    THEN [e EXCEPT !.state = "half-open", !.probe = id,
                   !.probeExpires = t + 2 * Cooldown]
    ELSE e

AcquireEntry(e, t, id) ==
    IF IsProbe(e)
    THEN [e EXCEPT !.state = "half-open", !.probe = id,
                   !.probeExpires = t + Cooldown]
    ELSE e

-----------------------------------------------------------------------------
(* recordSuccess, recordFailure and release.                               *)

SuccessEntry(e) == NewEntry

\* Mutant: the deadline comes one tick early.
CountFailureShort(e, t) ==
    IF e.failures + 1 >= Threshold
    THEN [e EXCEPT !.failures = @ + 1, !.state = "open", !.openUntil = t + Cooldown - 1]
    ELSE [e EXCEPT !.failures = @ + 1]

\* A counted failure: one at or past the threshold sets a new deadline.
CountFailure(e, t) ==
    IF e.failures + 1 >= Threshold
    THEN [e EXCEPT !.failures = @ + 1, !.state = "open", !.openUntil = t + Cooldown]
    ELSE [e EXCEPT !.failures = @ + 1]

\* Mutant: any failure in the half-open state opens the circuit again.
FailureEntryAnyProbe(e, t, probe) ==
    IF e.state = "half-open"
    THEN [e EXCEPT !.state = "open", !.openUntil = t + Cooldown,
                   !.probe = 0, !.probeExpires = 0]
    ELSE CountFailure(e, t)

\* A late failure, of a call admitted before the circuit opened or of a probe
\* counted as lost, changes nothing in the half-open state; elsewhere every
\* failure counts.
FailureEntry(e, t, probe) ==
    IF e.state = "half-open"
    THEN IF probe = 0 \/ probe # e.probe
         THEN e
         ELSE [e EXCEPT !.state = "open", !.openUntil = t + Cooldown,
                        !.probe = 0, !.probeExpires = 0]
    ELSE CountFailure(e, t)

\* Admission.Release reaches release only for a probe; release frees the slot
\* only if that probe still owns it.
ReleaseEntry(e, probe) ==
    IF probe # 0 /\ e.state = "half-open" /\ e.probe = probe
    THEN [e EXCEPT !.probe = 0, !.probeExpires = 0]
    ELSE e

-----------------------------------------------------------------------------
\* Available: the same question as Acquire, asked without taking the slot.
Available(e, t) ==
    CASE e.state = "closed"    -> TRUE
      [] e.state = "open"      -> ~(t < e.openUntil)
      [] e.state = "half-open" -> e.probe = 0 \/ ~(t < e.probeExpires)
=============================================================================
