------------------------- MODULE BudgetLedgerProofs -------------------------
(***************************************************************************)
(* Proofs about BudgetLedger: reservations pin the ledger's entry, and,    *)
(* unless budgets fail open, no charge is ever missed and the budgets hold.*)
(***************************************************************************)
EXTENDS BudgetLedger, SumTheorems

-----------------------------------------------------------------------------
(* The inductive invariant.                                                *)

\* The entry and the load that it stands for.
EntryOK ==
    /\ ~entry.present => entry = NoEntry
    /\ entry.loading <=> load.phase # "off"
    /\ load.phase # "off" => load.gen < entry.gen

\* What a request has reserved, stamped and written, by where it is.
RequestOK(r) ==
    /\ req[r].pc \in {"idle", "admit", "wait", "load", "run"} => req[r].month = NoMonth
    /\ req[r].pc = "finish" /\ req[r].spendStored /\ req[r].cost > 0 => r \in spend
    /\ req[r].pc \in {"spend", "finish"} /\ req[r].logStored => r \in logs

\* Who waits has waited at most once before.
MayWait(r) == req[r].pc = "wait" => req[r].waits < 2

\* Unless budgets fail open, whoever runs holds a reservation, and whoever
\* writes a charge is known to the ledger.
HoldsReservation(r) ==
    /\ req[r].pc \in {"run", "stamped"} => req[r].hasRes
    /\ req[r].pc \in {"log", "spend", "finish"} => req[r].tracked

\* A finished charge that the ledger still answers for.
Finished(r) == r \in Charged /\ req[r].pc = "done" /\ r \notin forgotten

\* It is in the store, or among the lost charges.
StoredOrLost(r) ==
    /\ r \in spend \/ r \in entry.lostLife
    /\ r \in logs \/ r \in entry.lostMonthly

\* The snapshot that a load has read so far, with what finished since the load
\* began, misses nothing.
LoadCovers(r) ==
    /\ load.phase \in {"usage", "install"} =>
          r \in load.life \cup entry.lostLife \cup DoneOf(Kept(entry.doneLife, load.gen))
    /\ load.phase = "install" /\ MonthlyLimit > 0 /\ req[r].month = load.month =>
          r \in load.monthly \cup entry.lostMonthly \cup DoneOf(Kept(entry.doneMonthly, load.gen))

\* Nor does the snapshot in the entry.
SnapCovers(r) ==
    /\ entry.hasSnap => r \in entry.life \cup entry.lostLife \cup DoneOf(entry.doneLife)
    /\ entry.hasSnap /\ req[r].month = entry.snapMonth =>
          r \in entry.monthly \cup entry.lostMonthly \cup DoneOf(entry.doneMonthly)

\* What holds whatever the ledger does when it cannot read a budget.
BaseInv == TypeOK /\ EntryOK /\ ReservationPinsEntry /\ \A r \in Requests : MayWait(r) /\ RequestOK(r)

Covered(r) == Finished(r) => StoredOrLost(r) /\ LoadCovers(r) /\ SnapCovers(r)

IInv == BaseInv /\ \A r \in Requests : HoldsReservation(r) /\ Covered(r)

-----------------------------------------------------------------------------
(* Types.                                                                  *)

\* The values that the steps build have their types.
LEMMA Values ==
    /\ NewEntry \in EntryType /\ NoEntry \in EntryType /\ NoLoad \in LoadType
    /\ \A a \in Age : Older(a) \in Age
<1>1. NewEntry \in EntryType /\ NoEntry \in EntryType
  BY DEF NewEntry, NoEntry, EntryType, Age
<1>2. NoLoad \in LoadType
  BY DEF NoLoad, LoadType, Age
<1>3. \A a \in Age : Older(a) \in Age
  BY DEF Older, Age
<1> QED
  BY <1>1, <1>2, <1>3

\* A verdict keeps a request's type.
LEMMA VerdictType ==
    ASSUME NEW q \in RequestType, NEW runs \in BOOLEAN, NEW reserves \in BOOLEAN
    PROVE  Verdict(q, runs, reserves) \in RequestType
<1>1. PICK p \in {"run", "done"} : p = IF runs THEN "run" ELSE "done"
  OBVIOUS
<1>2. PICK m \in RequestType : m = [q EXCEPT !.pc = p, !.hasRes = reserves]
  BY DEF RequestType
<1>3. Verdict(q, runs, reserves) = [m EXCEPT !.ranLoad = FALSE, !.waits = 0]
  BY <1>1, <1>2 DEF Verdict, RequestType
<1>4. PICK n \in RequestType : n = [m EXCEPT !.ranLoad = FALSE]
  BY DEF RequestType
<1>5. Verdict(q, runs, reserves) = [n EXCEPT !.waits = 0]
  BY <1>3, <1>4 DEF RequestType
<1> QED
  BY <1>5 DEF RequestType

\* Who waited for a load keeps the type of a request.
LEMMA WokenType ==
    ASSUME NEW q \in RequestType, NEW ok \in BOOLEAN, q.pc = "wait" => q.waits < 2
    PROVE  Woken(q, ok) \in RequestType
<1>1. CASE q.pc = "wait"
  <2>1. PICK n \in 0..2 : n = q.waits + 1
    BY <1>1 DEF RequestType
  <2>2. PICK m \in RequestType : m = [q EXCEPT !.pc = "admit"]
    BY DEF RequestType
  <2>3. Woken(q, ok) = [m EXCEPT !.waits = n]
    BY <1>1, <2>1, <2>2 DEF Woken
  <2> QED
    BY <2>3 DEF RequestType
<1>2. CASE q.pc = "load" /\ ok
  <2>1. Woken(q, ok) = [q EXCEPT !.pc = "admit", !.ranLoad = TRUE]
    BY <1>2 DEF Woken
  <2> QED
    BY <2>1 DEF RequestType
<1>3. CASE q.pc = "load" /\ ~ok
  <2>1. Verdict(q, FailOpen, FALSE) \in RequestType
    BY BudgetAssumption, VerdictType
  <2> QED
    BY <1>3, <2>1 DEF Woken
<1>4. CASE q.pc \notin {"wait", "load"}
  BY <1>4 DEF Woken
<1> QED
  BY <1>1, <1>2, <1>3, <1>4

\* The entry that an admission finds or makes.
LEMMA LockedType ==
    ASSUME TypeOK PROVE entryLocked \in EntryType
  BY Values DEF TypeOK, entryLocked

\* A load that starts.
LEMMA LoadStarts ==
    ASSUME TypeOK, NEW e \in EntryType, startLoadLocked(e)
    PROVE  entry' \in EntryType /\ load' \in LoadType
<1>1. entry' \in EntryType
  <2>1. e.gen + 1 \in Nat
    BY DEF EntryType
  <2>2. entry' = [e EXCEPT !.loading = TRUE, !.gen = e.gen + 1]
    BY DEF startLoadLocked
  <2> QED
    BY <2>1, <2>2 DEF EntryType
<1>2. load' \in LoadType
  BY Values DEF startLoadLocked, EntryType, LoadType, TypeOK
<1> QED
  BY <1>1, <1>2

\* Every step keeps the types.
LEMMA TypeKept == ASSUME TypeOK, \A r \in Requests : MayWait(r), [Next]_vars PROVE TypeOK'
<1> USE BudgetAssumption
<1>1. ASSUME NEW r \in Requests, Start(r) PROVE TypeOK'
  <2>1. PICK est \in Estimates : req' = [req EXCEPT ![r].pc = "admit", ![r].est = est]
    BY <1>1 DEF Start
  <2>2. [req[r] EXCEPT !.pc = "admit", !.est = est] \in RequestType
    BY DEF TypeOK, RequestType
  <2>3. req' = [req EXCEPT ![r] = [req[r] EXCEPT !.pc = "admit", !.est = est]]
    BY <2>1 DEF TypeOK
  <2> QED
    BY <1>1, <2>2, <2>3 DEF TypeOK, Start
<1>2. ASSUME NEW r \in Requests, AdmitFull(r) PROVE TypeOK'
  BY <1>2, VerdictType DEF TypeOK, AdmitFull, Unavailable
<1>3. ASSUME NEW r \in Requests, AdmitUnavailable(r) PROVE TypeOK'
  BY <1>3, VerdictType, LockedType DEF TypeOK, AdmitUnavailable, Unavailable
<1>4. ASSUME NEW r \in Requests, AdmitWait(r) PROVE TypeOK'
  BY <1>4 DEF TypeOK, AdmitWait, RequestType
<1>5. ASSUME NEW r \in Requests, AdmitLoad(r) PROVE TypeOK'
  <2>1. entry' \in EntryType /\ load' \in LoadType
    BY <1>5, LockedType, LoadStarts DEF AdmitLoad
  <2>2. req' \in [Requests -> RequestType]
    BY <1>5 DEF TypeOK, AdmitLoad, RequestType
  <2> QED
    BY <1>5, <2>1, <2>2 DEF TypeOK, AdmitLoad
<1>6. ASSUME NEW r \in Requests, AdmitDecide(r) PROVE TypeOK'
  <2> DEFINE denied == budgetDenial(entryLocked, req[r].est)
             f == IF denied THEN entryLocked ELSE [entryLocked EXCEPT !.reserved = @ \cup {r}]
  <2>1. f \in EntryType
    <3>1. entryLocked \in EntryType
      BY LockedType
    <3> QED
      BY <3>1 DEF EntryType
  <2>2. IF entryLocked.age = "due" /\ ~entryLocked.loading /\ ~entryLocked.loadErr
        THEN startLoadLocked(f) ELSE entry' = f /\ UNCHANGED load
    BY <1>6 DEF AdmitDecide
  <2>3. req' \in [Requests -> RequestType]
    <3>1. req' = [req EXCEPT ![r] = Verdict(@, ~denied, ~denied)]
      BY <1>6 DEF AdmitDecide
    <3> HIDE DEF denied
    <3>2. (~denied) \in BOOLEAN
      OBVIOUS
    <3> QED
      BY <3>1, <3>2, VerdictType DEF TypeOK
  <2> HIDE DEF f
  <2>4. entry' \in EntryType /\ load' \in LoadType
    BY <2>1, <2>2, LoadStarts DEF TypeOK
  <2> QED
    BY <1>6, <2>3, <2>4 DEF TypeOK, AdmitDecide
<1>7. ASSUME NEW r \in Requests, WaitCanceled(r) PROVE TypeOK'
  BY <1>7, VerdictType DEF TypeOK, WaitCanceled, Unavailable
<1>8. ASSUME NEW r \in Requests, Release(r) PROVE TypeOK'
  <2>1. entry' \in EntryType
    BY <1>8 DEF TypeOK, Release, EntryType
  <2>2. req' \in [Requests -> RequestType]
    <3>1. [req[r] EXCEPT !.pc = "done", !.hasRes = FALSE] \in RequestType
      BY DEF TypeOK, RequestType
    <3>2. req' = [req EXCEPT ![r] = [req[r] EXCEPT !.pc = "done", !.hasRes = FALSE]]
      BY <1>8 DEF TypeOK, Release
    <3> QED
      BY <3>1, <3>2 DEF TypeOK
  <2> QED
    BY <1>8, <2>1, <2>2 DEF TypeOK, Release
<1>9. ASSUME NEW r \in Requests, Stamp(r) PROVE TypeOK'
  <2>1. PICK cost \in Costs : req' = [req EXCEPT ![r].pc = "stamped", ![r].cost = cost, ![r].month = month]
    BY <1>9 DEF Stamp
  <2>2. PICK m \in RequestType : m = [req[r] EXCEPT !.pc = "stamped", !.cost = cost]
    BY DEF TypeOK, RequestType
  <2>3. [m EXCEPT !.month = month] \in RequestType
    BY DEF TypeOK, RequestType
  <2>4. req' = [req EXCEPT ![r] = [m EXCEPT !.month = month]]
    BY <2>1, <2>2 DEF TypeOK
  <2> QED
    BY <1>9, <2>3, <2>4 DEF TypeOK, Stamp
<1>10. ASSUME NEW r \in Requests, beginCharge(r) PROVE TypeOK'
  <2>1. entry' \in EntryType
    BY <1>10 DEF TypeOK, beginCharge, EntryType
  <2>2. entry.present \in BOOLEAN
    BY DEF TypeOK, EntryType
  <2>3. req' \in [Requests -> RequestType]
    <3>1. PICK m \in RequestType : m = [req[r] EXCEPT !.pc = "log", !.hasRes = FALSE]
      BY DEF TypeOK, RequestType
    <3>2. [m EXCEPT !.tracked = entry.present] \in RequestType
      BY <2>2 DEF RequestType
    <3>3. req' = [req EXCEPT ![r] = [m EXCEPT !.tracked = entry.present]]
      BY <1>10, <3>1 DEF TypeOK, beginCharge
    <3> QED
      BY <3>2, <3>3 DEF TypeOK
  <2> QED
    BY <1>10, <2>1, <2>3 DEF TypeOK, beginCharge
<1>11. ASSUME NEW r \in Requests, InsertLog(r) PROVE TypeOK'
  <2>1. PICK stored \in BOOLEAN : req' = [req EXCEPT ![r].pc = "spend", ![r].logStored = stored]
    BY <1>11 DEF InsertLog
  <2>2. [req[r] EXCEPT !.pc = "spend", !.logStored = stored] \in RequestType
    BY DEF TypeOK, RequestType
  <2>3. req' = [req EXCEPT ![r] = [req[r] EXCEPT !.pc = "spend", !.logStored = stored]]
    BY <2>1 DEF TypeOK
  <2>4. logs' \subseteq Requests
    BY <1>11 DEF TypeOK, InsertLog
  <2> QED
    BY <1>11, <2>2, <2>3, <2>4 DEF TypeOK, InsertLog
<1>12. ASSUME NEW r \in Requests, IncrementAPIKeySpend(r) PROVE TypeOK'
  BY <1>12 DEF TypeOK, IncrementAPIKeySpend, RequestType
<1>13. ASSUME NEW r \in Requests, finish(r) PROVE TypeOK'
  <2>1. entry' \in EntryType
    <3>1. SUFFICES ASSUME req[r].tracked PROVE entry' \in EntryType
      BY <1>13 DEF TypeOK, finish
    <3>2. /\ entry \in EntryType /\ <<r, entry.gen>> \in Requests \X Nat
          /\ entry.doneLife \subseteq Requests \X Nat /\ entry.doneMonthly \subseteq Requests \X Nat
          /\ entry.lostLife \subseteq Requests /\ entry.lostMonthly \subseteq Requests
          /\ entry.pending \subseteq Requests
      BY DEF TypeOK, EntryType
    <3>3. PICK a \in SUBSET (Requests \X Nat) :
             a = IF req[r].spendStored THEN entry.doneLife \cup {<<r, entry.gen>>} ELSE entry.doneLife
      BY <3>2
    <3>4. PICK b \in SUBSET Requests : b = IF req[r].spendStored THEN entry.lostLife ELSE entry.lostLife \cup {r}
      BY <3>2
    <3>5. PICK c \in SUBSET (Requests \X Nat) :
             c = IF req[r].logStored THEN entry.doneMonthly \cup {<<r, entry.gen>>} ELSE entry.doneMonthly
      BY <3>2
    <3>6. PICK d \in SUBSET Requests : d = IF req[r].logStored THEN entry.lostMonthly ELSE entry.lostMonthly \cup {r}
      BY <3>2
    <3>7. PICK p \in SUBSET Requests : p = entry.pending \ {r}
      BY <3>2
    <3>8. entry' = [entry EXCEPT !.pending = p, !.doneLife = a, !.lostLife = b, !.doneMonthly = c, !.lostMonthly = d]
      BY <1>13, <3>1, <3>3, <3>4, <3>5, <3>6, <3>7 DEF finish
    <3>9. PICK m \in EntryType : m = [entry EXCEPT !.pending = p, !.doneLife = a]
      BY <3>2 DEF EntryType
    <3>10. PICK n \in EntryType : n = [m EXCEPT !.lostLife = b, !.doneMonthly = c]
      BY <3>2 DEF EntryType
    <3>11. entry' = [n EXCEPT !.lostMonthly = d]
      BY <3>2, <3>8, <3>9, <3>10 DEF EntryType
    <3> QED
      BY <3>11 DEF EntryType
  <2>2. req' \in [Requests -> RequestType]
    <3>1. PICK m \in RequestType : m = [req[r] EXCEPT !.pc = "done", !.tracked = FALSE]
      BY DEF TypeOK, RequestType
    <3>2. PICK n \in RequestType : n = [m EXCEPT !.logStored = FALSE, !.spendStored = FALSE]
      BY DEF RequestType
    <3>3. req' = [req EXCEPT ![r] = n]
      BY <1>13, <3>1, <3>2 DEF TypeOK, finish
    <3> QED
      BY <3>3 DEF TypeOK
  <2> QED
    BY <1>13, <2>1, <2>2 DEF TypeOK, finish
<1>14. CASE LoadKey
  BY <1>14 DEF TypeOK, LoadKey, LoadType
<1>15. CASE LoadUsage
  BY <1>15 DEF TypeOK, LoadUsage, LoadType
<1>16. ASSUME NEW ok \in BOOLEAN, WakeAll(ok) PROVE req' \in [Requests -> RequestType]
  BY <1>16, WokenType DEF WakeAll, TypeOK, MayWait
<1>17. CASE LoadInstall
  <2>1. entry' \in EntryType
    BY <1>17 DEF TypeOK, LoadInstall, EntryType, LoadType, Kept
  <2> QED
    BY <1>16, <1>17, <2>1, Values DEF TypeOK, LoadInstall
<1>18. CASE LoadFails
  <2>1. entry' \in EntryType
    BY <1>18 DEF TypeOK, LoadFails, EntryType
  <2> QED
    BY <1>16, <1>18, <2>1, Values DEF TypeOK, LoadFails
<1>19. CASE SnapshotAges
  <2>1. entry' \in EntryType
    BY <1>19, Values DEF TypeOK, SnapshotAges, EntryType
  <2>2. load' \in LoadType
    BY <1>19, Values DEF TypeOK, SnapshotAges, LoadType
  <2> QED
    BY <1>19, <2>1, <2>2 DEF TypeOK, SnapshotAges
<1>20. CASE BackoffOver
  BY <1>20 DEF TypeOK, BackoffOver, EntryType
<1>21. CASE NextMonth
  BY <1>21 DEF TypeOK, NextMonth, Months
<1>22. CASE Evict
  BY <1>22, Values DEF TypeOK, Evict, EntryType
<1>23. CASE UNCHANGED vars
  BY <1>23 DEF TypeOK, vars
<1> QED
  BY <1>1, <1>2, <1>3, <1>4, <1>5, <1>6, <1>7, <1>8, <1>9, <1>10, <1>11, <1>12, <1>13, <1>14, <1>15, <1>17,
     <1>18, <1>19, <1>20, <1>21, <1>22, <1>23 DEF Next, Admit, Finish, Load, AllDone

-----------------------------------------------------------------------------
(* What steps do, as the proofs use it.                                    *)

\* A request that has not been let in yet goes on: to the next pass of admit's
\* loop, to a verdict with a reservation, or to one without.
Goes(q) ==
    /\ req[q].pc \in {"idle", "admit", "wait", "load"}
    /\ req'[q].pc \in {"admit", "wait", "load", "run", "done"}
    /\ req'[q].month = req[q].month /\ req'[q].cost = req[q].cost
    /\ req'[q].pc = "wait" => req'[q].waits < 2
    /\ req'[q].pc = "run" => FailOpen \/ req'[q].hasRes
    /\ req'[q].pc = "run" /\ req'[q].hasRes => entry'.present /\ q \in entry'.reserved

RequestsGo == \A q \in Requests : req'[q] = req[q] \/ Goes(q)

\* No reservation and no pending charge leaves the entry.
PinsKept ==
    /\ entry.present => entry'.present
    /\ entry.reserved \subseteq entry'.reserved /\ entry.pending \subseteq entry'.pending

StoreSame == spend' = spend /\ logs' = logs /\ forgotten' = forgotten

\* A request whose charge the step does not finish.
Quiet(q) ==
    req'[q].pc = "done" /\ req'[q].month # NoMonth =>
        req[q].pc = "done" /\ req'[q].month = req[q].month /\ req'[q].cost = req[q].cost

\* No finished charge leaves the entry, and the snapshot stays, or goes.
ChargesKept ==
    /\ entry.lostLife \subseteq entry'.lostLife /\ entry.lostMonthly \subseteq entry'.lostMonthly
    /\ entry.doneLife \subseteq entry'.doneLife /\ entry.doneMonthly \subseteq entry'.doneMonthly
    /\ entry'.hasSnap => /\ entry.hasSnap /\ entry'.snapMonth = entry.snapMonth
                         /\ entry'.life = entry.life /\ entry'.monthly = entry.monthly

\* The load has read nothing yet, or nothing new.
LoadSame ==
    \/ load'.phase \in {"off", "key"}
    \/ /\ load'.phase = load.phase /\ load'.gen = load.gen /\ load'.month = load.month
       /\ load'.life = load.life /\ load'.monthly = load.monthly

Pins(q) ==
    /\ req[q].hasRes /\ req[q].pc \in {"run", "stamped"} => entry.present /\ q \in entry.reserved
    /\ req[q].tracked /\ req[q].pc \in {"log", "spend", "finish"} => entry.present /\ q \in entry.pending

\* Admission and time leave reservations and charges where they are.
LEMMA RequestsKeep ==
    ASSUME BaseInv, RequestsGo, PinsKept, StoreSame
    PROVE  /\ ReservationPinsEntry' /\ \A q \in Requests : MayWait(q)' /\ RequestOK(q)'
           /\ \A q \in Requests : Quiet(q)
           /\ ~FailOpen /\ (\A q \in Requests : HoldsReservation(q)) => \A q \in Requests : HoldsReservation(q)'
<1> SUFFICES ASSUME NEW q \in Requests
             PROVE  /\ Pins(q)' /\ MayWait(q)' /\ RequestOK(q)' /\ Quiet(q)
                    /\ ~FailOpen /\ HoldsReservation(q) => HoldsReservation(q)'
  BY DEF ReservationPinsEntry, Pins
<1>1. Pins(q) /\ MayWait(q) /\ RequestOK(q)
  BY DEF BaseInv, ReservationPinsEntry, Pins
<1>2. CASE req'[q] = req[q]
  BY <1>1, <1>2 DEF PinsKept, StoreSame, Pins, MayWait, RequestOK, Quiet, HoldsReservation
<1>3. CASE Goes(q)
  <2>1. req[q].month = NoMonth
    BY <1>1, <1>3 DEF RequestOK, Goes
  <2> QED
    BY <1>3, <2>1 DEF Pins, MayWait, RequestOK, Quiet, HoldsReservation, Goes
<1> QED
  BY <1>2, <1>3 DEF RequestsGo

\* A charge that is finished after a step which did not finish it was so before.
LEMMA FinishedBefore ==
    ASSUME NEW q \in Requests, Quiet(q), forgotten \subseteq forgotten', Finished(q)'
    PROVE  Finished(q)
  BY DEF Finished, Charged, Quiet

\* Fewer or more buckets.
LEMMA KeptGrows ==
    ASSUME NEW A, NEW B, A \subseteq B, NEW g
    PROVE  DoneOf(A) \subseteq DoneOf(B) /\ DoneOf(Kept(A, g)) \subseteq DoneOf(Kept(B, g))
  BY DEF DoneOf, Kept

\* What is covered stays covered.
LEMMA CoveredKept ==
    ASSUME NEW q \in Requests, Covered(q), Quiet(q), ChargesKept, LoadSame,
           spend \subseteq spend', logs \subseteq logs', forgotten \subseteq forgotten'
    PROVE  Covered(q)'
<1> SUFFICES ASSUME Finished(q)' PROVE StoredOrLost(q)' /\ LoadCovers(q)' /\ SnapCovers(q)'
  BY DEF Covered
<1>0. req'[q].month = req[q].month
  BY DEF Finished, Charged, Quiet
<1>1. StoredOrLost(q) /\ LoadCovers(q) /\ SnapCovers(q)
  BY FinishedBefore DEF Covered
<1>2. /\ DoneOf(entry.doneLife) \subseteq DoneOf(entry'.doneLife)
      /\ DoneOf(entry.doneMonthly) \subseteq DoneOf(entry'.doneMonthly)
      /\ DoneOf(Kept(entry.doneLife, load.gen)) \subseteq DoneOf(Kept(entry'.doneLife, load.gen))
      /\ DoneOf(Kept(entry.doneMonthly, load.gen)) \subseteq DoneOf(Kept(entry'.doneMonthly, load.gen))
  BY KeptGrows DEF ChargesKept
<1>3. StoredOrLost(q)'
  BY <1>1 DEF StoredOrLost, ChargesKept
<1>4. LoadCovers(q)'
  <2>1. CASE load'.phase \in {"off", "key"}
    BY <2>1 DEF LoadCovers
  <2>2. CASE /\ load'.phase = load.phase /\ load'.gen = load.gen /\ load'.month = load.month
             /\ load'.life = load.life /\ load'.monthly = load.monthly
    BY <1>0, <1>1, <1>2, <2>2 DEF LoadCovers, ChargesKept
  <2> QED
    BY <2>1, <2>2 DEF LoadSame
<1>5. SnapCovers(q)'
  BY <1>0, <1>1, <1>2 DEF SnapCovers, ChargesKept
<1> QED
  BY <1>3, <1>4, <1>5

\* What every step keeps, besides the types.
Keeps ==
    /\ EntryOK' /\ ReservationPinsEntry'
    /\ \A q \in Requests : MayWait(q)' /\ RequestOK(q)'
    /\ ~FailOpen /\ (\A q \in Requests : HoldsReservation(q) /\ Covered(q)) =>
          \A q \in Requests : HoldsReservation(q)' /\ Covered(q)'

\* Steps that only let requests in, or only let time pass.
LEMMA PlainKeeps ==
    ASSUME BaseInv, RequestsGo, PinsKept, StoreSame, ChargesKept, LoadSame, EntryOK'
    PROVE  Keeps
<1>1. /\ ReservationPinsEntry' /\ \A q \in Requests : MayWait(q)' /\ RequestOK(q)'
      /\ \A q \in Requests : Quiet(q)
      /\ ~FailOpen /\ (\A q \in Requests : HoldsReservation(q)) => \A q \in Requests : HoldsReservation(q)'
  BY RequestsKeep
<1>2. spend \subseteq spend' /\ logs \subseteq logs' /\ forgotten \subseteq forgotten'
  BY DEF StoreSame
<1>3. ASSUME NEW q \in Requests, Covered(q) PROVE Covered(q)'
  BY <1>1, <1>2, <1>3, CoveredKept
<1> QED
  BY <1>1, <1>3 DEF Keeps

\* The entry that an admission finds, or makes, holds what the ledger held.
LEMMA Locked ==
    ASSUME BaseInv, NEW e, e = entryLocked
    PROVE  /\ e \in EntryType /\ e.present = TRUE
           /\ e.loading = entry.loading /\ e.gen = entry.gen
           /\ e.reserved = entry.reserved /\ e.pending = entry.pending
           /\ e.lostLife = entry.lostLife /\ e.lostMonthly = entry.lostMonthly
           /\ e.doneLife = entry.doneLife /\ e.doneMonthly = entry.doneMonthly
           /\ e.hasSnap = entry.hasSnap /\ e.snapMonth = entry.snapMonth
           /\ e.life = entry.life /\ e.monthly = entry.monthly
<1>1. e \in EntryType
  BY LockedType DEF BaseInv
<1>2. CASE entry.present
  BY <1>1, <1>2 DEF entryLocked, BaseInv, TypeOK, EntryType
<1>3. CASE ~entry.present
  <2>1. e = NewEntry /\ entry = NoEntry
    BY <1>3 DEF entryLocked, BaseInv, EntryOK
  <2> QED
    BY <1>1, <2>1 DEF NewEntry, NoEntry
<1> QED
  BY <1>2, <1>3

\* One request moves as r does, the others stay.
LEMMA OneGoes ==
    ASSUME TypeOK, NEW r \in Requests, NEW x, req' = [req EXCEPT ![r] = x], Goes(r) PROVE RequestsGo
  BY DEF RequestsGo, TypeOK

\* Nothing of the entry, the load and the store changes.
LEMMA EntrySame ==
    ASSUME BaseInv, entry' = entry, load' = load
    PROVE  PinsKept /\ ChargesKept /\ LoadSame /\ EntryOK'
  BY DEF BaseInv, PinsKept, ChargesKept, LoadSame, EntryOK

\* The entry of entryLocked stays in the ledger, with one reservation more or not,
\* and a load begins or not.
LEMMA EntryGrows ==
    ASSUME BaseInv, NEW R \in SUBSET Requests, entryLocked.reserved \subseteq R,
           NEW f, f = [entryLocked EXCEPT !.reserved = R],
           \/ entry' = f /\ load' = load
           \/ ~entryLocked.loading /\ startLoadLocked(f)
    PROVE  /\ PinsKept /\ ChargesKept /\ LoadSame /\ EntryOK'
           /\ entry'.present /\ entry'.reserved = R
<1>1. PICK e : e = entryLocked
  OBVIOUS
<1>2. /\ e \in EntryType /\ e.present = TRUE
      /\ e.loading = entry.loading /\ e.gen = entry.gen
      /\ e.reserved = entry.reserved /\ e.pending = entry.pending
      /\ e.lostLife = entry.lostLife /\ e.lostMonthly = entry.lostMonthly
      /\ e.doneLife = entry.doneLife /\ e.doneMonthly = entry.doneMonthly
      /\ e.hasSnap = entry.hasSnap /\ e.snapMonth = entry.snapMonth
      /\ e.life = entry.life /\ e.monthly = entry.monthly
  BY <1>1, Locked
<1>3. /\ f \in EntryType /\ f.present = TRUE
      /\ f.loading = entry.loading /\ f.gen = entry.gen
      /\ f.reserved = R /\ f.pending = entry.pending
      /\ f.lostLife = entry.lostLife /\ f.lostMonthly = entry.lostMonthly
      /\ f.doneLife = entry.doneLife /\ f.doneMonthly = entry.doneMonthly
      /\ f.hasSnap = entry.hasSnap /\ f.snapMonth = entry.snapMonth
      /\ f.life = entry.life /\ f.monthly = entry.monthly
  BY <1>1, <1>2 DEF EntryType
<1>4. entry.reserved \subseteq R /\ entry.gen \in Nat
  BY <1>1, <1>2 DEF EntryType
<1>5. CASE entry' = f /\ load' = load
  BY <1>3, <1>4, <1>5 DEF BaseInv, PinsKept, ChargesKept, LoadSame, EntryOK
<1>6. CASE ~entryLocked.loading /\ startLoadLocked(f)
  <2>1. /\ entry'.present = TRUE /\ entry'.loading = TRUE /\ entry'.gen = entry.gen + 1
        /\ entry'.reserved = R /\ entry'.pending = entry.pending
        /\ entry'.lostLife = entry.lostLife /\ entry'.lostMonthly = entry.lostMonthly
        /\ entry'.doneLife = entry.doneLife /\ entry'.doneMonthly = entry.doneMonthly
        /\ entry'.hasSnap = entry.hasSnap /\ entry'.snapMonth = entry.snapMonth
        /\ entry'.life = entry.life /\ entry'.monthly = entry.monthly
    BY <1>3, <1>6 DEF startLoadLocked, EntryType
  <2>2. load'.phase = "key" /\ load'.gen = entry.gen
    BY <1>3, <1>6 DEF startLoadLocked, NoLoad
  <2> QED
    BY <1>4, <2>1, <2>2 DEF PinsKept, ChargesKept, LoadSame, EntryOK
<1> QED
  BY <1>5, <1>6

-----------------------------------------------------------------------------
(* Admission.                                                              *)

\* The verdict of a request whose budget cannot be read.
LEMMA NoVerdict ==
    ASSUME NEW q \in RequestType, NEW v, v = Verdict(q, FailOpen, FALSE)
    PROVE  /\ v.pc = IF FailOpen THEN "run" ELSE "done"
           /\ v.hasRes = FALSE /\ v.month = q.month /\ v.cost = q.cost
<1>1. FailOpen \in BOOLEAN
  BY BudgetAssumption
<1> QED
  BY <1>1 DEF Verdict, RequestType

\* A request whose budget cannot be read.
LEMMA UnavailableGoes ==
    ASSUME BaseInv, NEW r \in Requests, req[r].pc \in {"admit", "wait"}, Unavailable(r) PROVE RequestsGo
<1>1. req[r] \in RequestType /\ FailOpen \in BOOLEAN /\ FALSE \in BOOLEAN
  BY BudgetAssumption DEF BaseInv, TypeOK
<1>2. PICK v : v = Verdict(req[r], FailOpen, FALSE)
  OBVIOUS
<1>3. /\ v.pc = IF FailOpen THEN "run" ELSE "done"
      /\ v.hasRes = FALSE /\ v.month = req[r].month /\ v.cost = req[r].cost
  BY <1>1, <1>2, NoVerdict
<1>4. req' = [req EXCEPT ![r] = v] /\ req'[r] = v
  BY <1>2 DEF Unavailable, BaseInv, TypeOK
<1>5. Goes(r)
  BY <1>3, <1>4 DEF Goes
<1> QED
  BY <1>4, <1>5, OneGoes DEF BaseInv

\* Every step of admission keeps the invariant.
LEMMA AdmissionKeeps ==
    ASSUME BaseInv, NEW r \in Requests, Start(r) \/ Admit(r) \/ WaitCanceled(r) PROVE Keeps
<1> USE DEF BaseInv
<1>0. req[r] \in RequestType /\ TypeOK
  BY DEF TypeOK
<1>1. CASE Start(r)
  <2>1. PICK est \in Estimates : req' = [req EXCEPT ![r].pc = "admit", ![r].est = est]
    BY <1>1 DEF Start
  <2>2. PICK x : x = [req[r] EXCEPT !.pc = "admit", !.est = est]
    OBVIOUS
  <2>3. req' = [req EXCEPT ![r] = x] /\ req'[r] = x
    BY <2>1, <2>2 DEF TypeOK
  <2>4. x.pc = "admit" /\ x.month = req[r].month /\ x.cost = req[r].cost
    BY <1>0, <2>2 DEF RequestType
  <2>5. Goes(r)
    BY <1>1, <2>3, <2>4 DEF Goes, Start
  <2> QED
    BY <1>0, <1>1, <2>3, <2>5, OneGoes, EntrySame, PlainKeeps DEF Start, StoreSame
<1>2. CASE AdmitFull(r)
  BY <1>2, UnavailableGoes, EntrySame, PlainKeeps DEF AdmitFull, StoreSame
<1>3. CASE WaitCanceled(r)
  BY <1>3, UnavailableGoes, EntrySame, PlainKeeps DEF WaitCanceled, StoreSame
<1>4. PICK e : e = entryLocked
  OBVIOUS
<1>5. e \in EntryType /\ e.reserved \in SUBSET Requests /\ e = [e EXCEPT !.reserved = e.reserved]
  BY <1>4, LockedType DEF EntryType
<1>6. CASE AdmitUnavailable(r)
  <2>1. entry' = e /\ load' = load
    BY <1>4, <1>6 DEF AdmitUnavailable
  <2>2. PinsKept /\ ChargesKept /\ LoadSame /\ EntryOK'
    BY <1>4, <1>5, <2>1, EntryGrows
  <2> QED
    BY <1>6, <2>2, UnavailableGoes, PlainKeeps DEF AdmitUnavailable, StoreSame
<1>7. CASE AdmitWait(r)
  <2>1. PICK x : x = [req[r] EXCEPT !.pc = "wait"]
    OBVIOUS
  <2>2. req' = [req EXCEPT ![r] = x] /\ req'[r] = x
    BY <1>7, <2>1 DEF AdmitWait, TypeOK
  <2>3. x.pc = "wait" /\ x.month = req[r].month /\ x.cost = req[r].cost /\ x.waits = req[r].waits
    BY <1>0, <2>1 DEF RequestType
  <2>4. Goes(r)
    BY <1>7, <2>2, <2>3 DEF Goes, AdmitWait
  <2> QED
    BY <1>0, <1>7, <2>2, <2>4, OneGoes, EntrySame, PlainKeeps DEF AdmitWait, StoreSame
<1>8. CASE AdmitLoad(r)
  <2>1. PICK x : x = [req[r] EXCEPT !.pc = "load"]
    OBVIOUS
  <2>2. req' = [req EXCEPT ![r] = x] /\ req'[r] = x
    BY <1>8, <2>1 DEF AdmitLoad, TypeOK
  <2>3. x.pc = "load" /\ x.month = req[r].month /\ x.cost = req[r].cost
    BY <1>0, <2>1 DEF RequestType
  <2>4. Goes(r)
    BY <1>8, <2>2, <2>3 DEF Goes, AdmitLoad
  <2>5. ~e.loading /\ startLoadLocked(e)
    BY <1>4, <1>8 DEF AdmitLoad
  <2>6. PinsKept /\ ChargesKept /\ LoadSame /\ EntryOK'
    BY <1>4, <1>5, <2>5, EntryGrows
  <2> QED
    BY <1>0, <1>8, <2>2, <2>4, <2>6, OneGoes, PlainKeeps DEF AdmitLoad, StoreSame
<1>9. CASE AdmitDecide(r)
  <2>1. PICK denied \in BOOLEAN : denied = budgetDenial(e, req[r].est)
    BY DEF budgetDenial
  <2>2. PICK R \in SUBSET Requests : R = IF denied THEN e.reserved ELSE e.reserved \cup {r}
    BY <1>5
  <2>3. PICK f : f = [e EXCEPT !.reserved = R]
    OBVIOUS
  <2>4. f = IF denied THEN e ELSE [e EXCEPT !.reserved = e.reserved \cup {r}]
    BY <1>5, <2>2, <2>3
  <2>5. \/ entry' = f /\ load' = load
        \/ ~e.loading /\ startLoadLocked(f)
    BY <1>4, <1>9, <2>1, <2>4 DEF AdmitDecide
  <2>6. e.reserved \subseteq R
    BY <2>2
  <2>7. PinsKept /\ ChargesKept /\ LoadSame /\ EntryOK' /\ entry'.present /\ entry'.reserved = R
    BY <1>4, <2>3, <2>5, <2>6, EntryGrows
  <2>8. PICK v : v = Verdict(req[r], ~denied, ~denied)
    OBVIOUS
  <2>9. v.pc = (IF ~denied THEN "run" ELSE "done") /\ v.hasRes = ~denied /\ v.month = req[r].month /\ v.cost = req[r].cost
    BY <1>0, <2>8 DEF Verdict, RequestType
  <2>10. req' = [req EXCEPT ![r] = v] /\ req'[r] = v
    BY <1>4, <1>9, <2>1, <2>8 DEF AdmitDecide, TypeOK
  <2>11. Goes(r)
    BY <1>9, <2>2, <2>7, <2>9, <2>10 DEF Goes, AdmitDecide
  <2> QED
    BY <1>0, <1>9, <2>7, <2>10, <2>11, OneGoes, PlainKeeps DEF AdmitDecide, StoreSame
<1> QED
  BY <1>1, <1>2, <1>3, <1>6, <1>7, <1>8, <1>9 DEF Admit

-----------------------------------------------------------------------------
(* Time, and the loads that fail.                                          *)

\* Time alone.
LEMMA TimeKeeps ==
    ASSUME BaseInv, SnapshotAges \/ BackoffOver \/ NextMonth \/ UNCHANGED vars PROVE Keeps
<1>1. req' = req /\ StoreSame
  BY DEF SnapshotAges, BackoffOver, NextMonth, vars, StoreSame
<1>2. RequestsGo
  BY <1>1 DEF RequestsGo
<1>3. PinsKept /\ ChargesKept /\ LoadSame /\ EntryOK'
  <2>1. CASE SnapshotAges
    <3>1. entry \in EntryType /\ load \in LoadType
      BY DEF BaseInv, TypeOK
    <3>2. PICK a : entry' = [entry EXCEPT !.age = a]
      BY <2>1 DEF SnapshotAges
    <3>3. load' = load \/ \E b : load' = [load EXCEPT !.age = b]
      BY <2>1 DEF SnapshotAges
    <3>4. /\ load'.phase = load.phase /\ load'.gen = load.gen /\ load'.month = load.month
          /\ load'.life = load.life /\ load'.monthly = load.monthly
      BY <3>1, <3>3 DEF LoadType
    <3>5. entry.present
      BY <2>1 DEF SnapshotAges, BaseInv, EntryOK, NoEntry, NewEntry
    <3>6. PinsKept /\ ChargesKept
      BY <3>1, <3>2 DEF PinsKept, ChargesKept, EntryType
    <3>7. EntryOK'
      BY <3>1, <3>2, <3>4, <3>5 DEF EntryOK, EntryType, BaseInv
    <3> QED
      BY <3>4, <3>6, <3>7 DEF LoadSame
  <2>2. CASE BackoffOver
    <3>1. entry \in EntryType /\ entry' = [entry EXCEPT !.loadErr = FALSE] /\ load' = load /\ entry.loadErr
      BY <2>2 DEF BaseInv, TypeOK, BackoffOver
    <3>2. entry.present
      BY <3>1 DEF BaseInv, EntryOK, NoEntry, NewEntry
    <3>3. PinsKept /\ ChargesKept /\ LoadSame
      BY <3>1 DEF PinsKept, ChargesKept, EntryType, LoadSame
    <3>4. EntryOK'
      BY <3>1, <3>2 DEF EntryOK, EntryType, BaseInv
    <3> QED
      BY <3>3, <3>4
  <2>3. CASE NextMonth \/ UNCHANGED vars
    BY <2>3, EntrySame DEF NextMonth, vars
  <2> QED
    BY <2>1, <2>2, <2>3
<1> QED
  BY <1>1, <1>2, <1>3, PlainKeeps

\* Who waited for a load goes on.
LEMMA WakeGoes ==
    ASSUME BaseInv, NEW ok \in BOOLEAN, WakeAll(ok) PROVE RequestsGo
<1> SUFFICES ASSUME NEW q \in Requests PROVE req'[q] = req[q] \/ Goes(q)
  BY DEF RequestsGo
<1>1. PICK x \in RequestType : x = req[q]
  BY DEF BaseInv, TypeOK
<1>2. PICK y : y = Woken(x, ok)
  OBVIOUS
<1>3. req'[q] = y
  BY <1>1, <1>2 DEF WakeAll
<1>4. CASE x.pc = "wait"
  <2>1. PICK n : n = x.waits + 1
    OBVIOUS
  <2>2. y = [x EXCEPT !.pc = "admit", !.waits = n]
    BY <1>2, <1>4, <2>1 DEF Woken
  <2>3. y.pc = "admit" /\ y.month = x.month /\ y.cost = x.cost
    BY <2>2 DEF RequestType
  <2> QED
    BY <1>1, <1>3, <1>4, <2>3 DEF Goes
<1>5. CASE x.pc = "load" /\ ok
  <2>1. y = [x EXCEPT !.pc = "admit", !.ranLoad = TRUE]
    BY <1>2, <1>5 DEF Woken
  <2>2. y.pc = "admit" /\ y.month = x.month /\ y.cost = x.cost
    BY <2>1 DEF RequestType
  <2> QED
    BY <1>1, <1>3, <1>5, <2>2 DEF Goes
<1>6. CASE x.pc = "load" /\ ~ok
  <2>1. y = Verdict(x, FailOpen, FALSE)
    BY <1>2, <1>6 DEF Woken
  <2>2. y.pc = (IF FailOpen THEN "run" ELSE "done") /\ y.hasRes = FALSE /\ y.month = x.month /\ y.cost = x.cost
    BY <2>1, NoVerdict
  <2> QED
    BY <1>1, <1>3, <1>6, <2>2 DEF Goes
<1>7. CASE x.pc \notin {"wait", "load"}
  BY <1>1, <1>2, <1>3, <1>7 DEF Woken
<1> QED
  BY <1>4, <1>5, <1>6, <1>7

\* A load that fails.
LEMMA LoadFailsKeeps == ASSUME BaseInv, LoadFails PROVE Keeps
<1>1. RequestsGo
  BY WakeGoes DEF LoadFails
<1>2. /\ entry \in EntryType /\ entry' = [entry EXCEPT !.loading = FALSE, !.loadErr = TRUE]
      /\ load'.phase = "off" /\ load.phase # "off"
  BY DEF BaseInv, TypeOK, LoadFails, NoLoad
<1>3. entry.present
  BY <1>2 DEF BaseInv, EntryOK, NoEntry, NewEntry
<1>4. PinsKept /\ ChargesKept /\ LoadSame
  BY <1>2 DEF PinsKept, ChargesKept, EntryType, LoadSame
<1>5. EntryOK'
  BY <1>2, <1>3 DEF EntryOK, EntryType, BaseInv
<1> QED
  BY <1>1, <1>4, <1>5, PlainKeeps DEF LoadFails, StoreSame

-----------------------------------------------------------------------------
(* The end of a request.                                                   *)

\* A step of request r that ends a reservation, or a pending charge, of its own
\* at most, and keeps what the invariant says of r.
LEMMA OwnStepKeeps ==
    ASSUME BaseInv, NEW r \in Requests, \A q \in Requests \ {r} : req'[q] = req[q],
           entry.present => entry'.present,
           entry.reserved \ {r} \subseteq entry'.reserved, entry.pending \ {r} \subseteq entry'.pending,
           spend \subseteq spend', logs \subseteq logs', forgotten' = forgotten,
           ChargesKept, load' = load, EntryOK',
           Pins(r)', MayWait(r)', RequestOK(r)',
           ~FailOpen /\ HoldsReservation(r) /\ Covered(r) => HoldsReservation(r)' /\ Covered(r)'
    PROVE  Keeps
<1>1. ASSUME NEW q \in Requests \ {r}
      PROVE  /\ Pins(q)' /\ MayWait(q)' /\ RequestOK(q)'
             /\ HoldsReservation(q) /\ Covered(q) => HoldsReservation(q)' /\ Covered(q)'
  <2>1. req'[q] = req[q] /\ Pins(q) /\ MayWait(q) /\ RequestOK(q)
    BY DEF BaseInv, ReservationPinsEntry, Pins
  <2>2. Pins(q)'
    BY <2>1 DEF Pins
  <2>3. MayWait(q)' /\ RequestOK(q)' /\ (HoldsReservation(q) => HoldsReservation(q)')
    BY <2>1 DEF MayWait, RequestOK, HoldsReservation
  <2>4. Quiet(q) /\ LoadSame /\ forgotten \subseteq forgotten'
    BY <2>1 DEF Quiet, LoadSame
  <2>5. Covered(q) => Covered(q)'
    BY <2>4, CoveredKept
  <2> QED
    BY <2>2, <2>3, <2>5
<1>2. \A q \in Requests : Pins(q)' /\ MayWait(q)' /\ RequestOK(q)'
  BY <1>1
<1>3. ReservationPinsEntry'
  BY <1>2 DEF ReservationPinsEntry, Pins
<1>4. ~FailOpen /\ (\A q \in Requests : HoldsReservation(q) /\ Covered(q)) =>
         \A q \in Requests : HoldsReservation(q)' /\ Covered(q)'
  BY <1>1
<1> QED
  BY <1>2, <1>3, <1>4 DEF Keeps

\* The deferred release.
LEMMA ReleaseKeeps == ASSUME BaseInv, NEW r \in Requests, Release(r) PROVE Keeps
<1>1. entry \in EntryType /\ req[r] \in RequestType /\ RequestOK(r)
  BY DEF BaseInv, TypeOK
<1>2. entry' = [entry EXCEPT !.reserved = entry.reserved \ {r}]
  BY DEF Release
<1>3. req'[r] = [req[r] EXCEPT !.pc = "done", !.hasRes = FALSE]
  BY DEF Release, BaseInv, TypeOK
<1>4. /\ req'[r].pc = "done" /\ req'[r].month = req[r].month /\ req[r].pc = "run"
      /\ \A q \in Requests \ {r} : req'[q] = req[q]
  BY <1>1, <1>3 DEF Release, RequestType, BaseInv, TypeOK
<1>5. load' = load /\ spend' = spend /\ logs' = logs /\ forgotten' = forgotten
  BY DEF Release
<1>6. /\ entry'.present = entry.present /\ entry'.reserved = entry.reserved \ {r} /\ entry'.pending = entry.pending
      /\ entry'.loading = entry.loading /\ entry'.gen = entry.gen /\ ChargesKept
  BY <1>1, <1>2 DEF EntryType, ChargesKept
<1>7. EntryOK'
  <2>1. CASE entry.present
    BY <1>5, <1>6, <2>1 DEF EntryOK, BaseInv
  <2>2. CASE ~entry.present
    <3>1. entry = NoEntry /\ entry.reserved = {}
      BY <2>2 DEF BaseInv, EntryOK, NoEntry, NewEntry
    <3>2. entry' = entry
      BY <1>1, <1>2, <3>1 DEF EntryType
    <3> QED
      BY <1>5, <3>2 DEF EntryOK, BaseInv
  <2> QED
    BY <2>1, <2>2
<1>8. req[r].month = NoMonth
  BY <1>1, <1>4 DEF RequestOK
<1>9. Pins(r)' /\ MayWait(r)' /\ RequestOK(r)' /\ HoldsReservation(r)'
  BY <1>4, <1>8 DEF Pins, MayWait, RequestOK, HoldsReservation
<1>10. Covered(r)'
  BY <1>4, <1>8 DEF Covered, Finished, Charged
<1> QED
  BY <1>4, <1>5, <1>6, <1>7, <1>9, <1>10, OwnStepKeeps

\* logRequest begins.
LEMMA StampKeeps == ASSUME BaseInv, NEW r \in Requests, Stamp(r) PROVE Keeps
<1>1. req[r] \in RequestType /\ RequestOK(r) /\ Pins(r)
  BY DEF BaseInv, TypeOK, ReservationPinsEntry, Pins
<1>2. PICK cost : req' = [req EXCEPT ![r].pc = "stamped", ![r].cost = cost, ![r].month = month]
  BY DEF Stamp
<1>3. PICK x : x = [req[r] EXCEPT !.pc = "stamped", !.cost = cost, !.month = month]
  OBVIOUS
<1>4. req'[r] = x /\ (\A q \in Requests \ {r} : req'[q] = req[q]) /\ req[r].pc = "run"
  BY <1>2, <1>3 DEF Stamp, BaseInv, TypeOK
<1>5. x.pc = "stamped" /\ x.hasRes = req[r].hasRes
  BY <1>1, <1>3 DEF RequestType
<1>6. entry' = entry /\ load' = load /\ spend' = spend /\ logs' = logs /\ forgotten' = forgotten
  BY DEF Stamp
<1>7. ChargesKept /\ EntryOK'
  BY <1>6, EntrySame
<1>8. Pins(r)' /\ MayWait(r)' /\ RequestOK(r)' /\ (HoldsReservation(r) => HoldsReservation(r)')
  BY <1>1, <1>4, <1>5, <1>6 DEF Pins, MayWait, RequestOK, HoldsReservation
<1>9. Covered(r)'
  BY <1>4, <1>5 DEF Covered, Finished
<1> QED
  BY <1>4, <1>6, <1>7, <1>8, <1>9, OwnStepKeeps

\* The reservation becomes a pending charge.
LEMMA BeginChargeKeeps == ASSUME BaseInv, NEW r \in Requests, beginCharge(r) PROVE Keeps
<1>1. entry \in EntryType /\ req[r] \in RequestType /\ RequestOK(r) /\ Pins(r) /\ EntryOK
  BY DEF BaseInv, TypeOK, ReservationPinsEntry, Pins
<1>2. PICK x : x = [req[r] EXCEPT !.pc = "log", !.hasRes = FALSE, !.tracked = entry.present]
  OBVIOUS
<1>3. req'[r] = x /\ (\A q \in Requests \ {r} : req'[q] = req[q]) /\ req[r].pc = "stamped"
  BY <1>2 DEF beginCharge, BaseInv, TypeOK
<1>4. x.pc = "log" /\ x.hasRes = FALSE /\ x.tracked = entry.present
  BY <1>1, <1>2 DEF RequestType
<1>5. load' = load /\ spend' = spend /\ logs' = logs /\ forgotten' = forgotten
  BY DEF beginCharge
<1>6. /\ entry'.present = entry.present /\ entry.reserved \ {r} \subseteq entry'.reserved
      /\ entry.pending \subseteq entry'.pending
      /\ entry.present => r \in entry'.pending
      /\ entry'.loading = entry.loading /\ entry'.gen = entry.gen
      /\ ~entry.present => entry' = entry
      /\ ChargesKept
  <2>1. CASE entry.present
    <3>1. entry' = [entry EXCEPT !.reserved = entry.reserved \ {r}, !.pending = entry.pending \cup {r}]
      BY <2>1 DEF beginCharge
    <3> QED
      BY <1>1, <2>1, <3>1 DEF EntryType, ChargesKept
  <2>2. CASE ~entry.present
    <3>1. entry' = entry
      BY <2>2 DEF beginCharge
    <3> QED
      BY <2>2, <3>1 DEF ChargesKept
  <2> QED
    BY <2>1, <2>2
<1>7. EntryOK'
  BY <1>1, <1>5, <1>6 DEF EntryOK
<1>8. Pins(r)' /\ MayWait(r)' /\ RequestOK(r)'
  BY <1>3, <1>4, <1>6 DEF Pins, MayWait, RequestOK
<1>9. Covered(r)' /\ (HoldsReservation(r) => HoldsReservation(r)')
  BY <1>1, <1>3, <1>4 DEF Covered, Finished, HoldsReservation, Pins
<1> QED
  BY <1>3, <1>5, <1>6, <1>7, <1>8, <1>9, OwnStepKeeps

\* The two writes to the store.
LEMMA WritesKeep == ASSUME BaseInv, NEW r \in Requests, InsertLog(r) \/ IncrementAPIKeySpend(r) PROVE Keeps
<1>1. req[r] \in RequestType /\ RequestOK(r) /\ Pins(r)
  BY DEF BaseInv, TypeOK, ReservationPinsEntry, Pins
<1>2. entry' = entry /\ load' = load /\ forgotten' = forgotten
  BY DEF InsertLog, IncrementAPIKeySpend
<1>3. ChargesKept /\ EntryOK'
  BY <1>2, EntrySame
<1>4. CASE InsertLog(r)
  <2>1. PICK applied \in BOOLEAN, stored \in BOOLEAN :
           /\ stored => applied
           /\ logs' = IF applied THEN logs \cup {r} ELSE logs
           /\ req' = [req EXCEPT ![r].pc = "spend", ![r].logStored = stored]
    BY <1>4 DEF InsertLog
  <2>2. PICK x : x = [req[r] EXCEPT !.pc = "spend", !.logStored = stored]
    OBVIOUS
  <2>3. req'[r] = x /\ (\A q \in Requests \ {r} : req'[q] = req[q]) /\ req[r].pc = "log"
    BY <1>4, <2>1, <2>2 DEF InsertLog, BaseInv, TypeOK
  <2>4. x.pc = "spend" /\ x.logStored = stored /\ x.tracked = req[r].tracked
    BY <1>1, <2>2 DEF RequestType
  <2>5. logs \subseteq logs' /\ spend' = spend /\ (stored => r \in logs')
    BY <1>4, <2>1 DEF InsertLog
  <2>6. Pins(r)' /\ MayWait(r)' /\ RequestOK(r)' /\ Covered(r)' /\ (HoldsReservation(r) => HoldsReservation(r)')
    BY <1>1, <1>2, <2>3, <2>4, <2>5 DEF Pins, MayWait, RequestOK, Covered, Finished, HoldsReservation
  <2> QED
    BY <1>2, <1>3, <2>3, <2>5, <2>6, OwnStepKeeps
<1>5. CASE IncrementAPIKeySpend(r)
  <2>1. PICK stored \in BOOLEAN :
           /\ req' = [req EXCEPT ![r].pc = "finish", ![r].spendStored = stored]
           /\ spend \subseteq spend'
           /\ stored /\ req[r].cost > 0 => r \in spend'
    <3>1. CASE req[r].cost > 0
      <4>1. PICK applied \in BOOLEAN, stored \in BOOLEAN :
               /\ stored => applied
               /\ spend' = IF applied THEN spend \cup {r} ELSE spend
               /\ req' = [req EXCEPT ![r].pc = "finish", ![r].spendStored = stored]
        BY <1>5, <3>1 DEF IncrementAPIKeySpend
      <4> QED
        BY <4>1
    <3>2. CASE ~(req[r].cost > 0)
      BY <1>5, <3>2 DEF IncrementAPIKeySpend
    <3> QED
      BY <3>1, <3>2
  <2>2. PICK x : x = [req[r] EXCEPT !.pc = "finish", !.spendStored = stored]
    OBVIOUS
  <2>3. req'[r] = x /\ (\A q \in Requests \ {r} : req'[q] = req[q]) /\ req[r].pc = "spend"
    BY <1>5, <2>1, <2>2 DEF IncrementAPIKeySpend, BaseInv, TypeOK
  <2>4. /\ x.pc = "finish" /\ x.spendStored = stored /\ x.logStored = req[r].logStored
        /\ x.tracked = req[r].tracked /\ x.cost = req[r].cost
    BY <1>1, <2>2 DEF RequestType
  <2>5. logs' = logs
    BY <1>5 DEF IncrementAPIKeySpend
  <2>6. Pins(r)' /\ MayWait(r)' /\ RequestOK(r)' /\ Covered(r)' /\ (HoldsReservation(r) => HoldsReservation(r)')
    BY <1>1, <1>2, <2>1, <2>3, <2>4, <2>5 DEF Pins, MayWait, RequestOK, Covered, Finished, HoldsReservation
  <2> QED
    BY <1>2, <1>3, <2>1, <2>3, <2>5, <2>6, OwnStepKeeps
<1> QED
  BY <1>4, <1>5

\* The charge leaves the pending ones, for a bucket of the current generation or
\* for the lost charges.
LEMMA FinishKeeps == ASSUME BaseInv, NEW r \in Requests, finish(r) PROVE Keeps
<1>1. entry \in EntryType /\ req[r] \in RequestType /\ RequestOK(r) /\ Pins(r) /\ EntryOK
  BY DEF BaseInv, TypeOK, ReservationPinsEntry, Pins
<1>2. PICK x : x = [req[r] EXCEPT !.pc = "done", !.tracked = FALSE, !.logStored = FALSE, !.spendStored = FALSE]
  OBVIOUS
<1>3. req'[r] = x /\ (\A q \in Requests \ {r} : req'[q] = req[q]) /\ req[r].pc = "finish"
  BY <1>2 DEF finish, BaseInv, TypeOK
<1>4. x.pc = "done" /\ x.cost = req[r].cost /\ x.month = req[r].month
  BY <1>1, <1>2 DEF RequestType
<1>5. load' = load /\ spend' = spend /\ logs' = logs /\ forgotten' = forgotten
  BY DEF finish
<1>6. ASSUME req[r].tracked
      PROVE  /\ entry'.present = entry.present /\ entry'.reserved = entry.reserved
             /\ entry'.pending = entry.pending \ {r}
             /\ entry'.loading = entry.loading /\ entry'.gen = entry.gen
             /\ ChargesKept
             /\ IF req[r].spendStored THEN <<r, entry.gen>> \in entry'.doneLife ELSE r \in entry'.lostLife
             /\ IF req[r].logStored THEN <<r, entry.gen>> \in entry'.doneMonthly ELSE r \in entry'.lostMonthly
  <2>1. PICK a : a = IF req[r].spendStored THEN entry.doneLife \cup {<<r, entry.gen>>} ELSE entry.doneLife
    OBVIOUS
  <2>2. PICK b : b = IF req[r].spendStored THEN entry.lostLife ELSE entry.lostLife \cup {r}
    OBVIOUS
  <2>3. PICK c : c = IF req[r].logStored THEN entry.doneMonthly \cup {<<r, entry.gen>>} ELSE entry.doneMonthly
    OBVIOUS
  <2>4. PICK d : d = IF req[r].logStored THEN entry.lostMonthly ELSE entry.lostMonthly \cup {r}
    OBVIOUS
  <2>5. PICK p : p = entry.pending \ {r}
    OBVIOUS
  <2>6. entry' = [entry EXCEPT !.pending = p, !.doneLife = a, !.lostLife = b, !.doneMonthly = c, !.lostMonthly = d]
    BY <1>6, <2>1, <2>2, <2>3, <2>4, <2>5 DEF finish
  <2>7. /\ entry'.present = entry.present /\ entry'.reserved = entry.reserved /\ entry'.pending = p
        /\ entry'.loading = entry.loading /\ entry'.gen = entry.gen
        /\ entry'.doneLife = a /\ entry'.lostLife = b /\ entry'.doneMonthly = c /\ entry'.lostMonthly = d
        /\ entry'.hasSnap = entry.hasSnap /\ entry'.snapMonth = entry.snapMonth
        /\ entry'.life = entry.life /\ entry'.monthly = entry.monthly
    BY <1>1, <2>6 DEF EntryType
  <2> QED
    BY <2>1, <2>2, <2>3, <2>4, <2>5, <2>7 DEF ChargesKept
<1>7. ASSUME ~req[r].tracked PROVE entry' = entry
  BY <1>7 DEF finish
<1>8. /\ entry'.present = entry.present /\ entry'.reserved = entry.reserved
      /\ entry.pending \ {r} \subseteq entry'.pending
      /\ entry'.loading = entry.loading /\ entry'.gen = entry.gen /\ ChargesKept
  BY <1>6, <1>7 DEF ChargesKept
<1>9. EntryOK'
  <2>1. CASE req[r].tracked
    BY <1>1, <1>3, <1>5, <1>8, <2>1 DEF EntryOK, Pins
  <2>2. CASE ~req[r].tracked
    BY <1>1, <1>5, <1>7, <2>2 DEF EntryOK
  <2> QED
    BY <2>1, <2>2
<1>10. Pins(r)' /\ MayWait(r)' /\ RequestOK(r)' /\ HoldsReservation(r)'
  BY <1>3, <1>4 DEF Pins, MayWait, RequestOK, HoldsReservation
<1>11. ASSUME HoldsReservation(r), Finished(r)' PROVE StoredOrLost(r)' /\ LoadCovers(r)' /\ SnapCovers(r)'
  <2>1. req[r].tracked
    BY <1>3, <1>11 DEF HoldsReservation
  <2>2. req[r].cost > 0
    BY <1>3, <1>4, <1>11 DEF Finished, Charged
  <2>3. /\ IF req[r].spendStored THEN <<r, entry.gen>> \in entry'.doneLife ELSE r \in entry'.lostLife
        /\ IF req[r].logStored THEN <<r, entry.gen>> \in entry'.doneMonthly ELSE r \in entry'.lostMonthly
    BY <1>6, <2>1
  <2>4. StoredOrLost(r)'
    BY <1>1, <1>3, <1>5, <2>2, <2>3 DEF StoredOrLost, RequestOK
  <2>5. /\ r \in entry'.lostLife \cup DoneOf(entry'.doneLife)
        /\ r \in entry'.lostMonthly \cup DoneOf(entry'.doneMonthly)
    BY <2>3 DEF DoneOf
  <2>6. load.phase # "off" =>
           /\ r \in entry'.lostLife \cup DoneOf(Kept(entry'.doneLife, load.gen))
           /\ r \in entry'.lostMonthly \cup DoneOf(Kept(entry'.doneMonthly, load.gen))
    <3> SUFFICES ASSUME load.phase # "off"
                 PROVE  /\ r \in entry'.lostLife \cup DoneOf(Kept(entry'.doneLife, load.gen))
                        /\ r \in entry'.lostMonthly \cup DoneOf(Kept(entry'.doneMonthly, load.gen))
      OBVIOUS
    <3>1. entry.gen > load.gen
      BY <1>1 DEF EntryOK, EntryType, BaseInv, TypeOK, LoadType
    <3> QED
      BY <2>3, <3>1 DEF DoneOf, Kept
  <2> QED
    BY <1>5, <2>4, <2>5, <2>6 DEF LoadCovers, SnapCovers
<1>12. ~FailOpen /\ HoldsReservation(r) /\ Covered(r) => HoldsReservation(r)' /\ Covered(r)'
  BY <1>10, <1>11 DEF Covered
<1> QED
  BY <1>3, <1>5, <1>8, <1>9, <1>10, <1>12, OwnStepKeeps

-----------------------------------------------------------------------------
(* Loads.                                                                  *)

\* What was read covers what is finished, since a finished charge is in the store
\* or among the lost ones.
LEMMA LoadReads == ASSUME BaseInv, LoadKey \/ LoadUsage PROVE Keeps
<1>1. req' = req /\ entry' = entry /\ spend' = spend /\ logs' = logs /\ forgotten' = forgotten
  BY DEF LoadKey, LoadUsage
<1>2. RequestsGo /\ PinsKept /\ StoreSame
  BY <1>1 DEF RequestsGo, PinsKept, StoreSame
<1>3. /\ ReservationPinsEntry' /\ \A q \in Requests : MayWait(q)' /\ RequestOK(q)'
      /\ ~FailOpen /\ (\A q \in Requests : HoldsReservation(q)) => \A q \in Requests : HoldsReservation(q)'
  BY <1>2, RequestsKeep
<1>4. load \in LoadType /\ EntryOK
  BY DEF BaseInv, TypeOK
<1>5. /\ load'.phase \in {"usage", "install"} /\ load.phase # "off" /\ load'.gen = load.gen /\ load'.month = load.month
      /\ LoadKey => load'.life = spend /\ load.phase = "key" /\ (MonthlyLimit > 0 => load'.phase = "usage")
      /\ LoadUsage => /\ load'.life = load.life /\ load.phase = "usage"
                      /\ load'.monthly = {q \in logs : req[q].month >= load.month}
  <2>1. CASE LoadKey
    <3>1. PICK p \in {"usage", "install"} : p = IF MonthlyLimit > 0 THEN "usage" ELSE "install"
      OBVIOUS
    <3>2. load' = [load EXCEPT !.phase = p, !.life = spend] /\ load.phase = "key"
      BY <2>1, <3>1 DEF LoadKey
    <3> QED
      BY <1>4, <2>1, <3>1, <3>2 DEF LoadType, LoadUsage
  <2>2. CASE LoadUsage
    <3>1. PICK M : M = {q \in logs : req[q].month >= load.month}
      OBVIOUS
    <3>2. load' = [load EXCEPT !.phase = "install", !.monthly = M] /\ load.phase = "usage"
      BY <2>2, <3>1 DEF LoadUsage
    <3>3. load'.phase = "install" /\ load'.gen = load.gen /\ load'.month = load.month /\ load'.life = load.life /\ load'.monthly = M
      BY <1>4, <3>2 DEF LoadType
    <3>4. ~LoadKey
      BY <3>2 DEF LoadKey
    <3> QED
      BY <3>1, <3>2, <3>3, <3>4
  <2> QED
    BY <2>1, <2>2
<1>6. EntryOK'
  BY <1>1, <1>4, <1>5 DEF EntryOK
<1>7. ASSUME NEW q \in Requests, Covered(q), Finished(q)' PROVE StoredOrLost(q)' /\ LoadCovers(q)' /\ SnapCovers(q)'
  <2>1. StoredOrLost(q) /\ LoadCovers(q) /\ SnapCovers(q)
    BY <1>1, <1>7 DEF Covered, Finished, Charged
  <2>2. StoredOrLost(q)' /\ SnapCovers(q)'
    BY <1>1, <2>1 DEF StoredOrLost, SnapCovers
  <2>3. CASE LoadKey
    BY <1>1, <1>5, <2>1, <2>2, <2>3 DEF LoadCovers, StoredOrLost
  <2>4. CASE LoadUsage
    <3>1. q \in logs /\ req[q].month = load.month => q \in load'.monthly
      <4>1. req[q].month \in Int
        BY BudgetAssumption DEF BaseInv, TypeOK, RequestType, Months, NoMonth
      <4> QED
        BY <1>5, <2>4, <4>1
    <3> QED
      BY <1>1, <1>5, <2>1, <2>2, <2>4, <3>1 DEF LoadCovers, StoredOrLost
  <2> QED
    BY <2>2, <2>3, <2>4
<1> QED
  BY <1>3, <1>6, <1>7 DEF Keeps, Covered

\* The snapshot is installed, with the charges that finished since it began.
LEMMA InstallKeeps == ASSUME BaseInv, LoadInstall PROVE Keeps
<1>1. entry \in EntryType /\ EntryOK /\ load.phase = "install" /\ load' = NoLoad
  BY DEF BaseInv, TypeOK, LoadInstall
<1>2. entry.present
  BY <1>1 DEF EntryOK, NoEntry, NewEntry
<1>3. PICK A : A = Kept(entry.doneLife, load.gen)
  OBVIOUS
<1>4. PICK B : B = Kept(entry.doneMonthly, load.gen)
  OBVIOUS
<1>5. PICK m : m = IF MonthlyLimit > 0 THEN load.month ELSE NoMonth
  OBVIOUS
<1>6. entry' = [entry EXCEPT !.loading = FALSE, !.hasSnap = TRUE, !.life = load.life, !.monthly = load.monthly,
                             !.snapMonth = m, !.age = load.age, !.loadErr = FALSE, !.doneLife = A, !.doneMonthly = B]
  BY <1>3, <1>4, <1>5 DEF LoadInstall
<1>7. /\ entry'.present = entry.present /\ entry'.reserved = entry.reserved /\ entry'.pending = entry.pending
      /\ entry'.loading = FALSE /\ entry'.snapMonth = m /\ entry'.life = load.life /\ entry'.monthly = load.monthly
      /\ entry'.doneLife = A /\ entry'.doneMonthly = B
      /\ entry'.lostLife = entry.lostLife /\ entry'.lostMonthly = entry.lostMonthly
  BY <1>1, <1>6 DEF EntryType
<1>8. StoreSame
  BY DEF StoreSame, LoadInstall
<1>9. RequestsGo
  BY WakeGoes DEF LoadInstall
<1>10. PinsKept
  BY <1>2, <1>7 DEF PinsKept
<1>11. EntryOK'
  BY <1>1, <1>2, <1>7 DEF EntryOK, NoLoad
<1>12. /\ ReservationPinsEntry' /\ \A q \in Requests : MayWait(q)' /\ RequestOK(q)'
       /\ \A q \in Requests : Quiet(q)
       /\ ~FailOpen /\ (\A q \in Requests : HoldsReservation(q)) => \A q \in Requests : HoldsReservation(q)'
  BY <1>8, <1>9, <1>10, RequestsKeep
<1>13. ASSUME NEW q \in Requests, Covered(q), Finished(q)' PROVE StoredOrLost(q)' /\ LoadCovers(q)' /\ SnapCovers(q)'
  <2>1. Quiet(q) /\ forgotten \subseteq forgotten'
    BY <1>8, <1>12 DEF StoreSame
  <2>2. req'[q].month = req[q].month /\ req'[q].month # NoMonth
    BY <1>13, <2>1 DEF Finished, Charged, Quiet
  <2>3. StoredOrLost(q) /\ LoadCovers(q)
    BY <1>13, <2>1, FinishedBefore DEF Covered
  <2>4. StoredOrLost(q)'
    BY <1>7, <1>8, <2>3 DEF StoredOrLost, StoreSame
  <2>5. LoadCovers(q)'
    BY <1>1 DEF LoadCovers, NoLoad
  <2>6. SnapCovers(q)'
    <3>1. q \in entry'.life \cup entry'.lostLife \cup DoneOf(entry'.doneLife)
      BY <1>1, <1>3, <1>7, <2>3 DEF LoadCovers
    <3>2. req'[q].month = entry'.snapMonth => q \in entry'.monthly \cup entry'.lostMonthly \cup DoneOf(entry'.doneMonthly)
      BY <1>1, <1>4, <1>5, <1>7, <2>2, <2>3 DEF LoadCovers
    <3> QED
      BY <3>1, <3>2 DEF SnapCovers
  <2> QED
    BY <2>4, <2>5, <2>6
<1> QED
  BY <1>11, <1>12, <1>13 DEF Keeps, Covered

\* An entry that is evicted pins nothing, and its lost charges are forgotten.
LEMMA EvictKeeps == ASSUME BaseInv, Evict PROVE Keeps
<1>1. /\ req' = req /\ load' = load /\ spend' = spend /\ logs' = logs
      /\ forgotten' = forgotten \cup entry.lostLife \cup entry.lostMonthly
      /\ entry' = NoEntry /\ entry.reserved = {} /\ entry.pending = {} /\ ~entry.loading
  BY DEF Evict, busy
<1>2. EntryOK' /\ load.phase = "off"
  <2>1. load.phase = "off"
    BY <1>1 DEF BaseInv, EntryOK
  <2>2. NoEntry.loading = FALSE
    BY DEF NoEntry, NewEntry
  <2> QED
    BY <1>1, <2>1, <2>2 DEF EntryOK
<1>3. ASSUME NEW q \in Requests
      PROVE  /\ Pins(q)' /\ MayWait(q)' /\ RequestOK(q)'
             /\ HoldsReservation(q) /\ Covered(q) => HoldsReservation(q)' /\ Covered(q)'
  <2>1. Pins(q) /\ MayWait(q) /\ RequestOK(q)
    BY DEF BaseInv, ReservationPinsEntry, Pins
  <2>2. Pins(q)'
    BY <1>1, <2>1 DEF Pins
  <2>3. MayWait(q)' /\ RequestOK(q)' /\ (HoldsReservation(q) => HoldsReservation(q)')
    BY <1>1, <2>1 DEF MayWait, RequestOK, HoldsReservation
  <2>4. ASSUME Covered(q), Finished(q)' PROVE StoredOrLost(q)' /\ LoadCovers(q)' /\ SnapCovers(q)'
    <3>1. StoredOrLost(q) /\ q \notin entry.lostLife /\ q \notin entry.lostMonthly
      BY <1>1, <2>4 DEF Covered, Finished, Charged
    <3>2. entry'.hasSnap = FALSE
      BY <1>1 DEF NoEntry, NewEntry
    <3> QED
      BY <1>1, <1>2, <3>1, <3>2 DEF StoredOrLost, LoadCovers, SnapCovers
  <2> QED
    BY <2>2, <2>3, <2>4 DEF Covered
<1>4. ReservationPinsEntry'
  BY <1>3 DEF ReservationPinsEntry, Pins
<1> QED
  BY <1>2, <1>3, <1>4 DEF Keeps

-----------------------------------------------------------------------------
(* Budgets: sums of costs, estimates and overruns.                         *)

\* The amounts of requests q.
CostAt(q) == [r \in Requests |-> q[r].cost]
EstimateAt(q) == [r \in Requests |-> q[r].est]
OverrunAt(q) == [r \in Requests |-> IF q[r].cost > q[r].est THEN q[r].cost - q[r].est ELSE 0]

\* A request that has spent something, and those of a set that were stamped in the month.
Spent(a) == a.cost > 0 /\ (a.pc \in {"log", "spend", "finish"} \/ (a.pc = "done" /\ a.month # NoMonth))
SpentIn(q) == {r \in Requests : Spent(q[r])}
OfMonth(q, m) == {r \in SpentIn(q) : q[r].month = m}

\* Costs c of what was spent (S) and estimates e of what is reserved (R) fit the
\* limit, up to the overruns o of the charges (C) and the costs of what was forgotten (F).
Fits(limit, c, S, e, R, o, C, F) ==
    limit > 0 => SumFunctionOnSet(c, S) + SumFunctionOnSet(e, R)
                     <= limit + SumFunctionOnSet(o, C) + SumFunctionOnSet(c, F)

\* The lifetime limit and the monthly one.
FitsAll(q, m, R, F) ==
    /\ Fits(LifetimeLimit, CostAt(q), SpentIn(q), EstimateAt(q), R, OverrunAt(q), SpentIn(q), F)
    /\ Fits(MonthlyLimit, CostAt(q), OfMonth(q, m), EstimateAt(q), R, OverrunAt(q), SpentIn(q), F)

\* BudgetsRespected in terms of these sums.
LEMMA Restated == FitsAll(req, month, entry.reserved, forgotten) => BudgetsRespected
<1>1. SpentIn(req) = Charged /\ OfMonth(req, month) = InMonth(Charged, month)
  BY DEF SpentIn, Spent, Charged, OfMonth, InMonth
<1> QED
  BY <1>1 DEF FitsAll, Fits, BudgetsRespected, CostOf, EstimateOf, Overrun, CostAt, EstimateAt, OverrunAt

\* The sums are those of natural numbers over finite sets.
LEMMA SumType ==
    ASSUME NEW w, \A x \in Requests : w[x] \in Nat, NEW S \in SUBSET Requests
    PROVE  IsFiniteSet(S) /\ SumFunctionOnSet(w, S) \in Nat
<1>1. IsFiniteSet(S)
  BY RequestsAssumption, FS_Subset
<1> QED
  BY <1>1, SumTakesOut

\* More and larger terms.
LEMMA Larger ==
    ASSUME NEW c, NEW d, \A x \in Requests : c[x] \in Nat /\ d[x] \in Nat,
           NEW T \in SUBSET Requests, NEW S, S \subseteq T, \A x \in S : c[x] <= d[x]
    PROVE  /\ SumFunctionOnSet(c, S) \in Nat /\ SumFunctionOnSet(d, T) \in Nat
           /\ SumFunctionOnSet(c, S) <= SumFunctionOnSet(d, T)
<1>1. S \in SUBSET Requests /\ S \in SUBSET T
  OBVIOUS
<1>2. IsFiniteSet(S) /\ IsFiniteSet(T)
  BY <1>1, SumType
<1>3. SumFunctionOnSet(c, S) <= SumFunctionOnSet(d, S)
  BY <1>1, <1>2, SumDominates
<1>4. SumFunctionOnSet(d, S) <= SumFunctionOnSet(d, T)
  BY <1>1, <1>2, SumGrows
<1>5. SumFunctionOnSet(c, S) \in Nat /\ SumFunctionOnSet(d, S) \in Nat /\ SumFunctionOnSet(d, T) \in Nat
  BY <1>1, SumType
<1> QED
  BY <1>3, <1>4, <1>5

\* A reservation becomes a charge: the cost beyond its estimate is overrun.
LEMMA ChargeFits ==
    ASSUME NEW limit \in Nat, NEW c, NEW e, NEW o,
           \A x \in Requests : c[x] \in Nat /\ e[x] \in Nat /\ o[x] \in Nat,
           NEW S \in SUBSET Requests, NEW R \in SUBSET Requests, NEW C \in SUBSET Requests, NEW F \in SUBSET Requests,
           NEW r \in Requests, r \in R, r \notin C, c[r] <= e[r] + o[r],
           NEW T, T \subseteq S \cup {r}, Fits(limit, c, S, e, R, o, C, F)
    PROVE  Fits(limit, c, T, e, R \ {r}, o, C \cup {r}, F)
<1>1. /\ IsFiniteSet(S) /\ IsFiniteSet(R) /\ IsFiniteSet(C) /\ IsFiniteSet(F) /\ IsFiniteSet({r})
      /\ S \cup {r} \in SUBSET Requests /\ IsFiniteSet(S \cup {r})
  BY RequestsAssumption, FS_Subset
<1>2. SumFunctionOnSet(c, T) <= SumFunctionOnSet(c, S) + c[r]
  <2>1. SumFunctionOnSet(c, T) <= SumFunctionOnSet(c, S \cup {r})
    BY <1>1, SumGrows
  <2>2. SumFunctionOnSet(c, S \cup {r}) <= SumFunctionOnSet(c, S) + SumFunctionOnSet(c, {r})
    BY <1>1, SumOfUnion
  <2>3. SumFunctionOnSet(c, {r}) = c[r]
    BY SumOfOne
  <2>4. SumFunctionOnSet(c, T) \in Nat /\ SumFunctionOnSet(c, S \cup {r}) \in Nat /\ SumFunctionOnSet(c, S) \in Nat
    BY <1>1, SumType
  <2> QED
    BY <2>1, <2>2, <2>3, <2>4
<1>3. SumFunctionOnSet(e, R) = e[r] + SumFunctionOnSet(e, R \ {r})
  BY <1>1, SumTakesOut
<1>4. SumFunctionOnSet(o, C \cup {r}) = SumFunctionOnSet(o, C) + o[r]
  BY <1>1, SumAdds
<1>5. /\ SumFunctionOnSet(c, T) \in Nat /\ SumFunctionOnSet(c, S) \in Nat /\ SumFunctionOnSet(e, R \ {r}) \in Nat
      /\ SumFunctionOnSet(o, C) \in Nat /\ SumFunctionOnSet(c, F) \in Nat
  BY <1>1, SumType
<1> QED
  BY <1>2, <1>3, <1>4, <1>5 DEF Fits

\* An admission that was not denied: the ledger's used amount (U) counts all that was spent
\* and is not forgotten.
LEMMA AdmissionFits ==
    ASSUME NEW limit \in Nat, NEW c, NEW e, NEW o,
           \A x \in Requests : c[x] \in Nat /\ e[x] \in Nat /\ o[x] \in Nat,
           NEW S \in SUBSET Requests, NEW R \in SUBSET Requests, NEW C \in SUBSET Requests, NEW F \in SUBSET Requests,
           NEW r \in Requests, NEW U \in Nat, limit > 0 => SumFunctionOnSet(c, S \ F) <= U,
           ~Exceeds(limit, U, SumFunctionOnSet(e, R), e[r]), Fits(limit, c, S, e, R, o, C, F)
    PROVE  Fits(limit, c, S, e, R \cup {r}, o, C, F)
<1>1. /\ IsFiniteSet(S) /\ IsFiniteSet(R) /\ IsFiniteSet(F) /\ IsFiniteSet(S \ F) /\ IsFiniteSet({r})
      /\ (S \ F) \cup F \in SUBSET Requests /\ IsFiniteSet((S \ F) \cup F)
  BY RequestsAssumption, FS_Subset
<1>2. SumFunctionOnSet(e, R \cup {r}) <= SumFunctionOnSet(e, R) + e[r]
  <2>1. SumFunctionOnSet(e, R \cup {r}) <= SumFunctionOnSet(e, R) + SumFunctionOnSet(e, {r})
    BY <1>1, SumOfUnion
  <2>2. SumFunctionOnSet(e, {r}) = e[r]
    BY SumOfOne
  <2> QED
    BY <2>1, <2>2
<1>3. SumFunctionOnSet(c, S) <= SumFunctionOnSet(c, S \ F) + SumFunctionOnSet(c, F)
  <2>1. SumFunctionOnSet(c, S) <= SumFunctionOnSet(c, (S \ F) \cup F)
    <3>1. S \in SUBSET ((S \ F) \cup F)
      OBVIOUS
    <3> QED
      BY <1>1, <3>1, SumGrows
  <2>2. SumFunctionOnSet(c, (S \ F) \cup F) <= SumFunctionOnSet(c, S \ F) + SumFunctionOnSet(c, F)
    BY <1>1, SumOfUnion
  <2>3. /\ SumFunctionOnSet(c, S) \in Nat /\ SumFunctionOnSet(c, (S \ F) \cup F) \in Nat
        /\ SumFunctionOnSet(c, S \ F) \in Nat /\ SumFunctionOnSet(c, F) \in Nat
    BY <1>1, SumType
  <2> QED
    BY <2>1, <2>2, <2>3
<1>4. /\ SumFunctionOnSet(c, S) \in Nat /\ SumFunctionOnSet(c, S \ F) \in Nat /\ SumFunctionOnSet(e, R) \in Nat
      /\ SumFunctionOnSet(e, R \cup {r}) \in Nat /\ SumFunctionOnSet(o, C) \in Nat /\ SumFunctionOnSet(c, F) \in Nat
  BY <1>1, SumType
<1> QED
  BY <1>2, <1>3, <1>4 DEF Fits, Exceeds

-----------------------------------------------------------------------------
(* How requests move, as far as the budgets can tell.                      *)

\* From a to b, stamped in month m: nothing, admission, a release, a stamp or the
\* writes of a charge that has begun.
Moves(a, b, m) ==
    \/ b = a
    \/ /\ a.pc \in {"idle", "admit", "wait", "load"} /\ b.pc \in {"admit", "wait", "load", "run", "done"}
       /\ b.month = a.month /\ b.cost = a.cost
    \/ a.pc = "run" /\ b.pc = "done" /\ b.month = a.month /\ b.cost = a.cost
    \/ a.pc = "run" /\ b.pc = "stamped" /\ b.month = m /\ b.est = a.est
    \/ /\ a.pc \in {"log", "spend", "finish"} /\ b.pc \in {"spend", "finish", "done"}
       /\ b.month = a.month /\ b.cost = a.cost /\ b.est = a.est

\* The charge begins.
Begins(a, b) == a.pc = "stamped" /\ b.pc = "log" /\ b.month = a.month /\ b.cost = a.cost /\ b.est = a.est

\* Nothing is spent before the stamp, which dates the charge.
Dated(a, m) ==
    /\ a.pc \in {"idle", "admit", "wait", "load", "run"} => a.cost = 0 /\ a.month = NoMonth
    /\ a.pc \in {"stamped", "log", "spend", "finish"} => a.month # NoMonth
    /\ a.month <= m

\* What the budgets rest on: dated requests, reservations of running ones only, and the sums.
BudgetInv(q, m, R, F) ==
    /\ \A r \in Requests : Dated(q[r], m)
    /\ \A r \in R : q[r].pc \in {"run", "stamped"}
    /\ FitsAll(q, m, R, F)

\* Moving on keeps the dates.
LEMMA MovesDated ==
    ASSUME NEW a \in RequestType, NEW b \in RequestType, NEW m \in Months, NEW n \in Months, m <= n, Dated(a, m),
           Moves(a, b, m) \/ Begins(a, b)
    PROVE  Dated(b, n)
<1>1. m \in Nat /\ n \in Nat /\ a.month \in Int /\ NoMonth = -1
  BY BudgetAssumption DEF RequestType, Months, NoMonth
<1>2. m # NoMonth
  BY <1>1
<1> QED
  BY <1>1, <1>2 DEF Dated, Moves, Begins

\* What a request may cost.
LEMMA Prices == ASSUME NEW a \in RequestType PROVE a.cost \in Nat /\ a.est \in Nat
<1>1. a.cost \in Costs \cup {0} /\ a.est \in Estimates \cup {0}
  BY DEF RequestType
<1>2. \A x \in Costs : x \in Nat
  BY BudgetAssumption
<1>3. \A x \in Estimates : x \in Nat
  BY BudgetAssumption
<1> QED
  BY <1>1, <1>2, <1>3

\* Moving on changes nothing of what was spent, lets costs grow and keeps estimates.
LEMMA MovesSpent ==
    ASSUME NEW a \in RequestType, NEW b \in RequestType, NEW m, Dated(a, m), Moves(a, b, m)
    PROVE  /\ Spent(b) <=> Spent(a)
           /\ Spent(a) => b.cost = a.cost /\ b.est = a.est /\ b.month = a.month
           /\ a.cost <= b.cost
           /\ a.pc \in {"run", "stamped"} /\ b.pc \in {"run", "stamped"} => b.est = a.est
<1>1. a.cost \in Nat /\ b.cost \in Nat
  BY Prices
<1> QED
  BY <1>1 DEF Dated, Moves, Spent

\* The amounts are natural numbers.
LEMMA Amounts ==
    ASSUME NEW q, \A r \in Requests : q[r] \in RequestType
    PROVE  /\ \A x \in Requests : /\ CostAt(q)[x] = q[x].cost /\ EstimateAt(q)[x] = q[x].est
                                  /\ OverrunAt(q)[x] = IF q[x].cost > q[x].est THEN q[x].cost - q[x].est ELSE 0
                                  /\ q[x].cost \in Nat /\ q[x].est \in Nat /\ OverrunAt(q)[x] \in Nat
           /\ SpentIn(q) \in SUBSET Requests /\ \A m : OfMonth(q, m) \in SUBSET SpentIn(q)
<1>1. \A x \in Requests : q[x].cost \in Nat /\ q[x].est \in Nat
  BY Prices
<1> QED
  BY <1>1 DEF CostAt, EstimateAt, OverrunAt, SpentIn, OfMonth

\* A step that admits nobody and begins no charge.
LEMMA MovesFit ==
    ASSUME NEW q, NEW u, \A x \in Requests : q[x] \in RequestType /\ u[x] \in RequestType,
           NEW m \in Months, NEW n \in Months, m <= n, \A x \in Requests : Moves(q[x], u[x], m),
           NEW R \in SUBSET Requests, NEW Q \in SUBSET R, \A x \in Q : u[x].pc \in {"run", "stamped"},
           NEW F \in SUBSET Requests, NEW G \in SUBSET Requests, F \subseteq G, BudgetInv(q, m, R, F)
    PROVE  BudgetInv(u, n, Q, G)
<1>1. \A x \in Requests : Dated(q[x], m)
  BY DEF BudgetInv
<1>2. \A x \in Requests : Dated(u[x], n)
  BY <1>1, MovesDated
<1>3. \A x \in Requests : /\ Spent(u[x]) <=> Spent(q[x])
                          /\ Spent(q[x]) => u[x].cost = q[x].cost /\ u[x].est = q[x].est /\ u[x].month = q[x].month
                          /\ q[x].cost <= u[x].cost
                          /\ q[x].pc \in {"run", "stamped"} /\ u[x].pc \in {"run", "stamped"} => u[x].est = q[x].est
  BY <1>1, MovesSpent
<1>4. SpentIn(u) = SpentIn(q) /\ \A x \in SpentIn(q) : u[x].cost = q[x].cost /\ u[x].est = q[x].est /\ u[x].month = q[x].month
  BY <1>3 DEF SpentIn
<1>5. OfMonth(u, n) \subseteq OfMonth(q, m)
  <2> SUFFICES ASSUME NEW x \in OfMonth(u, n) PROVE x \in OfMonth(q, m)
    OBVIOUS
  <2>1. x \in SpentIn(q) /\ x \in Requests /\ q[x].month = n
    BY <1>4 DEF OfMonth, SpentIn
  <2>2. q[x].month <= m /\ m \in Nat /\ n \in Nat
    BY <1>1, <2>1, BudgetAssumption DEF Dated, Months
  <2> QED
    BY <2>1, <2>2 DEF OfMonth
<1>6. \A x \in Q : u[x].est = q[x].est
  BY <1>3 DEF BudgetInv
<1>7. PICK c, d, e, f, o, p : /\ c = CostAt(q) /\ d = CostAt(u) /\ e = EstimateAt(q) /\ f = EstimateAt(u)
                              /\ o = OverrunAt(q) /\ p = OverrunAt(u)
  OBVIOUS
<1>8. PICK C, S, T : C = SpentIn(q) /\ S = OfMonth(q, m) /\ T = OfMonth(u, n)
  OBVIOUS
<1>9. /\ \A x \in Requests : /\ c[x] \in Nat /\ d[x] \in Nat /\ e[x] \in Nat /\ f[x] \in Nat /\ o[x] \in Nat /\ p[x] \in Nat
                             /\ c[x] = q[x].cost /\ d[x] = u[x].cost /\ e[x] = q[x].est /\ f[x] = u[x].est
                             /\ o[x] = (IF q[x].cost > q[x].est THEN q[x].cost - q[x].est ELSE 0)
                             /\ p[x] = (IF u[x].cost > u[x].est THEN u[x].cost - u[x].est ELSE 0)
      /\ C \in SUBSET Requests /\ S \in SUBSET C /\ T \in SUBSET S
  BY <1>5, <1>7, <1>8, Amounts
<1>10. /\ \A x \in C : d[x] = c[x] /\ p[x] = o[x]
       /\ \A x \in Q : f[x] = e[x]
       /\ \A x \in Requests : c[x] <= d[x]
  BY <1>3, <1>4, <1>6, <1>8, <1>9
<1>11. Fits(LifetimeLimit, c, C, e, R, o, C, F) /\ Fits(MonthlyLimit, c, S, e, R, o, C, F)
  BY <1>7, <1>8 DEF BudgetInv, FitsAll
<1>12. LifetimeLimit \in Nat /\ MonthlyLimit \in Nat
  BY BudgetAssumption
<1>13. /\ SumFunctionOnSet(d, C) \in Nat /\ SumFunctionOnSet(c, C) \in Nat /\ SumFunctionOnSet(d, C) <= SumFunctionOnSet(c, C)
       /\ SumFunctionOnSet(d, T) \in Nat /\ SumFunctionOnSet(c, S) \in Nat /\ SumFunctionOnSet(d, T) <= SumFunctionOnSet(c, S)
  <2>1. /\ S \in SUBSET Requests /\ T \subseteq S /\ C \in SUBSET Requests /\ C \subseteq C
        /\ (\A x \in T : d[x] <= c[x]) /\ (\A x \in C : d[x] <= c[x])
        /\ \A x \in Requests : d[x] \in Nat /\ c[x] \in Nat
    BY <1>9, <1>10
  <2> QED
    BY <2>1, Larger
<1>14. /\ SumFunctionOnSet(f, Q) \in Nat /\ SumFunctionOnSet(e, R) \in Nat /\ SumFunctionOnSet(f, Q) <= SumFunctionOnSet(e, R)
       /\ SumFunctionOnSet(o, C) \in Nat /\ SumFunctionOnSet(p, C) \in Nat /\ SumFunctionOnSet(o, C) <= SumFunctionOnSet(p, C)
       /\ SumFunctionOnSet(c, F) \in Nat /\ SumFunctionOnSet(d, G) \in Nat /\ SumFunctionOnSet(c, F) <= SumFunctionOnSet(d, G)
  <2>1. /\ Q \subseteq R /\ C \in SUBSET Requests /\ C \subseteq C
        /\ (\A x \in Q : f[x] <= e[x]) /\ (\A x \in C : o[x] <= p[x]) /\ (\A x \in F : c[x] <= d[x])
        /\ (\A x \in Requests : f[x] \in Nat /\ e[x] \in Nat) /\ (\A x \in Requests : o[x] \in Nat /\ p[x] \in Nat)
        /\ \A x \in Requests : c[x] \in Nat /\ d[x] \in Nat
    BY <1>9, <1>10
  <2>2. SumFunctionOnSet(f, Q) \in Nat /\ SumFunctionOnSet(e, R) \in Nat /\ SumFunctionOnSet(f, Q) <= SumFunctionOnSet(e, R)
    BY <2>1, Larger
  <2>3. SumFunctionOnSet(o, C) \in Nat /\ SumFunctionOnSet(p, C) \in Nat /\ SumFunctionOnSet(o, C) <= SumFunctionOnSet(p, C)
    BY <2>1, Larger
  <2>4. SumFunctionOnSet(c, F) \in Nat /\ SumFunctionOnSet(d, G) \in Nat /\ SumFunctionOnSet(c, F) <= SumFunctionOnSet(d, G)
    BY <2>1, Larger
  <2> QED
    BY <2>2, <2>3, <2>4
<1>15. Fits(LifetimeLimit, d, C, f, Q, p, C, G) /\ Fits(MonthlyLimit, d, T, f, Q, p, C, G)
  BY <1>11, <1>12, <1>13, <1>14 DEF Fits
<1>16. FitsAll(u, n, Q, G)
  BY <1>4, <1>7, <1>8, <1>15 DEF FitsAll
<1> QED
  BY <1>2, <1>16 DEF BudgetInv

\* beginCharge of a request that holds its reservation.
LEMMA BeginFits ==
    ASSUME NEW q, NEW u, \A x \in Requests : q[x] \in RequestType /\ u[x] \in RequestType,
           NEW m \in Months, NEW r \in Requests, Begins(q[r], u[r]), \A x \in Requests \ {r} : u[x] = q[x],
           NEW R \in SUBSET Requests, r \in R, NEW F \in SUBSET Requests, BudgetInv(q, m, R, F)
    PROVE  BudgetInv(u, m, R \ {r}, F)
<1>1. m <= m
  BY BudgetAssumption DEF Months
<1>2. \A x \in Requests : Dated(u[x], m)
  BY <1>1, MovesDated DEF BudgetInv, Moves
<1>3. \A x \in R \ {r} : u[x].pc \in {"run", "stamped"}
  BY DEF BudgetInv
<1>4. \A x \in Requests : u[x].cost = q[x].cost /\ u[x].est = q[x].est /\ u[x].month = q[x].month
  BY DEF Begins
<1>5. CostAt(u) = CostAt(q) /\ EstimateAt(u) = EstimateAt(q) /\ OverrunAt(u) = OverrunAt(q)
  BY <1>4 DEF CostAt, EstimateAt, OverrunAt
<1>6. PICK c, e, o : c = CostAt(q) /\ e = EstimateAt(q) /\ o = OverrunAt(q)
  OBVIOUS
<1>7. PICK C, D, S, T : C = SpentIn(q) /\ D = SpentIn(u) /\ S = OfMonth(q, m) /\ T = OfMonth(u, m)
  OBVIOUS
<1>8. /\ \A x \in Requests : /\ c[x] \in Nat /\ e[x] \in Nat /\ o[x] \in Nat /\ c[x] = q[x].cost /\ e[x] = q[x].est
                             /\ o[x] = (IF q[x].cost > q[x].est THEN q[x].cost - q[x].est ELSE 0)
      /\ C \in SUBSET Requests /\ S \in SUBSET C /\ T \in SUBSET D
  BY <1>6, <1>7, Amounts
<1>9. r \notin C /\ D = (IF q[r].cost > 0 THEN C \cup {r} ELSE C)
  <2>1. ~Spent(q[r]) /\ (Spent(u[r]) <=> q[r].cost > 0)
    BY <1>4 DEF Spent, Begins
  <2> QED
    BY <1>7, <2>1 DEF SpentIn
<1>10. T \subseteq S \cup {r}
  <2>1. \A x \in T : x \in D /\ x \in Requests /\ u[x].month = m
    BY <1>7, <1>8, <1>9 DEF OfMonth
  <2>2. \A x \in T : x # r => x \in C /\ q[x].month = m
    BY <1>4, <1>9, <2>1
  <2> QED
    BY <1>7, <2>2 DEF OfMonth
<1>11. Fits(LifetimeLimit, c, C, e, R, o, C, F) /\ Fits(MonthlyLimit, c, S, e, R, o, C, F)
  BY <1>6, <1>7 DEF BudgetInv, FitsAll
<1>12. LifetimeLimit \in Nat /\ MonthlyLimit \in Nat
  BY BudgetAssumption
<1>13. \A x \in Requests : c[x] \in Nat /\ e[x] \in Nat /\ o[x] \in Nat
  BY <1>8
<1>14. Fits(LifetimeLimit, c, D, e, R \ {r}, o, D, F) /\ Fits(MonthlyLimit, c, T, e, R \ {r}, o, D, F)
  <2>1. CASE q[r].cost > 0
    <3>1. c[r] <= e[r] + o[r]
      BY <1>8
    <3>2. S \in SUBSET Requests
      BY <1>8
    <3>3. Fits(LifetimeLimit, c, C \cup {r}, e, R \ {r}, o, C \cup {r}, F)
      BY <1>8, <1>9, <1>11, <1>12, <1>13, <3>1, ChargeFits
    <3>4. Fits(MonthlyLimit, c, T, e, R \ {r}, o, C \cup {r}, F)
      BY <1>8, <1>9, <1>10, <1>11, <1>12, <1>13, <3>1, <3>2, ChargeFits
    <3> QED
      BY <1>9, <2>1, <3>3, <3>4
  <2>2. CASE ~(q[r].cost > 0)
    <3>1. D = C /\ T \in SUBSET S /\ R \ {r} \in SUBSET R /\ S \in SUBSET Requests /\ \A x \in Requests : c[x] <= c[x]
      BY <1>8, <1>9, <1>10, <2>2
    <3>2. SumFunctionOnSet(e, R \ {r}) <= SumFunctionOnSet(e, R) /\ SumFunctionOnSet(c, T) <= SumFunctionOnSet(c, S)
      <4>1. /\ R \ {r} \subseteq R /\ T \subseteq S /\ (\A x \in R \ {r} : e[x] <= e[x]) /\ (\A x \in T : c[x] <= c[x])
        BY <1>13, <3>1
      <4> QED
        BY <1>13, <3>1, <4>1, Larger
    <3>3. /\ SumFunctionOnSet(e, R \ {r}) \in Nat /\ SumFunctionOnSet(e, R) \in Nat /\ SumFunctionOnSet(c, T) \in Nat
          /\ SumFunctionOnSet(c, S) \in Nat /\ SumFunctionOnSet(c, C) \in Nat /\ SumFunctionOnSet(o, C) \in Nat
          /\ SumFunctionOnSet(c, F) \in Nat
      <4>1. R \ {r} \in SUBSET Requests /\ T \in SUBSET Requests
        BY <3>1
      <4> QED
        BY <1>8, <1>13, <3>1, <4>1, SumType
    <3> QED
      BY <1>11, <1>12, <3>1, <3>2, <3>3 DEF Fits
  <2> QED
    BY <2>1, <2>2
<1>15. FitsAll(u, m, R \ {r}, F)
  BY <1>5, <1>6, <1>7, <1>14 DEF FitsAll
<1> QED
  BY <1>2, <1>3, <1>15 DEF BudgetInv

\* AdmitDecide admits a request: what the ledger counts is all that was spent and
\* is not forgotten.
LEMMA DecideFits ==
    ASSUME NEW q, NEW u, \A x \in Requests : q[x] \in RequestType /\ u[x] \in RequestType,
           NEW m \in Months, NEW r \in Requests, Moves(q[r], u[r], m), u[r].pc = "run", u[r].est = q[r].est,
           q[r].pc = "admit", \A x \in Requests \ {r} : u[x] = q[x],
           NEW R \in SUBSET Requests, NEW F \in SUBSET Requests, BudgetInv(q, m, R, F),
           NEW U \in Nat, NEW V \in Nat,
           SumFunctionOnSet(CostAt(q), SpentIn(q) \ F) <= U,
           MonthlyLimit > 0 => SumFunctionOnSet(CostAt(q), OfMonth(q, m) \ F) <= V,
           ~Exceeds(LifetimeLimit, U, SumFunctionOnSet(EstimateAt(q), R), q[r].est),
           ~Exceeds(MonthlyLimit, V, SumFunctionOnSet(EstimateAt(q), R), q[r].est)
    PROVE  BudgetInv(u, m, R \cup {r}, F)
<1>1. m <= m
  BY BudgetAssumption DEF Months
<1>2. \A x \in Requests : Dated(u[x], m)
  BY <1>1, MovesDated DEF BudgetInv, Moves
<1>3. \A x \in R \cup {r} : u[x].pc \in {"run", "stamped"}
  BY DEF BudgetInv
<1>4. ~Spent(q[r]) /\ ~Spent(u[r]) /\ u[r].cost = q[r].cost
  BY DEF Moves, Spent
<1>5. \A x \in Requests : u[x].cost = q[x].cost /\ u[x].est = q[x].est /\ (Spent(u[x]) <=> Spent(q[x]))
  BY <1>4
<1>6. CostAt(u) = CostAt(q) /\ EstimateAt(u) = EstimateAt(q) /\ OverrunAt(u) = OverrunAt(q)
  BY <1>5 DEF CostAt, EstimateAt, OverrunAt
<1>7. SpentIn(u) = SpentIn(q)
  BY <1>5 DEF SpentIn
<1>8. OfMonth(u, m) = OfMonth(q, m)
  <2>1. \A x \in SpentIn(q) : u[x] = q[x]
    BY <1>4 DEF SpentIn
  <2> QED
    BY <1>7, <2>1 DEF OfMonth
<1>9. PICK c, e, o : c = CostAt(q) /\ e = EstimateAt(q) /\ o = OverrunAt(q)
  OBVIOUS
<1>10. PICK C, S : C = SpentIn(q) /\ S = OfMonth(q, m)
  OBVIOUS
<1>11. /\ \A x \in Requests : c[x] \in Nat /\ e[x] \in Nat /\ o[x] \in Nat
       /\ e[r] = q[r].est /\ C \in SUBSET Requests /\ S \in SUBSET Requests
  BY <1>9, <1>10, Amounts
<1>12. Fits(LifetimeLimit, c, C, e, R, o, C, F) /\ Fits(MonthlyLimit, c, S, e, R, o, C, F)
  BY <1>9, <1>10 DEF BudgetInv, FitsAll
<1>13. LifetimeLimit \in Nat /\ MonthlyLimit \in Nat
  BY BudgetAssumption
<1>14. Fits(LifetimeLimit, c, C, e, R \cup {r}, o, C, F)
  <2>1. SumFunctionOnSet(c, C \ F) <= U /\ ~Exceeds(LifetimeLimit, U, SumFunctionOnSet(e, R), e[r])
    BY <1>9, <1>10, <1>11
  <2> QED
    BY <1>11, <1>12, <1>13, <2>1, AdmissionFits, Zenon
<1>15. Fits(MonthlyLimit, c, S, e, R \cup {r}, o, C, F)
  <2>1. /\ MonthlyLimit > 0 => SumFunctionOnSet(c, S \ F) <= V
        /\ ~Exceeds(MonthlyLimit, V, SumFunctionOnSet(e, R), e[r])
    BY <1>9, <1>10, <1>11
  <2> QED
    BY <1>11, <1>12, <1>13, <2>1, AdmissionFits, Zenon
<1>16. FitsAll(u, m, R \cup {r}, F)
  BY <1>6, <1>7, <1>8, <1>9, <1>10, <1>14, <1>15 DEF FitsAll
<1> QED
  BY <1>2, <1>3, <1>16 DEF BudgetInv

\* Four parts that cover a set cost at least as much.
LEMMA PartsCover ==
    ASSUME NEW c, \A x \in Requests : c[x] \in Nat, NEW A \in SUBSET Requests, NEW B \in SUBSET Requests,
           NEW C \in SUBSET Requests, NEW D \in SUBSET Requests, NEW S, S \subseteq A \cup B \cup C \cup D
    PROVE  /\ SumFunctionOnSet(c, A) + SumFunctionOnSet(c, B) + SumFunctionOnSet(c, C) + SumFunctionOnSet(c, D) \in Nat
           /\ SumFunctionOnSet(c, S) <= SumFunctionOnSet(c, A) + SumFunctionOnSet(c, B)
                                         + SumFunctionOnSet(c, C) + SumFunctionOnSet(c, D)
<1>1. PICK P : P = A \cup B
  OBVIOUS
<1>2. PICK Q : Q = P \cup C
  OBVIOUS
<1>3. PICK W : W = Q \cup D
  OBVIOUS
<1>4. P \in SUBSET Requests /\ Q \in SUBSET Requests /\ W \in SUBSET Requests /\ S \in SUBSET W
  BY <1>1, <1>2, <1>3
<1>5. /\ IsFiniteSet(A) /\ IsFiniteSet(B) /\ IsFiniteSet(C) /\ IsFiniteSet(D)
      /\ IsFiniteSet(P) /\ IsFiniteSet(Q) /\ IsFiniteSet(W) /\ IsFiniteSet(S)
  BY <1>4, RequestsAssumption, FS_Subset
<1>6. SumFunctionOnSet(c, P) <= SumFunctionOnSet(c, A) + SumFunctionOnSet(c, B)
  BY <1>1, <1>5, SumOfUnion
<1>7. SumFunctionOnSet(c, Q) <= SumFunctionOnSet(c, P) + SumFunctionOnSet(c, C)
  BY <1>2, <1>4, <1>5, SumOfUnion
<1>8. SumFunctionOnSet(c, W) <= SumFunctionOnSet(c, Q) + SumFunctionOnSet(c, D)
  BY <1>3, <1>4, <1>5, SumOfUnion
<1>9. SumFunctionOnSet(c, S) <= SumFunctionOnSet(c, W)
  BY <1>4, <1>5, SumGrows
<1>10. /\ SumFunctionOnSet(c, A) \in Nat /\ SumFunctionOnSet(c, B) \in Nat /\ SumFunctionOnSet(c, C) \in Nat
       /\ SumFunctionOnSet(c, D) \in Nat /\ SumFunctionOnSet(c, P) \in Nat /\ SumFunctionOnSet(c, Q) \in Nat
       /\ SumFunctionOnSet(c, W) \in Nat /\ SumFunctionOnSet(c, S) \in Nat
  BY <1>4, SumType
<1> QED
  BY <1>6, <1>7, <1>8, <1>9, <1>10

-----------------------------------------------------------------------------
(* The steps of the ledger keep the budgets.                               *)

\* The budgets before a step,
BudgetNow == BudgetInv(req, month, entry.reserved, forgotten)
\* and after it.
BudgetNext == BudgetInv(req', month', entry'.reserved, forgotten')

\* A step that admits nobody and begins no charge, in terms of the variables.
LEMMA StepFits ==
    ASSUME TypeOK, TypeOK', \A x \in Requests : Moves(req[x], req'[x], month),
           entry'.reserved \subseteq entry.reserved, \A x \in entry'.reserved : req'[x].pc \in {"run", "stamped"},
           forgotten \subseteq forgotten', month <= month', BudgetNow
    PROVE  BudgetNext
<1>1. PICK q, u, m, n, R, Q, F, G : /\ q = req /\ u = req' /\ m = month /\ n = month' /\ R = entry.reserved
                                    /\ Q = entry'.reserved /\ F = forgotten /\ G = forgotten'
  OBVIOUS
<1>2. \A x \in Requests : q[x] \in RequestType /\ u[x] \in RequestType
  BY <1>1 DEF TypeOK
<1>3. R \in SUBSET Requests /\ Q \in SUBSET R /\ F \in SUBSET Requests /\ G \in SUBSET Requests
  BY <1>1 DEF TypeOK, EntryType
<1>4. m \in Months /\ n \in Months /\ m <= n /\ F \subseteq G
  BY <1>1 DEF TypeOK
<1>5. (\A x \in Requests : Moves(q[x], u[x], m)) /\ (\A x \in Q : u[x].pc \in {"run", "stamped"}) /\ BudgetInv(q, m, R, F)
  BY <1>1 DEF BudgetNow
<1>6. BudgetInv(u, n, Q, G)
  BY <1>2, <1>3, <1>4, <1>5, MovesFit
<1> QED
  BY <1>1, <1>6 DEF BudgetNext

\* Requests that are not let in yet go on, or nothing of them changes.
LEMMA GoesFit ==
    ASSUME TypeOK, TypeOK', RequestsGo, entry'.reserved \subseteq entry.reserved,
           forgotten \subseteq forgotten', month <= month', BudgetNow
    PROVE  BudgetNext
<1>1. \A x \in Requests : Moves(req[x], req'[x], month)
  BY DEF RequestsGo, Goes, Moves
<1>2. \A x \in entry'.reserved : x \in Requests /\ req[x].pc \in {"run", "stamped"}
  BY DEF BudgetNow, BudgetInv, TypeOK, EntryType
<1>3. \A x \in entry'.reserved : req'[x].pc \in {"run", "stamped"}
  BY <1>2 DEF RequestsGo, Goes
<1> QED
  BY <1>1, <1>3, StepFits

\* The months are numbers.
LEMMA SameMonth == ASSUME TypeOK PROVE month <= month
  BY BudgetAssumption DEF TypeOK, Months

\* The steps that only let time pass, and those of a load.
LEMMA TimeFits ==
    ASSUME BaseInv, TypeOK', Load \/ SnapshotAges \/ BackoffOver \/ NextMonth \/ Evict \/ UNCHANGED vars, BudgetNow
    PROVE  BudgetNext
<1>1. entry \in EntryType /\ TypeOK /\ month <= month
  BY SameMonth DEF BaseInv, TypeOK
<1>2. CASE LoadKey \/ LoadUsage \/ NextMonth \/ UNCHANGED vars
  <2>1. entry' = entry /\ req' = req /\ forgotten' = forgotten
    BY <1>2 DEF LoadKey, LoadUsage, NextMonth, vars
  <2>2. month <= month'
    BY <1>1, <1>2, BudgetAssumption DEF LoadKey, LoadUsage, NextMonth, vars, TypeOK, Months
  <2> QED
    BY <1>1, <2>1, <2>2, GoesFit DEF RequestsGo
<1>3. CASE LoadInstall
  <2>1. entry'.reserved = entry.reserved
    BY <1>1, <1>3 DEF LoadInstall, EntryType
  <2> QED
    BY <1>1, <1>3, <2>1, WakeGoes, GoesFit DEF LoadInstall
<1>4. CASE LoadFails
  <2>1. entry'.reserved = entry.reserved
    BY <1>1, <1>4 DEF LoadFails, EntryType
  <2> QED
    BY <1>1, <1>4, <2>1, WakeGoes, GoesFit DEF LoadFails
<1>5. CASE SnapshotAges
  <2>1. entry'.reserved = entry.reserved
    BY <1>1, <1>5 DEF SnapshotAges, EntryType
  <2> QED
    BY <1>1, <1>5, <2>1, GoesFit DEF SnapshotAges, RequestsGo
<1>6. CASE BackoffOver
  <2>1. entry'.reserved = entry.reserved
    BY <1>1, <1>6 DEF BackoffOver, EntryType
  <2> QED
    BY <1>1, <1>6, <2>1, GoesFit DEF BackoffOver, RequestsGo
<1>7. CASE Evict
  <2>1. entry'.reserved = {}
    BY <1>7 DEF Evict, NoEntry, NewEntry
  <2>2. forgotten \subseteq forgotten'
    BY <1>7 DEF Evict
  <2> QED
    BY <1>1, <1>7, <2>1, <2>2, GoesFit DEF Evict, RequestsGo
<1> QED
  BY <1>2, <1>3, <1>4, <1>5, <1>6, <1>7 DEF Load

\* A request ends without a charge, is stamped, or writes a charge that has begun.
LEMMA OwnStepFits ==
    ASSUME BaseInv, TypeOK', NEW r \in Requests, BudgetNow,
           Release(r) \/ Stamp(r) \/ InsertLog(r) \/ IncrementAPIKeySpend(r) \/ finish(r)
    PROVE  BudgetNext
<1>0. /\ entry \in EntryType /\ TypeOK /\ req[r] \in RequestType /\ month <= month
      /\ \A x \in entry.reserved : x \in Requests /\ req[x].pc \in {"run", "stamped"}
  BY SameMonth DEF BaseInv, TypeOK, BudgetNow, BudgetInv, EntryType
<1>1. ASSUME NEW y, req' = [req EXCEPT ![r] = y], Moves(req[r], y, month),
             entry'.reserved \subseteq entry.reserved, r \in entry'.reserved => y.pc \in {"run", "stamped"},
             forgotten' = forgotten, month' = month
      PROVE  BudgetNext
  <2>1. req'[r] = y /\ \A x \in Requests \ {r} : req'[x] = req[x]
    BY <1>0, <1>1 DEF TypeOK
  <2>2. \A x \in Requests : Moves(req[x], req'[x], month)
    BY <1>1, <2>1 DEF Moves
  <2>3. \A x \in entry'.reserved : req'[x].pc \in {"run", "stamped"}
    BY <1>0, <1>1, <2>1
  <2> QED
    BY <1>0, <1>1, <2>2, <2>3, StepFits
<1>2. CASE Release(r)
  <2>1. PICK y : y = [req[r] EXCEPT !.pc = "done", !.hasRes = FALSE]
    OBVIOUS
  <2>2. req' = [req EXCEPT ![r] = y]
    BY <1>0, <1>2, <2>1 DEF Release, TypeOK
  <2>3. Moves(req[r], y, month)
    BY <1>0, <1>2, <2>1 DEF Release, Moves, RequestType
  <2>4. entry'.reserved = entry.reserved \ {r}
    BY <1>0, <1>2 DEF Release, EntryType
  <2> QED
    BY <1>1, <1>2, <2>2, <2>3, <2>4 DEF Release
<1>3. CASE Stamp(r)
  <2>1. PICK cost \in Costs : req' = [req EXCEPT ![r].pc = "stamped", ![r].cost = cost, ![r].month = month]
    BY <1>3, Zenon DEF Stamp
  <2>2. PICK y : y = [req[r] EXCEPT !.pc = "stamped", !.cost = cost, !.month = month]
    OBVIOUS
  <2>3. req' = [req EXCEPT ![r] = y]
    BY <1>0, <2>1, <2>2 DEF TypeOK
  <2>4. y.pc = "stamped" /\ y.month = month /\ y.est = req[r].est
    BY <1>0, <2>2 DEF RequestType
  <2>5. req[r].pc = "run" /\ entry' = entry /\ forgotten' = forgotten /\ month' = month
    BY <1>3, Zenon DEF Stamp
  <2>6. Moves(req[r], y, month)
    BY <2>4, <2>5 DEF Moves
  <2> QED
    BY <1>1, <2>3, <2>4, <2>5, <2>6
<1>4. CASE InsertLog(r)
  <2>1. PICK stored : req' = [req EXCEPT ![r].pc = "spend", ![r].logStored = stored]
    BY <1>4 DEF InsertLog
  <2>2. PICK y : y = [req[r] EXCEPT !.pc = "spend", !.logStored = stored]
    OBVIOUS
  <2>3. req' = [req EXCEPT ![r] = y]
    BY <1>0, <2>1, <2>2 DEF TypeOK
  <2>4. Moves(req[r], y, month) /\ r \notin entry.reserved
    BY <1>0, <1>4, <2>2 DEF InsertLog, Moves, RequestType
  <2> QED
    BY <1>1, <1>4, <2>3, <2>4 DEF InsertLog
<1>5. CASE IncrementAPIKeySpend(r)
  <2>1. PICK stored : req' = [req EXCEPT ![r].pc = "finish", ![r].spendStored = stored]
    BY <1>5 DEF IncrementAPIKeySpend
  <2>2. PICK y : y = [req[r] EXCEPT !.pc = "finish", !.spendStored = stored]
    OBVIOUS
  <2>3. req' = [req EXCEPT ![r] = y]
    BY <1>0, <2>1, <2>2 DEF TypeOK
  <2>4. Moves(req[r], y, month) /\ r \notin entry.reserved
    BY <1>0, <1>5, <2>2 DEF IncrementAPIKeySpend, Moves, RequestType
  <2> QED
    BY <1>1, <1>5, <2>3, <2>4 DEF IncrementAPIKeySpend
<1>6. CASE finish(r)
  <2>1. PICK y : y = [req[r] EXCEPT !.pc = "done", !.tracked = FALSE, !.logStored = FALSE, !.spendStored = FALSE]
    OBVIOUS
  <2>2. req' = [req EXCEPT ![r] = y]
    BY <1>0, <1>6, <2>1 DEF finish, TypeOK
  <2>3. Moves(req[r], y, month) /\ r \notin entry.reserved
    BY <1>0, <1>6, <2>1 DEF finish, Moves, RequestType
  <2>4. entry'.reserved = entry.reserved
    <3>1. CASE ~req[r].tracked
      BY <1>6, <3>1 DEF finish
    <3>2. CASE req[r].tracked
      BY <1>0, <1>6, <3>2 DEF finish, EntryType
    <3> QED
      BY <3>1, <3>2
  <2> QED
    BY <1>1, <1>6, <2>2, <2>3, <2>4 DEF finish
<1> QED
  BY <1>2, <1>3, <1>4, <1>5, <1>6

\* The reservation becomes a charge.
LEMMA BeginChargeFits ==
    ASSUME IInv, TypeOK', NEW r \in Requests, beginCharge(r), BudgetNow
    PROVE  BudgetNext
<1>1. /\ entry \in EntryType /\ TypeOK /\ req[r] \in RequestType /\ req[r].hasRes
      /\ entry.present /\ r \in entry.reserved
  BY DEF IInv, BaseInv, TypeOK, HoldsReservation, ReservationPinsEntry, beginCharge
<1>2. PICK y : y = [req[r] EXCEPT !.pc = "log", !.hasRes = FALSE, !.tracked = entry.present]
  OBVIOUS
<1>3. req'[r] = y /\ \A x \in Requests \ {r} : req'[x] = req[x]
  BY <1>1, <1>2 DEF beginCharge, TypeOK
<1>4. Begins(req[r], y)
  BY <1>1, <1>2 DEF beginCharge, Begins, RequestType
<1>5. entry'.reserved = entry.reserved \ {r} /\ month' = month /\ forgotten' = forgotten
  BY <1>1 DEF beginCharge, EntryType
<1>6. PICK q, u, m, R, F : q = req /\ u = req' /\ m = month /\ R = entry.reserved /\ F = forgotten
  OBVIOUS
<1>7. \A x \in Requests : q[x] \in RequestType /\ u[x] \in RequestType
  BY <1>1, <1>6 DEF TypeOK
<1>8. m \in Months /\ R \in SUBSET Requests /\ r \in R /\ F \in SUBSET Requests
  BY <1>1, <1>6 DEF TypeOK, EntryType
<1>9. Begins(q[r], u[r]) /\ (\A x \in Requests \ {r} : u[x] = q[x]) /\ BudgetInv(q, m, R, F)
  BY <1>3, <1>4, <1>6 DEF BudgetNow
<1>10. BudgetInv(u, m, R \ {r}, F)
  BY <1>7, <1>8, <1>9, BeginFits
<1> QED
  BY <1>5, <1>6, <1>10 DEF BudgetNext

\* What a snapshot and the local charges hold, once there is a snapshot.
LEMMA NothingMissed == IInv => NeverMissed
<1> SUFFICES ASSUME IInv, NEW r \in Charged \ forgotten, entry.hasSnap
             PROVE  /\ r \in entry.life \cup entry.pending \cup DoneOf(entry.doneLife) \cup entry.lostLife
                    /\ entry.snapMonth = month /\ req[r].month = month =>
                          r \in entry.monthly \cup entry.pending \cup DoneOf(entry.doneMonthly) \cup entry.lostMonthly
  BY DEF NeverMissed, LifetimeNeverMissed, MonthlyNeverMissed, InMonth
<1>1. r \in Requests
  BY DEF Charged
<1>2. CASE req[r].pc = "done"
  BY <1>1, <1>2 DEF IInv, Covered, Finished, SnapCovers
<1>3. CASE req[r].pc # "done"
  <2>1. req[r].pc \in {"log", "spend", "finish"}
    BY <1>3 DEF Charged
  <2> QED
    BY <1>1, <2>1 DEF IInv, HoldsReservation, BaseInv, ReservationPinsEntry
<1> QED
  BY <1>2, <1>3

\* A ledger that misses nothing counts all that was spent and is not forgotten.
LEMMA LifetimeCounted ==
    ASSUME IInv, entry.hasSnap
    PROVE  /\ committedLifetime(entry) \in Nat
           /\ SumFunctionOnSet(CostAt(req), SpentIn(req) \ forgotten) <= committedLifetime(entry)
<1>1. TypeOK /\ NeverMissed
  BY NothingMissed DEF IInv, BaseInv
<1>2. PICK A, B, C, D : A = entry.life /\ B = entry.pending /\ C = DoneOf(entry.doneLife) /\ D = entry.lostLife
  OBVIOUS
<1>3. A \in SUBSET Requests /\ B \in SUBSET Requests /\ C \in SUBSET Requests /\ D \in SUBSET Requests
  BY <1>1, <1>2 DEF TypeOK, EntryType, DoneOf
<1>4. PICK S : S = SpentIn(req) \ forgotten
  OBVIOUS
<1>5. SpentIn(req) = Charged
  BY DEF SpentIn, Spent, Charged
<1>6. S \subseteq A \cup B \cup C \cup D
  BY <1>1, <1>2, <1>4, <1>5 DEF NeverMissed, LifetimeNeverMissed
<1>7. PICK c : c = CostAt(req)
  OBVIOUS
<1>8. \A x \in Requests : c[x] \in Nat
  BY <1>1, <1>7, Amounts DEF TypeOK
<1>9. /\ SumFunctionOnSet(c, A) + SumFunctionOnSet(c, B) + SumFunctionOnSet(c, C) + SumFunctionOnSet(c, D) \in Nat
      /\ SumFunctionOnSet(c, S) <= SumFunctionOnSet(c, A) + SumFunctionOnSet(c, B)
                                    + SumFunctionOnSet(c, C) + SumFunctionOnSet(c, D)
  BY <1>3, <1>6, <1>8, PartsCover
<1>10. committedLifetime(entry) = SumFunctionOnSet(c, A) + SumFunctionOnSet(c, B) + SumFunctionOnSet(c, C) + SumFunctionOnSet(c, D)
  BY <1>2, <1>7 DEF committedLifetime, CostOf, CostAt
<1> QED
  BY <1>4, <1>7, <1>9, <1>10

\* And all that was spent in the month, when the snapshot is of the month.
LEMMA MonthlyCounted ==
    ASSUME IInv, entry.hasSnap
    PROVE  /\ committedMonthly(entry) \in Nat
           /\ entry.snapMonth = month =>
                SumFunctionOnSet(CostAt(req), OfMonth(req, month) \ forgotten) <= committedMonthly(entry)
<1>1. TypeOK /\ NeverMissed
  BY NothingMissed DEF IInv, BaseInv
<1>2. PICK A, B, C, D : /\ A = (IF entry.snapMonth = month THEN entry.monthly ELSE {})
                        /\ B = InMonth(entry.pending, month)
                        /\ C = InMonth(DoneOf(entry.doneMonthly), month) /\ D = InMonth(entry.lostMonthly, month)
  OBVIOUS
<1>3. A \in SUBSET Requests /\ B \in SUBSET Requests /\ C \in SUBSET Requests /\ D \in SUBSET Requests
  BY <1>1, <1>2 DEF TypeOK, EntryType, DoneOf, InMonth
<1>4. PICK S : S = IF entry.snapMonth = month THEN OfMonth(req, month) \ forgotten ELSE {}
  OBVIOUS
<1>5. S \subseteq A \cup B \cup C \cup D
  <2> SUFFICES ASSUME NEW x \in S PROVE x \in A \cup B \cup C \cup D
    OBVIOUS
  <2>1. entry.snapMonth = month /\ x \in SpentIn(req) /\ req[x].month = month /\ x \notin forgotten
    BY <1>4 DEF OfMonth
  <2>2. x \in InMonth(Charged, month)
    BY <2>1 DEF SpentIn, Spent, Charged, InMonth
  <2>3. x \in entry.monthly \cup entry.pending \cup DoneOf(entry.doneMonthly) \cup entry.lostMonthly
    BY <1>1, <2>1, <2>2 DEF NeverMissed, MonthlyNeverMissed
  <2> QED
    BY <1>2, <2>1, <2>3 DEF InMonth
<1>6. PICK c : c = CostAt(req)
  OBVIOUS
<1>7. \A x \in Requests : c[x] \in Nat
  BY <1>1, <1>6, Amounts DEF TypeOK
<1>8. /\ SumFunctionOnSet(c, A) + SumFunctionOnSet(c, B) + SumFunctionOnSet(c, C) + SumFunctionOnSet(c, D) \in Nat
      /\ SumFunctionOnSet(c, S) <= SumFunctionOnSet(c, A) + SumFunctionOnSet(c, B)
                                    + SumFunctionOnSet(c, C) + SumFunctionOnSet(c, D)
  BY <1>3, <1>5, <1>7, PartsCover
<1>9. SumFunctionOnSet(c, A) = IF entry.snapMonth = month THEN CostOf(entry.monthly) ELSE 0
  <2>1. SumFunctionOnSet(c, {}) = 0
    BY SumOfNone
  <2> QED
    BY <1>2, <1>6, <2>1 DEF CostOf, CostAt
<1>10. committedMonthly(entry) = SumFunctionOnSet(c, A) + SumFunctionOnSet(c, B) + SumFunctionOnSet(c, C) + SumFunctionOnSet(c, D)
  BY <1>2, <1>6, <1>9 DEF committedMonthly, CostOf, CostAt
<1> QED
  BY <1>4, <1>6, <1>8, <1>10

\* AdmitDecide.
LEMMA DecideKeepsBudgets ==
    ASSUME IInv, TypeOK', NEW r \in Requests, AdmitDecide(r), BudgetNow
    PROVE  BudgetNext
<1>1. PICK e : e = entryLocked
  OBVIOUS
<1>2. e.hasSnap /\ req[r].pc = "admit" /\ month' = month /\ forgotten' = forgotten
  BY <1>1 DEF AdmitDecide, Usable
<1>3. entry.present /\ e = entry /\ entry \in EntryType /\ TypeOK /\ req[r] \in RequestType /\ BaseInv
  BY <1>1, <1>2 DEF entryLocked, NewEntry, IInv, BaseInv, TypeOK
<1>4. PICK denied \in BOOLEAN : denied = budgetDenial(e, req[r].est)
  BY DEF budgetDenial
<1>5. PICK v : v = Verdict(req[r], ~denied, ~denied)
  OBVIOUS
<1>6. req' = [req EXCEPT ![r] = v] /\ req'[r] = v /\ \A x \in Requests \ {r} : req'[x] = req[x]
  BY <1>1, <1>3, <1>4, <1>5 DEF AdmitDecide, TypeOK
<1>7. /\ v.pc = (IF ~denied THEN "run" ELSE "done")
      /\ v.month = req[r].month /\ v.cost = req[r].cost /\ v.est = req[r].est
  BY <1>3, <1>5 DEF Verdict, RequestType
<1>8. Moves(req[r], v, month)
  BY <1>2, <1>7 DEF Moves
<1>9. entry'.reserved = IF denied THEN entry.reserved ELSE entry.reserved \cup {r}
  <2>1. PICK f : f = IF denied THEN e ELSE [e EXCEPT !.reserved = e.reserved \cup {r}]
    OBVIOUS
  <2>2. entry' = f \/ entry' = [f EXCEPT !.loading = TRUE, !.gen = f.gen + 1]
    BY <1>1, <1>4, <2>1 DEF AdmitDecide, startLoadLocked
  <2>3. f \in EntryType \/ f = [e EXCEPT !.reserved = e.reserved \cup {r}]
    BY <1>3, <2>1
  <2>4. f.reserved = IF denied THEN entry.reserved ELSE entry.reserved \cup {r}
    BY <1>3, <2>1 DEF EntryType
  <2>5. f \in EntryType
    BY <1>3, <2>1 DEF EntryType
  <2> QED
    BY <2>2, <2>4, <2>5 DEF EntryType
<1>10. CASE denied
  <2>1. \A x \in Requests : Moves(req[x], req'[x], month)
    BY <1>6, <1>8 DEF Moves
  <2>2. \A x \in entry'.reserved : x \in Requests /\ req[x].pc \in {"run", "stamped"}
    BY <1>3, <1>9, <1>10 DEF BudgetNow, BudgetInv, TypeOK, EntryType
  <2>3. \A x \in entry'.reserved : req'[x].pc \in {"run", "stamped"}
    BY <1>2, <1>6, <2>2
  <2> QED
    BY <1>2, <1>3, <1>9, <1>10, <2>1, <2>3, SameMonth, StepFits
<1>11. CASE ~denied
  <2>1. PICK q, u, m, R, F : q = req /\ u = req' /\ m = month /\ R = entry.reserved /\ F = forgotten
    OBVIOUS
  <2>2. PICK U, V : U = committedLifetime(entry) /\ V = committedMonthly(entry)
    OBVIOUS
  <2>3. MonthlyLimit > 0 => entry.snapMonth = month
    BY <1>1, <1>3 DEF AdmitDecide, Usable
  <2>4. /\ U \in Nat /\ V \in Nat /\ SumFunctionOnSet(CostAt(q), SpentIn(q) \ F) <= U
        /\ MonthlyLimit > 0 => SumFunctionOnSet(CostAt(q), OfMonth(q, m) \ F) <= V
    BY <1>2, <1>3, <2>1, <2>2, <2>3, LifetimeCounted, MonthlyCounted
  <2>5. /\ ~Exceeds(LifetimeLimit, U, SumFunctionOnSet(EstimateAt(q), R), q[r].est)
        /\ ~Exceeds(MonthlyLimit, V, SumFunctionOnSet(EstimateAt(q), R), q[r].est)
    BY <1>3, <1>4, <1>11, <2>1, <2>2 DEF budgetDenial, EstimateOf, EstimateAt
  <2>6. \A x \in Requests : q[x] \in RequestType /\ u[x] \in RequestType
    BY <1>3, <2>1 DEF TypeOK
  <2>7. m \in Months /\ R \in SUBSET Requests /\ F \in SUBSET Requests
    BY <1>3, <2>1 DEF TypeOK, EntryType
  <2>8. /\ Moves(q[r], u[r], m) /\ u[r].pc = "run" /\ u[r].est = q[r].est /\ q[r].pc = "admit"
        /\ (\A x \in Requests \ {r} : u[x] = q[x]) /\ BudgetInv(q, m, R, F)
    BY <1>2, <1>6, <1>7, <1>8, <1>11, <2>1 DEF BudgetNow
  <2>9. BudgetInv(u, m, R \cup {r}, F)
    BY <2>4, <2>5, <2>6, <2>7, <2>8, DecideFits
  <2> QED
    BY <1>2, <1>9, <1>11, <2>1, <2>9 DEF BudgetNext
<1> QED
  BY <1>10, <1>11

\* The other steps of admission.
LEMMA AdmissionStepFits ==
    ASSUME BaseInv, TypeOK', NEW r \in Requests, BudgetNow,
           Start(r) \/ AdmitFull(r) \/ AdmitUnavailable(r) \/ AdmitWait(r) \/ AdmitLoad(r) \/ WaitCanceled(r)
    PROVE  BudgetNext
<1>0. TypeOK /\ entry \in EntryType /\ req[r] \in RequestType /\ month <= month
  BY SameMonth DEF BaseInv, TypeOK
<1>1. ASSUME NEW y, req' = [req EXCEPT ![r] = y],
             /\ req[r].pc \in {"idle", "admit"} /\ y.pc \in {"admit", "wait", "load"}
             /\ y.month = req[r].month /\ y.cost = req[r].cost
             /\ entry'.reserved = entry.reserved /\ forgotten' = forgotten /\ month' = month
      PROVE  BudgetNext
  <2>1. req'[r] = y /\ \A x \in Requests \ {r} : req'[x] = req[x]
    BY <1>0, <1>1 DEF TypeOK
  <2>2. \A x \in Requests : Moves(req[x], req'[x], month)
    BY <1>1, <2>1 DEF Moves
  <2>3. \A x \in entry.reserved : x \in Requests /\ req[x].pc \in {"run", "stamped"}
    BY <1>0 DEF BudgetNow, BudgetInv, TypeOK, EntryType
  <2>4. \A x \in entry'.reserved : req'[x].pc \in {"run", "stamped"}
    BY <1>1, <2>1, <2>3
  <2> QED
    BY <1>0, <1>1, <2>2, <2>4, StepFits
<1>2. PICK e : e = entryLocked
  OBVIOUS
<1>3. e \in EntryType /\ e.reserved = entry.reserved
  BY <1>2, Locked
<1>4. CASE Start(r)
  <2>1. PICK z : req' = [req EXCEPT ![r].pc = "admit", ![r].est = z]
    BY <1>4, Zenon DEF Start
  <2>2. PICK y : y = [req[r] EXCEPT !.pc = "admit", !.est = z]
    OBVIOUS
  <2>3. req' = [req EXCEPT ![r] = y]
    BY <1>0, <2>1, <2>2 DEF TypeOK
  <2>4. y.pc = "admit" /\ y.month = req[r].month /\ y.cost = req[r].cost
    BY <1>0, <2>2 DEF RequestType
  <2>5. req[r].pc = "idle" /\ entry' = entry /\ forgotten' = forgotten /\ month' = month
    BY <1>4, Zenon DEF Start
  <2>6. req[r].pc \in {"idle", "admit"} /\ y.pc \in {"admit", "wait", "load"} /\ entry'.reserved = entry.reserved
    BY <2>4, <2>5
  <2> QED
    BY <1>1, <2>3, <2>4, <2>5, <2>6, Zenon
<1>5. CASE AdmitFull(r) \/ WaitCanceled(r)
  <2>1. RequestsGo /\ entry' = entry /\ forgotten' = forgotten /\ month' = month
    BY <1>5, UnavailableGoes DEF AdmitFull, WaitCanceled
  <2> QED
    BY <1>0, <2>1, GoesFit
<1>6. CASE AdmitUnavailable(r)
  <2>1. RequestsGo /\ entry' = e /\ forgotten' = forgotten /\ month' = month
    BY <1>2, <1>6, UnavailableGoes DEF AdmitUnavailable
  <2> QED
    BY <1>0, <1>3, <2>1, GoesFit
<1>7. CASE AdmitWait(r)
  <2>1. PICK y : y = [req[r] EXCEPT !.pc = "wait"]
    OBVIOUS
  <2>2. req' = [req EXCEPT ![r] = y]
    BY <1>0, <1>7, <2>1 DEF AdmitWait, TypeOK
  <2>3. y.pc = "wait" /\ y.month = req[r].month /\ y.cost = req[r].cost
    BY <1>0, <2>1 DEF RequestType
  <2>4. req[r].pc = "admit" /\ entry' = entry /\ forgotten' = forgotten /\ month' = month
    BY <1>7 DEF AdmitWait
  <2>5. req[r].pc \in {"idle", "admit"} /\ y.pc \in {"admit", "wait", "load"} /\ entry'.reserved = entry.reserved
    BY <2>3, <2>4
  <2> QED
    BY <1>1, <2>2, <2>3, <2>4, <2>5, Zenon
<1>8. CASE AdmitLoad(r)
  <2>1. PICK y : y = [req[r] EXCEPT !.pc = "load"]
    OBVIOUS
  <2>2. req' = [req EXCEPT ![r] = y]
    BY <1>0, <1>8, <2>1 DEF AdmitLoad, TypeOK
  <2>3. y.pc = "load" /\ y.month = req[r].month /\ y.cost = req[r].cost
    BY <1>0, <2>1 DEF RequestType
  <2>4. /\ req[r].pc = "admit" /\ forgotten' = forgotten /\ month' = month
        /\ entry' = [e EXCEPT !.loading = TRUE, !.gen = e.gen + 1]
    BY <1>2, <1>8 DEF AdmitLoad, startLoadLocked
  <2>5. entry'.reserved = entry.reserved
    BY <1>3, <2>4 DEF EntryType
  <2>6. req[r].pc \in {"idle", "admit"} /\ y.pc \in {"admit", "wait", "load"}
    BY <2>3, <2>4
  <2> QED
    BY <1>1, <2>2, <2>3, <2>4, <2>5, <2>6, Zenon
<1> QED
  BY <1>4, <1>5, <1>6, <1>7, <1>8

\* Every step keeps the budgets.
LEMMA NextFits == ASSUME IInv, [Next]_vars, TypeOK', BudgetNow PROVE BudgetNext
<1>1. BaseInv
  BY DEF IInv
<1>2. ASSUME NEW r \in Requests, Start(r) \/ Admit(r) \/ WaitCanceled(r) \/ Finish(r) PROVE BudgetNext
  BY <1>1, <1>2, AdmissionStepFits, DecideKeepsBudgets, OwnStepFits, BeginChargeFits DEF Admit, Finish
<1>3. CASE Load \/ SnapshotAges \/ BackoffOver \/ NextMonth \/ Evict \/ AllDone \/ UNCHANGED vars
  BY <1>1, <1>3, TimeFits DEF AllDone
<1> QED
  BY <1>2, <1>3 DEF Next

\* At the start nothing is spent, reserved or forgotten.
LEMMA BudgetsAtFirst == Init => BudgetNow
<1> SUFFICES ASSUME Init PROVE BudgetInv(req, month, entry.reserved, forgotten)
  BY DEF BudgetNow
<1>1. entry.reserved = {} /\ forgotten = {} /\ month = 0
  BY DEF Init, NoEntry, NewEntry
<1>2. \A r \in Requests : req[r].pc = "idle" /\ req[r].cost = 0 /\ req[r].month = NoMonth
  BY DEF Init
<1>3. \A r \in Requests : Dated(req[r], month)
  BY <1>1, <1>2 DEF Dated, NoMonth
<1>4. SpentIn(req) = {} /\ OfMonth(req, month) = {}
  BY <1>2 DEF SpentIn, OfMonth, Spent
<1>5. ASSUME NEW w PROVE SumFunctionOnSet(w, {}) = 0
  BY SumOfNone
<1>6. LifetimeLimit \in Nat /\ MonthlyLimit \in Nat
  BY BudgetAssumption
<1>7. FitsAll(req, month, entry.reserved, forgotten)
  BY <1>1, <1>4, <1>5, <1>6 DEF FitsAll, Fits
<1> QED
  BY <1>1, <1>3, <1>7 DEF BudgetInv

-----------------------------------------------------------------------------
(* The results.                                                            *)

\* Every step keeps the invariant.
LEMMA StepKeeps == ASSUME BaseInv, [Next]_vars PROVE TypeOK' /\ Keeps
<1>1. TypeOK'
  BY TypeKept DEF BaseInv
<1>2. Keeps
  <2>1. ASSUME NEW r \in Requests, Start(r) \/ Admit(r) \/ WaitCanceled(r) \/ Finish(r) PROVE Keeps
    BY <2>1, AdmissionKeeps, ReleaseKeeps, StampKeeps, BeginChargeKeeps, WritesKeep, FinishKeeps DEF Finish
  <2>2. CASE Load
    BY <2>2, LoadReads, InstallKeeps, LoadFailsKeeps DEF Load
  <2>3. CASE SnapshotAges \/ BackoffOver \/ NextMonth \/ Evict \/ AllDone \/ UNCHANGED vars
    BY <2>3, TimeKeeps, EvictKeeps DEF AllDone
  <2> QED
    BY <2>1, <2>2, <2>3 DEF Next
<1> QED
  BY <1>1, <1>2

\* The ledger at the start.
LEMMA Starts == Init => IInv
<1> SUFFICES ASSUME Init PROVE IInv
  OBVIOUS
<1>1. TypeOK
  <2>1. \A r \in Requests : req[r] \in RequestType
    BY BudgetAssumption DEF Init, RequestType, Months
  <2>2. req \in [Requests -> RequestType]
    BY <2>1 DEF Init
  <2>3. month \in Months /\ ages \in 0..MaxAges
    BY BudgetAssumption DEF Init, Months
  <2>4. entry \in EntryType /\ load \in LoadType
    BY Values DEF Init
  <2> QED
    BY <2>2, <2>3, <2>4 DEF Init, TypeOK
<1>2. EntryOK
  BY DEF Init, EntryOK, NoEntry, NewEntry, NoLoad
<1>3. ASSUME NEW r \in Requests
      PROVE  Pins(r) /\ MayWait(r) /\ RequestOK(r) /\ HoldsReservation(r) /\ Covered(r)
  <2>1. req[r].pc = "idle" /\ req[r].month = NoMonth
    BY DEF Init
  <2> QED
    BY <2>1 DEF Pins, MayWait, RequestOK, HoldsReservation, Covered, Finished
<1>4. ReservationPinsEntry
  BY <1>3 DEF ReservationPinsEntry, Pins
<1> QED
  BY <1>1, <1>2, <1>3, <1>4 DEF IInv, BaseInv

\* The types, the pins and what the store holds, whatever the ledger does when a
\* budget cannot be read.
THEOREM Invariance == Spec => []BaseInv
<1>1. Init => BaseInv
  BY Starts DEF IInv
<1>2. BaseInv /\ [Next]_vars => BaseInv'
  BY StepKeeps DEF BaseInv, Keeps
<1> QED
  BY <1>1, <1>2, PTL DEF Spec

\* The variables keep their types.
THEOREM TypeCorrect == Spec => []TypeOK
<1>1. BaseInv => TypeOK
  BY DEF BaseInv
<1> QED
  BY <1>1, Invariance, PTL

\* "The reservation pins the entry, so it is still in the ledger": whoever runs
\* with a reservation, or writes a tracked charge, finds it in the entry, whatever
\* other scopes evict and whether budgets fail open or not.
THEOREM ReservationsPin == Spec => []ReservationPinsEntry
<1>1. BaseInv => ReservationPinsEntry
  BY DEF BaseInv
<1> QED
  BY <1>1, Invariance, PTL

\* Unless budgets fail open, no charge is ever missed: whatever the order of
\* store writes, reads of loads, generations, evictions and months.
THEOREM ChargesNeverMissed == ASSUME ~FailOpen PROVE Spec => []NeverMissed
<1>1. Init => IInv
  BY Starts
<1>2. IInv /\ [Next]_vars => IInv'
  BY StepKeeps DEF IInv, BaseInv, Keeps
<1>3. IInv => NeverMissed
  BY NothingMissed
<1> QED
  BY <1>1, <1>2, <1>3, PTL DEF Spec

\* "concurrent requests cannot jointly pass a budget that only fits some of them":
\* unless budgets fail open, what was spent and what is reserved fit the lifetime
\* limit and the monthly one, up to what requests cost beyond their estimates and
\* what an eviction forgot, whatever admissions, charges, loads and months interleave to.
THEOREM BudgetsAreRespected == ASSUME ~FailOpen PROVE Spec => []BudgetsRespected
<1>1. Init => IInv /\ BudgetNow
  BY Starts, BudgetsAtFirst
<1>2. IInv /\ BudgetNow /\ [Next]_vars => (IInv /\ BudgetNow)'
  <2> SUFFICES ASSUME IInv, BudgetNow, [Next]_vars PROVE IInv' /\ BudgetNow'
    OBVIOUS
  <2>1. IInv' /\ TypeOK'
    BY StepKeeps DEF IInv, BaseInv, Keeps
  <2>2. BudgetNext
    BY <2>1, NextFits
  <2> QED
    BY <2>1, <2>2 DEF BudgetNow, BudgetNext
<1>3. BudgetNow => BudgetsRespected
  BY Restated DEF BudgetNow, BudgetInv
<1> QED
  BY <1>1, <1>2, <1>3, PTL DEF Spec
=============================================================================
