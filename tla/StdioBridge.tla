---------------------------- MODULE StdioBridge -----------------------------
(***************************************************************************)
(* The bridge to an MCP server that runs as a child process                *)
(* (internal/proxy/stdio.go): one process, started on first use and again  *)
(* after it died, shared by all requests; answers are matched to requests  *)
(* by ids that the bridge hands out, cancellations by the caller's own id. *)
(*                                                                         *)
(* The server may answer late, twice or never, stop reading, close its     *)
(* input and exit at any time; clients leave and Close comes at any time.  *)
(***************************************************************************)
EXTENDS Integers, Sequences, FiniteSets

CONSTANTS
    Threads,        \* requests
    Scopes,         \* key and session of a caller
    ClientIds       \* JSON-RPC ids that clients choose

VARIABLES
    closed, proc,   \* client.closed; client.proc, 0 for none
    procs,          \* every process started so far
    startLock,      \* who starts a process, Nil for nobody
    nextID,
    inflight,       \* <<scope, client id>> -> bridge id, 0 for none
    call,           \* request -> its use of the bridge
    cancels,        \* history: cancellations that a server received
    gone            \* requests whose client left: their contexts have ended

bridgeVars == <<closed, proc, procs, startLock, nextID, inflight, call, cancels>>

Nil == "nil"

\* pending: <<bridge id, request>> of the waiters; seen: <<bridge id, request, key>>
\* of what the server received and may answer.
NewProcess == [killed |-> FALSE, exited |-> FALSE, pending |-> {}, seen |-> {}]

NoCall == [pc |-> "idle", kind |-> Nil, scope |-> <<>>, client |-> Nil, id |-> 0, proc |-> 0, got |-> Nil, ok |-> FALSE]

BridgeInit ==
    /\ closed = FALSE /\ proc = 0 /\ procs = <<>> /\ startLock = Nil /\ nextID = 0
    /\ inflight = [k \in Scopes \X ClientIds |-> 0]
    /\ call = [t \in Threads |-> NoCall]
    /\ cancels = {} /\ gone = {}

\* Call, Notify, InitializeResult and Cancel of a request; a call without a scope
\* is not tracked.
Begin(t, kind, scope, client) ==
    call' = [call EXCEPT ![t] = [NoCall EXCEPT !.pc = IF kind = "cancel" THEN "lookup" ELSE "ensure",
                                               !.kind = kind, !.scope = scope, !.client = client]]

Back(t, ok, got) == [call EXCEPT ![t] = [NoCall EXCEPT !.pc = "back", !.ok = ok, !.got = got]]

Tracked(t) == call[t].kind = "call" /\ call[t].scope # <<>>

Caller(t) == <<call[t].scope, call[t].client>>

\* Mutant: the caller is not part of the key.
inflightKeyShared(t) == <<CHOOSE s \in Scopes : TRUE, call[t].client>>

inflightKey(t) == Caller(t)

hasExited(p) == procs[p].killed \/ procs[p].exited

kill(ps, p) == [ps EXCEPT ![p].killed = TRUE]

forget(ps, p, id) == [ps EXCEPT ![p].pending = {w \in @ : w[1] # id}]

\* Mutant: the end of a call removes whatever is registered under its key.
untrackAny(t) == IF Tracked(t) THEN [inflight EXCEPT ![inflightKey(t)] = 0] ELSE inflight

\* The deferred end of roundTrip.
untrack(t) ==
    IF Tracked(t) /\ inflight[inflightKey(t)] = call[t].id
    THEN [inflight EXCEPT ![inflightKey(t)] = 0] ELSE inflight

-----------------------------------------------------------------------------
(* ensureProcess.                                                          *)

Live == proc # 0 /\ ~hasExited(proc)

\* Where a request goes once it has a process.
Started(t, p) ==
    IF call[t].kind = "init" THEN Back(t, TRUE, Nil)
    ELSE [call EXCEPT ![t].pc = IF call[t].kind = "call" THEN "track" ELSE "write", ![t].proc = p]

\* The lock is taken and the bridge found closed, in use, or without a process.
ensureProcess(t) ==
    /\ call[t].pc = "ensure" /\ startLock = Nil
    /\ \/ closed /\ call' = Back(t, FALSE, Nil) /\ UNCHANGED <<procs, startLock>>
       \/ ~closed /\ Live /\ call' = Started(t, proc) /\ UNCHANGED <<procs, startLock>>
       \/ ~closed /\ ~Live /\ call' = Back(t, FALSE, Nil) /\ UNCHANGED <<procs, startLock>>
       \/ /\ ~closed /\ ~Live /\ procs' = Append(procs, NewProcess) /\ startLock' = t
          /\ call' = [call EXCEPT ![t].pc = "shake", ![t].proc = Len(procs) + 1]
    /\ UNCHANGED <<closed, proc, nextID, inflight, cancels>>

\* The wait for the lock ends without it only when the client is gone.
GiveUpStart(t) ==
    /\ call[t].pc = "ensure" /\ t \in gone
    /\ call' = Back(t, FALSE, Nil)
    /\ UNCHANGED <<closed, proc, procs, startLock, nextID, inflight, cancels>>

\* No answer within callTimeout, or an error; or the pipe breaks, or the client
\* leaves, before the server has taken the initialized line.
handshakeFails(t) ==
    /\ call[t].pc \in {"shake", "greet"}
    /\ procs' = kill(procs, call[t].proc) /\ call' = Back(t, FALSE, Nil) /\ startLock' = Nil
    /\ UNCHANGED <<closed, proc, nextID, inflight, cancels>>

\* The server has answered; the initialized line is written.
initialized(t) ==
    /\ call[t].pc = "shake" /\ call' = [call EXCEPT ![t].pc = "greet"]
    /\ UNCHANGED <<closed, proc, procs, startLock, nextID, inflight, cancels>>

\* Mutant: the process is kept without looking whether the bridge was closed.
handshakeDoneBlind(t) ==
    LET p == call[t].proc IN
    /\ call[t].pc = "greet" /\ startLock' = Nil
    /\ proc' = p /\ call' = Started(t, p)
    /\ UNCHANGED <<closed, procs, nextID, inflight, cancels>>

\* The server has taken that line too, and is perhaps gone since: a bridge closed
\* meanwhile kills it.
handshakeDone(t) ==
    LET p == call[t].proc IN
    /\ call[t].pc = "greet" /\ startLock' = Nil
    /\ IF closed THEN procs' = kill(procs, p) /\ call' = Back(t, FALSE, Nil) /\ UNCHANGED proc
       ELSE proc' = p /\ call' = Started(t, p) /\ UNCHANGED procs
    /\ UNCHANGED <<closed, nextID, inflight, cancels>>

-----------------------------------------------------------------------------
(* roundTrip, Notify and Cancel.                                           *)

\* Mutant: an id is used again once nobody waits for it.
bridgeIDReused(t) ==
    CHOOSE n \in 1..(nextID + 1) : /\ \A p \in DOMAIN procs : \A w \in procs[p].pending : w[1] # n
                                   /\ \A m \in 1..(n - 1) : \E p \in DOMAIN procs : \E w \in procs[p].pending : w[1] = m

bridgeID(t) == nextID + 1

\* The call gets its id; a caller that uses an id again replaces its older call.
track(t) ==
    /\ call[t].pc = "track" /\ nextID' = nextID + 1
    /\ call' = [call EXCEPT ![t].pc = "register", ![t].id = bridgeID(t)]
    /\ inflight' = IF Tracked(t) THEN [inflight EXCEPT ![inflightKey(t)] = bridgeID(t)] ELSE inflight
    /\ UNCHANGED <<closed, proc, procs, startLock, cancels>>

register(t) ==
    LET id == call[t].id  p == call[t].proc IN
    /\ call[t].pc = "register"
    /\ IF procs[p].exited THEN call' = Back(t, FALSE, Nil) /\ inflight' = untrack(t) /\ UNCHANGED procs
       ELSE /\ procs' = [forget(procs, p, id) EXCEPT ![p].pending = @ \cup {<<id, t>>}]
            /\ call' = [call EXCEPT ![t].pc = "write"] /\ UNCHANGED inflight
    /\ UNCHANGED <<closed, proc, startLock, nextID, cancels>>

\* A line that the process takes.
writeLine(t) ==
    LET c == call[t]  p == c.proc IN
    /\ c.pc = "write" /\ ~procs[p].killed
    /\ procs' = IF c.kind = "call" THEN [procs EXCEPT ![p].seen = @ \cup {<<c.id, t, Caller(t)>>}] ELSE procs
    /\ cancels' = IF c.kind = "cancel" THEN cancels \cup {[id |-> c.id, by |-> Caller(t)]} ELSE cancels
    /\ call' = IF c.kind = "call" THEN [call EXCEPT ![t].pc = "wait"] ELSE Back(t, TRUE, Nil)
    /\ UNCHANGED <<closed, proc, startLock, nextID, inflight>>

\* The pipe is broken, or the context ended before the server took the line: of
\* the client, or after callTimeout of a call.
writeFails(t) ==
    /\ call[t].pc = "write"
    /\ procs' = IF call[t].kind = "call" THEN forget(kill(procs, call[t].proc), call[t].proc, call[t].id)
                ELSE kill(procs, call[t].proc)
    /\ inflight' = untrack(t) /\ call' = Back(t, FALSE, Nil)
    /\ UNCHANGED <<closed, proc, startLock, nextID, cancels>>

Cancel(t) ==
    LET id == inflight[inflightKey(t)] IN
    /\ call[t].pc = "lookup"
    /\ call' = IF id = 0 THEN Back(t, FALSE, "none") ELSE [call EXCEPT ![t].pc = "send", ![t].id = id]
    /\ UNCHANGED <<closed, proc, procs, startLock, nextID, inflight, cancels>>

\* The process by now, which may be another than the call's.
CancelSend(t) ==
    /\ call[t].pc = "send"
    /\ call' = IF Live THEN [call EXCEPT ![t].pc = "write", ![t].proc = proc] ELSE Back(t, TRUE, Nil)
    /\ UNCHANGED <<closed, proc, procs, startLock, nextID, inflight, cancels>>

\* A line of the server: the waiter of its id is taken off the list and gets it.
dispatch(p, s) ==
    /\ s \in procs[p].seen /\ ~procs[p].exited
    /\ \E w \in procs[p].pending : w[1] = s[1] /\ call' = [call EXCEPT ![w[2]].got = s[2]]
    /\ procs' = forget(procs, p, s[1])
    /\ UNCHANGED <<closed, proc, startLock, nextID, inflight, cancels>>

answered(t) ==
    /\ call[t].pc = "wait" /\ call[t].got # Nil
    /\ inflight' = untrack(t) /\ call' = Back(t, TRUE, call[t].got)
    /\ UNCHANGED <<closed, proc, procs, startLock, nextID, cancels>>

processGone(t) ==
    /\ call[t].pc = "wait" /\ procs[call[t].proc].exited
    /\ inflight' = untrack(t) /\ call' = Back(t, FALSE, Nil)
    /\ UNCHANGED <<closed, proc, procs, startLock, nextID, cancels>>

\* The call's timeout, or its client is gone; the server is told to stop.
timeout(t) ==
    LET p == call[t].proc IN
    /\ call[t].pc = "wait"
    /\ procs' = forget(procs, p, call[t].id) /\ inflight' = untrack(t) /\ call' = Back(t, FALSE, Nil)
    /\ cancels' = IF procs[p].killed THEN cancels
                  ELSE cancels \cup {[id |-> call[t].id, by |-> Caller(t)]}
    /\ UNCHANGED <<closed, proc, startLock, nextID>>

-----------------------------------------------------------------------------
(* The process, and Close.                                                 *)

\* The server exits, or sends a line that is too long.
exit(p) ==
    /\ ~procs[p].killed
    /\ procs' = kill(procs, p)
    /\ UNCHANGED <<closed, proc, startLock, nextID, inflight, call, cancels>>

readLoopEnds(p) ==
    /\ procs[p].killed /\ ~procs[p].exited
    /\ procs' = [procs EXCEPT ![p].exited = TRUE, ![p].pending = {}]
    /\ UNCHANGED <<closed, proc, startLock, nextID, inflight, call, cancels>>

close ==
    /\ ~closed /\ closed' = TRUE /\ proc' = 0
    /\ procs' = IF proc = 0 THEN procs ELSE kill(procs, proc)
    /\ UNCHANGED <<startLock, nextID, inflight, call, cancels>>

BridgeStep(t) ==
    \/ ensureProcess(t) \/ GiveUpStart(t) \/ handshakeFails(t) \/ initialized(t) \/ handshakeDone(t)
    \/ track(t) \/ register(t) \/ writeLine(t) \/ writeFails(t) \/ Cancel(t) \/ CancelSend(t)
    \/ answered(t) \/ processGone(t) \/ timeout(t)

\* The waits without a deadline of their own, while the client stays: for the lock,
\* and for a live server to take the initialized line, a notification or a
\* cancellation (Notify, Cancel, handshake; only roundTrip sets callTimeout).
Blocked(t) ==
    /\ t \notin gone
    /\ \/ call[t].pc = "ensure" /\ startLock # Nil
       \/ /\ call[t].pc = "greet" \/ (call[t].pc = "write" /\ call[t].kind # "call")
          /\ ~procs[call[t].proc].killed

ServerStep ==
    \/ \E p \in DOMAIN procs : exit(p) \/ readLoopEnds(p) \/ \E s \in procs[p].seen : dispatch(p, s)
    \/ close

-----------------------------------------------------------------------------
(* Properties.                                                             *)

\* An answer reaches the request it answers, and an abandoned request leaves no
\* waiter behind that a late answer could be given to (roundTrip, dispatch).
AnswerIsOwn ==
    /\ \A t \in Threads : call[t].got \in {Nil, "none", t}
    /\ \A p \in DOMAIN procs : \A w \in procs[p].pending :
          call[w[2]].id = w[1] /\ call[w[2]].proc = p /\ call[w[2]].pc \in {"write", "wait"}

\* A call stays what a cancellation finds until it ends or its caller uses the
\* same id again: the end of an older call does not remove it (inflight).
TrackedWhileInFlight ==
    [][\A k \in Scopes \X ClientIds : (inflight[k] # 0 /\ inflight'[k] # inflight[k]) =>
          \/ inflight'[k] > inflight[k]
          \/ \E t \in Threads : call[t].id = inflight[k] /\ call[t].kind = "call" /\ call'[t].pc = "back"]_bridgeVars

\* What a server is told to cancel is a request of the caller who cancels, under
\* the id that the caller gave it, whatever restarted in between (Cancel).
CancelReachesOwn ==
    \A c \in cancels, p \in DOMAIN procs : \A s \in procs[p].seen : s[1] = c.id => s[3] = c.by

\* A process that was not killed is the bridge's own or being started by the
\* holder of the lock; a closed bridge has none (ensureProcess, close).
NoStrayProcess ==
    /\ \A p \in DOMAIN procs : procs[p].killed \/ p = proc \/ (startLock # Nil /\ call[startLock].proc = p)
    /\ closed => proc = 0
=============================================================================
