-------------------------- MODULE McpGatewayProofs --------------------------
(***************************************************************************)
(* TLAPS proofs about McpGateway and the StdioBridge in it, for every set  *)
(* of requests, targets, rules and messages.                               *)
(*                                                                         *)
(* BridgeInv says what a call holds at each point (CallOK), who waits on   *)
(* which process (PendingOK), who may start one (LockOK) and that an id of *)
(* the bridge stands for one id of one caller for ever (OneOwner).         *)
(* GatewayInv says that a message on its way was judged as any server may  *)
(* read it (Passed), and whose token the cache holds (TokensOwn).          *)
(***************************************************************************)
EXTENDS McpGateway, SequenceTheorems, TLAPS

\* The points at which a request holds the lock.
Handshake == {"shake", "greet"}

USE DEF Nil, Handshake

AllCallers == (Scopes \cup {<<>>}) \X (ClientIds \cup {Nil})

Process ==
    [killed : BOOLEAN, exited : BOOLEAN, pending : SUBSET (Nat \X Threads),
     seen : SUBSET (Nat \X Threads \X AllCallers)]

Pcs == {"idle", "ensure", "shake", "greet", "track", "register", "write", "wait", "lookup", "send",
        "back"}

CallRecord ==
    [pc : Pcs, kind : {Nil, "call", "notify", "init", "cancel"},
     scope : Scopes \cup {<<>>}, client : ClientIds \cup {Nil}, id : Nat, proc : Nat,
     got : Threads \cup {Nil, "none"}, ok : BOOLEAN]

Typed ==
    /\ closed \in BOOLEAN /\ proc \in Nat /\ nextID \in Nat
    /\ procs \in Seq(Process)
    /\ startLock \in Threads \cup {Nil}
    /\ inflight \in [Scopes \X ClientIds -> Nat]
    /\ call \in [Threads -> CallRecord]
    /\ cancels \subseteq [id : Nat, by : AllCallers]

\* Where a request stands in the bridge: what it holds at each point.
CallOK(c, n, ps) ==
    /\ c.pc \in {"idle", "back"} => c.kind = Nil
    /\ c.pc \in {"ensure", "shake", "greet"} => c.kind \in {"call", "notify", "init"}
    /\ c.pc \in {"track", "register", "wait"} => c.kind = "call"
    /\ c.pc \in {"lookup", "send"} => c.kind = "cancel"
    /\ c.pc = "write" => c.kind \in {"call", "notify", "cancel"}
    /\ c.pc \in {"idle", "back", "ensure", "shake", "greet", "track", "lookup"} => c.id = 0
    /\ c.pc \in {"register", "wait", "send"} \/ (c.pc = "write" /\ c.kind # "notify") => c.id # 0
    /\ c.id <= n
    /\ c.pc \in {"shake", "greet", "track", "register", "write", "wait"} => c.proc \in DOMAIN ps
    /\ c.kind = "cancel" \/ (c.kind = "call" /\ c.scope # <<>>) =>
          <<c.scope, c.client>> \in Scopes \X ClientIds
    /\ c.pc \notin {"wait", "back"} => c.got = Nil

\* No two calls have one id.
IdsUnique ==
    \A t, u \in Threads :
        call[t].kind = "call" /\ call[u].kind = "call" /\ call[t].id = call[u].id /\ call[t].id # 0
            => t = u

\* What a server received came from the call that has its id, if it still runs.
SeenOK ==
    \A p \in DOMAIN procs : \A s \in procs[p].seen :
        /\ s[1] # 0 /\ s[1] <= nextID
        /\ \A u \in Threads : call[u].kind = "call" /\ call[u].id = s[1] =>
              u = s[2] /\ call[u].pc = "wait"

\* A waiter on the list is a call that waits, and has no answer yet.
PendingOK ==
    \A p \in DOMAIN procs :
        /\ procs[p].exited => procs[p].killed /\ procs[p].pending = {}
        /\ \A w \in procs[p].pending :
              /\ call[w[2]].id = w[1] /\ call[w[2]].proc = p /\ call[w[2]].got = Nil
              /\ call[w[2]].pc \in {"write", "wait"} /\ call[w[2]].kind = "call"

\* The lock is held exactly during a handshake, when the bridge's own process is
\* gone.
LockOK ==
    /\ \A t \in Threads : call[t].pc \in Handshake <=> startLock = t
    /\ proc # 0 => proc \in DOMAIN procs
    /\ startLock # Nil /\ proc # 0 => procs[proc].killed
    /\ NoStrayProcess

\* Whatever relates a bridge id to a caller's own id: a line that a server
\* received, a call, a cancellation on its way, inflight, a cancellation received.
Claim(i, k) ==
    \/ \E p \in DOMAIN procs : \E s \in procs[p].seen : s[1] = i /\ s[3] = k
    \/ \E t \in Threads : call[t].kind \in {"call", "cancel"} /\ call[t].id = i /\ Caller(t) = k
    \/ k \in Scopes \X ClientIds /\ inflight[k] = i
    \/ \E c \in cancels : c.id = i /\ c.by = k

\* An id of the bridge stands for one id of one caller, for ever.
OneOwner ==
    /\ \A k \in Scopes \X ClientIds : inflight[k] <= nextID
    /\ \A c \in cancels : c.id # 0 /\ c.id <= nextID
    /\ \A i \in 1..nextID : \A k, l \in AllCallers : Claim(i, k) /\ Claim(i, l) => k = l

OwnAnswers == \A t \in Threads : call[t].got \in {Nil, "none", t}

BridgeInv ==
    /\ Typed /\ \A t \in Threads : CallOK(call[t], nextID, procs)
    /\ IdsUnique /\ SeenOK /\ PendingOK /\ LockOK /\ OneOwner /\ OwnAnswers

\* What JudgedAsRead says of one call, which has a name.
Judged(target, msg) ==
    /\ Read(msg.params, "name") # {}
    /\ \A name \in Read(msg.params, "name") :
          Evaluate(Targets[target].rules,
                   BuildToolRequest(name, msg.args, Targets[target], httpMethod(target, name), msg.who.role))
    /\ \A i \in DOMAIN msg.args : lookupFolded(msg.args, foldName(msg.args[i][1])) = {msg.args[i][2]}

\* A message that Parse let through has one method, however it is read; a tool
\* call among them was judged for the target it is on its way to.
Passed(th) ==
    /\ stdioScope(th.msg) \in Scopes /\ Get(th.msg.top, "id") \subseteq ClientIds
    /\ Read(th.msg.top, "method") \subseteq {Method(th.msg)}
    /\ th.pc \in {"list", "page", "listed"} => Method(th.msg) = "tools/list"
    /\ th.pc = "exchange" => th.msg.who.token # Empty
    /\ Method(th.msg) = "tools/call" => Judged(th.target, th.msg)

\* A request before and after that, and where it is in the bridge.
ThreadOK(th, c) ==
    /\ DOMAIN th = {"pc", "msg", "target", "page"}
    /\ th.pc \notin {"cancel", "listed", "bridge"} => c.pc = "idle"
    /\ th.pc = "new" => IsMessage(th.msg)
    /\ th.pc \notin {"new", "done"} => Passed(th)

\* A cached token is the one of its key.
TokensOwn ==
    \A e \in tokens : DOMAIN e = {"key", "token", "expired"} /\ e.token = <<"exchanged", e.key[1], e.key[2]>>

\* What JudgedAsRead and CredentialsOwn say of one delivery.
Delivered(r) ==
    /\ "tools/call" \in Read(r.msg.top, "method") => Judged(r.target, r.msg)
    /\ r.bearer \in {<<>>, <<"own", r.msg.who.token>>, <<"exchanged", r.target, r.msg.who.token>>}
    /\ r.bearer # <<>> => r.msg.who.token # Empty
    /\ r.session # Empty => r.target = defaultName

GatewayInv ==
    /\ DOMAIN thread = Threads /\ \A t \in Threads : ThreadOK(thread[t], call[t])
    /\ TokensOwn
    /\ \A r \in reached : Delivered(r)

IInv == BridgeInv /\ GatewayInv

-----------------------------------------------------------------------------
(* The bridge's operators.                                                 *)

\* The members of a process.
LEMMA ProcessFacts ==
    ASSUME NEW ps \in Seq(Process), NEW p \in DOMAIN ps
    PROVE  /\ ps[p] \in Process
           /\ \A w \in ps[p].pending : w[1] \in Nat /\ w[2] \in Threads
           /\ \A s \in ps[p].seen : s[1] \in Nat /\ s[2] \in Threads /\ s[3] \in AllCallers
<1>1. ps[p] \in Process
  OBVIOUS
<1>2. ps[p].pending \subseteq Nat \X Threads /\ ps[p].seen \subseteq Nat \X Threads \X AllCallers
  BY <1>1 DEF Process
<1> QED
  BY <1>1, <1>2

\* Killing a process changes nothing else.
LEMMA KillFacts ==
    ASSUME NEW ps \in Seq(Process), NEW p \in DOMAIN ps
    PROVE  /\ kill(ps, p) \in Seq(Process) /\ DOMAIN kill(ps, p) = DOMAIN ps
           /\ kill(ps, p)[p].killed
           /\ \A q \in DOMAIN ps :
                 /\ q # p => kill(ps, p)[q] = ps[q]
                 /\ kill(ps, p)[q].exited = ps[q].exited
                 /\ kill(ps, p)[q].pending = ps[q].pending
                 /\ kill(ps, p)[q].seen = ps[q].seen
<1>1. ps[p] \in Process
  OBVIOUS
<1>2. [ps[p] EXCEPT !.killed = TRUE] \in Process
  BY <1>1 DEF Process
<1>3. kill(ps, p) = [ps EXCEPT ![p] = [ps[p] EXCEPT !.killed = TRUE]]
  BY DEF kill
<1>4. kill(ps, p) \in Seq(Process) /\ DOMAIN kill(ps, p) = DOMAIN ps
  BY <1>2, <1>3
<1> QED
  BY <1>1, <1>3, <1>4 DEF Process

\* Nor does taking a waiter off the list.
LEMMA ForgetFacts ==
    ASSUME NEW ps \in Seq(Process), NEW p \in DOMAIN ps, NEW id \in Nat
    PROVE  /\ forget(ps, p, id) \in Seq(Process) /\ DOMAIN forget(ps, p, id) = DOMAIN ps
           /\ forget(ps, p, id)[p].pending \subseteq ps[p].pending
           /\ \A q \in DOMAIN ps :
                 /\ q # p => forget(ps, p, id)[q] = ps[q]
                 /\ forget(ps, p, id)[q].exited = ps[q].exited
                 /\ forget(ps, p, id)[q].killed = ps[q].killed
                 /\ forget(ps, p, id)[q].seen = ps[q].seen
<1> DEFINE rest == {w \in ps[p].pending : w[1] # id}
<1>1. ps[p] \in Process
  OBVIOUS
<1>2. [ps[p] EXCEPT !.pending = rest] \in Process
  BY <1>1 DEF Process
<1>3. forget(ps, p, id) = [ps EXCEPT ![p] = [ps[p] EXCEPT !.pending = rest]]
  BY DEF forget
<1>4. forget(ps, p, id) \in Seq(Process) /\ DOMAIN forget(ps, p, id) = DOMAIN ps
  BY <1>2, <1>3
<1> QED
  BY <1>1, <1>3, <1>4 DEF Process

\* It takes it off.
LEMMA ForgetTakes ==
    ASSUME NEW ps \in Seq(Process), NEW p \in DOMAIN ps, NEW id \in Nat
    PROVE  \A w \in forget(ps, p, id)[p].pending : w[1] # id
<1>1. ps[p] \in Process
  OBVIOUS
<1>2. forget(ps, p, id)[p].pending = {w \in ps[p].pending : w[1] # id}
  BY <1>1 DEF forget, Process
<1> QED
  BY <1>2

\* A call that comes back to its request.
LEMMA BackFacts ==
    ASSUME Typed, NEW t \in Threads, NEW ok \in BOOLEAN, NEW got \in Threads \cup {Nil, "none"},
           call' = Back(t, ok, got)
    PROVE  \E c \in CallRecord :
              /\ call' = [call EXCEPT ![t] = c]
              /\ c.pc = "back" /\ c.kind = Nil /\ c.id = 0 /\ c.got = got
<1> DEFINE c == [NoCall EXCEPT !.pc = "back", !.ok = ok, !.got = got]
<1>1. c \in CallRecord
  BY DEF NoCall, CallRecord, Pcs
<1>2. call' = [call EXCEPT ![t] = c] /\ c.pc = "back" /\ c.kind = Nil /\ c.id = 0 /\ c.got = got
  BY DEF Back, NoCall
<1> QED
  BY <1>1, <1>2

\* The end of a call takes at most its own entry out of inflight.
LEMMA UntrackFacts ==
    ASSUME BridgeInv, NEW t \in Threads, inflight' = untrack(t)
    PROVE  /\ inflight' \in [Scopes \X ClientIds -> Nat]
           /\ \A k \in Scopes \X ClientIds : inflight'[k] \in {inflight[k], 0}
           /\ \A k \in Scopes \X ClientIds :
                 inflight'[k] # inflight[k] => Tracked(t) /\ inflight[k] = call[t].id
  BY DEF BridgeInv, Typed, untrack

\* What every step of a request t in the bridge has in common, but the one that
\* hands out an id: c is its record afterwards.
StepOf(t, c) ==
    /\ call' = [call EXCEPT ![t] = c] /\ c \in CallRecord /\ CallOK(c, nextID', procs')
    /\ c.got \in {Nil, "none", t}
    /\ c.kind = "call" /\ c.id # 0 =>
          call[t].kind = "call" /\ c.id = call[t].id /\ (call[t].pc = "wait" => c.pc = "wait")
    /\ c.kind \in {"call", "cancel"} /\ c.id # 0 => Claim(c.id, <<c.scope, c.client>>)

\* What it does to the rest of the bridge.
EffectOf(t, c) ==
    /\ closed' \in BOOLEAN /\ proc' \in Nat /\ startLock' \in Threads \cup {Nil} /\ nextID' = nextID
    /\ procs' \in Seq(Process) /\ DOMAIN procs \subseteq DOMAIN procs'
    /\ inflight' \in [Scopes \X ClientIds -> Nat]
    /\ \A k \in Scopes \X ClientIds : inflight'[k] = inflight[k] \/ inflight'[k] = 0
    /\ \/ cancels' = cancels
       \/ /\ call[t].kind \in {"call", "cancel"} /\ call[t].id # 0
          /\ cancels' = cancels \cup {[id |-> call[t].id, by |-> Caller(t)]}
    /\ \A p \in DOMAIN procs' :
          /\ procs'[p].exited => procs'[p].killed /\ procs'[p].pending = {}
          /\ \A s \in procs'[p].seen :
                \/ p \in DOMAIN procs /\ s \in procs[p].seen
                \/ /\ s = <<call[t].id, t, Caller(t)>> /\ call[t].kind = "call" /\ call[t].id # 0
                   /\ c.pc = "wait" /\ c.id = call[t].id
          /\ \A w \in procs'[p].pending :
                \/ p \in DOMAIN procs /\ w \in procs[p].pending /\ w[2] # t
                \/ w = <<c.id, t>> /\ p = c.proc /\ c.got = Nil /\ c.pc \in {"write", "wait"} /\ c.kind = "call"

\* An id of the bridge keeps its owner when a step adds claims only to a new id,
\* all of one caller.
LEMMA OwnerKept ==
    ASSUME OneOwner, nextID \in Nat, nextID' \in Nat, nextID <= nextID',
           \A k \in Scopes \X ClientIds : inflight'[k] <= nextID',
           \A d \in cancels' : d.id # 0 /\ d.id <= nextID',
           NEW owner,
           \A i \in 1..nextID', k \in AllCallers :
              Claim(i, k)' => (i <= nextID /\ Claim(i, k)) \/ (i > nextID /\ k = owner)
    PROVE  OneOwner'
<1> SUFFICES ASSUME NEW i \in 1..nextID', NEW k \in AllCallers, NEW l \in AllCallers,
                    Claim(i, k)', Claim(i, l)'
             PROVE  k = l
  BY DEF OneOwner
<1>1. CASE i <= nextID
  <2>1. i \in 1..nextID /\ Claim(i, k) /\ Claim(i, l)
    BY <1>1
  <2> QED
    BY <2>1 DEF OneOwner
<1>2. CASE i > nextID
  BY <1>2
<1> QED
  BY <1>1, <1>2

\* A step of a request keeps the invariant, whatever it does to the lock.
LEMMA RequestKeeps ==
    ASSUME BridgeInv, NEW t \in Threads, NEW c, StepOf(t, c), EffectOf(t, c), LockOK'
    PROVE  BridgeInv'
<1>a. Typed /\ IdsUnique /\ SeenOK /\ PendingOK /\ OneOwner /\ OwnAnswers
  BY DEF BridgeInv
<1>b. \A u \in Threads : CallOK(call[u], nextID, procs)
  BY DEF BridgeInv
<1>1. /\ call' \in [Threads -> CallRecord] /\ call'[t] = c
      /\ \A u \in Threads \ {t} : call'[u] = call[u]
  BY <1>a DEF Typed, StepOf
<1>c. /\ nextID' = nextID /\ nextID \in Nat
      /\ DOMAIN procs \subseteq DOMAIN procs' /\ procs' \in Seq(Process) /\ procs \in Seq(Process)
  BY <1>a DEF EffectOf, Typed
<1>d. c.kind = "call" /\ c.id # 0 =>
          call[t].kind = "call" /\ c.id = call[t].id /\ (call[t].pc = "wait" => c.pc = "wait")
  BY DEF StepOf
<1>e. \A p \in DOMAIN procs' : \A s \in procs'[p].seen :
                \/ p \in DOMAIN procs /\ s \in procs[p].seen
                \/ /\ s = <<call[t].id, t, Caller(t)>> /\ call[t].kind = "call" /\ call[t].id # 0
                   /\ c.pc = "wait" /\ c.id = call[t].id
  BY DEF EffectOf
<1>f. /\ Caller(t) \in AllCallers /\ call[t].id \in Nat /\ call[t].id <= nextID
      /\ \A u \in Threads : call[u].id \in Nat
  BY <1>a, <1>b DEF Typed, CallRecord, AllCallers, Caller, CallOK
<1>g. \/ cancels' = cancels
      \/ /\ call[t].kind \in {"call", "cancel"} /\ call[t].id # 0
         /\ cancels' = cancels \cup {[id |-> call[t].id, by |-> Caller(t)]}
  BY DEF EffectOf
<1>2. Typed'
  <2>1. [id |-> call[t].id, by |-> Caller(t)] \in [id : Nat, by : AllCallers]
    BY <1>f
  <2>2. cancels' \subseteq [id : Nat, by : AllCallers]
    BY <1>a, <1>g, <2>1 DEF Typed
  <2> QED
    BY <1>1, <1>c, <2>2 DEF Typed, EffectOf
<1>3. \A u \in Threads : CallOK(call'[u], nextID', procs')
  <2>1. CallOK(call'[t], nextID', procs')
    BY <1>1 DEF StepOf, CallOK
  <2>2. ASSUME NEW u \in Threads \ {t} PROVE CallOK(call'[u], nextID', procs')
    BY <1>1, <1>b, <1>c DEF CallOK
  <2> QED
    BY <2>1, <2>2
<1>4. IdsUnique'
  BY <1>1, <1>a, <1>d DEF IdsUnique
<1>5. SeenOK'
  <2> SUFFICES ASSUME NEW p \in DOMAIN procs', NEW s \in procs'[p].seen
               PROVE  /\ s[1] # 0 /\ s[1] <= nextID'
                      /\ \A u \in Threads : call'[u].kind = "call" /\ call'[u].id = s[1] =>
                            u = s[2] /\ call'[u].pc = "wait"
    BY DEF SeenOK
  <2>1. CASE p \in DOMAIN procs /\ s \in procs[p].seen
    <3>1. /\ s[1] # 0 /\ s[1] <= nextID
          /\ \A u \in Threads : call[u].kind = "call" /\ call[u].id = s[1] =>
                            u = s[2] /\ call[u].pc = "wait"
      BY <2>1, <1>a DEF SeenOK
    <3>2. ASSUME call'[t].kind = "call", call'[t].id = s[1] PROVE t = s[2] /\ call'[t].pc = "wait"
      BY <3>1, <3>2, <1>1, <1>d
    <3> QED
      BY <3>1, <3>2, <1>1, <1>c
  <2>2. CASE /\ s = <<call[t].id, t, Caller(t)>> /\ call[t].kind = "call" /\ call[t].id # 0
             /\ c.pc = "wait" /\ c.id = call[t].id
    <3>1. s[1] = call[t].id /\ s[2] = t
      BY <2>2
    <3>2. \A u \in Threads \ {t} : ~(call[u].kind = "call" /\ call[u].id = s[1])
      BY <3>1, <2>2, <1>a DEF IdsUnique
    <3> QED
      BY <3>1, <3>2, <2>2, <1>1, <1>c, <1>f
  <2> QED
    BY <2>1, <2>2, <1>e
<1>6. PendingOK'
  <2> SUFFICES ASSUME NEW p \in DOMAIN procs'
               PROVE  /\ procs'[p].exited => procs'[p].killed /\ procs'[p].pending = {}
                      /\ \A w \in procs'[p].pending :
                            /\ call'[w[2]].id = w[1] /\ call'[w[2]].proc = p /\ call'[w[2]].got = Nil
                            /\ call'[w[2]].pc \in {"write", "wait"} /\ call'[w[2]].kind = "call"
    BY DEF PendingOK
  <2>1. procs'[p].exited => procs'[p].killed /\ procs'[p].pending = {}
    BY DEF EffectOf
  <2>2. ASSUME NEW w \in procs'[p].pending
        PROVE  /\ call'[w[2]].id = w[1] /\ call'[w[2]].proc = p /\ call'[w[2]].got = Nil
               /\ call'[w[2]].pc \in {"write", "wait"} /\ call'[w[2]].kind = "call"
    <3>1. \/ p \in DOMAIN procs /\ w \in procs[p].pending /\ w[2] # t
          \/ w = <<c.id, t>> /\ p = c.proc /\ c.got = Nil /\ c.pc \in {"write", "wait"} /\ c.kind = "call"
      BY DEF EffectOf
    <3>2. CASE p \in DOMAIN procs /\ w \in procs[p].pending /\ w[2] # t
      <4>1. w[2] \in Threads
        BY <3>2, <1>c, ProcessFacts
      <4>2. call'[w[2]] = call[w[2]]
        BY <4>1, <3>2, <1>1
      <4>3. /\ call[w[2]].id = w[1] /\ call[w[2]].proc = p /\ call[w[2]].got = Nil
            /\ call[w[2]].pc \in {"write", "wait"} /\ call[w[2]].kind = "call"
        <5> HIDE <2>2
        <5> QED
          BY <3>2, <1>a DEF PendingOK
      <4> QED
        BY <4>2, <4>3
    <3>3. CASE w = <<c.id, t>> /\ p = c.proc /\ c.got = Nil /\ c.pc \in {"write", "wait"} /\ c.kind = "call"
      BY <3>3, <1>1
    <3> QED
      BY <3>1, <3>2, <3>3
  <2> QED
    BY <2>1, <2>2
<1>7. OneOwner'
  <2>1. ASSUME NEW i \in 1..nextID, NEW k \in AllCallers, Claim(i, k)' PROVE Claim(i, k)
    <3>0. i # 0
      BY <1>c
    <3>1. CASE \E p \in DOMAIN procs' : \E s \in procs'[p].seen : s[1] = i /\ s[3] = k
      <4>p. PICK p \in DOMAIN procs' : \E s \in procs'[p].seen : s[1] = i /\ s[3] = k
        BY <3>1
      <4>1. PICK s \in procs'[p].seen : s[1] = i /\ s[3] = k
        BY <4>p
      <4>2. CASE p \in DOMAIN procs /\ s \in procs[p].seen
        BY <4>1, <4>2 DEF Claim
      <4>3. CASE s = <<call[t].id, t, Caller(t)>> /\ call[t].kind = "call"
        <5>1. call[t].id = i /\ Caller(t) = k
          BY <4>1, <4>3
        <5> QED
          BY <5>1, <4>3 DEF Claim
      <4> QED
        BY <4>2, <4>3, <1>e
    <3>2. CASE \E u \in Threads : /\ call'[u].kind \in {"call", "cancel"} /\ call'[u].id = i
                                  /\ <<call'[u].scope, call'[u].client>> = k
      <4>1. PICK u \in Threads : /\ call'[u].kind \in {"call", "cancel"} /\ call'[u].id = i
                                  /\ <<call'[u].scope, call'[u].client>> = k
        BY <3>2
      <4>2. CASE u = t
        BY <3>0, <4>1, <4>2, <1>1 DEF StepOf
      <4>3. CASE u # t
        <5>1. call[u].kind \in {"call", "cancel"} /\ call[u].id = i /\ Caller(u) = k
          BY <4>1, <4>3, <1>1 DEF Caller
        <5> QED
          BY <5>1 DEF Claim
      <4> QED
        BY <4>2, <4>3
    <3>3. CASE k \in Scopes \X ClientIds /\ inflight'[k] = i
      <4>1. inflight[k] = i
        BY <3>3, <3>0 DEF EffectOf
      <4> QED
        BY <4>1, <3>3 DEF Claim
    <3>4. CASE \E d \in cancels' : d.id = i /\ d.by = k
      <4>1. PICK d \in cancels' : d.id = i /\ d.by = k
        BY <3>4
      <4>2. CASE d \in cancels
        BY <4>1, <4>2 DEF Claim
      <4>3. CASE d = [id |-> call[t].id, by |-> Caller(t)] /\ call[t].kind \in {"call", "cancel"}
        <5>1. call[t].id = i /\ Caller(t) = k
          BY <4>1, <4>3
        <5> QED
          BY <5>1, <4>3 DEF Claim
      <4> QED
        BY <4>2, <4>3, <1>g
    <3> QED
      BY <2>1, <3>1, <3>2, <3>3, <3>4 DEF Claim, Caller
  <2>2. \A k \in Scopes \X ClientIds : inflight'[k] <= nextID'
    <3>1. \A k \in Scopes \X ClientIds : inflight[k] <= nextID
      BY <1>a DEF OneOwner
    <3>2. \A k \in Scopes \X ClientIds : inflight'[k] = inflight[k] \/ inflight'[k] = 0
      BY DEF EffectOf
    <3> QED
      BY <3>1, <3>2, <1>c
  <2>3. \A d \in cancels' : d.id # 0 /\ d.id <= nextID'
    <3>1. \A d \in cancels : d.id # 0 /\ d.id <= nextID
      BY <1>a DEF OneOwner
    <3> QED
      BY <3>1, <1>c, <1>f, <1>g
  <2>4. \A i \in 1..nextID', k \in AllCallers :
              Claim(i, k)' => (i <= nextID /\ Claim(i, k)) \/ (i > nextID /\ k = <<>>)
    BY <2>1, <1>c
  <2> QED
    BY <2>2, <2>3, <2>4, <1>a, <1>c, OwnerKept
<1>8. OwnAnswers'
  BY <1>a, <1>1 DEF OwnAnswers, StepOf
<1> QED
  BY <1>2, <1>3, <1>4, <1>5, <1>6, <1>7, <1>8 DEF BridgeInv

\* A waiter of request t is the one of its call.
LEMMA WaitersOf ==
    ASSUME BridgeInv, NEW t \in Threads, NEW p \in DOMAIN procs, NEW w \in procs[p].pending, w[2] = t
    PROVE  /\ w[1] = call[t].id /\ p = call[t].proc /\ call[t].kind = "call" /\ call[t].got = Nil
           /\ call[t].pc \in {"write", "wait"} /\ ~procs[p].exited
<1>1. PendingOK
  BY DEF BridgeInv
<1>2. ~procs[p].exited
  BY <1>1 DEF PendingOK
<1>3. /\ call[w[2]].id = w[1] /\ call[w[2]].proc = p /\ call[w[2]].got = Nil
      /\ call[w[2]].pc \in {"write", "wait"} /\ call[w[2]].kind = "call"
  <2> HIDE <1>2
  <2> QED
    BY <1>1 DEF PendingOK
<1> QED
  BY <1>2, <1>3

\* A request without an id of the bridge, outside of it.
LEMMA AtRest ==
    ASSUME nextID' \in Nat, NEW c \in CallRecord, c.kind = Nil, c.id = 0,
           c.pc = "back" \/ (c.pc = "idle" /\ c.got = Nil)
    PROVE  CallOK(c, nextID', procs')
<1>1. c.id <= nextID'
  OBVIOUS
<1>2. c.pc \notin {"ensure", "shake", "greet", "track", "register", "wait", "lookup", "send", "write"}
  OBVIOUS
<1>3. c.pc \notin {"wait", "back"} => c.got = Nil
  OBVIOUS
<1> QED
  BY <1>1, <1>2, <1>3 DEF CallOK

\* A request with a process and no id yet.
LEMMA Placed ==
    ASSUME NEW c, c.id = 0, c.id <= nextID', c.got = Nil, c.proc \in DOMAIN procs',
           \/ c.pc \in Handshake /\ c.kind \in {"call", "notify", "init"}
           \/ c.pc = "track" /\ c.kind = "call"
           \/ c.pc = "write" /\ c.kind = "notify",
           c.kind = "cancel" \/ (c.kind = "call" /\ c.scope # <<>>) =>
              <<c.scope, c.client>> \in Scopes \X ClientIds
    PROVE  CallOK(c, nextID', procs')
<1>1. CASE c.pc \in Handshake /\ c.kind \in {"call", "notify", "init"}
  BY <1>1 DEF CallOK
<1>2. CASE c.pc = "track" /\ c.kind = "call"
  BY <1>2 DEF CallOK
<1>3. CASE c.pc = "write" /\ c.kind = "notify"
  BY <1>3 DEF CallOK
<1> QED
  BY <1>1, <1>2, <1>3

\* A step that ends the use of the bridge.
LEMMA BackStepOf ==
    ASSUME BridgeInv, NEW t \in Threads, NEW ok \in BOOLEAN, NEW got \in {Nil, "none", t},
           call' = Back(t, ok, got), nextID' = nextID
    PROVE  \E c : StepOf(t, c) /\ c.pc = "back" /\ c.id = 0 /\ c.kind = Nil
<1>1. Typed /\ nextID \in Nat
  BY DEF BridgeInv, Typed
<1>2. PICK c \in CallRecord : /\ call' = [call EXCEPT ![t] = c]
                              /\ c.pc = "back" /\ c.kind = Nil /\ c.id = 0 /\ c.got = got
  <2>1. got \in Threads \cup {Nil, "none"}
    OBVIOUS
  <2> QED
    BY <1>1, <2>1, BackFacts
<1>3. nextID' \in Nat
  BY <1>1
<1>4. CallOK(c, nextID', procs')
  BY <1>2, <1>3, AtRest
<1> QED
  BY <1>2, <1>4 DEF StepOf

\* The processes of one state are those of another, killed perhaps, and with
\* fewer waiters.
Fewer(ps, qs) ==
    /\ qs \in Seq(Process) /\ DOMAIN qs = DOMAIN ps
    /\ \A p \in DOMAIN ps :
          /\ qs[p].exited = ps[p].exited /\ (ps[p].killed => qs[p].killed)
          /\ qs[p].seen = ps[p].seen /\ qs[p].pending \subseteq ps[p].pending

\* What most steps of a request do to the bridge.
LEMMA CallerEffect ==
    ASSUME BridgeInv, NEW t \in Threads, NEW c,
           closed' \in BOOLEAN, proc' \in Nat, startLock' \in Threads \cup {Nil}, nextID' = nextID,
           inflight' = inflight \/ inflight' = untrack(t),
           \/ cancels' = cancels
           \/ /\ call[t].kind \in {"call", "cancel"} /\ call[t].id # 0
              /\ cancels' = cancels \cup {[id |-> call[t].id, by |-> Caller(t)]},
           Fewer(procs, procs'),
           \A p \in DOMAIN procs : \A w \in procs'[p].pending :
              \/ w[2] # t
              \/ w = <<c.id, t>> /\ p = c.proc /\ c.got = Nil /\ c.pc \in {"write", "wait"} /\ c.kind = "call"
    PROVE  EffectOf(t, c)
<1>1. /\ inflight' \in [Scopes \X ClientIds -> Nat]
      /\ \A k \in Scopes \X ClientIds : inflight'[k] = inflight[k] \/ inflight'[k] = 0
  <2>1. inflight \in [Scopes \X ClientIds -> Nat]
    BY DEF BridgeInv, Typed
  <2> QED
    BY <2>1, UntrackFacts
<1>2. PendingOK
  BY DEF BridgeInv
<1>3. ASSUME NEW p \in DOMAIN procs'
      PROVE  /\ procs'[p].exited => procs'[p].killed /\ procs'[p].pending = {}
             /\ \A s \in procs'[p].seen : p \in DOMAIN procs /\ s \in procs[p].seen
             /\ \A w \in procs'[p].pending :
                \/ p \in DOMAIN procs /\ w \in procs[p].pending /\ w[2] # t
                \/ w = <<c.id, t>> /\ p = c.proc /\ c.got = Nil /\ c.pc \in {"write", "wait"} /\ c.kind = "call"
  <2>1. /\ p \in DOMAIN procs /\ procs'[p].exited = procs[p].exited /\ (procs[p].killed => procs'[p].killed)
        /\ procs'[p].seen = procs[p].seen /\ procs'[p].pending \subseteq procs[p].pending
    BY DEF Fewer
  <2>2. procs[p].exited => procs[p].killed /\ procs[p].pending = {}
    BY <1>2, <2>1 DEF PendingOK
  <2> QED
    BY <2>1, <2>2
<1>4. procs' \in Seq(Process) /\ DOMAIN procs \subseteq DOMAIN procs'
  BY DEF Fewer
<1> QED
  BY <1>1, <1>3, <1>4 DEF EffectOf

\* A request that does not start a process leaves the lock and what it protects.
LEMMA LockKept ==
    ASSUME BridgeInv, NEW t \in Threads, NEW c,
           call' = [call EXCEPT ![t] = c], call[t].pc \notin Handshake, c.pc \notin Handshake,
           closed' = closed, proc' = proc, startLock' = startLock,
           DOMAIN procs' = DOMAIN procs, \A p \in DOMAIN procs : procs[p].killed => procs'[p].killed
    PROVE  LockOK'
<1>1. LockOK /\ call \in [Threads -> CallRecord] /\ proc \in Nat /\ startLock \in Threads \cup {Nil}
  BY DEF BridgeInv, Typed
<1>2. call'[t] = c /\ \A u \in Threads \ {t} : call'[u] = call[u]
  BY <1>1
<1>3. startLock # t
  BY <1>1 DEF LockOK
<1>4. startLock # Nil => call'[startLock] = call[startLock]
  BY <1>1, <1>2, <1>3
<1>5. \A u \in Threads : call'[u].pc \in Handshake <=> startLock' = u
  BY <1>1, <1>2, <1>3 DEF LockOK
<1>6. NoStrayProcess'
  BY <1>1, <1>4 DEF LockOK, NoStrayProcess
<1> QED
  BY <1>1, <1>5, <1>6 DEF LockOK

\* Processes that are left alone.
LEMMA FewerSame ==
    ASSUME BridgeInv PROVE Fewer(procs, procs)
<1>1. procs \in Seq(Process)
  BY DEF BridgeInv, Typed
<1> QED
  BY <1>1 DEF Fewer

\* A process that is killed.
LEMMA FewerKill ==
    ASSUME NEW ps \in Seq(Process), NEW p \in DOMAIN ps PROVE Fewer(ps, kill(ps, p))
<1>1. \A q \in DOMAIN ps : q # p => kill(ps, p)[q] = ps[q]
  BY KillFacts
<1>2. kill(ps, p)[p].killed
  BY KillFacts
<1> QED
  BY <1>1, <1>2, KillFacts DEF Fewer

\* A waiter that is taken off its list.
LEMMA FewerForget ==
    ASSUME NEW ps \in Seq(Process), NEW p \in DOMAIN ps, NEW id \in Nat PROVE Fewer(ps, forget(ps, p, id))
<1> DEFINE rest == {w \in ps[p].pending : w[1] # id}
<1>1. ps[p] \in Process
  OBVIOUS
<1>2. [ps[p] EXCEPT !.pending = rest] \in Process
  BY <1>1 DEF Process
<1>3. forget(ps, p, id) = [ps EXCEPT ![p] = [ps[p] EXCEPT !.pending = rest]]
  BY DEF forget
<1>4. rest \subseteq ps[p].pending
  OBVIOUS
<1> HIDE DEF rest
<1>5. forget(ps, p, id) \in Seq(Process) /\ DOMAIN forget(ps, p, id) = DOMAIN ps
  BY <1>2, <1>3
<1> QED
  BY <1>1, <1>3, <1>4, <1>5 DEF Process, Fewer

-----------------------------------------------------------------------------
(* The steps of the bridge keep its invariant.                             *)

\* Starting a process: the lock is free, or given up, or taken.
LEMMA EnsureKeeps ==
    ASSUME BridgeInv, NEW t \in Threads, ensureProcess(t) \/ GiveUpStart(t)
    PROVE  BridgeInv'
<1>1. /\ Typed /\ LockOK /\ call[t] \in CallRecord /\ CallOK(call[t], nextID, procs) /\ call[t].pc = "ensure"
      /\ procs \in Seq(Process) /\ proc \in Nat /\ nextID \in Nat /\ call \in [Threads -> CallRecord]
      /\ PendingOK
  BY DEF BridgeInv, Typed, ensureProcess, GiveUpStart
<1>2. UNCHANGED <<closed, proc, nextID, inflight, cancels>>
  BY DEF ensureProcess, GiveUpStart
<1>3. closed \in BOOLEAN /\ startLock \in Threads \cup {Nil}
  BY <1>1 DEF Typed
<1>4. \A p \in DOMAIN procs : \A w \in procs[p].pending : w[2] # t
  BY <1>1, WaitersOf
<1>5. CASE UNCHANGED <<procs, startLock>> /\ \E ok \in BOOLEAN : call' = Back(t, ok, Nil)
  <2>1. PICK c : StepOf(t, c) /\ c.pc = "back" /\ c.id = 0 /\ c.kind = Nil
    BY <1>5, <1>2, BackStepOf
  <2>2. EffectOf(t, c)
    BY <1>1, <1>2, <1>3, <1>4, <1>5, FewerSame, CallerEffect
  <2>3. LockOK'
    BY <1>1, <1>2, <1>5, <2>1, LockKept DEF StepOf
  <2> QED
    BY <2>1, <2>2, <2>3, RequestKeeps
<1>6. CASE UNCHANGED <<procs, startLock>> /\ Live /\ call[t].kind # "init" /\ call' = Started(t, proc)
  <2> DEFINE pc == IF call[t].kind = "call" THEN "track" ELSE "write"
             c == [call[t] EXCEPT !.pc = pc, !.proc = proc]
  <2>1. /\ call' = [call EXCEPT ![t] = c] /\ c \in CallRecord
        /\ c.pc = pc /\ c.kind = call[t].kind /\ c.id = 0 /\ c.proc = proc /\ c.got = Nil
        /\ c.scope = call[t].scope /\ c.client = call[t].client
        /\ call[t].kind \in {"call", "notify"}
    BY <1>1, <1>6 DEF Started, CallRecord, Pcs, CallOK
  <2>2. proc \in DOMAIN procs
    BY <1>1, <1>6 DEF Live, LockOK
  <2>3. CallOK(c, nextID', procs')
    <3>1. c.id <= nextID'
      BY <2>1, <1>1, <1>2
    <3> QED
      BY <2>1, <2>2, <3>1, <1>1, <1>2, <1>6 DEF CallOK
  <2> HIDE DEF c
  <2>4. StepOf(t, c)
    BY <2>1, <2>3 DEF StepOf
  <2>5. EffectOf(t, c)
    BY <1>1, <1>2, <1>3, <1>4, <1>6, FewerSame, CallerEffect
  <2>6. LockOK'
    BY <1>1, <1>2, <1>6, <2>1, LockKept
  <2> QED
    BY <2>4, <2>5, <2>6, RequestKeeps
<1>7. CASE /\ ~closed /\ ~Live /\ procs' = Append(procs, NewProcess) /\ startLock = Nil /\ startLock' = t
           /\ call' = [call EXCEPT ![t].pc = "shake", ![t].proc = Len(procs) + 1]
  <2> DEFINE n == Len(procs) + 1
             c == [call[t] EXCEPT !.pc = "shake", !.proc = n]
  <2>1. /\ n \in Nat /\ n \notin DOMAIN procs /\ NewProcess \in Process
    BY <1>1 DEF NewProcess, Process
  <2>2. /\ procs' \in Seq(Process) /\ DOMAIN procs' = DOMAIN procs \cup {n} /\ procs'[n] = NewProcess
        /\ \A p \in DOMAIN procs : procs'[p] = procs[p]
    BY <1>1, <1>7, <2>1
  <2>3. /\ call' = [call EXCEPT ![t] = c] /\ c \in CallRecord
        /\ c.pc = "shake" /\ c.kind = call[t].kind /\ c.id = 0 /\ c.proc = n /\ c.got = Nil
        /\ c.scope = call[t].scope /\ c.client = call[t].client
        /\ call[t].kind \in {"call", "notify", "init"}
    BY <1>1, <1>7, <2>1 DEF CallRecord, Pcs, CallOK
  <2> HIDE DEF n, c
  <2>4. CallOK(c, nextID', procs')
    <3>1. c.id <= nextID'
      BY <2>3, <1>1, <1>2
    <3>2. c.proc \in DOMAIN procs'
      BY <2>2, <2>3
    <3>3. c.kind = "cancel" \/ (c.kind = "call" /\ c.scope # <<>>) =>
            <<c.scope, c.client>> \in Scopes \X ClientIds
      BY <2>3, <1>1 DEF CallOK
    <3> QED
      BY <2>3, <3>1, <3>2, <3>3, Placed
  <2>5. StepOf(t, c)
    BY <2>3, <2>4 DEF StepOf
  <2>6. EffectOf(t, c)
    <3>1. ASSUME NEW p \in DOMAIN procs'
          PROVE  /\ procs'[p].exited => procs'[p].killed /\ procs'[p].pending = {}
                 /\ \A s \in procs'[p].seen : p \in DOMAIN procs /\ s \in procs[p].seen
                 /\ \A w \in procs'[p].pending : p \in DOMAIN procs /\ w \in procs[p].pending /\ w[2] # t
      <4>1. CASE p = n
        BY <2>2, <4>1 DEF NewProcess
      <4>2. CASE p \in DOMAIN procs
        BY <1>1, <1>4, <2>2, <4>2 DEF PendingOK
      <4> QED
        BY <4>1, <4>2, <2>2
    <3>2. /\ inflight' \in [Scopes \X ClientIds -> Nat]
          /\ \A k \in Scopes \X ClientIds : inflight'[k] = inflight[k]
      BY <1>1, <1>2 DEF Typed
    <3> QED
      BY <3>1, <3>2, <2>2, <1>1, <1>2, <1>3, <1>7 DEF EffectOf
  <2>7. LockOK'
    <3>1. call'[t] = c /\ \A u \in Threads \ {t} : call'[u] = call[u]
      BY <1>1, <2>3
    <3>2. \A u \in Threads : call'[u].pc \in Handshake <=> startLock' = u
      BY <3>1, <2>3, <1>1, <1>7, MessagesAssumption DEF LockOK
    <3>3. proc' # 0 => proc' \in DOMAIN procs' /\ procs'[proc'].killed
      <4>1. proc # 0 => proc \in DOMAIN procs /\ (procs[proc].killed \/ procs[proc].exited)
        BY <1>1, <1>7 DEF LockOK, Live, hasExited
      <4> QED
        BY <4>1, <1>1, <1>2, <2>2 DEF PendingOK
    <3>4. NoStrayProcess'
      <4>1. \A p \in DOMAIN procs : procs[p].killed \/ p = proc
        BY <1>1, <1>7 DEF LockOK, NoStrayProcess
      <4>2. startLock' # Nil /\ call'[startLock'].proc = n
        BY <3>1, <2>3, <1>7, MessagesAssumption
      <4> QED
        BY <4>1, <4>2, <1>2, <1>7, <2>2 DEF NoStrayProcess
    <3> QED
      BY <3>2, <3>3, <3>4 DEF LockOK
  <2> QED
    BY <2>5, <2>6, <2>7, RequestKeeps
<1>8. Live /\ call[t].kind = "init" /\ call' = Started(t, proc) => call' = Back(t, TRUE, Nil)
  BY DEF Started
<1> QED
  BY <1>5, <1>6, <1>7, <1>8 DEF ensureProcess, GiveUpStart

\* The holder of the lock lets it go, and its process with it or to the bridge.
LEMMA HandshakeKeeps ==
    ASSUME BridgeInv, NEW t \in Threads, handshakeFails(t) \/ handshakeDone(t)
    PROVE  BridgeInv'
<1>1. /\ Typed /\ LockOK /\ call[t] \in CallRecord /\ CallOK(call[t], nextID, procs) /\ call[t].pc \in Handshake
      /\ procs \in Seq(Process) /\ proc \in Nat /\ nextID \in Nat /\ call \in [Threads -> CallRecord]
      /\ PendingOK /\ startLock' = Nil
  BY DEF BridgeInv, Typed, handshakeFails, handshakeDone
<1>2. UNCHANGED <<closed, nextID, inflight, cancels>>
  BY DEF handshakeFails, handshakeDone
<1>3. closed \in BOOLEAN /\ startLock = t /\ startLock # Nil
  BY <1>1, MessagesAssumption DEF Typed, LockOK
<1>4. \A p \in DOMAIN procs : \A w \in procs[p].pending : w[2] # t
  BY <1>1, WaitersOf
<1> DEFINE p == call[t].proc
<1>5. p \in DOMAIN procs /\ p \in Nat
  BY <1>1 DEF CallOK, CallRecord
<1>6. \A q \in DOMAIN procs : procs[q].killed \/ q = proc \/ q = p
  BY <1>1, <1>3 DEF LockOK, NoStrayProcess
<1>7. proc # 0 => proc \in DOMAIN procs /\ procs[proc].killed
  BY <1>1, <1>3 DEF LockOK
<1>8. closed => proc = 0
  BY <1>1 DEF LockOK, NoStrayProcess
<1>9. ASSUME NEW c, call' = [call EXCEPT ![t] = c], c.pc \notin Handshake
      PROVE  \A u \in Threads : call'[u].pc \in Handshake <=> startLock' = u
  BY <1>1, <1>3, <1>9, MessagesAssumption DEF LockOK
<1> HIDE DEF p
<1>10. CASE procs' = kill(procs, p) /\ proc' = proc /\ call' = Back(t, FALSE, Nil)
  <2>1. PICK c : StepOf(t, c) /\ c.pc = "back" /\ c.id = 0 /\ c.kind = Nil
    BY <1>10, <1>2, BackStepOf
  <2>2. Fewer(procs, procs')
    BY <1>1, <1>5, <1>10, FewerKill
  <2>3. \A q \in DOMAIN procs : \A w \in procs'[q].pending : w[2] # t
    BY <2>2, <1>4 DEF Fewer
  <2>4. EffectOf(t, c)
    BY <1>1, <1>2, <1>3, <2>2, <2>3, <1>10, CallerEffect
  <2>5. LockOK'
    <3>1. procs'[p].killed /\ DOMAIN procs' = DOMAIN procs /\ \A q \in DOMAIN procs : procs[q].killed => procs'[q].killed
      BY <1>1, <1>5, <1>10, <2>2, KillFacts DEF Fewer
    <3>2. NoStrayProcess'
      BY <3>1, <1>2, <1>6, <1>8, <1>10 DEF NoStrayProcess
    <3>3. proc' # 0 => proc' \in DOMAIN procs'
      BY <3>1, <1>7, <1>10
    <3>4. \A u \in Threads : call'[u].pc \in Handshake <=> startLock' = u
      BY <2>1, <1>9 DEF StepOf
    <3> QED
      BY <3>2, <3>3, <3>4, <1>1 DEF LockOK
  <2> QED
    BY <2>1, <2>4, <2>5, RequestKeeps
<1>11. ASSUME ~closed, proc' = p, UNCHANGED procs, NEW c, StepOf(t, c), c.pc \notin Handshake
       PROVE  BridgeInv'
  <2>1. EffectOf(t, c)
    BY <1>1, <1>2, <1>3, <1>4, <1>5, <1>11, FewerSame, CallerEffect
  <2>2. LockOK'
    <3>1. NoStrayProcess'
      <4>1. \A q \in DOMAIN procs' : procs'[q].killed \/ q = proc'
        BY <1>1, <1>6, <1>7, <1>11
      <4> QED
        BY <4>1, <1>2, <1>11 DEF NoStrayProcess
    <3>2. \A u \in Threads : call'[u].pc \in Handshake <=> startLock' = u
      BY <1>11, <1>9 DEF StepOf
    <3> QED
      BY <3>1, <3>2, <1>1, <1>5, <1>11 DEF LockOK
  <2> QED
    BY <1>11, <2>1, <2>2, RequestKeeps
<1>12. CASE ~closed /\ proc' = p /\ UNCHANGED procs /\ call[t].kind = "init" /\ call' = Back(t, TRUE, Nil)
  <2>1. PICK c : StepOf(t, c) /\ c.pc = "back" /\ c.id = 0 /\ c.kind = Nil
    BY <1>12, <1>2, BackStepOf
  <2> QED
    BY <2>1, <1>11, <1>12
<1>13. CASE /\ ~closed /\ proc' = p /\ UNCHANGED procs /\ call[t].kind # "init"
            /\ call' = [call EXCEPT ![t].pc = IF call[t].kind = "call" THEN "track" ELSE "write", ![t].proc = p]
  <2> DEFINE pc == IF call[t].kind = "call" THEN "track" ELSE "write"
             c == [call[t] EXCEPT !.pc = pc, !.proc = p]
  <2>1. /\ call' = [call EXCEPT ![t] = c] /\ c \in CallRecord
        /\ c.pc = pc /\ c.kind = call[t].kind /\ c.id = 0 /\ c.proc = p /\ c.got = Nil
        /\ c.scope = call[t].scope /\ c.client = call[t].client
        /\ call[t].kind \in {"call", "notify"}
    BY <1>1, <1>5, <1>13 DEF CallRecord, Pcs, CallOK
  <2>2. CallOK(c, nextID', procs')
    <3>1. c.id <= nextID'
      BY <2>1, <1>1, <1>2
    <3>2. c.kind = "cancel" \/ (c.kind = "call" /\ c.scope # <<>>) =>
            <<c.scope, c.client>> \in Scopes \X ClientIds
      BY <2>1, <1>1 DEF CallOK
    <3>3. (c.pc = "track" /\ c.kind = "call") \/ (c.pc = "write" /\ c.kind = "notify")
      BY <2>1
    <3>4. c.proc \in DOMAIN procs'
      BY <2>1, <1>5, <1>13
    <3> HIDE DEF c
    <3> QED
      BY <2>1, <3>1, <3>2, <3>3, <3>4, Placed
  <2> HIDE DEF c
  <2>3. StepOf(t, c) /\ c.pc \notin Handshake
    BY <2>1, <2>2 DEF StepOf
  <2> QED
    BY <2>3, <1>11, <1>13
<1> QED
  BY <1>10, <1>12, <1>13 DEF handshakeFails, handshakeDone, Started, p

\* The holder of the lock goes on to the second line of the handshake.
LEMMA InitializedKeeps ==
    ASSUME BridgeInv, NEW t \in Threads, initialized(t)
    PROVE  BridgeInv'
<1> DEFINE c == [call[t] EXCEPT !.pc = "greet"]
<1>1. /\ Typed /\ LockOK /\ call[t] \in CallRecord /\ CallOK(call[t], nextID, procs) /\ call[t].pc = "shake"
      /\ call' = [call EXCEPT ![t] = c] /\ UNCHANGED <<closed, proc, procs, startLock, nextID, inflight, cancels>>
      /\ procs \in Seq(Process) /\ nextID \in Nat /\ call \in [Threads -> CallRecord]
      /\ closed \in BOOLEAN /\ proc \in Nat /\ startLock \in Threads \cup {Nil} /\ PendingOK
  BY DEF BridgeInv, Typed, initialized
<1>2. /\ c \in CallRecord /\ c.pc = "greet" /\ c.kind = call[t].kind /\ c.id = 0 /\ c.proc = call[t].proc
      /\ c.got = Nil /\ c.scope = call[t].scope /\ c.client = call[t].client
  BY <1>1 DEF CallRecord, Pcs, CallOK
<1> HIDE DEF c
<1>3. CallOK(c, nextID', procs')
  BY <1>1, <1>2 DEF CallOK
<1>4. StepOf(t, c)
  BY <1>1, <1>2, <1>3 DEF StepOf
<1>5. \A p \in DOMAIN procs : \A w \in procs[p].pending : w[2] # t
  BY <1>1, WaitersOf
<1>6. EffectOf(t, c)
  BY <1>1, <1>5, FewerSame, CallerEffect
<1>7. LockOK'
  <2>1. call'[t] = c /\ \A u \in Threads \ {t} : call'[u] = call[u]
    BY <1>1
  <2>2. \A u \in Threads : call'[u].pc \in Handshake <=> startLock' = u
    BY <1>1, <1>2, <2>1 DEF LockOK
  <2>3. \A u \in Threads : call'[u].proc = call[u].proc
    BY <1>2, <2>1
  <2>4. NoStrayProcess'
    BY <1>1, <2>3 DEF LockOK, NoStrayProcess
  <2> QED
    BY <1>1, <2>2, <2>4 DEF LockOK
<1> QED
  BY <1>4, <1>6, <1>7, RequestKeeps

\* A step that ends the use of the bridge outside of a handshake.
LEMMA EndKeeps ==
    ASSUME BridgeInv, NEW t \in Threads, NEW ok \in BOOLEAN, NEW got \in {Nil, "none", t},
           call' = Back(t, ok, got), call[t].pc \notin Handshake,
           UNCHANGED <<closed, proc, startLock, nextID>>,
           inflight' = inflight \/ inflight' = untrack(t),
           \/ cancels' = cancels
           \/ /\ call[t].kind \in {"call", "cancel"} /\ call[t].id # 0
              /\ cancels' = cancels \cup {[id |-> call[t].id, by |-> Caller(t)]},
           Fewer(procs, procs'),
           \A p \in DOMAIN procs : \A w \in procs'[p].pending : w[2] # t
    PROVE  BridgeInv'
<1>1. PICK c : StepOf(t, c) /\ c.pc = "back" /\ c.id = 0 /\ c.kind = Nil
  BY BackStepOf
<1>2. closed \in BOOLEAN /\ proc \in Nat /\ startLock \in Threads \cup {Nil}
  BY DEF BridgeInv, Typed
<1>3. closed' \in BOOLEAN /\ proc' \in Nat /\ startLock' \in Threads \cup {Nil}
  BY <1>2
<1>4. EffectOf(t, c)
  BY <1>3, CallerEffect
<1>5. LockOK'
  BY <1>1, LockKept DEF StepOf, Fewer
<1> QED
  BY <1>1, <1>4, <1>5, RequestKeeps

\* A step after which the call goes on with the id it has, or with that of the
\* call it cancels.
LEMMA GoOnKeeps ==
    ASSUME BridgeInv, NEW t \in Threads, NEW c, StepOf(t, c), call[t].pc \notin Handshake, c.pc \notin Handshake,
           UNCHANGED <<closed, proc, startLock, nextID, inflight, cancels>>,
           procs' \in Seq(Process), DOMAIN procs' = DOMAIN procs,
           \A p \in DOMAIN procs : procs[p].killed => procs'[p].killed,
           \A p \in DOMAIN procs :
              /\ procs'[p].exited => procs'[p].killed /\ procs'[p].pending = {}
              /\ \A s \in procs'[p].seen :
                    \/ s \in procs[p].seen
                    \/ /\ s = <<call[t].id, t, Caller(t)>> /\ call[t].kind = "call" /\ call[t].id # 0
                       /\ c.pc = "wait" /\ c.id = call[t].id
              /\ \A w \in procs'[p].pending :
                    \/ w \in procs[p].pending /\ w[2] # t
                    \/ w = <<c.id, t>> /\ p = c.proc /\ c.got = Nil /\ c.pc \in {"write", "wait"} /\ c.kind = "call"
    PROVE  BridgeInv'
<1>1. /\ closed \in BOOLEAN /\ proc \in Nat /\ startLock \in Threads \cup {Nil}
      /\ inflight \in [Scopes \X ClientIds -> Nat]
  BY DEF BridgeInv, Typed
<1>2. EffectOf(t, c)
  BY <1>1 DEF EffectOf
<1>3. LockOK'
  BY LockKept DEF StepOf
<1> QED
  BY <1>2, <1>3, RequestKeeps

\* What is known of a request that has a process and an id.
LEMMA InCall ==
    ASSUME BridgeInv, NEW t \in Threads, call[t].pc \in {"track", "register", "write", "wait"}
    PROVE  /\ call[t] \in CallRecord /\ CallOK(call[t], nextID, procs) /\ call \in [Threads -> CallRecord]
           /\ procs \in Seq(Process) /\ nextID \in Nat /\ PendingOK
           /\ call[t].proc \in DOMAIN procs /\ call[t].id \in Nat /\ call[t].id <= nextID
           /\ call[t].got \in {Nil, "none", t}
<1>1. /\ call[t] \in CallRecord /\ CallOK(call[t], nextID, procs) /\ call \in [Threads -> CallRecord]
      /\ procs \in Seq(Process) /\ nextID \in Nat /\ PendingOK /\ call[t].got \in {Nil, "none", t}
  BY DEF BridgeInv, Typed, OwnAnswers
<1> QED
  BY <1>1 DEF CallOK, CallRecord

\* A call that finds its process gone, or does not reach it.
LEMMA AbandonKeeps ==
    ASSUME BridgeInv, NEW t \in Threads,
           \/ register(t) /\ procs[call[t].proc].exited
           \/ writeFails(t) \/ answered(t) \/ processGone(t) \/ timeout(t)
    PROVE  BridgeInv'
<1>0. call[t].pc \in {"register", "write", "wait"}
  BY DEF register, writeFails, answered, processGone, timeout
<1> DEFINE p == call[t].proc
           id == call[t].id
<1>1. /\ CallOK(call[t], nextID, procs) /\ procs \in Seq(Process) /\ PendingOK
      /\ p \in DOMAIN procs /\ id \in Nat /\ call[t].got \in {Nil, "none", t}
  BY <1>0, InCall
<1> HIDE DEF p, id
<1>2. ASSUME NEW qs, Fewer(procs, qs) PROVE Fewer(procs, forget(qs, p, id))
  <2>1. qs \in Seq(Process) /\ p \in DOMAIN qs
    BY <1>1, <1>2 DEF Fewer
  <2>2. Fewer(qs, forget(qs, p, id))
    BY <1>1, <2>1, FewerForget
  <2> QED
    BY <1>2, <2>2 DEF Fewer
<1>3. ASSUME NEW qs, Fewer(procs, qs)
      PROVE  \A q \in DOMAIN procs : \A w \in forget(qs, p, id)[q].pending : w[2] # t
  <2> SUFFICES ASSUME NEW q \in DOMAIN procs, NEW w \in forget(qs, p, id)[q].pending, w[2] = t
               PROVE  FALSE
    OBVIOUS
  <2>1. qs \in Seq(Process) /\ p \in DOMAIN qs
    BY <1>1, <1>3 DEF Fewer
  <2>2. forget(qs, p, id)[q].pending \subseteq procs[q].pending
    BY <1>2, <1>3 DEF Fewer
  <2>3. w[1] = id /\ q = p
    BY <2>2, WaitersOf DEF p, id
  <2>4. \A v \in forget(qs, p, id)[p].pending : v[1] # id
    BY <1>1, <2>1, ForgetTakes
  <2> QED
    BY <2>3, <2>4
<1>4. Fewer(procs, procs) /\ Fewer(procs, kill(procs, p))
  BY <1>1, FewerSame, FewerKill
<1>5. CASE register(t) /\ procs[p].exited
  <2>1. \A q \in DOMAIN procs : \A w \in procs[q].pending : w[2] # t
    BY <1>5, WaitersOf DEF register
  <2> QED
    BY <1>4, <1>5, <2>1, EndKeeps DEF register, p
<1>6. CASE writeFails(t)
  <2>0. call' = Back(t, FALSE, Nil) /\ call[t].pc \notin Handshake
    BY <1>6 DEF writeFails
  <2>1. CASE call[t].kind = "call"
    <3>1. procs' = forget(kill(procs, p), p, id)
      BY <1>6, <2>1 DEF writeFails, p, id
    <3>2. Fewer(procs, procs') /\ \A q \in DOMAIN procs : \A w \in procs'[q].pending : w[2] # t
      BY <1>2, <1>3, <1>4, <3>1
    <3> QED
      BY <1>6, <2>0, <3>2, EndKeeps DEF writeFails
  <2>2. CASE call[t].kind # "call"
    <3>1. procs' = kill(procs, p)
      BY <1>6, <2>2 DEF writeFails, p
    <3>2. \A q \in DOMAIN procs : procs'[q].pending = procs[q].pending
      BY <1>1, <3>1, KillFacts
    <3>3. \A q \in DOMAIN procs : \A w \in procs'[q].pending : w[2] # t
      BY <3>2, <2>2, WaitersOf
    <3> QED
      BY <1>4, <1>6, <2>0, <3>1, <3>3, EndKeeps DEF writeFails
  <2> QED
    BY <2>1, <2>2
<1>7. CASE answered(t)
  <2>1. \A q \in DOMAIN procs : \A w \in procs[q].pending : w[2] # t
    BY <1>7, WaitersOf DEF answered
  <2>2. /\ call' = Back(t, TRUE, call[t].got) /\ procs' = procs /\ call[t].pc \notin Handshake
        /\ UNCHANGED <<closed, proc, startLock, nextID, cancels>> /\ inflight' = untrack(t)
    BY <1>7 DEF answered
  <2> QED
    BY <1>1, <1>4, <2>1, <2>2, EndKeeps
<1>8. CASE processGone(t)
  <2>1. \A q \in DOMAIN procs : \A w \in procs[q].pending : w[2] # t
    BY <1>8, WaitersOf DEF processGone
  <2> QED
    BY <1>4, <1>8, <2>1, EndKeeps DEF processGone
<1>9. CASE timeout(t)
  <2>1. /\ procs' = forget(procs, p, id) /\ call' = Back(t, FALSE, Nil) /\ call[t].pc \notin Handshake
        /\ UNCHANGED <<closed, proc, startLock, nextID>> /\ inflight' = untrack(t)
        /\ cancels' = cancels \/ cancels' = cancels \cup {[id |-> call[t].id, by |-> Caller(t)]}
    BY <1>9 DEF timeout, p, id
  <2>2. call[t].kind \in {"call", "cancel"} /\ call[t].id # 0
    BY <1>1, <1>9 DEF timeout, CallOK
  <2>3. Fewer(procs, procs') /\ \A q \in DOMAIN procs : \A w \in procs'[q].pending : w[2] # t
    BY <1>2, <1>3, <1>4, <2>1
  <2> QED
    BY <2>1, <2>2, <2>3, EndKeeps
<1> QED
  BY <1>5, <1>6, <1>7, <1>8, <1>9 DEF p

\* A call that is put on the list of its process.
LEMMA RegisterKeeps ==
    ASSUME BridgeInv, NEW t \in Threads, register(t), ~procs[call[t].proc].exited
    PROVE  BridgeInv'
<1> DEFINE p == call[t].proc
           id == call[t].id
           rest == forget(procs, p, id)
<1>0. call[t].pc = "register"
  BY DEF register
<1>1. /\ call[t] \in CallRecord /\ CallOK(call[t], nextID, procs) /\ call \in [Threads -> CallRecord]
      /\ procs \in Seq(Process) /\ PendingOK /\ p \in DOMAIN procs /\ id \in Nat /\ nextID \in Nat
  BY <1>0, InCall
<1>2. PICK c : c = [call[t] EXCEPT !.pc = "write"]
  OBVIOUS
<1>3. /\ call' = [call EXCEPT ![t] = c] /\ procs' = [rest EXCEPT ![p].pending = @ \cup {<<id, t>>}]
      /\ UNCHANGED <<closed, proc, startLock, nextID, inflight, cancels>>
  BY <1>2 DEF register
<1>4. /\ c \in CallRecord /\ c.pc = "write" /\ c.kind = "call" /\ c.id = id /\ c.proc = p /\ c.got = Nil
      /\ c.scope = call[t].scope /\ c.client = call[t].client /\ call[t].kind = "call" /\ id # 0
  BY <1>0, <1>1, <1>2 DEF CallRecord, Pcs, CallOK
<1>5. /\ rest \in Seq(Process) /\ DOMAIN rest = DOMAIN procs /\ Fewer(procs, rest)
  <2> HIDE DEF p, id
  <2>1. Fewer(procs, rest)
    BY <1>1, FewerForget
  <2> QED
    BY <2>1 DEF Fewer
<1> HIDE DEF rest, p, id
<1>6. rest[p] \in Process
  BY <1>1, <1>5
<1>7. <<id, t>> \in Nat \X Threads
  BY <1>1
<1>8. [rest[p] EXCEPT !.pending = @ \cup {<<id, t>>}] \in Process
  BY <1>6, <1>7 DEF Process
<1>9. /\ procs' \in Seq(Process) /\ DOMAIN procs' = DOMAIN procs
      /\ \A q \in DOMAIN procs \ {p} : procs'[q] = rest[q]
      /\ procs'[p] = [rest[p] EXCEPT !.pending = @ \cup {<<id, t>>}]
  BY <1>1, <1>3, <1>5, <1>8
<1>10. /\ procs'[p].killed = rest[p].killed /\ procs'[p].exited = rest[p].exited /\ procs'[p].seen = rest[p].seen
       /\ procs'[p].pending = rest[p].pending \cup {<<id, t>>}
  BY <1>6, <1>9 DEF Process
<1>11. CallOK(c, nextID', procs')
  <2>1. c.id <= nextID' /\ c.proc \in DOMAIN procs'
    BY <1>1, <1>3, <1>4, <1>9, InCall, <1>0 DEF id
  <2>2. c.scope # <<>> => <<c.scope, c.client>> \in Scopes \X ClientIds
    BY <1>1, <1>4 DEF CallOK
  <2> QED
    BY <1>4, <2>1, <2>2 DEF CallOK
<1>12. StepOf(t, c)
  <2>1. Claim(c.id, <<c.scope, c.client>>)
    BY <1>4 DEF Claim, Caller, id
  <2> QED
    BY <1>0, <1>3, <1>4, <1>11, <2>1 DEF StepOf, id
<1>13. \A q \in DOMAIN procs : \A w \in rest[q].pending : w \in procs[q].pending /\ w[2] # t
  BY <1>0, <1>5, WaitersOf DEF Fewer
<1>14. ASSUME NEW q \in DOMAIN procs
       PROVE  /\ procs[q].killed => procs'[q].killed
              /\ procs'[q].exited => procs'[q].killed /\ procs'[q].pending = {}
              /\ \A s \in procs'[q].seen : s \in procs[q].seen
              /\ \A w \in procs'[q].pending :
                    \/ w \in procs[q].pending /\ w[2] # t
                    \/ w = <<c.id, t>> /\ q = c.proc /\ c.got = Nil /\ c.pc \in {"write", "wait"} /\ c.kind = "call"
  <2>1. /\ rest[q].exited = procs[q].exited /\ (procs[q].killed => rest[q].killed)
        /\ rest[q].seen = procs[q].seen /\ rest[q].pending \subseteq procs[q].pending
    BY <1>5 DEF Fewer
  <2>2. procs[q].exited => procs[q].killed /\ procs[q].pending = {}
    BY <1>1 DEF PendingOK
  <2>3. CASE q = p
    <3>1. ~procs[q].exited
      BY <2>3 DEF p
    <3>2. \A w \in procs'[q].pending : (w \in procs[q].pending /\ w[2] # t) \/ w = <<id, t>>
      BY <1>10, <1>13, <2>3
    <3> QED
      BY <2>1, <2>3, <3>1, <3>2, <1>4, <1>10
  <2>4. CASE q # p
    BY <2>1, <2>2, <2>4, <1>9, <1>13
  <2> QED
    BY <2>3, <2>4
<1> QED
  BY <1>0, <1>3, <1>4, <1>9, <1>12, <1>14, GoOnKeeps

\* A line that the process takes: of a call, of a notification, of a cancellation.
LEMMA WriteKeeps ==
    ASSUME BridgeInv, NEW t \in Threads, writeLine(t)
    PROVE  BridgeInv'
<1> DEFINE p == call[t].proc
           id == call[t].id
<1>0. call[t].pc = "write"
  BY DEF writeLine
<1>1. /\ call[t] \in CallRecord /\ CallOK(call[t], nextID, procs) /\ call \in [Threads -> CallRecord]
      /\ procs \in Seq(Process) /\ PendingOK /\ p \in DOMAIN procs /\ id \in Nat /\ nextID \in Nat
  BY <1>0, InCall
<1>2. CASE call[t].kind # "call"
  <2>1. /\ call' = Back(t, TRUE, Nil) /\ procs' = procs
        /\ UNCHANGED <<closed, proc, startLock, nextID, inflight>>
        /\ \/ cancels' = cancels
           \/ call[t].kind = "cancel" /\ cancels' = cancels \cup {[id |-> call[t].id, by |-> Caller(t)]}
    BY <1>2 DEF writeLine
  <2>2. call[t].kind = "cancel" => call[t].id # 0
    BY <1>0, <1>1 DEF CallOK
  <2>3. \A q \in DOMAIN procs : \A w \in procs[q].pending : w[2] # t
    BY <1>2, WaitersOf
  <2>4. Fewer(procs, procs')
    BY <2>1, FewerSame
  <2> QED
    BY <1>0, <2>1, <2>2, <2>3, <2>4, EndKeeps
<1>3. CASE call[t].kind = "call"
  <2>1. PICK c : c = [call[t] EXCEPT !.pc = "wait"]
    OBVIOUS
  <2>2. /\ call' = [call EXCEPT ![t] = c] /\ procs' = [procs EXCEPT ![p].seen = @ \cup {<<id, t, Caller(t)>>}]
        /\ UNCHANGED <<closed, proc, startLock, nextID, inflight, cancels>>
    BY <1>3, <2>1 DEF writeLine
  <2>3. /\ c \in CallRecord /\ c.pc = "wait" /\ c.kind = "call" /\ c.id = id /\ c.proc = p /\ c.got = Nil
        /\ c.scope = call[t].scope /\ c.client = call[t].client /\ id # 0
    BY <1>0, <1>1, <1>3, <2>1 DEF CallRecord, Pcs, CallOK
  <2> HIDE DEF p, id
  <2>4. procs[p] \in Process /\ <<id, t, Caller(t)>> \in Nat \X Threads \X AllCallers
    BY <1>1 DEF Caller, CallRecord, AllCallers
  <2>5. [procs[p] EXCEPT !.seen = @ \cup {<<id, t, Caller(t)>>}] \in Process
    BY <2>4 DEF Process
  <2>6. /\ procs' \in Seq(Process) /\ DOMAIN procs' = DOMAIN procs
        /\ \A q \in DOMAIN procs \ {p} : procs'[q] = procs[q]
        /\ procs'[p] = [procs[p] EXCEPT !.seen = @ \cup {<<id, t, Caller(t)>>}]
    BY <1>1, <2>2, <2>5
  <2>7. /\ procs'[p].killed = procs[p].killed /\ procs'[p].exited = procs[p].exited
        /\ procs'[p].pending = procs[p].pending
        /\ procs'[p].seen = procs[p].seen \cup {<<id, t, Caller(t)>>}
    BY <2>4, <2>6 DEF Process
  <2>8. CallOK(c, nextID', procs')
    <3>1. c.id <= nextID' /\ c.proc \in DOMAIN procs'
      BY <1>0, <1>1, <2>2, <2>3, <2>6, InCall DEF id
    <3>2. c.scope # <<>> => <<c.scope, c.client>> \in Scopes \X ClientIds
      BY <1>1, <1>3, <2>3 DEF CallOK
    <3> QED
      BY <2>3, <3>1, <3>2 DEF CallOK
  <2>9. StepOf(t, c)
    <3>1. Claim(c.id, <<c.scope, c.client>>)
      BY <1>3, <2>3 DEF Claim, Caller, id
    <3> QED
      BY <1>0, <1>3, <2>2, <2>3, <2>8, <3>1 DEF StepOf, id
  <2>10. ASSUME NEW q \in DOMAIN procs
         PROVE  /\ procs[q].killed => procs'[q].killed
                /\ procs'[q].exited => procs'[q].killed /\ procs'[q].pending = {}
                /\ \A s \in procs'[q].seen : s \in procs[q].seen \/ s = <<id, t, Caller(t)>>
                /\ \A w \in procs'[q].pending :
                    \/ w \in procs[q].pending /\ w[2] # t
                    \/ w = <<c.id, t>> /\ q = c.proc /\ c.got = Nil /\ c.pc \in {"write", "wait"} /\ c.kind = "call"
    <3>1. procs'[q].pending = procs[q].pending /\ procs'[q].killed = procs[q].killed /\ procs'[q].exited = procs[q].exited
      BY <2>6, <2>7
    <3>2. \A s \in procs'[q].seen : s \in procs[q].seen \/ s = <<id, t, Caller(t)>>
      BY <2>6, <2>7
    <3>3. procs[q].exited => procs[q].killed /\ procs[q].pending = {}
      BY <1>1 DEF PendingOK
    <3>4. ASSUME NEW w \in procs[q].pending, w[2] = t PROVE w = <<c.id, t>> /\ q = c.proc
      <4>1. w[1] = id /\ q = p
        BY <3>4, WaitersOf DEF p, id
      <4>2. w \in Nat \X Threads
        <5>1. procs[q] \in Process
          BY <1>1
        <5> QED
          BY <5>1 DEF Process
      <4>3. w = <<w[1], w[2]>>
        BY <4>2
      <4> QED
        BY <4>1, <4>3, <3>4, <2>3
    <3> QED
      BY <3>1, <3>2, <3>3, <3>4, <2>3
  <2>11. \A q \in DOMAIN procs : procs[q].killed => procs'[q].killed
    BY <2>10
  <2>12. \A q \in DOMAIN procs : \A s \in procs'[q].seen :
            s \in procs[q].seen \/ (s = <<call[t].id, t, Caller(t)>> /\ c.id = call[t].id /\ call[t].id # 0)
    BY <2>3, <2>10 DEF id
  <2>13. call[t].pc \notin Handshake /\ c.pc \notin Handshake
    BY <1>0, <1>3, <2>3
  <2> HIDE DEF Handshake
  <2> QED
    BY <1>0, <1>3, <2>2, <2>3, <2>6, <2>9, <2>10, <2>11, <2>12, <2>13, GoOnKeeps
<1> QED
  BY <1>2, <1>3

\* A cancellation finds the call it is for, and the process of the moment.
LEMMA CancelKeeps ==
    ASSUME BridgeInv, NEW t \in Threads, Cancel(t) \/ CancelSend(t)
    PROVE  BridgeInv'
<1>0. call[t].pc \in {"lookup", "send"}
  BY DEF Cancel, CancelSend
<1>1. /\ Typed /\ LockOK /\ call[t] \in CallRecord /\ CallOK(call[t], nextID, procs) /\ OneOwner
      /\ procs \in Seq(Process) /\ proc \in Nat /\ nextID \in Nat /\ call \in [Threads -> CallRecord]
      /\ PendingOK /\ inflight \in [Scopes \X ClientIds -> Nat]
  BY DEF BridgeInv, Typed
<1>2. UNCHANGED <<closed, proc, procs, startLock, nextID, inflight, cancels>>
  BY DEF Cancel, CancelSend
<1>3. Caller(t) \in Scopes \X ClientIds /\ call[t].kind = "cancel"
  BY <1>0, <1>1 DEF CallOK, Caller
<1>4. \A p \in DOMAIN procs : \A w \in procs[p].pending : w[2] # t
  BY <1>0, WaitersOf
<1>5. Fewer(procs, procs')
  BY <1>2, FewerSame
<1>6. ASSUME NEW ok \in BOOLEAN, NEW got \in {Nil, "none"}, call' = Back(t, ok, got) PROVE BridgeInv'
  BY <1>0, <1>2, <1>4, <1>5, <1>6, EndKeeps
<1>7. ASSUME NEW c, call' = [call EXCEPT ![t] = c], c \in CallRecord, c.got = Nil, c.pc \notin Handshake,
             c.kind = "cancel", c.scope = call[t].scope, c.client = call[t].client,
             CallOK(c, nextID, procs), Claim(c.id, Caller(t))
      PROVE  BridgeInv'
  <2>1. StepOf(t, c)
    BY <1>2, <1>7 DEF StepOf, Caller
  <2>2. \A p \in DOMAIN procs :
          /\ procs'[p].exited => procs'[p].killed /\ procs'[p].pending = {}
          /\ \A s \in procs'[p].seen : s \in procs[p].seen
          /\ \A w \in procs'[p].pending : w \in procs[p].pending /\ w[2] # t
    BY <1>1, <1>2, <1>4 DEF PendingOK
  <2> QED
    BY <1>0, <1>1, <1>2, <1>7, <2>1, <2>2, GoOnKeeps
<1>8. CASE Cancel(t)
  <2> DEFINE id == inflight[Caller(t)]
  <2>1. id \in Nat /\ id <= nextID
    BY <1>1, <1>3 DEF OneOwner
  <2>2. call' = IF id = 0 THEN Back(t, FALSE, "none") ELSE [call EXCEPT ![t].pc = "send", ![t].id = id]
    BY <1>8 DEF Cancel, inflightKey
  <2>3. CASE id = 0
    BY <1>6, <2>2, <2>3
  <2>4. CASE id # 0
    <3>0. call[t].pc = "lookup"
      BY <1>8 DEF Cancel
    <3>1. PICK c : c = [call[t] EXCEPT !.pc = "send", !.id = id]
      OBVIOUS
    <3>2. call' = [call EXCEPT ![t] = c]
      BY <2>2, <2>4, <3>1
    <3>3. /\ c \in CallRecord /\ c.pc = "send" /\ c.id = id /\ c.kind = "cancel" /\ c.got = Nil
          /\ c.scope = call[t].scope /\ c.client = call[t].client
      BY <1>1, <1>3, <2>1, <3>0, <3>1 DEF CallRecord, Pcs, CallOK
    <3>4. Claim(id, Caller(t))
      BY <1>3 DEF Claim
    <3>5. CallOK(c, nextID, procs)
      BY <1>3, <2>1, <2>4, <3>3 DEF CallOK, Caller
    <3> QED
      BY <1>7, <3>2, <3>3, <3>4, <3>5
  <2> QED
    BY <2>3, <2>4
<1>9. CASE CancelSend(t)
  <2>0. call[t].pc = "send"
    BY <1>9 DEF CancelSend
  <2>1. CASE ~Live
    <3>1. call' = Back(t, TRUE, Nil)
      BY <1>9, <2>1 DEF CancelSend
    <3> QED
      BY <1>6, <3>1
  <2>2. CASE Live
    <3>1. PICK c : c = [call[t] EXCEPT !.pc = "write", !.proc = proc]
      OBVIOUS
    <3>2. call' = [call EXCEPT ![t] = c]
      BY <1>9, <2>2, <3>1 DEF CancelSend
    <3>3. /\ c \in CallRecord /\ c.pc = "write" /\ c.id = call[t].id /\ c.kind = "cancel" /\ c.got = Nil
          /\ c.scope = call[t].scope /\ c.client = call[t].client /\ c.proc = proc
      BY <1>1, <1>3, <2>0, <3>1 DEF CallRecord, Pcs, CallOK
    <3>4. Claim(c.id, Caller(t))
      BY <1>3, <3>3 DEF Claim
    <3>5. proc \in DOMAIN procs
      BY <1>1, <2>2 DEF Live, LockOK
    <3>6. call[t].id # 0 /\ call[t].id <= nextID
      BY <1>1, <2>0 DEF CallOK
    <3>7. CallOK(c, nextID, procs)
      BY <1>3, <3>3, <3>5, <3>6 DEF CallOK, Caller
    <3> QED
      BY <1>7, <3>2, <3>3, <3>4, <3>7
  <2> QED
    BY <2>1, <2>2
<1> QED
  BY <1>8, <1>9

\* A call that gets its id: nothing claims it yet.
LEMMA TrackKeeps ==
    ASSUME BridgeInv, NEW t \in Threads, track(t)
    PROVE  BridgeInv'
<1> DEFINE id == nextID + 1
<1>0. call[t].pc = "track" /\ nextID' = id /\ UNCHANGED <<closed, proc, procs, startLock, cancels>>
  BY DEF track
<1>1. /\ Typed /\ LockOK /\ call[t] \in CallRecord /\ CallOK(call[t], nextID, procs) /\ OneOwner
      /\ procs \in Seq(Process) /\ proc \in Nat /\ nextID \in Nat /\ call \in [Threads -> CallRecord]
      /\ PendingOK /\ SeenOK /\ IdsUnique /\ OwnAnswers /\ inflight \in [Scopes \X ClientIds -> Nat]
      /\ \A u \in Threads : CallOK(call[u], nextID, procs)
  BY DEF BridgeInv, Typed
<1>2. id \in Nat /\ id # 0 /\ nextID <= id /\ ~(id <= nextID)
  BY <1>1
<1>3. PICK c : c = [call[t] EXCEPT !.pc = "register", !.id = id]
  OBVIOUS
<1>4. call' = [call EXCEPT ![t] = c]
  BY <1>3 DEF track, bridgeID
<1>5. /\ c \in CallRecord /\ c.pc = "register" /\ c.id = id /\ c.kind = "call" /\ c.got = Nil
      /\ c.scope = call[t].scope /\ c.client = call[t].client /\ c.proc = call[t].proc /\ c.proc \in DOMAIN procs
      /\ call[t].kind = "call" /\ (c.scope # <<>> => <<c.scope, c.client>> \in Scopes \X ClientIds)
  BY <1>0, <1>1, <1>2, <1>3 DEF CallRecord, Pcs, CallOK
<1>6. /\ call' \in [Threads -> CallRecord] /\ call'[t] = c /\ \A u \in Threads \ {t} : call'[u] = call[u]
  BY <1>1, <1>4, <1>5
<1>7. /\ inflight' \in [Scopes \X ClientIds -> Nat]
      /\ \A k \in Scopes \X ClientIds : inflight'[k] = inflight[k] \/ (inflight'[k] = id /\ k = Caller(t))
  BY <1>1, <1>2 DEF track, bridgeID, inflightKey
<1> HIDE DEF id
<1>8. Typed'
  BY <1>0, <1>1, <1>2, <1>6, <1>7 DEF Typed
<1>9. ASSUME NEW u \in Threads PROVE CallOK(call'[u], nextID', procs')
  <2>1. CASE u = t
    BY <1>0, <1>2, <1>5, <1>6, <2>1 DEF CallOK
  <2>2. CASE u # t
    <3>1. call'[u] = call[u] /\ CallOK(call[u], nextID, procs) /\ call[u] \in CallRecord
      BY <1>1, <1>6, <2>2
    <3>2. call[u].id \in Nat /\ call[u].id <= nextID
      BY <3>1 DEF CallOK, CallRecord
    <3>3. call[u].id <= id
      BY <3>2, <1>1, <1>2
    <3> QED
      BY <3>1, <3>3, <1>0 DEF CallOK
  <2> QED
    BY <2>1, <2>2
<1>10. \A u \in Threads \ {t} : call[u].id # id
  BY <1>1, <1>2 DEF CallOK
<1>11. IdsUnique'
  BY <1>1, <1>5, <1>6, <1>10 DEF IdsUnique
<1>12. SeenOK'
  <2> SUFFICES ASSUME NEW p \in DOMAIN procs, NEW s \in procs[p].seen
               PROVE  /\ s[1] # 0 /\ s[1] <= nextID'
                      /\ \A u \in Threads : call'[u].kind = "call" /\ call'[u].id = s[1] =>
                            u = s[2] /\ call'[u].pc = "wait"
    BY <1>0 DEF SeenOK
  <2>1. /\ s[1] # 0 /\ s[1] <= nextID
        /\ \A u \in Threads : call[u].kind = "call" /\ call[u].id = s[1] =>
                            u = s[2] /\ call[u].pc = "wait"
    BY <1>1 DEF SeenOK
  <2>2. s[1] \in Nat
    BY <1>1, ProcessFacts
  <2>3. s[1] <= id /\ s[1] # id
    BY <2>1, <2>2, <1>1, <1>2
  <2> QED
    BY <2>1, <2>3, <1>0, <1>5, <1>6
<1>13. PendingOK'
  <2> SUFFICES ASSUME NEW p \in DOMAIN procs, NEW w \in procs[p].pending
               PROVE  /\ call'[w[2]].id = w[1] /\ call'[w[2]].proc = p /\ call'[w[2]].got = Nil
                      /\ call'[w[2]].pc \in {"write", "wait"} /\ call'[w[2]].kind = "call"
    BY <1>0, <1>1 DEF PendingOK
  <2>1. w[2] \in Threads
    BY <1>1, ProcessFacts
  <2>2. w[2] # t
    BY <1>0, WaitersOf
  <2>3. call'[w[2]] = call[w[2]]
    BY <2>1, <2>2, <1>6
  <2> QED
    BY <2>3, <1>1 DEF PendingOK
<1>14. LockOK'
  BY <1>0, <1>4, <1>5, LockKept
<1>15. OneOwner'
  <2>1. ASSUME NEW i \in 1..id, NEW k \in AllCallers, Claim(i, k)'
        PROVE  (i <= nextID /\ Claim(i, k)) \/ (i > nextID /\ k = Caller(t))
    <3>1. CASE i <= nextID
      <4>0. i # id
        BY <1>2, <3>1
      <4>1. CASE \E p \in DOMAIN procs : \E s \in procs[p].seen : s[1] = i /\ s[3] = k
        BY <3>1, <4>1 DEF Claim
      <4>2. CASE \E u \in Threads : /\ call'[u].kind \in {"call", "cancel"} /\ call'[u].id = i
                                    /\ <<call'[u].scope, call'[u].client>> = k
        <5>1. PICK u \in Threads : /\ call'[u].kind \in {"call", "cancel"} /\ call'[u].id = i
                                   /\ <<call'[u].scope, call'[u].client>> = k
          BY <4>2
        <5>2. u # t
          BY <4>0, <5>1, <1>5, <1>6
        <5>3. call[u].kind \in {"call", "cancel"} /\ call[u].id = i /\ Caller(u) = k
          BY <5>1, <5>2, <1>6 DEF Caller
        <5> QED
          BY <3>1, <5>3 DEF Claim
      <4>3. CASE k \in Scopes \X ClientIds /\ inflight'[k] = i
        <5>1. inflight[k] = i
          BY <4>0, <4>3, <1>7
        <5> QED
          BY <3>1, <4>3, <5>1 DEF Claim
      <4>4. CASE \E d \in cancels : d.id = i /\ d.by = k
        BY <3>1, <4>4 DEF Claim
      <4> QED
        BY <1>0, <2>1, <4>1, <4>2, <4>3, <4>4 DEF Claim, Caller
    <3>2. CASE i > nextID
      <4>0. i = id /\ i \in Nat
        BY <1>1, <1>2, <3>2 DEF id
      <4>1. ~\E p \in DOMAIN procs : \E s \in procs[p].seen : s[1] = i
        BY <1>1, <4>0, <1>2 DEF SeenOK
      <4>2. ~\E d \in cancels : d.id = i
        BY <1>1, <4>0, <1>2 DEF OneOwner
      <4>3. CASE \E u \in Threads : /\ call'[u].kind \in {"call", "cancel"} /\ call'[u].id = i
                                    /\ <<call'[u].scope, call'[u].client>> = k
        BY <3>2, <4>0, <4>3, <1>5, <1>6, <1>10 DEF Caller
      <4>4. CASE k \in Scopes \X ClientIds /\ inflight'[k] = i
        <5>1. inflight[k] <= nextID
          BY <4>4, <1>1 DEF OneOwner
        <5> QED
          BY <5>1, <3>2, <4>0, <4>4, <1>2, <1>7
      <4> QED
        BY <1>0, <2>1, <4>1, <4>2, <4>3, <4>4 DEF Claim, Caller
    <3> QED
      BY <3>1, <3>2, <1>1, <1>2
  <2>2. \A k \in Scopes \X ClientIds : inflight'[k] <= nextID'
    <3>1. \A k \in Scopes \X ClientIds : inflight[k] <= nextID /\ inflight[k] \in Nat
      BY <1>1 DEF OneOwner
    <3>2. ASSUME NEW k \in Scopes \X ClientIds PROVE inflight'[k] <= nextID'
      <4>1. inflight[k] <= id
        BY <3>1, <1>1, <1>2
      <4>2. id <= id
        BY <1>2
      <4> QED
        BY <4>1, <4>2, <1>0, <1>7
    <3> QED
      BY <3>2
  <2>3. \A d \in cancels' : d.id # 0 /\ d.id <= nextID'
    <3>1. \A d \in cancels : d.id # 0 /\ d.id <= nextID /\ d.id \in Nat
      BY <1>1 DEF OneOwner, Typed
    <3> QED
      BY <3>1, <1>0, <1>1, <1>2
  <2> QED
    BY <2>1, <2>2, <2>3, <1>0, <1>1, <1>2, OwnerKept
<1>16. OwnAnswers'
  BY <1>1, <1>5, <1>6 DEF OwnAnswers
<1> QED
  BY <1>8, <1>9, <1>11, <1>12, <1>13, <1>14, <1>15, <1>16 DEF BridgeInv

\* Every step of a request in the bridge keeps the invariant.
LEMMA BridgeStepKeeps ==
    ASSUME BridgeInv, NEW t \in Threads, BridgeStep(t) PROVE BridgeInv'
<1>1. CASE register(t)
  BY <1>1, RegisterKeeps, AbandonKeeps
<1> QED
  BY <1>1, EnsureKeeps, HandshakeKeeps, InitializedKeeps, TrackKeeps, WriteKeeps, CancelKeeps, AbandonKeeps DEF BridgeStep

\* A line of the server goes to the call that it answers.
LEMMA DispatchKeeps ==
    ASSUME BridgeInv, NEW p \in DOMAIN procs, NEW s \in procs[p].seen, dispatch(p, s)
    PROVE  BridgeInv'
<1>1. /\ procs \in Seq(Process) /\ call \in [Threads -> CallRecord] /\ PendingOK /\ SeenOK
      /\ \A u \in Threads : CallOK(call[u], nextID, procs)
  BY DEF BridgeInv, Typed
<1>2. PICK w \in procs[p].pending : w[1] = s[1] /\ call' = [call EXCEPT ![w[2]].got = s[2]]
  BY DEF dispatch
<1>3. PICK t : t = w[2]
  OBVIOUS
<1>4. t \in Threads /\ s[1] \in Nat
  BY <1>1, <1>3, ProcessFacts
<1>5. /\ s[1] = call[t].id /\ p = call[t].proc /\ call[t].kind = "call" /\ call[t].got = Nil
      /\ call[t].pc \in {"write", "wait"}
  BY <1>2, <1>3, <1>4, WaitersOf
<1>6. s[2] = t /\ call[t].pc = "wait" /\ s[1] # 0
  BY <1>1, <1>4, <1>5 DEF SeenOK
<1>7. PICK c : c = [call[t] EXCEPT !.got = t]
  OBVIOUS
<1>8. call' = [call EXCEPT ![t] = c]
  BY <1>1, <1>2, <1>3, <1>6, <1>7
<1>9. /\ c \in CallRecord /\ c.pc = "wait" /\ c.kind = "call" /\ c.got = t /\ c.id = call[t].id
      /\ c.scope = call[t].scope /\ c.client = call[t].client /\ c.proc = call[t].proc
  BY <1>1, <1>4, <1>5, <1>6, <1>7 DEF CallRecord
<1>10. /\ procs' = forget(procs, p, s[1]) /\ UNCHANGED <<closed, proc, startLock, nextID, inflight, cancels>>
  BY DEF dispatch
<1>11. Fewer(procs, procs')
  BY <1>1, <1>4, <1>10, FewerForget
<1>12. CallOK(c, nextID', procs')
  <2>1. CallOK(call[t], nextID, procs) /\ DOMAIN procs' = DOMAIN procs
    BY <1>1, <1>4, <1>11 DEF Fewer
  <2> QED
    BY <2>1, <1>6, <1>9, <1>10 DEF CallOK
<1>13. StepOf(t, c)
  <2>1. Claim(c.id, <<c.scope, c.client>>)
    BY <1>4, <1>5, <1>9 DEF Claim, Caller
  <2> QED
    BY <1>5, <1>8, <1>9, <1>12, <2>1 DEF StepOf
<1>14. \A q \in DOMAIN procs : \A v \in procs'[q].pending : v \in procs[q].pending /\ v[2] # t
  <2> SUFFICES ASSUME NEW q \in DOMAIN procs, NEW v \in procs'[q].pending
               PROVE  v \in procs[q].pending /\ v[2] # t
    OBVIOUS
  <2>1. v \in procs[q].pending
    BY <1>11 DEF Fewer
  <2>2. v[2] = t => v[1] = s[1] /\ q = p
    BY <2>1, <1>4, <1>5, WaitersOf
  <2>3. \A x \in procs'[p].pending : x[1] # s[1]
    BY <1>1, <1>4, <1>10, ForgetTakes
  <2> QED
    BY <2>1, <2>2, <2>3
<1>15. ASSUME NEW q \in DOMAIN procs
       PROVE  /\ procs[q].killed => procs'[q].killed
              /\ procs'[q].exited => procs'[q].killed /\ procs'[q].pending = {}
              /\ \A x \in procs'[q].seen : x \in procs[q].seen
  <2>1. /\ procs'[q].exited = procs[q].exited /\ (procs[q].killed => procs'[q].killed)
        /\ procs'[q].seen = procs[q].seen /\ procs'[q].pending \subseteq procs[q].pending
    BY <1>11 DEF Fewer
  <2>2. procs[q].exited => procs[q].killed /\ procs[q].pending = {}
    BY <1>1 DEF PendingOK
  <2> QED
    BY <2>1, <2>2
<1>16. procs' \in Seq(Process) /\ DOMAIN procs' = DOMAIN procs
  BY <1>11 DEF Fewer
<1> QED
  BY <1>4, <1>6, <1>9, <1>10, <1>13, <1>14, <1>15, <1>16, GoOnKeeps

\* A step that leaves the requests alone: processes may lose waiters, and those
\* that end are the ones that were killed.
LEMMA ProcessesKeep ==
    ASSUME BridgeInv, UNCHANGED <<nextID, inflight, call, cancels>>,
           closed' \in BOOLEAN, proc' \in Nat, startLock' = startLock,
           procs' \in Seq(Process), DOMAIN procs' = DOMAIN procs,
           \A p \in DOMAIN procs : /\ procs'[p].exited => procs'[p].killed /\ procs'[p].pending = {}
                                   /\ procs'[p].seen = procs[p].seen,
           \A p \in DOMAIN procs : \A w \in procs'[p].pending : w \in procs[p].pending,
           LockOK'
    PROVE  BridgeInv'
<1>1. /\ Typed /\ IdsUnique /\ SeenOK /\ PendingOK /\ OneOwner /\ OwnAnswers
      /\ \A u \in Threads : CallOK(call[u], nextID, procs)
  BY DEF BridgeInv
<1>2. Typed'
  BY <1>1 DEF Typed
<1>3. \A u \in Threads : CallOK(call'[u], nextID', procs')
  BY <1>1 DEF CallOK
<1>4. IdsUnique' /\ OwnAnswers'
  BY <1>1 DEF IdsUnique, OwnAnswers
<1>5. SeenOK'
  BY <1>1 DEF SeenOK
<1>6. PendingOK'
  BY <1>1 DEF PendingOK
<1>7. OneOwner'
  <2>1. \A i, k : Claim(i, k)' <=> Claim(i, k)
    BY DEF Claim, Caller
  <2> QED
    BY <1>1, <2>1 DEF OneOwner
<1> QED
  BY <1>2, <1>3, <1>4, <1>5, <1>6, <1>7 DEF BridgeInv

\* What a server does, and Close.
LEMMA ServerStepKeeps ==
    ASSUME BridgeInv, ServerStep PROVE BridgeInv'
<1>1. /\ procs \in Seq(Process) /\ PendingOK /\ LockOK /\ closed \in BOOLEAN /\ proc \in Nat
      /\ startLock \in Threads \cup {Nil} /\ call \in [Threads -> CallRecord]
  BY DEF BridgeInv, Typed
<1>2. ASSUME NEW p \in DOMAIN procs, procs' = kill(procs, p), UNCHANGED <<startLock, nextID, inflight, call, cancels>>,
             \/ UNCHANGED <<closed, proc>>
             \/ closed' = TRUE /\ proc' = 0 /\ proc = p
      PROVE  BridgeInv'
  <2>1. Fewer(procs, procs') /\ procs'[p].killed
    BY <1>1, <1>2, FewerKill, KillFacts
  <2>2. procs' \in Seq(Process) /\ DOMAIN procs' = DOMAIN procs
    BY <2>1 DEF Fewer
  <2>3. \A q \in DOMAIN procs : /\ procs'[q].exited = procs[q].exited /\ (procs[q].killed => procs'[q].killed)
                                /\ procs'[q].seen = procs[q].seen /\ procs'[q].pending \subseteq procs[q].pending
    BY <2>1 DEF Fewer
  <2>4. \A q \in DOMAIN procs : procs'[q].exited => procs'[q].killed /\ procs'[q].pending = {}
    BY <1>1, <2>3 DEF PendingOK
  <2>5. LockOK'
    <3>1. NoStrayProcess'
      BY <1>1, <1>2, <2>1, <2>2, <2>3 DEF LockOK, NoStrayProcess
    <3>2. /\ \A t \in Threads : call'[t].pc \in Handshake <=> startLock' = t
          /\ proc' # 0 => proc' \in DOMAIN procs'
          /\ startLock' # Nil /\ proc' # 0 => procs'[proc'].killed
      BY <1>1, <1>2, <2>2, <2>3 DEF LockOK
    <3> QED
      BY <3>1, <3>2 DEF LockOK
  <2>6. closed' \in BOOLEAN /\ proc' \in Nat
    <3>1. CASE UNCHANGED <<closed, proc>>
      BY <1>1, <3>1
    <3>2. CASE closed' = TRUE /\ proc' = 0
      BY <3>2
    <3> QED
      BY <1>2, <3>1, <3>2
  <2>7. \A q \in DOMAIN procs : \A w \in procs'[q].pending : w \in procs[q].pending
    BY <2>3
  <2> QED
    BY <1>2, <2>2, <2>3, <2>4, <2>5, <2>6, <2>7, ProcessesKeep
<1>3. ASSUME NEW p \in DOMAIN procs, readLoopEnds(p) PROVE BridgeInv'
  <2>1. PICK x : x = [procs[p] EXCEPT !.exited = TRUE, !.pending = {}]
    OBVIOUS
  <2>2. procs[p] \in Process /\ procs[p].killed
    BY <1>1, <1>3 DEF readLoopEnds
  <2>3. x \in Process /\ x.exited /\ x.pending = {} /\ x.killed = procs[p].killed /\ x.seen = procs[p].seen
    BY <2>1, <2>2 DEF Process
  <2>4. procs' = [procs EXCEPT ![p] = x]
    BY <1>3, <2>1 DEF readLoopEnds
  <2>5. /\ procs' \in Seq(Process) /\ DOMAIN procs' = DOMAIN procs /\ procs'[p] = x
        /\ \A q \in DOMAIN procs \ {p} : procs'[q] = procs[q]
    BY <1>1, <2>3, <2>4
  <2>6. \A q \in DOMAIN procs : /\ procs'[q].killed = procs[q].killed /\ procs'[q].seen = procs[q].seen
                                /\ \A w \in procs'[q].pending : w \in procs[q].pending
    BY <2>3, <2>5
  <2>7. \A q \in DOMAIN procs : procs'[q].exited => procs'[q].killed /\ procs'[q].pending = {}
    BY <1>1, <2>2, <2>3, <2>5 DEF PendingOK
  <2>8. UNCHANGED <<closed, proc, startLock, nextID, inflight, call, cancels>>
    BY <1>3 DEF readLoopEnds
  <2>9. LockOK'
    <3>1. NoStrayProcess'
      BY <1>1, <2>5, <2>6, <2>8 DEF LockOK, NoStrayProcess
    <3> QED
      BY <3>1, <1>1, <2>5, <2>6, <2>8 DEF LockOK
  <2> QED
    BY <1>1, <2>5, <2>6, <2>7, <2>8, <2>9, ProcessesKeep
<1>4. CASE close
  <2>1. CASE proc # 0
    <3>1. proc \in DOMAIN procs
      BY <1>1, <2>1 DEF LockOK
    <3> QED
      BY <1>2, <1>4, <2>1, <3>1 DEF close
  <2>2. CASE proc = 0
    <3>1. /\ procs' = procs /\ closed' = TRUE /\ proc' = proc /\ UNCHANGED <<startLock, nextID, inflight, call, cancels>>
      BY <1>4, <2>2 DEF close
    <3>2. LockOK'
      BY <1>1, <2>2, <3>1 DEF LockOK, NoStrayProcess
    <3>3. \A q \in DOMAIN procs : procs[q].exited => procs[q].killed /\ procs[q].pending = {}
      BY <1>1 DEF PendingOK
    <3> QED
      BY <1>1, <3>1, <3>2, <3>3, ProcessesKeep
  <2> QED
    BY <2>1, <2>2
<1> QED
  BY <1>2, <1>3, <1>4, DispatchKeeps DEF ServerStep, exit

\* A request enters the bridge, or leaves it.
LEMMA EntryKeeps ==
    ASSUME BridgeInv, NEW t \in Threads, call[t].pc \in {"idle", "back"},
           UNCHANGED <<closed, proc, procs, startLock, nextID, inflight, cancels>>,
           \/ call' = [call EXCEPT ![t] = NoCall]
           \/ \E kind \in {"call", "notify", "init", "cancel"} : \E scope \in Scopes \cup {<<>>} :
                 \E client \in ClientIds \cup {Nil} :
                    /\ Begin(t, kind, scope, client)
                    /\ kind = "cancel" \/ (kind = "call" /\ scope # <<>>) => <<scope, client>> \in Scopes \X ClientIds
    PROVE  BridgeInv'
<1>1. /\ procs \in Seq(Process) /\ PendingOK /\ nextID \in Nat /\ call \in [Threads -> CallRecord]
  BY DEF BridgeInv, Typed
<1>2. ASSUME NEW c \in CallRecord, call' = [call EXCEPT ![t] = c], c.id = 0, c.got = Nil, c.pc \notin Handshake,
             CallOK(c, nextID, procs)
      PROVE  BridgeInv'
  <2>1. StepOf(t, c)
    BY <1>2 DEF StepOf
  <2>2. \A p \in DOMAIN procs :
          /\ procs'[p].exited => procs'[p].killed /\ procs'[p].pending = {}
          /\ \A s \in procs'[p].seen : s \in procs[p].seen
          /\ \A w \in procs'[p].pending : w \in procs[p].pending /\ w[2] # t
    BY <1>1, WaitersOf DEF PendingOK
  <2> QED
    BY <1>1, <1>2, <2>1, <2>2, GoOnKeeps
<1>3. CASE call' = [call EXCEPT ![t] = NoCall]
  <2>1. NoCall \in CallRecord /\ NoCall.id = 0 /\ NoCall.got = Nil /\ NoCall.pc = "idle" /\ NoCall.kind = Nil
    BY DEF NoCall, CallRecord, Pcs
  <2>2. NoCall.id <= nextID
    BY <2>1, <1>1
  <2>3. CallOK(NoCall, nextID, procs)
    BY <2>1, <2>2 DEF CallOK
  <2> QED
    BY <1>2, <1>3, <2>1, <2>3
<1>4. ASSUME NEW kind \in {"call", "notify", "init", "cancel"}, NEW scope \in Scopes \cup {<<>>},
             NEW client \in ClientIds \cup {Nil}, Begin(t, kind, scope, client),
             kind = "cancel" \/ (kind = "call" /\ scope # <<>>) => <<scope, client>> \in Scopes \X ClientIds
      PROVE  BridgeInv'
  <2>1. PICK c : c = [NoCall EXCEPT !.pc = IF kind = "cancel" THEN "lookup" ELSE "ensure",
                                    !.kind = kind, !.scope = scope, !.client = client]
    OBVIOUS
  <2>2. /\ c \in CallRecord /\ c.id = 0 /\ c.got = Nil /\ c.pc = (IF kind = "cancel" THEN "lookup" ELSE "ensure")
        /\ c.kind = kind /\ c.scope = scope /\ c.client = client
    BY <2>1 DEF NoCall, CallRecord, Pcs
  <2>3. c.id <= nextID
    BY <2>2, <1>1
  <2>4. CallOK(c, nextID, procs)
    BY <1>4, <2>2, <2>3 DEF CallOK
  <2>5. call' = [call EXCEPT ![t] = c]
    BY <1>4, <2>1 DEF Begin
  <2> QED
    BY <1>2, <2>2, <2>4, <2>5
<1> QED
  BY <1>3, <1>4

\* Nothing that the bridge knows changes.
LEMMA BridgeStutters ==
    ASSUME BridgeInv, UNCHANGED bridgeVars PROVE BridgeInv'
<1>1. /\ Typed /\ IdsUnique /\ SeenOK /\ PendingOK /\ OneOwner /\ OwnAnswers /\ LockOK
      /\ \A u \in Threads : CallOK(call[u], nextID, procs)
  BY DEF BridgeInv
<1>2. /\ closed \in BOOLEAN /\ proc \in Nat /\ procs \in Seq(Process)
  BY <1>1 DEF Typed
<1>3. LockOK'
  BY <1>1 DEF LockOK, NoStrayProcess, bridgeVars
<1>4. \A p \in DOMAIN procs : procs[p].exited => procs[p].killed /\ procs[p].pending = {}
  BY <1>1 DEF PendingOK
<1> QED
  BY <1>2, <1>3, <1>4, ProcessesKeep DEF bridgeVars

\* The bridge's invariant holds at the start.
LEMMA BridgeStarts ==
    ASSUME BridgeInit PROVE BridgeInv
<1>1. NoCall \in CallRecord /\ NoCall.id = 0 /\ NoCall.got = Nil /\ NoCall.pc = "idle" /\ NoCall.kind = Nil
  BY DEF NoCall, CallRecord, Pcs
<1>2. /\ closed = FALSE /\ proc = 0 /\ procs = <<>> /\ startLock = Nil /\ nextID = 0 /\ cancels = {}
      /\ inflight = [k \in Scopes \X ClientIds |-> 0] /\ call \in [Threads -> CallRecord]
      /\ \A t \in Threads : call[t] = NoCall
  BY <1>1 DEF BridgeInit
<1>3. Typed
  <2>1. procs \in Seq(Process) /\ inflight \in [Scopes \X ClientIds -> Nat] /\ proc \in Nat /\ nextID \in Nat
    BY <1>2
  <2>2. closed \in BOOLEAN /\ startLock \in Threads \cup {Nil} /\ cancels \subseteq [id : Nat, by : AllCallers]
    BY <1>2
  <2> QED
    BY <1>2, <2>1, <2>2 DEF Typed
<1>4. \A t \in Threads : CallOK(call[t], nextID, procs)
  BY <1>1, <1>2 DEF CallOK
<1>5. IdsUnique /\ SeenOK /\ PendingOK /\ OwnAnswers
  BY <1>1, <1>2 DEF IdsUnique, SeenOK, PendingOK, OwnAnswers
<1>6. LockOK
  BY <1>1, <1>2, MessagesAssumption DEF LockOK, NoStrayProcess
<1>7. OneOwner
  BY <1>2 DEF OneOwner
<1> QED
  BY <1>3, <1>4, <1>5, <1>6, <1>7 DEF BridgeInv

-----------------------------------------------------------------------------
(* What the gateway reads in a message.                                    *)

\* What Parse lets through has one method, by whatever spelling a server looks
\* for it, and the gateway's own reading of it is that one.
LEMMA OneMethod ==
    ASSUME NEW msg, Parse(msg)
    PROVE  Read(msg.top, "method") \subseteq {Method(msg)}
<1> DEFINE top == msg.top
<1>1. checkDuplicateKeys(top) /\ checkReservedNames(top, topLevelMembers)
  BY DEF Parse
<1>2. ASSUME NEW i \in DOMAIN top, foldName(top[i][1]) = "method" PROVE top[i][1] = Exact("method")
  BY <1>1, <1>2 DEF checkReservedNames, topLevelMembers
<1>3. \A n : foldName(Exact(n)) = n
  BY DEF foldName, Exact
<1>4. ASSUME NEW v \in Read(top, "method") PROVE \E i \in DOMAIN top : top[i][1] = Exact("method") /\ v = top[i][2]
  <2>1. v \in Get(top, "method") \/ v \in GetFolded(top, "method")
    BY DEF Read, ServerReads
  <2> QED
    BY <1>2, <2>1 DEF Get, GetFolded
<1>5. \A i, j \in DOMAIN top : top[i][1] = Exact("method") /\ top[j][1] = Exact("method") => i = j
  BY <1>1 DEF checkDuplicateKeys
<1>6. \A m \in Get(top, "method") : \E i \in DOMAIN top : top[i][1] = Exact("method") /\ m = top[i][2]
  BY DEF Get
<1> SUFFICES ASSUME NEW v \in Read(top, "method") PROVE v = Method(msg)
  OBVIOUS
<1>7. PICK i \in DOMAIN top : top[i][1] = Exact("method") /\ v = top[i][2]
  BY <1>4
<1>8. v \in Get(top, "method")
  BY <1>7 DEF Get
<1>9. \A m \in Get(top, "method") : m = v
  BY <1>5, <1>6, <1>7
<1> QED
  BY <1>8, <1>9 DEF Method

\* A tool call that is forwarded carries one name, the one that was judged.
LEMMA OneName ==
    ASSUME NEW msg, Parse(msg), DOMAIN msg = {"who", "session", "top", "params", "args"}, NEW name
    PROVE  /\ \A n \in Read(forwardBody(msg, name).params, "name") : n = name
           /\ Method(msg) = "tools/call" => name \in Read(forwardBody(msg, name).params, "name")
           /\ forwardBody(msg, name).who = msg.who /\ forwardBody(msg, name).session = msg.session
           /\ forwardBody(msg, name).top = msg.top /\ forwardBody(msg, name).args = msg.args
<1> DEFINE old == msg.params
           new == [i \in DOMAIN old |-> IF old[i][1] = Exact("name") THEN <<old[i][1], name>> ELSE old[i]]
<1>1. forwardBody(msg, name) = [msg EXCEPT !.params = new]
  BY DEF forwardBody
<1>2. /\ forwardBody(msg, name).params = new
      /\ forwardBody(msg, name).who = msg.who /\ forwardBody(msg, name).session = msg.session
      /\ forwardBody(msg, name).top = msg.top /\ forwardBody(msg, name).args = msg.args
  BY <1>1
<1>3. checkReservedNames(old, paramMembers)
  BY DEF Parse
<1>4. ASSUME NEW i \in DOMAIN old, foldName(old[i][1]) = "name" PROVE old[i][1] = Exact("name")
  BY <1>3, <1>4 DEF checkReservedNames, paramMembers
<1>5. foldName(Exact("name")) = "name"
  BY DEF foldName, Exact
<1>6. ASSUME NEW i \in DOMAIN old PROVE new[i][1] = old[i][1] /\ (old[i][1] = Exact("name") => new[i][2] = name)
  OBVIOUS
<1>7. DOMAIN new = DOMAIN old
  OBVIOUS
<1>10. ASSUME Method(msg) = "tools/call" PROVE \E i \in DOMAIN old : old[i][1] = Exact("name")
  <2>1. Get(msg.top, "method") # {}
    BY <1>10 DEF Method, Empty
  <2>2. \A m \in Get(msg.top, "method") : m = "tools/call"
    BY <1>10, OneMethod DEF Read, ServerReads
  <2>3. Get(msg.top, "method") = {"tools/call"}
    BY <2>1, <2>2
  <2>4. Get(old, "name") # {}
    BY <2>3 DEF Parse
  <2> QED
    BY <2>4 DEF Get
<1> HIDE DEF new, old
<1>11. ASSUME Method(msg) = "tools/call" PROVE name \in Get(new, "name")
  BY <1>6, <1>7, <1>10, <1>11 DEF Get
<1>8. \A n \in Get(new, "name") : n = name
  BY <1>6, <1>7 DEF Get
<1>9. \A n \in GetFolded(new, "name") : n = name
  BY <1>4, <1>6, <1>7 DEF GetFolded
<1> QED
  BY <1>2, <1>8, <1>9, <1>11 DEF Read, ServerReads

\* In what Parse lets through, an argument has one value, however it is read.
LEMMA OneValue ==
    ASSUME NEW args, checkDuplicateKeys(args), NEW i \in DOMAIN args
    PROVE  lookupFolded(args, foldName(args[i][1])) = {args[i][2]}
<1> DEFINE n == foldName(args[i][1])
<1>1. foldName(Exact(n)) = n
  BY DEF foldName, Exact
<1>2. \A j \in DOMAIN args : foldName(args[j][1]) = n => j = i
  BY DEF checkDuplicateKeys
<1>3. \A j \in DOMAIN args : args[j][1] = Exact(n) => j = i
  BY <1>1, <1>2
<1> HIDE DEF n
<1>4. \A v \in Get(args, n) : v = args[i][2]
  BY <1>3 DEF Get
<1>5. GetFolded(args, n) = {args[i][2]}
  BY <1>2 DEF GetFolded, n
<1> QED
  BY <1>4, <1>5 DEF lookupFolded, n

\* A tool call that the policy allowed is forwarded as it was judged.
LEMMA AllowedIsJudged ==
    ASSUME NEW msg, IsMessage(msg), Parse(msg), Method(msg) = "tools/call", Allowed(msg)
    PROVE  Judged(targetForTool(ToolName(msg)).target, forwardBody(msg, targetForTool(ToolName(msg)).name))
<1> DEFINE at == targetForTool(ToolName(msg))
           out == forwardBody(msg, at.name)
<1>1. DOMAIN msg = {"who", "session", "top", "params", "args"}
  BY DEF IsMessage
<1>2. Evaluate(Targets[at.target].rules,
               BuildToolRequest(at.name, msg.args, Targets[at.target], httpMethod(at.target, at.name), msg.who.role))
  BY DEF Allowed
<1> HIDE DEF at
<1>3. /\ \A n \in Read(out.params, "name") : n = at.name
      /\ at.name \in Read(out.params, "name") /\ out.who = msg.who /\ out.args = msg.args
  BY <1>1, OneName
<1> HIDE DEF out
<1>4. \A i \in DOMAIN msg.args : lookupFolded(msg.args, foldName(msg.args[i][1])) = {msg.args[i][2]}
  BY OneValue DEF Parse
<1>5. Judged(at.target, out)
  BY <1>2, <1>3, <1>4 DEF Judged, at
<1> QED
  BY <1>5 DEF at, out

-----------------------------------------------------------------------------
(* The steps of the gateway keep its invariant.                            *)

\* A step of request t at the gateway.
LEMMA ThreadKeeps ==
    ASSUME GatewayInv, NEW t \in Threads, NEW r, thread' = [thread EXCEPT ![t] = r],
           \A u \in Threads \ {t} : call'[u].pc = call[u].pc,
           ThreadOK(r, call'[t]), TokensOwn',
           \A x \in reached' : x \in reached \/ Delivered(x)
    PROVE  GatewayInv'
<1>1. /\ DOMAIN thread = Threads /\ \A u \in Threads : ThreadOK(thread[u], call[u])
      /\ \A x \in reached : Delivered(x)
  BY DEF GatewayInv
<1>2. DOMAIN thread' = Threads /\ thread'[t] = r /\ \A u \in Threads \ {t} : thread'[u] = thread[u]
  BY <1>1
<1>3. ASSUME NEW u \in Threads PROVE ThreadOK(thread'[u], call'[u])
  <2>1. CASE u = t
    BY <1>2, <2>1
  <2>2. CASE u # t
    <3>1. ThreadOK(thread[u], call[u])
      BY <1>1
    <3> QED
      BY <1>2, <2>2, <3>1 DEF ThreadOK
  <2> QED
    BY <2>1, <2>2
<1>4. \A x \in reached' : Delivered(x)
  BY <1>1
<1> QED
  BY <1>2, <1>3, <1>4 DEF GatewayInv

\* A request that is over.
LEMMA DoneOK ==
    ASSUME NEW c, c.pc = "idle"
    PROVE  ThreadOK(Fresh("done"), c)
<1>1. DOMAIN Fresh("done") = {"pc", "msg", "target", "page"} /\ Fresh("done").pc = "done"
  BY DEF Fresh
<1> QED
  BY <1>1 DEF ThreadOK

\* The next page or the next target of a listing.
LEMMA PageKeeps ==
    ASSUME NEW t \in Threads, ThreadOK(thread[t], call[t]), thread[t].pc \notin {"new", "done"},
           Method(thread[t].msg) = "tools/list", NEW more \in BOOLEAN, pageRead(t, more),
           NEW c, c.pc = "idle"
    PROVE  \E r : thread' = [thread EXCEPT ![t] = r] /\ ThreadOK(r, c)
<1> DEFINE th == thread[t]
<1>1. DOMAIN th = {"pc", "msg", "target", "page"} /\ Passed(th)
  BY DEF ThreadOK
<1>2. ASSUME NEW r, DOMAIN r = {"pc", "msg", "target", "page"}, r.pc \in {"list", "page"}, r.msg = th.msg
      PROVE  ThreadOK(r, c)
  <2>1. Passed(r)
    BY <1>1, <1>2 DEF Passed
  <2> QED
    BY <1>2, <2>1 DEF ThreadOK
<1>3. CASE thread' = [thread EXCEPT ![t].page = @ + 1, ![t].pc = "page"]
  <2> DEFINE r == [th EXCEPT !.page = @ + 1, !.pc = "page"]
  <2>1. thread' = [thread EXCEPT ![t] = r]
    BY <1>3
  <2>2. DOMAIN r = {"pc", "msg", "target", "page"} /\ r.pc = "page" /\ r.msg = th.msg
    BY <1>1
  <2> HIDE DEF r
  <2> QED
    BY <1>2, <2>1, <2>2
<1>4. CASE nextTarget(t)
  <2> DEFINE n == CHOOSE x \in After(th.target) : TRUE
             r == [th EXCEPT !.pc = "list", !.target = n, !.page = 0]
  <2>1. CASE After(th.target) = {}
    <3>1. thread' = [thread EXCEPT ![t] = Fresh("done")]
      BY <1>4, <2>1 DEF nextTarget
    <3> QED
      BY <3>1, DoneOK
  <2>2. CASE After(th.target) # {}
    <3>1. thread' = [thread EXCEPT ![t] = r]
      BY <1>4, <2>2 DEF nextTarget
    <3> HIDE DEF n
    <3>2. DOMAIN r = {"pc", "msg", "target", "page"} /\ r.pc = "list" /\ r.msg = th.msg
      BY <1>1
    <3> HIDE DEF r
    <3> QED
      BY <1>2, <3>1, <3>2
  <2> QED
    BY <2>1, <2>2
<1> QED
  BY <1>3, <1>4 DEF pageRead

\* A message that was let through, on its way.
LEMMA MoveKeeps ==
    ASSUME NEW th, NEW c, NEW next, ThreadOK(th, c), th.pc \notin {"new", "done"},
           NEW pc \in {"forward", "page", "listed", "bridge", "exchange", "relay"},
           next = [th EXCEPT !.pc = pc],
           pc \in {"page", "listed"} => Method(th.msg) = "tools/list",
           pc = "exchange" => th.msg.who.token # Empty,
           NEW d, pc \notin {"listed", "bridge"} => d.pc = "idle"
    PROVE  ThreadOK(next, d)
<1>1. DOMAIN th = {"pc", "msg", "target", "page"} /\ Passed(th)
  BY DEF ThreadOK
<1>2. DOMAIN next = {"pc", "msg", "target", "page"} /\ next.pc = pc /\ next.msg = th.msg /\ next.target = th.target
  BY <1>1
<1>3. Passed(next)
  BY <1>1, <1>2 DEF Passed
<1> QED
  BY <1>2, <1>3 DEF ThreadOK

\* After an HTTP request.
LEMMA RepliedKeeps ==
    ASSUME NEW t \in Threads, ThreadOK(thread[t], call[t]), thread[t].pc \notin {"new", "done"},
           NEW sent \in BOOLEAN, Replied(t, sent), call[t].pc = "idle"
    PROVE  \E r : thread' = [thread EXCEPT ![t] = r] /\ ThreadOK(r, call[t])
<1>1. CASE Method(thread[t].msg) = "tools/list"
  <2>1. PICK more \in BOOLEAN : pageRead(t, more)
    BY <1>1 DEF Replied
  <2> QED
    BY <1>1, <2>1, PageKeeps
<1>2. CASE Method(thread[t].msg) # "tools/list"
  <2>1. CASE thread' = [thread EXCEPT ![t] = Fresh("done")]
    BY <2>1, DoneOK
  <2>2. CASE To(t, "relay")
    <3>1. PICK r : r = [thread[t] EXCEPT !.pc = "relay"]
      OBVIOUS
    <3>2. thread' = [thread EXCEPT ![t] = r]
      BY <2>2, <3>1 DEF To
    <3>3. ThreadOK(r, call[t])
      BY <3>1, MoveKeeps
    <3> QED
      BY <3>2, <3>3
  <2> QED
    BY <1>2, <2>1, <2>2 DEF Replied, Done
<1> QED
  BY <1>1, <1>2

\* What is delivered.
LEMMA ReceivedOK ==
    ASSUME NEW t, Passed(thread[t]), NEW b,
           b \in {<<>>, <<"own", thread[t].msg.who.token>>, <<"exchanged", thread[t].target, thread[t].msg.who.token>>},
           b # <<>> => thread[t].msg.who.token # Empty
    PROVE  Delivered(Received(t, b))
<1> DEFINE x == Received(t, b)
<1>1. /\ x.request = t /\ x.target = thread[t].target /\ x.msg = thread[t].msg /\ x.bearer = b
      /\ x.session = IF thread[t].target = defaultName THEN thread[t].msg.session ELSE Empty
  BY DEF Received
<1> HIDE DEF x
<1>2. "tools/call" \in Read(x.msg.top, "method") => Judged(x.target, x.msg)
  BY <1>1 DEF Passed
<1>3. Delivered(x)
  BY <1>1, <1>2 DEF Delivered
<1> QED
  BY <1>3 DEF x

\* A message that is no tool call and was let through.
LEMMA PassOn ==
    ASSUME NEW t, NEW msg, IsMessage(msg), Parse(msg), Method(msg) # "tools/call",
           NEW pc \in {"cancel", "bridge", "forward", "list"}, pc = "list" => Method(msg) = "tools/list",
           NEW target, NEW d, pc \in {"forward", "list"} => d.pc = "idle"
    PROVE  ThreadOK([pc |-> pc, msg |-> msg, target |-> target, page |-> 0], d)
<1> DEFINE r == [pc |-> pc, msg |-> msg, target |-> target, page |-> 0]
<1>1. DOMAIN r = {"pc", "msg", "target", "page"} /\ r.pc = pc /\ r.msg = msg
  OBVIOUS
<1> HIDE DEF r
<1>2. Passed(r)
  BY <1>1, OneMethod DEF Passed, IsMessage
<1>3. ThreadOK(r, d)
  BY <1>1, <1>2 DEF ThreadOK
<1> QED
  BY <1>3 DEF r

\* The requests other than the one that enters or leaves the bridge.
LEMMA OthersStay ==
    ASSUME BridgeInv, NEW t \in Threads,
           \/ call' = call \/ call' = [call EXCEPT ![t] = NoCall]
           \/ \E kind, scope, client : Begin(t, kind, scope, client)
    PROVE  /\ \A u \in Threads \ {t} : call'[u].pc = call[u].pc
           /\ call' = [call EXCEPT ![t] = NoCall] => call'[t].pc = "idle"
<1>1. call \in [Threads -> CallRecord]
  BY DEF BridgeInv, Typed
<1>2. NoCall.pc = "idle"
  BY DEF NoCall
<1> QED
  BY <1>1, <1>2 DEF Begin

\* A message comes in.
LEMMA ServeKeeps ==
    ASSUME IInv, NEW t \in Threads, ServeHTTP(t)
    PROVE  IInv'
<1> DEFINE msg == thread[t].msg
<1>1. /\ BridgeInv /\ GatewayInv /\ ThreadOK(thread[t], call[t]) /\ thread[t].pc = "new"
      /\ tokens' = tokens /\ reached' = reached /\ TokensOwn
      /\ UNCHANGED <<closed, proc, procs, startLock, nextID, inflight, cancels>>
  BY DEF IInv, GatewayInv, ServeHTTP
<1>2. call[t].pc = "idle" /\ IsMessage(msg)
  BY <1>1 DEF ThreadOK
<1>3. TokensOwn'
  BY <1>1 DEF TokensOwn
<1>4. ASSUME call' = call PROVE BridgeInv'
  BY <1>1, <1>4, BridgeStutters DEF bridgeVars
<1>5. ASSUME NEW r, thread' = [thread EXCEPT ![t] = r], ThreadOK(r, call'[t]),
             call' = call \/ \E kind, scope, client : Begin(t, kind, scope, client)
      PROVE  GatewayInv'
  <2>1. \A u \in Threads \ {t} : call'[u].pc = call[u].pc
    BY <1>1, <1>5, OthersStay
  <2>2. \A x \in reached' : x \in reached
    BY <1>1
  <2> QED
    BY <1>1, <1>3, <1>5, <2>1, <2>2, ThreadKeeps
<1>6. CASE Done(t) /\ call' = call
  <2>1. thread' = [thread EXCEPT ![t] = Fresh("done")] /\ call'[t].pc = "idle"
    BY <1>2, <1>6 DEF Done
  <2>2. ThreadOK(Fresh("done"), call'[t])
    BY <2>1, DoneOK
  <2> QED
    BY <1>4, <1>5, <1>6, <2>1, <2>2 DEF IInv
<1>7. CASE Parse(msg) /\ Method(msg) = "tools/call" /\ handleToolCall(t, msg)
  <2> DEFINE at == targetForTool(ToolName(msg))
             out == forwardBody(msg, at.name)
  <2>1. PICK canceled \in BOOLEAN :
           LET allowed == Allowed(msg) /\ ~canceled
               pc == IF findOpenAPITool(at.target, at.name) = {} THEN "forward" ELSE "openapi"
           IN  /\ thread' = [thread EXCEPT ![t] =
                     IF allowed THEN [pc |-> pc, msg |-> out, target |-> at.target, page |-> 0]
                     ELSE Fresh("done")]
               /\ UNCHANGED call
    BY <1>7 DEF handleToolCall
  <2>2. call' = call
    BY <2>1
  <2>3. CASE ~(Allowed(msg) /\ ~canceled)
    <3>1. Done(t)
      BY <2>1, <2>3 DEF Done
    <3> QED
      BY <1>6, <2>2, <3>1
  <2>4. CASE Allowed(msg) /\ ~canceled
    <3>1. PICK pc \in {"forward", "openapi"} :
             thread' = [thread EXCEPT ![t] = [pc |-> pc, msg |-> out, target |-> at.target, page |-> 0]]
      BY <2>1, <2>4
    <3> DEFINE r == [pc |-> pc, msg |-> out, target |-> at.target, page |-> 0]
    <3>3. DOMAIN r = {"pc", "msg", "target", "page"} /\ r.pc = pc /\ r.msg = out /\ r.target = at.target
      OBVIOUS
    <3>4. Judged(at.target, out)
      BY <1>2, <1>7, <2>4, AllowedIsJudged
    <3>5. DOMAIN msg = {"who", "session", "top", "params", "args"}
      BY <1>2 DEF IsMessage
    <3>6. out.top = msg.top /\ out.who = msg.who /\ out.session = msg.session
      BY <1>7, <3>5, OneName
    <3> HIDE DEF r, out, at, msg
    <3>7. Passed(r)
      <4>1. Method(out) = Method(msg) /\ stdioScope(out) = stdioScope(msg)
        BY <3>6 DEF Method, stdioScope
      <4> QED
        BY <1>2, <1>7, <3>3, <3>4, <3>6, <4>1, OneMethod DEF Passed, IsMessage
    <3>8. ThreadOK(r, call'[t])
      BY <1>2, <2>2, <3>3, <3>7 DEF ThreadOK
    <3>9. thread' = [thread EXCEPT ![t] = r]
      BY <3>1 DEF r
    <3> QED
      BY <1>4, <1>5, <2>2, <3>8, <3>9 DEF IInv
  <2> QED
    BY <2>3, <2>4
<1>8. CASE Parse(msg) /\ Method(msg) = "tools/list" /\ handleToolList(t, msg)
  <2>1. call' = call
    BY <1>8 DEF handleToolList
  <2>2. CASE ~hasID(msg)
    <3>1. Done(t)
      BY <1>8, <2>2 DEF handleToolList, Done
    <3> QED
      BY <1>6, <2>1, <3>1
  <2>3. CASE hasID(msg)
    <3>1. PICK r : r = [pc |-> "list", msg |-> msg, target |-> defaultName, page |-> 0]
      OBVIOUS
    <3>2. thread' = [thread EXCEPT ![t] = r]
      BY <1>8, <2>3, <3>1 DEF handleToolList
    <3>3. ThreadOK(r, call'[t])
      BY <1>2, <1>8, <2>1, <3>1, PassOn
    <3> QED
      BY <1>4, <1>5, <2>1, <3>2, <3>3 DEF IInv
  <2> QED
    BY <2>2, <2>3
<1>9. CASE Parse(msg) /\ Method(msg) # "tools/call" /\ handlePassthrough(t, msg)
  <2> DEFINE id == Get(msg.params, "requestId")
             Rec(pc) == [pc |-> pc, msg |-> msg, target |-> defaultName, page |-> 0]
  <2>2. \/ Done(t) /\ call' = call
        \/ thread' = [thread EXCEPT ![t] = Rec("forward")] /\ call' = call
        \/ /\ id # {} /\ thread' = [thread EXCEPT ![t] = Rec("cancel")]
           /\ Begin(t, "cancel", stdioScope(msg), CHOOSE i \in id : TRUE)
        \/ thread' = [thread EXCEPT ![t] = Rec("bridge")] /\ Begin(t, "init", <<>>, Nil)
    <3> HIDE DEF msg
    <3> QED
      BY <1>9 DEF handlePassthrough
  <2>3. ASSUME NEW pc \in {"cancel", "bridge", "forward"}, pc = "forward" => call'[t].pc = "idle"
        PROVE  ThreadOK(Rec(pc), call'[t])
    BY <1>2, <1>9, <2>3, PassOn
  <2>4. CASE thread' = [thread EXCEPT ![t] = Rec("forward")] /\ call' = call
    <3>1. ThreadOK(Rec("forward"), call'[t])
      BY <1>2, <2>3, <2>4
    <3> HIDE DEF Rec
    <3> QED
      BY <1>4, <1>5, <2>4, <3>1 DEF IInv
  <2>5. CASE /\ id # {} /\ thread' = [thread EXCEPT ![t] = Rec("cancel")]
             /\ Begin(t, "cancel", stdioScope(msg), CHOOSE i \in id : TRUE)
    <3>1. ThreadOK(Rec("cancel"), call'[t])
      BY <2>3
    <3>2. stdioScope(msg) \in Scopes /\ (CHOOSE i \in id : TRUE) \in ClientIds
      BY <1>2, <2>5 DEF IsMessage
    <3> HIDE DEF Rec, id
    <3>3. GatewayInv'
      BY <1>5, <2>5, <3>1
    <3>4. BridgeInv'
      BY <1>1, <1>2, <2>5, <3>2, EntryKeeps
    <3> QED
      BY <3>3, <3>4 DEF IInv
  <2>6. CASE thread' = [thread EXCEPT ![t] = Rec("bridge")] /\ Begin(t, "init", <<>>, Nil)
    <3>1. ThreadOK(Rec("bridge"), call'[t])
      BY <2>3
    <3> HIDE DEF Rec, id
    <3>2. GatewayInv'
      BY <1>5, <2>6, <3>1
    <3>3. BridgeInv'
      BY <1>1, <1>2, <2>6, EntryKeeps
    <3> QED
      BY <3>2, <3>3 DEF IInv
  <2> QED
    BY <1>6, <2>2, <2>4, <2>5, <2>6
<1> HIDE DEF msg
<1>10. \/ ~Parse(msg) /\ Done(t) /\ UNCHANGED call
       \/ Parse(msg) /\ Method(msg) = "tools/call" /\ handleToolCall(t, msg)
       \/ Parse(msg) /\ Method(msg) = "tools/list" /\ handleToolList(t, msg)
       \/ Parse(msg) /\ Method(msg) # "tools/call" /\ handlePassthrough(t, msg)
  BY DEF ServeHTTP, msg
<1> QED
  BY <1>6, <1>7, <1>8, <1>9, <1>10

\* A request comes back from the bridge, or goes into it.
LEMMA BridgeUseKeeps ==
    ASSUME IInv, NEW t \in Threads,
           \/ forwardStdioCancellation(t) \/ bridgeBack(t) \/ stdioPage(t)
           \/ listTargetTools(t) \/ forwardToStdio(t)
    PROVE  IInv'
<1> DEFINE th == thread[t]
<1>1. /\ BridgeInv /\ GatewayInv /\ ThreadOK(th, call[t]) /\ TokensOwn
      /\ \A x \in reached : Delivered(x)
  BY DEF IInv, GatewayInv
<1>2. /\ tokens' = tokens
      /\ UNCHANGED <<closed, proc, procs, startLock, nextID, inflight, cancels>>
  BY DEF forwardStdioCancellation, bridgeBack, stdioPage, listTargetTools, forwardToStdio
<1>3. TokensOwn'
  BY <1>1, <1>2 DEF TokensOwn
<1>4. ASSUME NEW r, thread' = [thread EXCEPT ![t] = r], ThreadOK(r, call'[t]),
             \/ call' = call \/ call' = [call EXCEPT ![t] = NoCall]
             \/ \E kind, scope, client : Begin(t, kind, scope, client),
             \A x \in reached' : x \in reached \/ Delivered(x)
      PROVE  GatewayInv'
  <2>1. \A u \in Threads \ {t} : call'[u].pc = call[u].pc
    BY <1>1, <1>4, OthersStay
  <2> QED
    BY <1>1, <1>2, <1>3, <1>4, <2>1, ThreadKeeps
<1>5. CASE /\ forwardStdioCancellation(t) \/ bridgeBack(t) \/ stdioPage(t)
  <2>1. /\ th.pc \in {"cancel", "bridge", "listed"} /\ call[t].pc = "back" /\ reached' = reached
        /\ call' = [call EXCEPT ![t] = NoCall]
    BY <1>5 DEF forwardStdioCancellation, bridgeBack, stdioPage
  <2>2. BridgeInv'
    BY <1>1, <1>2, <2>1, EntryKeeps
  <2>3. call'[t].pc = "idle"
    BY <1>1, <2>1, OthersStay
  <2>4. CASE Done(t)
    <3>1. thread' = [thread EXCEPT ![t] = Fresh("done")]
      BY <2>4 DEF Done
    <3> QED
      BY <1>4, <2>1, <2>2, <2>3, <3>1, DoneOK DEF IInv
  <2>5. CASE To(t, "forward")
    <3>1. PICK r : r = [th EXCEPT !.pc = "forward"]
      OBVIOUS
    <3>2. thread' = [thread EXCEPT ![t] = r]
      BY <2>5, <3>1 DEF To
    <3>3. ThreadOK(r, call'[t])
      BY <1>1, <2>1, <2>3, <3>1, MoveKeeps
    <3> QED
      BY <1>4, <2>1, <2>2, <3>2, <3>3 DEF IInv
  <2>6. CASE stdioPage(t)
    <3>1. PICK more \in BOOLEAN : pageRead(t, more)
      BY <2>6 DEF stdioPage
    <3>2. th.pc = "listed"
      BY <2>6 DEF stdioPage
    <3>3. Method(th.msg) = "tools/list"
      BY <1>1, <3>2 DEF ThreadOK, Passed
    <3>4. PICK r : thread' = [thread EXCEPT ![t] = r] /\ ThreadOK(r, call'[t])
      BY <1>1, <2>3, <3>1, <3>2, <3>3, PageKeeps
    <3> QED
      BY <1>4, <2>1, <2>2, <3>4 DEF IInv
  <2> QED
    BY <1>5, <2>4, <2>5, <2>6 DEF forwardStdioCancellation, bridgeBack
<1>6. CASE listTargetTools(t)
  <2>1. th.pc = "page" /\ reached' = reached
    BY <1>6 DEF listTargetTools
  <2>2. call[t].pc = "idle" /\ Method(th.msg) = "tools/list"
    BY <1>1, <2>1 DEF ThreadOK, Passed
  <2>3. CASE To(t, "listed") /\ Begin(t, "call", <<>>, Nil)
    <3>1. PICK r : r = [th EXCEPT !.pc = "listed"]
      OBVIOUS
    <3>2. thread' = [thread EXCEPT ![t] = r]
      BY <2>3, <3>1 DEF To
    <3>3. ThreadOK(r, call'[t])
      BY <1>1, <2>1, <2>2, <3>1, MoveKeeps
    <3>4. BridgeInv'
      BY <1>1, <1>2, <2>2, <2>3, EntryKeeps
    <3> QED
      BY <1>4, <2>1, <2>3, <3>2, <3>3, <3>4 DEF IInv
  <2>4. CASE To(t, "forward") /\ call' = call
    <3>1. PICK r : r = [th EXCEPT !.pc = "forward"]
      OBVIOUS
    <3>2. thread' = [thread EXCEPT ![t] = r]
      BY <2>4, <3>1 DEF To
    <3>3. ThreadOK(r, call'[t])
      BY <1>1, <2>1, <2>2, <2>4, <3>1, MoveKeeps
    <3>4. BridgeInv'
      BY <1>1, <1>2, <2>4, BridgeStutters DEF bridgeVars
    <3> QED
      BY <1>4, <2>1, <2>4, <3>2, <3>3, <3>4 DEF IInv
  <2> QED
    BY <1>6, <2>3, <2>4 DEF listTargetTools
<1>7. CASE forwardToStdio(t)
  <2>1. th.pc = "forward" /\ To(t, "bridge") /\ reached' = reached \cup {Received(t, <<>>)}
    BY <1>7 DEF forwardToStdio
  <2>2. call[t].pc = "idle" /\ Passed(th)
    BY <1>1, <2>1 DEF ThreadOK
  <2>3. PICK r : r = [th EXCEPT !.pc = "bridge"]
    OBVIOUS
  <2>4. thread' = [thread EXCEPT ![t] = r]
    BY <2>1, <2>3 DEF To
  <2>5. ThreadOK(r, call'[t])
    BY <1>1, <2>1, <2>2, <2>3, MoveKeeps
  <2>6. Delivered(Received(t, <<>>))
    BY <2>2, ReceivedOK
  <2>7. CASE hasID(th.msg) /\ Begin(t, "call", stdioScope(th.msg), clientID(th.msg))
    <3>1. stdioScope(th.msg) \in Scopes /\ clientID(th.msg) \in ClientIds
      BY <2>2, <2>7 DEF Passed, clientID, hasID
    <3>2. BridgeInv'
      BY <1>1, <1>2, <2>2, <2>7, <3>1, EntryKeeps
    <3> QED
      BY <1>4, <2>1, <2>4, <2>5, <2>6, <2>7, <3>2 DEF IInv
  <2>8. CASE Begin(t, "notify", <<>>, Nil)
    <3>1. BridgeInv'
      BY <1>1, <1>2, <2>2, <2>8, EntryKeeps
    <3> QED
      BY <1>4, <2>1, <2>4, <2>5, <2>6, <2>8, <3>1 DEF IInv
  <2> QED
    BY <1>7, <2>7, <2>8 DEF forwardToStdio
<1> QED
  BY <1>5, <1>6, <1>7

\* A step of the gateway that leaves the bridge alone.
LEMMA PlainKeeps ==
    ASSUME IInv, NEW t \in Threads,
           handleOpenAPICall(t) \/ listTarget(t) \/ targetRequest(t) \/ exchangeToken(t) \/ streamTargetResponse(t)
    PROVE  IInv'
<1> DEFINE th == thread[t]
           subject == thread[t].msg.who.token
<1>1. /\ BridgeInv /\ GatewayInv /\ ThreadOK(th, call[t]) /\ TokensOwn
  BY DEF IInv, GatewayInv
<1>2. UNCHANGED bridgeVars /\ call' = call
  BY DEF handleOpenAPICall, listTarget, targetRequest, exchangeToken, streamTargetResponse, bridgeVars
<1>3. BridgeInv'
  BY <1>1, <1>2, BridgeStutters
<1>4. th.pc \in {"openapi", "list", "forward", "exchange", "relay"}
  BY DEF handleOpenAPICall, listTarget, targetRequest, exchangeToken, streamTargetResponse
<1>5. call[t].pc = "idle" /\ Passed(th)
  BY <1>1, <1>4 DEF ThreadOK
<1>6. ASSUME NEW r, thread' = [thread EXCEPT ![t] = r], ThreadOK(r, call[t]), TokensOwn',
             \A x \in reached' : x \in reached \/ Delivered(x)
      PROVE  IInv'
  <2>1. ThreadOK(r, call'[t])
    BY <1>2, <1>6
  <2>2. GatewayInv'
    BY <1>1, <1>2, <1>6, <2>1, ThreadKeeps
  <2> QED
    BY <1>3, <2>2 DEF IInv
<1>7. CASE handleOpenAPICall(t)
  <2> DEFINE x == [request |-> t, target |-> th.target, msg |-> th.msg, bearer |-> <<>>, session |-> Empty]
  <2>1. thread' = [thread EXCEPT ![t] = Fresh("done")] /\ tokens' = tokens /\ reached' \subseteq reached \cup {x}
    BY <1>7 DEF handleOpenAPICall, Done
  <2>2. Delivered(x)
    <3>1. x.request = t /\ x.target = th.target /\ x.msg = th.msg /\ x.bearer = <<>> /\ x.session = Empty
      OBVIOUS
    <3> HIDE DEF x
    <3>2. "tools/call" \in Read(x.msg.top, "method") => Judged(x.target, x.msg)
      BY <1>5, <3>1 DEF Passed
    <3> QED
      BY <3>1, <3>2 DEF Delivered
  <2> HIDE DEF x
  <2>3. TokensOwn'
    BY <1>1, <2>1 DEF TokensOwn
  <2>4. ThreadOK(Fresh("done"), call[t])
    BY <1>5, DoneOK
  <2> QED
    BY <1>6, <2>1, <2>2, <2>3, <2>4
<1>8. CASE listTarget(t)
  <2>1. th.pc = "list" /\ tokens' = tokens /\ reached' = reached /\ (To(t, "page") \/ nextTarget(t))
    BY <1>8 DEF listTarget
  <2>2. TokensOwn'
    BY <1>1, <2>1 DEF TokensOwn
  <2>3. Method(th.msg) = "tools/list"
    BY <1>5, <2>1 DEF Passed
  <2>4. CASE To(t, "page")
    <3>1. PICK r : r = [th EXCEPT !.pc = "page"]
      OBVIOUS
    <3>2. thread' = [thread EXCEPT ![t] = r]
      BY <2>4, <3>1 DEF To
    <3>3. ThreadOK(r, call[t])
      BY <1>1, <1>4, <1>5, <2>3, <3>1, MoveKeeps
    <3> QED
      BY <1>6, <2>1, <2>2, <3>2, <3>3
  <2>5. CASE nextTarget(t)
    <3>1. pageRead(t, FALSE)
      BY <2>5 DEF pageRead
    <3>2. PICK r : thread' = [thread EXCEPT ![t] = r] /\ ThreadOK(r, call[t])
      BY <1>1, <1>4, <1>5, <2>3, <3>1, PageKeeps
    <3> QED
      BY <1>6, <2>1, <2>2, <3>2
  <2> QED
    BY <2>1, <2>4, <2>5
<1>9. ASSUME NEW sent \in BOOLEAN, Replied(t, sent), TokensOwn',
             \A x \in reached' : x \in reached \/ Delivered(x)
      PROVE  IInv'
  <2>1. PICK r : thread' = [thread EXCEPT ![t] = r] /\ ThreadOK(r, call[t])
    BY <1>1, <1>4, <1>5, <1>9, RepliedKeeps
  <2> QED
    BY <1>6, <1>9, <2>1
<1>10. bearer(th, <<>>) = <<>> \/ (bearer(th, <<>>) = <<"own", subject>> /\ subject # Empty)
  BY DEF bearer
<1>11. \A k : bearer(th, <<"exchanged", th.target, subject>>) = <<"exchanged", th.target, subject>>
  BY DEF bearer
<1>12. CASE targetRequest(t)
  <2> DEFINE cached == {e \in tokens : e.key = tokenCacheKey(th.target, subject)}
  <2>1. CASE /\ Replied(t, TRUE) /\ reached' = reached \cup {Received(t, bearer(th, <<>>))} /\ tokens' = tokens
    <3>1. Delivered(Received(t, bearer(th, <<>>)))
      BY <1>5, <1>10, ReceivedOK
    <3>2. TokensOwn'
      BY <1>1, <2>1 DEF TokensOwn
    <3> QED
      BY <1>9, <2>1, <3>1, <3>2
  <2>2. CASE /\ subject # Empty /\ Replied(t, TRUE) /\ tokens' = tokens
             /\ \E e \in cached : reached' = reached \cup {Received(t, bearer(th, e.token))}
    <3>1. PICK e \in cached : reached' = reached \cup {Received(t, bearer(th, e.token))}
      BY <2>2
    <3>2. e.token = <<"exchanged", th.target, subject>>
      <4>1. e.token = <<"exchanged", e.key[1], e.key[2]>> /\ e.key = <<th.target, subject>>
        BY <1>1 DEF TokensOwn, tokenCacheKey
      <4> QED
        BY <4>1
    <3>3. Delivered(Received(t, bearer(th, e.token)))
      BY <1>5, <1>11, <2>2, <3>2, ReceivedOK
    <3>4. TokensOwn'
      BY <1>1, <2>2 DEF TokensOwn
    <3> QED
      BY <1>9, <2>2, <3>1, <3>3, <3>4
  <2>3. CASE /\ subject # Empty /\ To(t, "exchange") /\ tokens' \subseteq tokens /\ reached' = reached
    <3>1. PICK r : r = [th EXCEPT !.pc = "exchange"]
      OBVIOUS
    <3>2. thread' = [thread EXCEPT ![t] = r]
      BY <2>3, <3>1 DEF To
    <3>3. ThreadOK(r, call[t])
      BY <1>1, <1>4, <1>5, <2>3, <3>1, MoveKeeps
    <3>4. TokensOwn'
      BY <1>1, <2>3 DEF TokensOwn
    <3> QED
      BY <1>6, <2>3, <3>2, <3>3, <3>4
  <2> QED
    BY <1>12, <2>1, <2>2, <2>3 DEF targetRequest
<1>13. CASE exchangeToken(t)
  <2> DEFINE token == <<"exchanged", th.target, subject>>
             entry == [key |-> tokenCacheKey(th.target, subject), token |-> token, expired |-> FALSE]
  <2>0. th.pc = "exchange"
    BY <1>13 DEF exchangeToken
  <2>1. subject # Empty
    BY <1>5, <2>0 DEF Passed
  <2>2. \A e \in put(entry) : e \in tokens \/ e = entry
    BY DEF put
  <2>3. DOMAIN entry = {"key", "token", "expired"} /\ entry.token = <<"exchanged", entry.key[1], entry.key[2]>>
    BY DEF tokenCacheKey
  <2>4. \/ /\ Replied(t, TRUE) /\ reached' = reached \cup {Received(t, bearer(th, token))}
           /\ \E keep \in BOOLEAN : tokens' = IF keep THEN put(entry) ELSE tokens
        \/ Replied(t, FALSE) /\ UNCHANGED <<tokens, reached>>
    BY <1>13 DEF exchangeToken
  <2>5. Delivered(Received(t, bearer(th, token)))
    BY <1>5, <1>11, <2>1, ReceivedOK
  <2> HIDE DEF token, entry
  <2>6. TokensOwn'
    <3>1. \A e \in tokens' : e \in tokens \/ e = entry
      BY <2>2, <2>4
    <3> QED
      BY <1>1, <2>3, <3>1 DEF TokensOwn
  <2> QED
    BY <1>9, <2>4, <2>5, <2>6
<1>14. CASE streamTargetResponse(t)
  <2>1. thread' = [thread EXCEPT ![t] = Fresh("done")] /\ tokens' = tokens /\ reached' = reached
    BY <1>14 DEF streamTargetResponse, Done
  <2>2. TokensOwn'
    BY <1>1, <2>1 DEF TokensOwn
  <2>3. ThreadOK(Fresh("done"), call[t])
    BY <1>5, DoneOK
  <2> QED
    BY <1>6, <2>1, <2>2, <2>3
<1> QED
  BY <1>7, <1>8, <1>12, <1>13, <1>14

\* A step of a request in the bridge is one of a request that is there, and of no other.
LEMMA BridgeStepIs ==
    ASSUME BridgeInv, NEW t \in Threads, BridgeStep(t)
    PROVE  call[t].pc # "idle" /\ \A u \in Threads \ {t} : call'[u] = call[u]
<1>1. call \in [Threads -> CallRecord]
  BY DEF BridgeInv, Typed
<1>2. call[t].pc # "idle"
  BY DEF BridgeStep, ensureProcess, GiveUpStart, handshakeFails, initialized, handshakeDone, track, register,
         writeLine, writeFails, Cancel, CancelSend, answered, processGone, timeout
<1>3. \E r : call' = [call EXCEPT ![t] = r]
  <2>1. ASSUME NEW ok, NEW got, call' = Back(t, ok, got) PROVE \E r : call' = [call EXCEPT ![t] = r]
    BY <2>1 DEF Back
  <2>2. ASSUME NEW p, call' = Started(t, p) PROVE \E r : call' = [call EXCEPT ![t] = r]
    BY <2>1, <2>2 DEF Started
  <2>3. CASE ensureProcess(t) \/ GiveUpStart(t) \/ handshakeFails(t)
    BY <2>1, <2>2, <2>3 DEF ensureProcess, GiveUpStart, handshakeFails
  <2>4. CASE initialized(t) \/ handshakeDone(t)
    BY <2>1, <2>2, <2>4 DEF initialized, handshakeDone
  <2>5. CASE track(t) \/ register(t) \/ writeLine(t)
    BY <2>1, <2>5 DEF track, register, writeLine
  <2>6. CASE Cancel(t) \/ CancelSend(t)
    BY <2>1, <2>6 DEF Cancel, CancelSend
  <2>7. CASE writeFails(t) \/ answered(t) \/ processGone(t) \/ timeout(t)
    BY <2>1, <2>7 DEF writeFails, answered, processGone, timeout
  <2> QED
    BY <2>3, <2>4, <2>5, <2>6, <2>7 DEF BridgeStep
<1> QED
  BY <1>1, <1>2, <1>3

\* The server changes no request's place in the bridge.
LEMMA ServerStepIs ==
    ASSUME BridgeInv, ServerStep
    PROVE  \A u \in Threads : call'[u].pc = call[u].pc
<1>1. call \in [Threads -> CallRecord] /\ procs \in Seq(Process)
  BY DEF BridgeInv, Typed
<1>2. ASSUME NEW p \in DOMAIN procs, NEW s \in procs[p].seen, dispatch(p, s)
      PROVE  \A u \in Threads : call'[u].pc = call[u].pc
  <2>1. PICK w \in procs[p].pending : call' = [call EXCEPT ![w[2]].got = s[2]]
    BY <1>2 DEF dispatch
  <2>2. w[2] \in Threads
    BY <1>1, ProcessFacts
  <2>3. call[w[2]] \in CallRecord
    BY <1>1, <2>2
  <2> QED
    BY <1>1, <2>1, <2>2, <2>3 DEF CallRecord
<1> QED
  BY <1>1, <1>2 DEF ServerStep, exit, readLoopEnds, close

\* The gateway's invariant does not depend on what the bridge does inside.
LEMMA GatewayStutters ==
    ASSUME GatewayInv, UNCHANGED gatewayVars,
           \A u \in Threads : call'[u].pc = call[u].pc \/ call[u].pc # "idle"
    PROVE  GatewayInv'
<1>1. /\ DOMAIN thread = Threads /\ \A u \in Threads : ThreadOK(thread[u], call[u])
      /\ TokensOwn /\ \A x \in reached : Delivered(x)
  BY DEF GatewayInv
<1>2. thread' = thread /\ tokens' = tokens /\ reached' = reached
  BY DEF gatewayVars
<1>3. \A u \in Threads : ThreadOK(thread[u], call'[u])
  BY <1>1 DEF ThreadOK
<1>4. TokensOwn'
  BY <1>1, <1>2 DEF TokensOwn
<1> QED
  BY <1>1, <1>2, <1>3, <1>4 DEF GatewayInv

\* The inductive invariant: where each request is, what the bridge's ids stand
\* for, and what was judged.
THEOREM Invariance == Spec => []IInv
<1>1. Init => IInv
  <2> SUFFICES ASSUME Init PROVE IInv
    OBVIOUS
  <2>1. BridgeInit /\ tokens = {} /\ reached = {}
    BY DEF Init
  <2>2. PICK batch \in Batches :
           thread = [t \in Threads |-> IF batch[t] = NoMessage THEN Fresh("done")
                                       ELSE [Fresh("new") EXCEPT !.msg = batch[t]]]
    BY DEF Init
  <2>3. ASSUME NEW t \in Threads PROVE ThreadOK(thread[t], call[t])
    <3>1. call[t].pc = "idle"
      BY <2>1 DEF BridgeInit, NoCall
    <3>2. CASE batch[t] = NoMessage
      <4>1. thread[t] = Fresh("done")
        BY <2>2, <3>2
      <4> QED
        BY <3>1, <4>1, DoneOK
    <3>3. CASE batch[t] # NoMessage
      <4>1. thread[t] = [Fresh("new") EXCEPT !.msg = batch[t]] /\ IsMessage(batch[t])
        BY <2>2, <3>3, MessagesAssumption
      <4>2. DOMAIN thread[t] = {"pc", "msg", "target", "page"} /\ thread[t].pc = "new" /\ thread[t].msg = batch[t]
        BY <4>1 DEF Fresh
      <4> QED
        BY <3>1, <4>1, <4>2 DEF ThreadOK
    <3> QED
      BY <3>2, <3>3
  <2>4. DOMAIN thread = Threads
    BY <2>2
  <2>5. GatewayInv
    BY <2>1, <2>3, <2>4 DEF GatewayInv, TokensOwn
  <2> QED
    BY <2>1, <2>5, BridgeStarts DEF IInv
<1>2. IInv /\ [Next]_vars => IInv'
  <2> SUFFICES ASSUME IInv, [Next]_vars PROVE IInv'
    OBVIOUS
  <2>1. BridgeInv /\ GatewayInv
    BY DEF IInv
  <2>2. ASSUME NEW t \in Threads, BridgeStep(t), UNCHANGED gatewayVars PROVE IInv'
    <3>1. \A u \in Threads : call'[u].pc = call[u].pc \/ call[u].pc # "idle"
      BY <2>1, <2>2, BridgeStepIs
    <3> QED
      BY <2>1, <2>2, <3>1, BridgeStepKeeps, GatewayStutters DEF IInv
  <2>3. ASSUME NEW t \in Threads, RequestStep(t) PROVE IInv'
    BY <2>2, <2>3, ServeKeeps, BridgeUseKeeps, PlainKeeps DEF RequestStep
  <2>7. ASSUME NEW t \in Threads, ClientLeaves(t) PROVE IInv'
    <3>1. UNCHANGED bridgeVars /\ UNCHANGED gatewayVars /\ call' = call
      BY <2>7 DEF ClientLeaves, bridgeVars
    <3> QED
      BY <2>1, <3>1, BridgeStutters, GatewayStutters DEF IInv
  <2>4. CASE ServerStep /\ UNCHANGED gatewayVars
    BY <2>1, <2>4, ServerStepIs, ServerStepKeeps, GatewayStutters DEF IInv
  <2>5. CASE tokenExpires
    <3>1. UNCHANGED <<thread, reached>> /\ UNCHANGED bridgeVars /\ call' = call
      BY <2>5 DEF tokenExpires, bridgeVars
    <3>2. PICK e \in tokens : tokens' = (tokens \ {e}) \cup {[e EXCEPT !.expired = TRUE]}
      BY <2>5 DEF tokenExpires
    <3>3. TokensOwn'
      <4>1. TokensOwn
        BY <2>1 DEF GatewayInv
      <4>2. PICK f : f = [e EXCEPT !.expired = TRUE]
        OBVIOUS
      <4>3. DOMAIN f = {"key", "token", "expired"} /\ f.token = <<"exchanged", f.key[1], f.key[2]>>
        BY <4>1, <4>2 DEF TokensOwn
      <4> QED
        BY <3>2, <4>1, <4>2, <4>3 DEF TokensOwn
    <3>4. GatewayInv'
      BY <2>1, <3>1, <3>3 DEF GatewayInv
    <3> QED
      BY <2>1, <3>1, <3>4, BridgeStutters DEF IInv
  <2>6. CASE UNCHANGED vars
    <3>1. UNCHANGED bridgeVars /\ UNCHANGED gatewayVars /\ call' = call
      BY <2>6 DEF vars, bridgeVars, gatewayVars
    <3> QED
      BY <2>1, <3>1, BridgeStutters, GatewayStutters DEF IInv
  <2> QED
    BY <2>3, <2>4, <2>5, <2>6, <2>7 DEF Next
<1> QED
  BY <1>1, <1>2, PTL DEF Spec

-----------------------------------------------------------------------------
(* What the runs check, for every number of requests and every target.     *)

\* An answer reaches the request that it answers, however late it comes and
\* whatever was restarted or abandoned in between.
THEOREM AnswersAreOwn == Spec => []AnswerIsOwn
<1>1. IInv => AnswerIsOwn
  BY DEF IInv, BridgeInv, OwnAnswers, PendingOK, AnswerIsOwn
<1> QED
  BY <1>1, Invariance, PTL

\* A process that runs is the bridge's own or being started by the holder of the
\* lock, and a closed bridge has none.
THEOREM NoProcessAstray == Spec => []NoStrayProcess
<1>1. IInv => NoStrayProcess
  BY DEF IInv, BridgeInv, LockOK
<1> QED
  BY <1>1, Invariance, PTL

\* A server is told to cancel only what the canceling caller sent to it.
THEOREM CancelsAreOwn == Spec => []CancelReachesOwn
<1>1. IInv => CancelReachesOwn
  <2> SUFFICES ASSUME BridgeInv, NEW c \in cancels, NEW p \in DOMAIN procs, NEW s \in procs[p].seen, s[1] = c.id
               PROVE  s[3] = c.by
    BY DEF IInv, CancelReachesOwn
  <2>1. procs \in Seq(Process) /\ cancels \subseteq [id : Nat, by : AllCallers] /\ nextID \in Nat /\ OneOwner
    BY DEF BridgeInv, Typed
  <2>2. c.id \in Nat /\ c.by \in AllCallers /\ s[3] \in AllCallers
    BY <2>1, ProcessFacts
  <2>3. c.id \in 1..nextID
    BY <2>1, <2>2 DEF OneOwner
  <2>4. Claim(c.id, c.by) /\ Claim(c.id, s[3])
    BY DEF Claim
  <2> QED
    BY <2>1, <2>2, <2>3, <2>4 DEF OneOwner
<1> QED
  BY <1>1, Invariance, PTL

\* What a target takes for a tool call, however it reads the names in it, was judged
\* by its policy with the values that the target reads (Parse, targetForTool,
\* forwardBody, handleToolCall).
THEOREM CallsAreJudged == Spec => []JudgedAsRead
<1>1. IInv => JudgedAsRead
  BY DEF IInv, GatewayInv, Delivered, Judged, JudgedAsRead
<1> QED
  BY <1>1, Invariance, PTL

\* A target receives only the caller's own token or one exchanged for it.
THEOREM CredentialsAreOwn == Spec => []CredentialsOwn
<1>1. IInv => CredentialsOwn
  BY DEF IInv, GatewayInv, Delivered, CredentialsOwn
<1> QED
  BY <1>1, Invariance, PTL

\* A call stays what a cancellation finds until it ends or its caller uses the id
\* again.
THEOREM TrackingIsKept == Spec => TrackedWhileInFlight
<1> DEFINE Kept == \A k \in Scopes \X ClientIds : (inflight[k] # 0 /\ inflight'[k] # inflight[k]) =>
          \/ inflight'[k] > inflight[k]
          \/ \E t \in Threads : call[t].id = inflight[k] /\ call[t].kind = "call" /\ call'[t].pc = "back"
<1>1. IInv /\ [Next]_vars => [Kept]_bridgeVars
  <2> SUFFICES ASSUME IInv, [Next]_vars PROVE Kept
    OBVIOUS
  <2>0. BridgeInv
    BY DEF IInv
  <2>1. CASE inflight' = inflight
    BY <2>1
  <2>2. ASSUME NEW t \in Threads, track(t) PROVE Kept
    <3>1. inflight \in [Scopes \X ClientIds -> Nat] /\ nextID \in Nat /\ \A k \in Scopes \X ClientIds : inflight[k] <= nextID
      BY <2>0 DEF BridgeInv, Typed, OneOwner
    <3>2. inflight' = inflight \/ \E k : inflight' = [inflight EXCEPT ![k] = nextID + 1]
      BY <2>2 DEF track, bridgeID
    <3>3. \A k \in Scopes \X ClientIds : inflight'[k] = inflight[k] \/ inflight'[k] = nextID + 1
      BY <3>1, <3>2
    <3>4. \A k \in Scopes \X ClientIds : nextID + 1 > inflight[k]
      BY <3>1
    <3> QED
      BY <3>3, <3>4
  <2>3. ASSUME NEW t \in Threads, inflight' = untrack(t), NEW ok, NEW got, call' = Back(t, ok, got) PROVE Kept
    <3>1. call'[t].pc = "back"
      BY <2>0, <2>3 DEF BridgeInv, Typed, Back, NoCall
    <3>2. \A k \in Scopes \X ClientIds : inflight'[k] # inflight[k] => Tracked(t) /\ inflight[k] = call[t].id
      BY <2>0, <2>3, UntrackFacts
    <3> QED
      BY <3>1, <3>2 DEF Tracked
  <2>4. ASSUME NEW t \in Threads, BridgeStep(t) PROVE Kept
    <3> HIDE DEF Kept
    <3>1. CASE register(t)
      BY <2>1, <2>3, <3>1 DEF register
    <3>2. CASE writeFails(t) \/ answered(t) \/ processGone(t) \/ timeout(t)
      BY <2>3, <3>2 DEF writeFails, answered, processGone, timeout
    <3>3. CASE ensureProcess(t) \/ GiveUpStart(t) \/ handshakeFails(t) \/ initialized(t) \/ handshakeDone(t)
               \/ writeLine(t) \/ Cancel(t) \/ CancelSend(t)
      BY <2>1, <3>3 DEF ensureProcess, GiveUpStart, handshakeFails, initialized, handshakeDone, writeLine, Cancel,
                        CancelSend
    <3> QED
      BY <2>2, <2>4, <3>1, <3>2, <3>3 DEF BridgeStep
  <2>5. ServerStep => inflight' = inflight
    BY DEF ServerStep, exit, readLoopEnds, dispatch, close
  <2>6. tokenExpires \/ UNCHANGED vars \/ (\E t \in Threads : ClientLeaves(t)) => inflight' = inflight
    BY DEF tokenExpires, vars, bridgeVars, ClientLeaves
  <2>7. ASSUME NEW t \in Threads, RequestStep(t) PROVE Kept
    <3>1. CASE ServeHTTP(t) \/ forwardStdioCancellation(t) \/ forwardToStdio(t) \/ bridgeBack(t)
               \/ listTargetTools(t) \/ stdioPage(t)
      BY <2>1, <3>1 DEF ServeHTTP, forwardStdioCancellation, forwardToStdio, bridgeBack, listTargetTools, stdioPage
    <3>2. CASE handleOpenAPICall(t) \/ targetRequest(t) \/ exchangeToken(t) \/ streamTargetResponse(t) \/ listTarget(t)
      BY <2>1, <3>2 DEF handleOpenAPICall, targetRequest, exchangeToken, streamTargetResponse, listTarget, bridgeVars
    <3> QED
      BY <2>4, <2>7, <3>1, <3>2 DEF RequestStep
  <2> HIDE DEF Kept
  <2> QED
    BY <2>1, <2>5, <2>6, <2>7 DEF Next
<1> QED
  BY <1>1, Invariance, PTL DEF Spec, TrackedWhileInFlight

-----------------------------------------------------------------------------
(* Production.                                                             *)

\* An argument that has one value is read as that value.
LEMMA ReadOne ==
    ASSUME NEW args, \A i \in DOMAIN args : lookupFolded(args, foldName(args[i][1])) = {args[i][2]},
           NEW k, NEW v \in Read(args, k)
    PROVE  lookupFolded(args, k) = {v}
<1>1. foldName(Exact(k)) = k
  BY DEF foldName, Exact
<1>2. PICK i \in DOMAIN args : foldName(args[i][1]) = k /\ v = args[i][2]
  BY <1>1 DEF Read, ServerReads, Get, GetFolded
<1> QED
  BY <1>2

\* The first of some keys that has a text.
LEMMA FirstKey ==
    ASSUME NEW args, NEW keys, NEW n \in Nat, DOMAIN keys = 1..n, NEW m \in 1..n, NEW v,
           stringify(args, keys[m]) = {v}, \A j \in 1..n : j < m => stringify(args, keys[j]) = {}
    PROVE  firstString(args, keys) = v
<1> DEFINE present == {i \in DOMAIN keys : stringify(args, keys[i]) # {}}
<1>0. n \in Nat /\ m \in Nat /\ 1..n \subseteq Nat
  OBVIOUS
<1>1. m \in present /\ \A i \in present : m <= i /\ i \in Nat
  <2>1. m \in present
    BY Zenon
  <2>2. ASSUME NEW i \in present PROVE m <= i /\ i \in Nat
    <3>1. i \in 1..n /\ stringify(args, keys[i]) # {}
      BY Zenon
    <3>2. ~(i < m)
      BY <3>1, Zenon
    <3> QED
      BY <1>0, <3>1, <3>2
  <2> QED
    BY <2>1, <2>2
<1> HIDE DEF present
<1>2. First(present) = m
  <2>1. First(present) \in present /\ \A j \in present : First(present) <= j
    BY <1>1 DEF First
  <2>2. m <= First(present) /\ First(present) <= m /\ First(present) \in Nat
    BY <1>1, <2>1
  <2> QED
    BY <1>0, <2>2
<1>3. firstString(args, keys) = CHOOSE x \in {v} : TRUE
  BY <1>1, <1>2 DEF firstString, present
<1> QED
  BY <1>3

\* One candidate that says production is enough.
LEMMA AnyProduction ==
    ASSUME NEW cs, NEW j \in DOMAIN cs, cs[j] = "production"
    PROVE  resolveEnvironment(cs) = "production"
<1> DEFINE known == {i \in DOMAIN cs : cs[i] \notin {Empty, "unknown"}}
<1>1. j \in known
  BY DEF Empty
<1> QED
  BY <1>1 DEF resolveEnvironment

\* Every resource that a call names is a candidate, and so is its target.
LEMMA Candidates ==
    ASSUME NEW args, NEW target
    PROVE  /\ \E j \in DOMAIN environmentCandidates(args, target) :
                 environmentCandidates(args, target)[j] = normalizeEnvironment(target.environment)
           /\ \A i \in DOMAIN resourceKeys : \E j \in DOMAIN environmentCandidates(args, target) :
                 environmentCandidates(args, target)[j] = inferEnvironment(firstString(args, <<resourceKeys[i]>>))
<1> DEFINE a == normalizeEnvironment(target.environment)
           F == [i \in DOMAIN resourceKeys |-> inferEnvironment(firstString(args, <<resourceKeys[i]>>))]
           b == inferEnvironment(target.name)
           c == normalizeEnvironment(firstString(args, <<"environment", "env">>))
           S == {a, b, c} \cup {F[i] : i \in DOMAIN resourceKeys}
<1>1. DOMAIN resourceKeys = 1..6
  BY DEF resourceKeys
<1>2. F \in [1..6 -> S]
  BY <1>1
<1>3. environmentCandidates(args, target) = (<<a>> \o F) \o <<b, c>>
  BY DEF environmentCandidates
<1>4. a \in S /\ b \in S /\ c \in S
  OBVIOUS
<1>5. \A i \in DOMAIN resourceKeys : F[i] = inferEnvironment(firstString(args, <<resourceKeys[i]>>))
  OBVIOUS
<1> HIDE DEF a, F, b, c, S
<1>6. F \in Seq(S) /\ Len(F) = 6 /\ <<a>> \in Seq(S) /\ <<b, c>> \in Seq(S)
  <2>1. F \in Seq(S)
    BY <1>2, SeqDef
  <2>2. Len(F) = 6
    BY <1>2, <2>1
  <2> QED
    BY <1>4, <2>1, <2>2
<1> DEFINE G == <<a>> \o F
<1>7. G \in Seq(S) /\ Len(G) = 7 /\ G[1] = a /\ \A i \in 1..6 : G[i + 1] = F[i]
  <2> DEFINE A == <<a>>
  <2>1. A \in Seq(S) /\ Len(A) = 1 /\ A[1] = a /\ F \in Seq(S) /\ Len(F) = 6
    BY <1>6
  <2>2. G = A \o F
    OBVIOUS
  <2> HIDE DEF A, G
  <2>3. /\ A \o F \in Seq(S)
        /\ Len(A \o F) = Len(A) + Len(F)
        /\ \A i \in 1..(Len(A) + Len(F)) : (A \o F)[i] = IF i <= Len(A) THEN A[i] ELSE F[i - Len(A)]
    BY <2>1, ConcatProperties, Zenon
  <2>4. G \in Seq(S) /\ Len(G) = 7 /\ \A i \in 1..7 : G[i] = IF i <= 1 THEN A[i] ELSE F[i - 1]
    <3>1. Len(A) = 1 /\ Len(F) = 6 /\ 1 + 6 = 7
      BY <2>1
    <3>2. /\ G \in Seq(S)
          /\ Len(G) = 1 + 6
          /\ \A i \in 1..(1 + 6) : G[i] = IF i <= 1 THEN A[i] ELSE F[i - 1]
      BY <2>2, <2>3, <3>1, Zenon
    <3> QED
      BY <3>1, <3>2
  <2>5. G[1] = a
    BY <2>1, <2>4
  <2>6. ASSUME NEW i \in 1..6 PROVE G[i + 1] = F[i]
    <3>1. i + 1 \in 1..7 /\ ~(i + 1 <= 1) /\ (i + 1) - 1 = i
      OBVIOUS
    <3> QED
      BY <2>4, <3>1
  <2> QED
    BY <2>4, <2>5, <2>6
<1> HIDE DEF G
<1> DEFINE H == G \o <<b, c>>
<1>8. H \in Seq(S) /\ Len(H) = 9 /\ \A i \in 1..7 : H[i] = G[i]
  <2> DEFINE B == <<b, c>>
  <2>1. B \in Seq(S) /\ Len(B) = 2
    BY <1>6
  <2>2. H = G \o B
    OBVIOUS
  <2> HIDE DEF B, H
  <2>3. /\ G \o B \in Seq(S)
        /\ Len(G \o B) = Len(G) + Len(B)
        /\ \A i \in 1..(Len(G) + Len(B)) : (G \o B)[i] = IF i <= Len(G) THEN G[i] ELSE B[i - Len(G)]
    BY <1>7, <2>1, ConcatProperties, Zenon
  <2> QED
    BY <1>7, <2>1, <2>2, <2>3
<1>9. DOMAIN H = 1..9
  BY <1>8
<1>10. environmentCandidates(args, target) = H
  BY <1>3 DEF G
<1> HIDE DEF H
<1>11. 1 \in DOMAIN H /\ H[1] = a
  BY <1>7, <1>8, <1>9
<1>12. \A i \in 1..6 : i + 1 \in DOMAIN H /\ H[i + 1] = F[i]
  BY <1>7, <1>8, <1>9
<1>13. \A i \in DOMAIN resourceKeys : \E j \in DOMAIN H : H[j] = F[i]
  BY <1>1, <1>12
<1> QED
  BY <1>5, <1>10, <1>11, <1>13 DEF a

\* No tool call that deletes, by its name or by the first of `action` and
\* `operation` that is a scalar, reaches a protected target where any resource
\* that a scalar names, or the target, is production.
THEOREM ProductionIsKept == Spec => []ProductionKept
<1>1. IInv => ProductionKept
  <2> SUFFICES ASSUME IInv, NEW r \in reached, "tools/call" \in Read(r.msg.top, "method"),
                      NEW i \in DOMAIN Targets[r.target].rules, Targets[r.target].rules[i] = ProtectProduction,
                      Deletes(r.msg), NamesProduction(r.msg, Targets[r.target])
               PROVE  FALSE
    BY DEF ProductionKept, Protected
  <2> DEFINE target == Targets[r.target]
             args == r.msg.args
             Req(name) == BuildToolRequest(name, args, target, httpMethod(r.target, name), r.msg.who.role)
  <2>1. Judged(r.target, r.msg)
    BY DEF IInv, GatewayInv, Delivered
  <2>2. /\ Read(r.msg.params, "name") # {}
        /\ \A name \in Read(r.msg.params, "name") : Evaluate(target.rules, Req(name))
        /\ \A j \in DOMAIN args : lookupFolded(args, foldName(args[j][1])) = {args[j][2]}
    BY <2>1 DEF Judged
  <2>9. ASSUME NEW k, NEW v \in Scalars(r.msg, k) PROVE stringify(args, k) = {v}
    <3>1. v \in Read(args, k) /\ v \notin Structured
      BY <2>9 DEF Scalars
    <3>2. lookupFolded(args, k) = {v}
      BY <2>2, <3>1, ReadOne
    <3> QED
      BY <3>1, <3>2 DEF stringify
  <2>3. ASSUME NEW name PROVE Req(name).environment = "production"
    <3>1. Req(name).environment = resolveEnvironment(environmentCandidates(args, target))
      BY DEF BuildToolRequest
    <3>2. CASE target.environment = "production"
      <4>1. normalizeEnvironment(target.environment) = "production"
        BY <3>2, EnvAssumption DEF normalizeEnvironment, inferEnvironment
      <4> QED
        BY <3>1, <4>1, Candidates, AnyProduction
    <3>3. CASE \E j \in DOMAIN resourceKeys : \E v \in Scalars(r.msg, resourceKeys[j]) : inferEnvironment(v) = "production"
      <4>1. PICK j \in DOMAIN resourceKeys : \E v \in Scalars(r.msg, resourceKeys[j]) : inferEnvironment(v) = "production"
        BY <3>3
      <4>2. PICK v \in Scalars(r.msg, resourceKeys[j]) : inferEnvironment(v) = "production"
        BY <4>1
      <4>3. stringify(args, resourceKeys[j]) = {v}
        BY <4>2, <2>9
      <4> DEFINE keys == <<resourceKeys[j]>>
      <4>4. DOMAIN keys = 1..1 /\ keys[1] = resourceKeys[j]
        OBVIOUS
      <4> HIDE DEF keys
      <4>5. firstString(args, keys) = v
        <5>1. stringify(args, keys[1]) = {v} /\ 1 \in 1..1 /\ 1 \in Nat /\ \A k \in 1..1 : ~(k < 1)
          BY <4>3, <4>4
        <5> QED
          BY <4>4, <5>1, FirstKey
      <4>6. inferEnvironment(firstString(args, <<resourceKeys[j]>>)) = "production"
        BY <4>2, <4>5 DEF keys
      <4> QED
        BY <3>1, <4>6, Candidates, AnyProduction
    <3> QED
      BY <3>2, <3>3 DEF NamesProduction
  <2>4. \E name \in Read(r.msg.params, "name") : Req(name).action = "delete"
    <3>1. \A name : Req(name).action = IF firstString(args, <<"action", "operation">>) \in DestructiveVerbs
                                       THEN "delete" ELSE inferAction(name, httpMethod(r.target, name))
      BY DEF BuildToolRequest
    <3>2. CASE \E name \in Read(r.msg.params, "name") : IsDestructiveVerb(name)
      <4>1. PICK name \in Read(r.msg.params, "name") : IsDestructiveVerb(name)
        BY <3>2
      <4>2. inferAction(name, httpMethod(r.target, name)) = "delete"
        BY <4>1 DEF inferAction
      <4> QED
        BY <3>1, <4>1, <4>2
    <3> DEFINE keys == <<"action", "operation">>
    <3>3. DOMAIN keys = 1..2 /\ keys[1] = "action" /\ keys[2] = "operation" /\ 2 \in Nat
      OBVIOUS
    <3>4. ASSUME NEW v, v \in DestructiveVerbs, firstString(args, keys) = v
          PROVE  \E name \in Read(r.msg.params, "name") : Req(name).action = "delete"
      BY <2>2, <3>1, <3>4
    <3> HIDE DEF keys
    <3>5. CASE Scalars(r.msg, "action") \cap DestructiveVerbs # {}
      <4>1. PICK v \in Scalars(r.msg, "action") : v \in DestructiveVerbs
        BY <3>5
      <4>2. stringify(args, keys[1]) = {v} /\ 1 \in 1..2 /\ \A k \in 1..2 : ~(k < 1)
        BY <2>9, <3>3
      <4>3. firstString(args, keys) = v
        BY <3>3, <4>2, FirstKey
      <4> QED
        BY <3>4, <4>1, <4>3
    <3>6. CASE Scalars(r.msg, "action") = {} /\ Scalars(r.msg, "operation") \cap DestructiveVerbs # {}
      <4>1. PICK v \in Scalars(r.msg, "operation") : v \in DestructiveVerbs
        BY <3>6
      <4>2. stringify(args, keys[2]) = {v} /\ 2 \in 1..2
        BY <2>9, <3>3
      <4>3. stringify(args, keys[1]) = {}
        BY <3>3, <3>6 DEF Scalars, stringify, lookupFolded, Read, ServerReads
      <4>4. \A k \in 1..2 : k < 2 => stringify(args, keys[k]) = {}
        BY <4>3
      <4>5. firstString(args, keys) = v
        <5> DEFINE n == 2
        <5>1. /\ n \in Nat /\ DOMAIN keys = 1..n /\ n \in 1..n /\ stringify(args, keys[n]) = {v}
              /\ \A k \in 1..n : k < n => stringify(args, keys[k]) = {}
          BY <3>3, <4>2, <4>4
        <5> HIDE DEF n
        <5> QED
          BY <5>1, FirstKey
      <4> QED
        BY <3>4, <4>1, <4>5
    <3> QED
      BY <3>2, <3>5, <3>6 DEF Deletes
  <2>5. PICK name \in Read(r.msg.params, "name") : Req(name).action = "delete"
    BY <2>4
  <2>6. RuleResult(ProtectProduction, Req(name)) = "false"
    BY <2>2, <2>5 DEF Evaluate
  <2>7. Req(name).environment = "production"
    BY <2>3
  <2> HIDE DEF Req
  <2>8. Matches(ProtectProduction, Req(name)) /\ ProtectProduction.arg = <<>>
    BY <2>5, <2>7 DEF Matches, ProtectProduction
  <2> QED
    BY <2>6, <2>8 DEF RuleResult
<1> QED
  BY <1>1, Invariance, PTL
=============================================================================
