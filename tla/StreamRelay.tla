---------------------------- MODULE StreamRelay ----------------------------
(***************************************************************************)
(* One streamed attempt from the upstream body to the client, as four      *)
(* goroutines joined by two unbuffered channels:                           *)
(*                                                                         *)
(*   producer  the adapter that parses the SSE body and sends on source    *)
(*             (internal/provider/sse.go, stream_native.go)                *)
(*   starter   startStream, which waits for the first chunk                *)
(*   relay     relayStream, from source to out     (internal/router)       *)
(*   consumer  consumeStream and streamProviderResponse, which read out    *)
(*             (internal/gateway/gateway.go)                               *)
(*                                                                         *)
(* and the drain goroutines.  A send and the receive that takes it are one *)
(* step.  What the upstream does is a script chosen at the start; when     *)
(* timers fire, when the client leaves and how slow it reads are free.     *)
(***************************************************************************)
EXTENDS Naturals, Sequences

CONSTANT MaxChunks      \* bound: content chunks of the upstream body

ChunksAssumption == MaxChunks \in Nat

Content(k) == [kind |-> "content", n |-> k]
UsageChunk == [kind |-> "usage", n |-> 0]
ErrChunk   == [kind |-> "err", n |-> 0]

Chunk == {Content(k) : k \in 1..MaxChunks} \cup {UsageChunk, ErrChunk}

NoChunk == [kind |-> "none", n |-> 0]

\* The upstream: does the call return a stream, how many content chunks does
\* the body hold, and how does it end: with its terminal event, with an error
\* or truncated ("bad"), or never.  The rest is the request's settings.
Script ==
    [connect : {"ok", "refused", "hang"}, chunks : 0..MaxChunks,
     end : {"done", "bad", "hang"}, usage : BOOLEAN,
     timeout : BOOLEAN,         \* route.Timeout > 0
     buffer : BOOLEAN,          \* chunks are kept for the output guardrails
     includeUsage : BOOLEAN]

VARIABLES
    script,
    producer,       \* pc, the chunk it is sending, content chunks read so far
    starter,        \* pc, the first chunk
    relay,          \* pc, the chunk it is sending, how it ended
    consumer,       \* pc, the chunks it received, its result
    timer,          \* the first-byte timer
    ctxDone,        \* the client's request context has ended
    upstreamDone,   \* cancelUpstream was called
    attemptDone,    \* the cancel of attemptCtx was called
    draining        \* drainChunks(source) runs

vars == <<script, producer, starter, relay, consumer, timer, ctxDone,
          upstreamDone, attemptDone, draining>>

TypeOK ==
    /\ script \in Script
    /\ producer \in [pc : {"connect", "read", "send", "closed"},
                     item : Chunk \cup {NoChunk}, read : 0..MaxChunks]
    /\ starter \in [pc : {"connect", "first", "got", "ok", "failed"},
                    item : Chunk \cup {NoChunk}]
    /\ relay \in [pc : {"off", "loop", "send", "final", "finalsend", "grace", "closed"},
                  item : Chunk \cup {NoChunk}, idle : BOOLEAN,
                  end : {"none", "source", "final", "dropped"}]
    /\ consumer \in [pc : {"start", "reading", "write", "drain", "ended"},
                     received : Seq(Chunk),
                     result : {"none", "complete", "error", "gone", "no-stream"}]
    /\ timer \in {"none", "armed", "stopped", "fired"}
    /\ ctxDone \in BOOLEAN /\ upstreamDone \in BOOLEAN
    /\ attemptDone \in BOOLEAN /\ draining \in BOOLEAN

Init ==
    /\ script \in Script
    /\ producer = [pc |-> "connect", item |-> NoChunk, read |-> 0]
    /\ starter = [pc |-> "connect", item |-> NoChunk]
    /\ relay = [pc |-> "off", item |-> NoChunk, idle |-> FALSE, end |-> "none"]
    /\ consumer = [pc |-> "start", received |-> <<>>, result |-> "none"]
    /\ timer = IF script.timeout THEN "armed" ELSE "none"
    /\ ctxDone = FALSE
    /\ upstreamDone = FALSE
    /\ attemptDone = FALSE
    /\ draining = FALSE

\* The contexts: upstreamCtx is a child of the request's, attemptCtx of it.
UpstreamCtxDone == ctxDone \/ upstreamDone

\* Mutant: the attempt's context is not derived from the request's.
AttemptCtxDetached == attemptDone

AttemptCtxDone == UpstreamCtxDone \/ attemptDone

-----------------------------------------------------------------------------
(* The producer.                                                           *)

\* chunkEmitter.send begins: nothing is sent on a context that has ended.
Emit(chunk, read) ==
    producer' = IF AttemptCtxDone
                THEN [producer EXCEPT !.pc = "closed", !.read = read]
                ELSE [pc |-> "send", item |-> chunk, read |-> read]

\* The producer after somebody received its chunk: content is followed by the
\* next event of the body, the usage or error chunk by close(chunks).
Sent == [producer EXCEPT !.pc = IF producer.item.kind = "content" THEN "read"
                                ELSE "closed",
                         !.item = NoChunk]

\* The next event of the body, or its end.
ProducerRead ==
    /\ producer.pc = "read"
    /\ \/ /\ producer.read < script.chunks
          /\ Emit(Content(producer.read + 1), producer.read + 1)
       \/ /\ producer.read = script.chunks
          /\ script.end = "done" /\ script.usage
          /\ Emit(UsageChunk, producer.read)
       \/ /\ producer.read = script.chunks
          /\ script.end = "done" /\ ~script.usage
          /\ producer' = [producer EXCEPT !.pc = "closed"]
       \/ /\ producer.read = script.chunks
          /\ script.end = "bad"
          /\ Emit(ErrChunk, producer.read)
    /\ UNCHANGED <<script, starter, relay, consumer, timer, ctxDone,
                   upstreamDone, attemptDone, draining>>

\* The context ends while the producer reads the body, where fail sends
\* nothing, or while it sends.
ProducerCanceled ==
    /\ producer.pc \in {"read", "send"}
    /\ AttemptCtxDone
    /\ producer' = [producer EXCEPT !.pc = "closed", !.item = NoChunk]
    /\ UNCHANGED <<script, starter, relay, consumer, timer, ctxDone,
                   upstreamDone, attemptDone, draining>>

\* drainChunks takes and drops what the producer still sends.
Drain ==
    /\ draining
    /\ producer.pc = "send"
    /\ producer' = Sent
    /\ UNCHANGED <<script, starter, relay, consumer, timer, ctxDone,
                   upstreamDone, attemptDone, draining>>

-----------------------------------------------------------------------------
(* startStream.                                                            *)

StopTimer == IF timer = "armed" THEN "stopped" ELSE timer

\* fail: the timer is stopped, the attempt cancelled, and the caller gets an
\* error instead of a stream.
StartFailed(drain) ==
    /\ starter' = [pc |-> "failed", item |-> NoChunk]
    /\ timer' = StopTimer
    /\ attemptDone' = TRUE
    /\ draining' = drain
    /\ consumer' = [consumer EXCEPT !.pc = "ended", !.result = "no-stream"]
    /\ UNCHANGED <<script, relay, ctxDone, upstreamDone>>

\* ChatCompletionStream returns.
Connected ==
    /\ starter.pc = "connect"
    /\ script.connect = "ok"
    /\ starter' = [starter EXCEPT !.pc = "first"]
    /\ producer' = [producer EXCEPT !.pc = "read"]
    /\ UNCHANGED <<script, relay, consumer, timer, ctxDone, upstreamDone,
                   attemptDone, draining>>

ConnectFails ==
    /\ starter.pc = "connect"
    /\ script.connect = "refused" \/ AttemptCtxDone
    /\ producer' = [producer EXCEPT !.pc = "closed"]
    /\ StartFailed(FALSE)

\* The select for the first chunk: a chunk, the end of the source, or the end
\* of the attempt's context.
FirstChunk ==
    /\ starter.pc = "first"
    /\ producer.pc = "send"
    /\ starter' = [pc |-> "got", item |-> producer.item]
    /\ producer' = Sent
    /\ UNCHANGED <<script, relay, consumer, timer, ctxDone, upstreamDone,
                   attemptDone, draining>>

NoFirstChunk ==
    /\ starter.pc = "first"
    /\ producer.pc = "closed" \/ AttemptCtxDone
    /\ StartFailed(AttemptCtxDone)
    /\ UNCHANGED producer

\* Mutant: the result of stopping the first-byte timer is ignored.
TooLateNever == FALSE

\* stopFirstByte returns false: the timer fired as the first chunk arrived.
TooLate == timer = "fired"

\* The upstream failed before it produced any output.
FailedFirst(chunk) == chunk.kind = "err"

\* The first chunk is judged, and the relay started.
StartRelay ==
    /\ starter.pc = "got"
    /\ ~TooLate /\ ~FailedFirst(starter.item)
    /\ timer' = StopTimer
    /\ starter' = [pc |-> "ok", item |-> NoChunk]
    /\ relay' = [relay EXCEPT !.pc = "send", !.item = starter.item]
    /\ consumer' = [consumer EXCEPT !.pc = "reading"]
    /\ UNCHANGED <<script, producer, ctxDone, upstreamDone, attemptDone, draining>>

FirstUnusable ==
    /\ starter.pc = "got"
    /\ TooLate \/ FailedFirst(starter.item)
    /\ StartFailed(TRUE)
    /\ UNCHANGED producer

TimerFires ==
    /\ timer = "armed"
    /\ timer' = "fired"
    /\ attemptDone' = TRUE
    /\ UNCHANGED <<script, producer, starter, relay, consumer, ctxDone,
                   upstreamDone, draining>>

-----------------------------------------------------------------------------
(* relayStream.                                                            *)

\* The deferred end: the attempt is cancelled, a source that is still open is
\* drained, and out is closed.
CloseOut(end) ==
    /\ relay' = [relay EXCEPT !.pc = "closed", !.item = NoChunk, !.end = end]
    /\ attemptDone' = TRUE
    /\ draining' = (end # "source")

RelayReceive ==
    /\ relay.pc = "loop"
    /\ producer.pc = "send"
    /\ relay' = [relay EXCEPT !.pc = "send", !.item = producer.item]
    /\ producer' = Sent
    /\ UNCHANGED <<script, starter, consumer, timer, ctxDone, upstreamDone,
                   attemptDone, draining>>

RelaySourceClosed ==
    /\ relay.pc = "loop"
    /\ producer.pc = "closed"
    /\ CloseOut("source")
    /\ UNCHANGED <<script, producer, starter, consumer, timer, ctxDone, upstreamDone>>

\* The context ends while the relay waits for a chunk or hands one on.
RelayCanceled ==
    /\ relay.pc \in {"loop", "send"}
    /\ UpstreamCtxDone
    /\ relay' = [relay EXCEPT !.pc = "final", !.item = NoChunk]
    /\ UNCHANGED <<script, producer, starter, consumer, timer, ctxDone,
                   upstreamDone, attemptDone, draining>>

\* The upstream was silent for longer than the route timeout.
IdleTimeout ==
    /\ relay.pc = "loop"
    /\ script.timeout
    /\ relay' = [relay EXCEPT !.pc = "final", !.idle = TRUE]
    /\ UNCHANGED <<script, producer, starter, consumer, timer, ctxDone,
                   upstreamDone, attemptDone, draining>>

\* sendFinal: wait for the consumer as long as the context lives, or for
\* finalChunkGrace when it has ended.
SendFinal ==
    /\ relay.pc = "final"
    /\ relay' = [relay EXCEPT !.pc = IF UpstreamCtxDone THEN "grace" ELSE "finalsend",
                              !.item = ErrChunk]
    /\ UNCHANGED <<script, producer, starter, consumer, timer, ctxDone,
                   upstreamDone, attemptDone, draining>>

\* Nobody took the terminal chunk.
FinalDropped ==
    /\ relay.pc = "grace" \/ (relay.pc = "finalsend" /\ UpstreamCtxDone)
    /\ CloseOut("dropped")
    /\ UNCHANGED <<script, producer, starter, consumer, timer, ctxDone, upstreamDone>>

\* The relay after somebody received its chunk.
Handed ==
    IF relay.pc = "send"
    THEN /\ relay' = [relay EXCEPT !.pc = "loop", !.item = NoChunk]
         /\ UNCHANGED <<attemptDone, draining>>
    ELSE CloseOut("final")

-----------------------------------------------------------------------------
(* consumeStream, and what streamProviderResponse does with its result.    *)

\* A chunk is written to the client unless it is buffered, or is the usage
\* chunk that the client did not ask for.
Forwards(chunk) ==
    ~script.buffer /\ (chunk.kind = "usage" => script.includeUsage)

\* The loop ends.  cancelUpstream and drainChunks(chunks) follow a stream that
\* failed or whose client is gone; the deferred cancelUpstream any stream.
Ends(received, result) ==
    /\ consumer' = [pc |-> IF result = "complete" THEN "ended" ELSE "drain",
                    received |-> received, result |-> result]
    /\ upstreamDone' = TRUE

\* A channel that closes after the client left is not a complete stream.
ClosedResult == IF ctxDone THEN "gone" ELSE "complete"

Consume ==
    /\ consumer.pc = "reading"
    /\ relay.pc \in {"send", "finalsend", "grace"}
    /\ LET chunk == relay.item
           received == Append(consumer.received, chunk)
       IN  IF chunk.kind = "err"
           THEN Ends(received, IF ctxDone THEN "gone" ELSE "error")
           ELSE /\ consumer' = [consumer EXCEPT
                                  !.pc = IF Forwards(chunk) THEN "write" ELSE "reading",
                                  !.received = received]
                /\ UNCHANGED upstreamDone
    /\ Handed
    /\ UNCHANGED <<script, producer, starter, timer, ctxDone>>

ConsumeEnd ==
    /\ consumer.pc = "reading"
    /\ \/ relay.pc = "closed" /\ Ends(consumer.received, ClosedResult)
       \/ ctxDone /\ Ends(consumer.received, "gone")
    /\ UNCHANGED <<script, producer, starter, relay, timer, ctxDone,
                   attemptDone, draining>>

\* writeSSE to the client succeeds or fails.
Write ==
    /\ consumer.pc = "write"
    /\ \/ consumer' = [consumer EXCEPT !.pc = "reading"] /\ UNCHANGED upstreamDone
       \/ Ends(consumer.received, "gone")
    /\ UNCHANGED <<script, producer, starter, relay, timer, ctxDone,
                   attemptDone, draining>>

\* drainChunks(chunks) until the relay closes out.
DrainOut ==
    /\ consumer.pc = "drain"
    /\ \/ /\ relay.pc \in {"send", "finalsend", "grace"}
          /\ Handed
          /\ UNCHANGED consumer
       \/ /\ relay.pc = "closed"
          /\ consumer' = [consumer EXCEPT !.pc = "ended"]
          /\ UNCHANGED <<relay, attemptDone, draining>>
    /\ UNCHANGED <<script, producer, starter, timer, ctxDone, upstreamDone>>

\* The client disconnects, at any time.
Disconnect ==
    /\ ~ctxDone
    /\ ctxDone' = TRUE
    /\ UNCHANGED <<script, producer, starter, relay, consumer, timer,
                   upstreamDone, attemptDone, draining>>

-----------------------------------------------------------------------------
Producer == ProducerRead \/ ProducerCanceled
Starter == Connected \/ ConnectFails \/ FirstChunk \/ NoFirstChunk \/ StartRelay
           \/ FirstUnusable
Relay == RelayReceive \/ RelaySourceClosed \/ RelayCanceled \/ IdleTimeout
         \/ SendFinal \/ FinalDropped
Consumer == Consume \/ ConsumeEnd \/ Write \/ DrainOut

\* Every goroutine has returned.
AllEnded ==
    /\ starter.pc \in {"ok", "failed"}
    /\ producer.pc = "closed"
    /\ relay.pc \in {"off", "closed"}
    /\ consumer.pc = "ended"

Next ==
    \/ Producer \/ Drain \/ Starter \/ TimerFires \/ Relay \/ Consumer
    \/ Disconnect

\* A goroutine that can run does, and a timer that is armed fires.  The client
\* need not leave, and the upstream of a script that hangs never answers.
Fairness ==
    /\ WF_vars(Producer) /\ WF_vars(Drain) /\ WF_vars(Starter)
    /\ WF_vars(TimerFires) /\ WF_vars(Relay) /\ WF_vars(Consumer)

Spec == Init /\ [][Next]_vars /\ Fairness

-----------------------------------------------------------------------------
(* Properties.                                                             *)

\* All that a body with a terminal event holds, in order.
Whole ==
    [k \in 1..script.chunks |-> Content(k)]
    \o IF script.usage THEN <<UsageChunk>> ELSE <<>>

\* A stream that is logged, priced and cached as complete is the whole answer
\* of an upstream that ended normally: no cancellation, timer or truncation, at
\* whatever moment, passes for an end of the stream.
CompleteMeansWhole ==
    consumer.result = "complete" =>
        script.end = "done" /\ consumer.received = Whole

\* A stream, or the start of one, fails only for a cause outside the gateway:
\* the upstream refused, failed or was silent, or the client left.
FailureHasCause ==
    consumer.result \in {"error", "no-stream"} =>
        \/ script.connect = "refused"
        \/ script.end = "bad"
        \/ Whole = <<>>
        \/ relay.idle
        \/ timer = "fired"
        \/ ctxDone

\* Every goroutine of a stream returns once the client is gone, with or
\* without a route timeout and whatever the upstream does; and with a route
\* timeout also when the upstream never answers and the client stays.
NoGoroutineLeft ==
    /\ ctxDone ~> AllEnded
    /\ (timer = "armed") ~> AllEnded

\* "The returned channel always ends either with the source closing normally
\* or with a terminal chunk whose Err field is set."  Refuted: sendFinal gives
\* the chunk up when nobody takes it.
EndsMarked == relay.end # "dropped"
=============================================================================
