--------------------------- MODULE StreamDelivery ---------------------------
(***************************************************************************)
(* A streamed reply on its way from the engine thread to the client        *)
(* (src/api/mod.rs): the decode job, which sends events on a bounded       *)
(* channel and parks the engine when it is full, and the SSE generator,    *)
(* which the client polls and may drop.  All streams share one engine.     *)
(* Jobs of the kind "cooperative" give the engine back after each forward  *)
(* (CooperativeStreamDecodeJob), "exclusive" ones run to completion        *)
(* (run_stream_decode_job).                                                *)
(***************************************************************************)
EXTENDS StopText, FiniteSets

CONSTANTS
    Loads,      \* what may be asked at once: functions from streams to requests
    Tokens,     \* texts a forward may generate
    Cap,        \* capacity of the events channel
    None

\* A request: its lane, whether its content is held for tool calls, whether its
\* prompt may hit the prompt-prefix cache, its stop sequences and max_tokens.
ASSUME StreamAssumption ==
    /\ \A load \in Loads : \A s \in DOMAIN load :
          /\ load[s].lane \in {"cooperative", "exclusive"}
          /\ load[s].tools \in BOOLEAN /\ load[s].cached \in BOOLEAN
          /\ \A p \in load[s].stops : Len(p) > 0
          /\ load[s].limit \in Nat \ {0}
          /\ s # None
    /\ Cap \in Nat \ {0}

VARIABLES
    request,   \* the request of each stream
    count,     \* tokens a job has generated
    text,      \* their text
    streamed,  \* what the job has shown of it
    reason,    \* finish_reason: "length" until a stop
    job,       \* "queued", "running", "ending", "gone" (its sender dropped)
    engine,    \* the stream whose job the engine thread runs, or None
    phase,     \* what it does with it: "start", "step", "yield" or "leave"
    sends,     \* events it has still to send, in order
    chan,      \* the events channel
    rx,        \* its receiver exists
    cancel,    \* the request's cancellation token
    expired,   \* the deadline of the request has passed
    jobLate,   \* an exclusive job's own deadline has passed
    panicked,  \* the job panicked
    sse,       \* the generator: "open", "closing", "ended", "dropped"
    armed,     \* its request_deadline is still there
    held,      \* its tool_candidate
    got,       \* content the client has received
    end        \* terminal frame it has received

jobVars == <<count, text, streamed, reason, job>>
engineVars == <<engine, phase, sends>>
sseVars == <<sse, armed, held, got, end>>
clockVars == <<expired, jobLate>>
vars == <<request, jobVars, engineVars, chan, rx, cancel, clockVars, panicked, sseVars>>

Streams == DOMAIN request
stops == [s \in Streams |-> request[s].stops]
limit == [s \in Streams |-> request[s].limit]

Delta(t) == [kind |-> "delta", text |-> t]
Event(k) == [kind |-> k, text |-> <<>>]
Terminal == {"finished", "failed", "timedout"}

TypeOK ==
    /\ request \in Loads
    /\ \A s \in Streams : count[s] \in 0 .. limit[s]
    /\ reason \in [Streams -> {"length", "stop"}]
    /\ job \in [Streams -> {"queued", "running", "ending", "gone"}]
    /\ engine \in Streams \cup {None}
    /\ phase \in {"start", "step", "yield", "leave"}
    /\ \A s \in Streams : Len(chan[s]) <= Cap
    /\ rx \in [Streams -> BOOLEAN]
    /\ cancel \in [Streams -> BOOLEAN]
    /\ sse \in [Streams -> {"open", "closing", "ended", "dropped"}]
    /\ end \in [Streams -> Terminal \cup {"none", "worker"}]
    /\ \A s \in Streams : job[s] = "gone" => engine # s

Init ==
    /\ request \in Loads
    /\ count = [s \in Streams |-> 0]
    /\ text = [s \in Streams |-> <<>>]
    /\ streamed = [s \in Streams |-> <<>>]
    /\ reason = [s \in Streams |-> "length"]
    /\ job = [s \in Streams |-> "queued"]
    /\ engine = None
    /\ phase = "start"
    /\ sends = <<>>
    /\ chan = [s \in Streams |-> <<>>]
    /\ rx = [s \in Streams |-> TRUE]
    /\ cancel = [s \in Streams |-> FALSE]
    /\ expired = [s \in Streams |-> FALSE]
    /\ jobLate = [s \in Streams |-> FALSE]
    /\ panicked = [s \in Streams |-> FALSE]
    /\ sse = [s \in Streams |-> "open"]
    /\ armed = [s \in Streams |-> TRUE]
    /\ held = [s \in Streams |-> <<>>]
    /\ got = [s \in Streams |-> <<>>]
    /\ end = [s \in Streams |-> "none"]

-----------------------------------------------------------------------------
(* The engine thread.                                                      *)

\* The job is dropped, its sender with it, and the engine is free.
Leave(s) ==
    /\ job' = [job EXCEPT ![s] = "gone"]
    /\ engine' = None /\ phase' = "start" /\ sends' = <<>>

\* The scheduler gives a stream the engine: its first turn starts the job.
Schedule(s) ==
    /\ engine = None /\ job[s] \in {"queued", "running"}
    /\ engine' = s
    /\ phase' = IF job[s] = "queued" THEN "start" ELSE "step"
    /\ sends' = IF job[s] = "queued" THEN <<Event("started")>> ELSE <<>>
    /\ job' = [job EXCEPT ![s] = "running"]
    /\ UNCHANGED <<request, count, text, streamed, reason, chan, rx, cancel,
                   clockVars, panicked, sseVars>>

\* blocking_send: parked while the channel is full.  A send that fails because
\* the receiver is gone ends the job, whatever it was about to do.
BlockingSend_Forever(s) ==
    /\ engine = s /\ sends # <<>>
    /\ rx[s] /\ Len(chan[s]) < Cap
    /\ chan' = [chan EXCEPT ![s] = Append(@, Head(sends))]
    /\ sends' = Tail(sends)
    /\ UNCHANGED <<request, jobVars, engine, phase, rx, cancel, clockVars, panicked, sseVars>>
BlockingSend(s) ==
    /\ engine = s /\ sends # <<>>
    /\ \/ /\ rx[s] /\ Len(chan[s]) < Cap
          /\ chan' = [chan EXCEPT ![s] = Append(@, Head(sends))]
          /\ sends' = Tail(sends)
          /\ UNCHANGED <<job, engine, phase>>
       \/ /\ ~rx[s]
          /\ Leave(s)
          /\ UNCHANGED chan
    /\ UNCHANGED <<request, count, text, streamed, reason, rx, cancel, clockVars,
                   panicked, sseVars>>

DeltaOf(t) == IF t = <<>> THEN <<>> ELSE <<Delta(t)>>

\* The turn ends with these events; an ending job is dropped behind them.
Sends(s, events, next) ==
    /\ sends' = events
    /\ phase' = next
    /\ job' = [job EXCEPT ![s] = IF next = "leave" THEN "ending" ELSE "running"]

\* consume_generation_step: one more token.  A speculative round commits several
\* tokens at once and shows their text as one delta.
Generated(s, token) ==
    /\ count' = [count EXCEPT ![s] = @ + 1]
    /\ text' = [text EXCEPT ![s] = @ \o token]
    /\ reason' = [reason EXCEPT ![s] =
                    IF ContainsStop(text'[s], stops[s]) THEN "stop" ELSE @]

\* An end-of-generation token, which has no text.
EndOfGeneration(s) ==
    /\ count' = [count EXCEPT ![s] = @ + 1]
    /\ reason' = [reason EXCEPT ![s] = "stop"]
    /\ UNCHANGED text

Sampled(s) == (\E token \in Tokens : Generated(s, token)) \/ EndOfGeneration(s)

\* stream_prompt_cache_prologue, after Started was sent: an exact hit samples the
\* first token and shows it; "final" there means a stop only.
Prologue(s) ==
    /\ engine = s /\ phase = "start" /\ sends = <<>>
    /\ \/ /\ Sends(s, <<>>, "step")
          /\ UNCHANGED <<count, text, streamed, reason>>
       \/ /\ request[s].cached
          /\ Sampled(s)
          /\ streamed' = [streamed EXCEPT ![s] = Visible(text'[s], stops[s], reason'[s] = "stop")]
          /\ Sends(s, DeltaOf(streamed'[s]), "step")
       \/ /\ request[s].cached
          /\ Sends(s, <<Event("failed")>>, "leave")
          /\ UNCHANGED <<count, text, streamed, reason>>
    /\ UNCHANGED <<request, engine, chan, rx, cancel, clockVars, panicked, sseVars>>

Late(s) == IF request[s].lane = "cooperative" THEN expired[s] ELSE jobLate[s]
OverAt(s, r, n) == r # "length" \/ n >= limit[s]
Over(s) == OverAt(s, reason[s], count[s])
OverNext(s) == OverAt(s, reason'[s], count'[s])

\* Nobody listens any more: an exclusive job only looks at the token.
Abandoned(s) == cancel[s] \/ (request[s].lane = "cooperative" /\ ~rx[s])

\* finish_clean releases the held tail; run_stream_decode_job leaves its loop and
\* sends Finished alone.
FinishEvents_NoFlush(s) == <<Event("finished")>>
FinishEvents(s) ==
    IF request[s].lane = "cooperative"
    THEN DeltaOf(HoldBackFlush(text[s], streamed[s], stops[s])) \o <<Event("finished")>>
    ELSE <<Event("finished")>>

\* The checks before a forward, in the order of the lane's code.
StepOver(s) ==
    /\ engine = s /\ phase = "step" /\ sends = <<>> /\ Over(s)
    /\ request[s].lane = "cooperative" => ~Abandoned(s)
    /\ Sends(s, FinishEvents(s), "leave")
    /\ UNCHANGED <<request, count, text, streamed, reason, engine, chan, rx, cancel,
                   clockVars, panicked, sseVars>>

StepAbandoned(s) ==
    /\ engine = s /\ phase = "step" /\ sends = <<>> /\ Abandoned(s)
    /\ request[s].lane = "exclusive" => ~Over(s)
    /\ Leave(s)
    /\ UNCHANGED <<request, count, text, streamed, reason, chan, rx, cancel,
                   clockVars, panicked, sseVars>>

StepTimedOut(s) ==
    /\ engine = s /\ phase = "step" /\ sends = <<>>
    /\ ~Abandoned(s) /\ ~Over(s) /\ Late(s)
    /\ Sends(s, DeltaOf(HoldBackFlush(text[s], streamed[s], stops[s]))
                   \o <<Event("timedout")>>, "leave")
    /\ UNCHANGED <<request, count, text, streamed, reason, engine, chan, rx, cancel,
                   clockVars, panicked, sseVars>>

\* A forward, and emit_step: the final step shows everything the cut leaves and
\* goes straight on to Finished.  The forward may also fail.
Forward_NoHoldBack(s) ==
    /\ engine = s /\ phase = "step" /\ sends = <<>>
    /\ ~Abandoned(s) /\ ~Over(s) /\ ~Late(s)
    /\ Sampled(s)
    /\ streamed' = [streamed EXCEPT ![s] = TruncateAtStop(text'[s], stops[s])]
    /\ LET delta == DeltaOf(StreamDelta(streamed'[s], streamed[s], stops[s]))
       IN  \/ OverNext(s) /\ Sends(s, delta \o <<Event("finished")>>, "leave")
           \/ ~OverNext(s) /\ Sends(s, delta, "yield")
    /\ UNCHANGED <<request, engine, chan, rx, cancel, clockVars, panicked, sseVars>>
Forward(s) ==
    /\ engine = s /\ phase = "step" /\ sends = <<>>
    /\ ~Abandoned(s) /\ ~Over(s) /\ ~Late(s)
    /\ \/ /\ Sampled(s)
          /\ streamed' = [streamed EXCEPT ![s] = Visible(text'[s], stops[s], OverNext(s))]
          /\ LET delta == DeltaOf(StreamDelta(streamed'[s], streamed[s], stops[s]))
             IN  \/ OverNext(s) /\ Sends(s, delta \o <<Event("finished")>>, "leave")
                 \/ ~OverNext(s) /\ Sends(s, delta, "yield")
       \/ /\ Sends(s, <<Event("failed")>>, "leave")
          /\ UNCHANGED <<count, text, streamed, reason>>
    /\ UNCHANGED <<request, engine, chan, rx, cancel, clockVars, panicked, sseVars>>

\* The deadline the job armed interrupts the forward (stream_step_error_event).
Interrupted(s) ==
    /\ engine = s /\ phase = "step" /\ sends = <<>>
    /\ ~Abandoned(s) /\ ~Over(s) /\ ~Late(s)
    /\ expired' = [expired EXCEPT ![s] = TRUE]
    /\ jobLate' = [jobLate EXCEPT ![s] = request[s].lane = "exclusive"]
    /\ Sends(s, <<Event("timedout")>>, "leave")
    /\ UNCHANGED <<request, count, text, streamed, reason, engine, chan, rx, cancel,
                   panicked, sseVars>>

\* The turn is over once its events are sent.
TurnEnds(s) ==
    /\ engine = s /\ sends = <<>>
    /\ \/ /\ phase = "leave"
          /\ Leave(s)
       \/ /\ phase = "yield" /\ request[s].lane = "cooperative"
          /\ engine' = None /\ phase' = "start"
          /\ UNCHANGED <<job, sends>>
       \/ /\ phase = "yield" /\ request[s].lane = "exclusive"
          /\ phase' = "step"
          /\ UNCHANGED <<job, sends, engine>>
    /\ UNCHANGED <<request, count, text, streamed, reason, chan, rx, cancel,
                   clockVars, panicked, sseVars>>

\* The job panics; the worker contains it and drops it.
Panic(s) ==
    /\ engine = s /\ phase = "step" /\ sends = <<>>
    /\ panicked' = [panicked EXCEPT ![s] = TRUE]
    /\ Leave(s)
    /\ UNCHANGED <<request, count, text, streamed, reason, chan, rx, cancel,
                   clockVars, sseVars>>

-----------------------------------------------------------------------------
(* The SSE generator, driven by the client's polls.                        *)

Terminates(s, how) ==
    /\ sse' = [sse EXCEPT ![s] = "closing"]
    /\ end' = [end EXCEPT ![s] = how]

\* What an event makes of the generator's state.
Recv(s) ==
    /\ sse[s] = "open" /\ chan[s] # <<>>
    /\ chan' = [chan EXCEPT ![s] = Tail(@)]
    /\ LET event == Head(chan[s])
       IN  \/ /\ event.kind = "started"
              /\ armed' = [armed EXCEPT ![s] = FALSE]
              /\ UNCHANGED <<sse, held, got, end>>
           \/ /\ event.kind = "delta" /\ request[s].tools
              /\ held' = [held EXCEPT ![s] = @ \o event.text]
              /\ UNCHANGED <<sse, armed, got, end>>
           \/ /\ event.kind = "delta" /\ ~request[s].tools
              /\ got' = [got EXCEPT ![s] = @ \o event.text]
              /\ UNCHANGED <<sse, armed, held, end>>
           \/ /\ event.kind \in {"failed", "timedout"}
              /\ Terminates(s, event.kind)
              /\ UNCHANGED <<armed, held, got>>
           \/ /\ event.kind = "finished"
              /\ Terminates(s, "finished")
              /\ got' = [got EXCEPT ![s] = @ \o held[s]]
              /\ held' = [held EXCEPT ![s] = <<>>]
              /\ UNCHANGED armed
    /\ UNCHANGED <<request, jobVars, engineVars, rx, cancel, clockVars, panicked>>

\* The request deadline, raced by select! against the channel until Started came
\* out of it.
RequestDeadline_NoCancel(s) ==
    /\ sse[s] = "open" /\ armed[s] /\ expired[s]
    /\ Terminates(s, "timedout")
    /\ UNCHANGED <<request, jobVars, engineVars, chan, rx, cancel, clockVars, panicked,
                   armed, held, got>>
RequestDeadline(s) ==
    /\ sse[s] = "open" /\ armed[s] /\ expired[s]
    /\ cancel' = [cancel EXCEPT ![s] = TRUE]
    /\ Terminates(s, "timedout")
    /\ UNCHANGED <<request, jobVars, engineVars, chan, rx, clockVars, panicked,
                   armed, held, got>>

\* recv returns None: every sender is gone and the channel is empty.
ChannelClosed_Silent(s) ==
    /\ sse[s] = "open" /\ chan[s] = <<>> /\ job[s] = "gone"
    /\ Terminates(s, "finished")
    /\ UNCHANGED <<request, jobVars, engineVars, chan, rx, cancel, clockVars,
                   panicked, armed, held, got>>
ChannelClosed(s) ==
    /\ sse[s] = "open" /\ chan[s] = <<>> /\ job[s] = "gone"
    /\ Terminates(s, "worker")
    /\ UNCHANGED <<request, jobVars, engineVars, chan, rx, cancel, clockVars,
                   panicked, armed, held, got>>

\* [DONE] has been read: the generator returns and drops the receiver and the
\* CancelOnDrop guard.
Return(s) ==
    /\ sse[s] = "closing"
    /\ sse' = [sse EXCEPT ![s] = "ended"]
    /\ rx' = [rx EXCEPT ![s] = FALSE]
    /\ chan' = [chan EXCEPT ![s] = <<>>]
    /\ cancel' = [cancel EXCEPT ![s] = TRUE]
    /\ UNCHANGED <<request, jobVars, engineVars, clockVars, panicked, armed, held, got, end>>

\* The client goes away and the generator is dropped where it stands.
Disconnect(s) ==
    /\ sse[s] \in {"open", "closing"}
    /\ sse' = [sse EXCEPT ![s] = "dropped"]
    /\ rx' = [rx EXCEPT ![s] = FALSE]
    /\ chan' = [chan EXCEPT ![s] = <<>>]
    /\ cancel' = [cancel EXCEPT ![s] = TRUE]
    /\ UNCHANGED <<request, jobVars, engineVars, clockVars, panicked, armed, held, got, end>>

\* The deadline counted from the request, and the one an exclusive job counts
\* from its own start.
Expire(s) ==
    /\ ~expired[s] /\ sse[s] \in {"open", "closing"}
    /\ expired' = [expired EXCEPT ![s] = TRUE]
    /\ UNCHANGED <<request, jobVars, engineVars, chan, rx, cancel, jobLate, panicked, sseVars>>

JobExpires(s) ==
    /\ request[s].lane = "exclusive" /\ engine = s /\ expired[s] /\ ~jobLate[s]
    /\ jobLate' = [jobLate EXCEPT ![s] = TRUE]
    /\ UNCHANGED <<request, jobVars, engineVars, chan, rx, cancel, expired, panicked, sseVars>>

EngineStep(s) ==
    \/ Schedule(s) \/ BlockingSend(s) \/ Prologue(s) \/ StepOver(s)
    \/ StepAbandoned(s) \/ StepTimedOut(s) \/ Forward(s) \/ Interrupted(s) \/ TurnEnds(s)

Poll(s) == Recv(s) \/ RequestDeadline(s) \/ ChannelClosed(s) \/ Return(s)

Next ==
    \E s \in Streams :
        \/ EngineStep(s) \/ Panic(s)
        \/ Poll(s) \/ Disconnect(s)
        \/ Expire(s) \/ JobExpires(s)

\* The engine thread runs, and clients read on or go away.
Fairness ==
    /\ WF_vars(\E s \in Streams : EngineStep(s))
    /\ WF_vars(\E s \in Streams : Poll(s) \/ Disconnect(s))

Spec == Init /\ [][Next]_vars /\ Fairness

-----------------------------------------------------------------------------
(* Properties.                                                             *)

\* Text on its way to the client of s, behind what it has.
InFlight(s) ==
    LET pending == chan[s] \o (IF engine = s THEN sends ELSE <<>>)
    IN  held[s] \o FoldSeq(LAMBDA e, acc : e.text \o acc, <<>>, pending)

\* run_stream_decode_job with one token, and that token from the prompt cache:
\* its loop never runs and what the prologue held back is not sent.
OneCachedToken(s) ==
    request[s].lane = "exclusive" /\ request[s].cached /\ limit[s] = 1

\* A reply that ends well is the generated text cut at its first stop sequence:
\* nothing lost in the hold-back, in the tool candidate or in the channel.
DeliveredWhole ==
    \A s \in Streams :
        (end[s] = "finished" /\ ~OneCachedToken(s))
            => got[s] = TruncateAtStop(text[s], stops[s])

\* Nothing is shown that a stop sequence completed later would cut, nothing is
\* shown twice, and what is on its way follows what has arrived.
NeverTakenBack ==
    \A s \in Streams :
        rx[s] => IsPrefix(got[s] \o InFlight(s), TruncateAtStop(text[s], stops[s]))

\* A client is told that the worker failed only if it did: a job that ends in any
\* other way leaves a terminal event behind, or nobody to read it.
WorkerFailureIsReal ==
    \A s \in Streams : end[s] = "worker" => panicked[s]

\* A job whose worker panicked, or that timed out, is never reported as finished.
NoSilentTruncation ==
    \A s \in Streams : end[s] = "finished" => Over(s) /\ ~panicked[s]

\* How a stream ended for its client is how its job ended: no failure is invented and
\* none is passed off as a complete reply.
EndingIsTrue == TypeOK /\ WorkerFailureIsReal /\ NoSilentTruncation

\* A client that has its terminal frame, from the job or from a deadline that won
\* the race against a job that had just begun, costs the engine no more forwards.
AnsweredMeansStopped ==
    [][\A s \in Streams :
         (end[s] # "none" /\ phase = "step") => count'[s] = count[s]]_vars

\* Every stream ends for its client, and its job leaves the engine, if each client
\* reads on or goes away.
StreamsEnd ==
    <>(\A s \in Streams : sse[s] \in {"ended", "dropped"} /\ job[s] = "gone")
=============================================================================
