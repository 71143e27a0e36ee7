-------------------------- MODULE ResponsesStream --------------------------
(***************************************************************************)
(* The Responses adapter (app/llm/responses.py): a call opens a stream in  *)
(* a connect thread, reads it in a reader thread with a queue of one place, *)
(* and is bounded by a read timeout and a request ceiling.  A call that    *)
(* fails is made again by the retry of its WorkItem while the threads and  *)
(* streams of the earlier attempts may still be there.                     *)
(*                                                                         *)
(* The relay (external) sends events, ends, breaks or falls silent as it   *)
(* likes.  Time is abstract: a timeout may strike at any moment the code   *)
(* waits with it.  Sequence numbers are kept modulo 3: at most two events  *)
(* are between the relay and the handler.  The async handler has no        *)
(* threads: a creation that times out is cancelled.                        *)
(***************************************************************************)
EXTENDS Naturals

CONSTANT max_attempts

ASSUME StreamAssumption == max_attempts \in Nat \ {0}

VARIABLES
    mode,       \* "sync" or "async": the handler of the run
    preflight,  \* the provider probe of the run
    attempt,    \* the attempt the WorkItem is at
    call,       \* per attempt: where the calling thread is
    connect,    \* per attempt: where the connect thread is
    results,    \* per attempt: the queue between the two
    abandoned,  \* per attempt
    stream,     \* per attempt: its stream, as the relay has it
    closer,     \* per attempt: a thread closes it
    reader,     \* per attempt: where the reader thread is
    events,     \* per attempt: the queue of one place
    stopped,    \* per attempt
    sent, handled,    \* per attempt: events, modulo 3
    received    \* per attempt: what the handler has collected

callVars == <<attempt, call, abandoned, stopped, handled, received>>
relayVars == <<stream, sent>>
streamVars == <<mode, preflight, callVars, relayVars, connect, results, closer, reader, events>>

Attempts == 1 .. max_attempts

\* The events that the handler tells apart.
Events == {"text", "call", "completed"}

Nothing == {}

StreamInit ==
    /\ mode \in {"sync", "async"} /\ preflight = "pending" /\ attempt = 1
    /\ call = [n \in Attempts |-> "idle"] /\ connect = [n \in Attempts |-> "idle"]
    /\ results = [n \in Attempts |-> "empty"] /\ abandoned = [n \in Attempts |-> FALSE]
    /\ stream = [n \in Attempts |-> "none"] /\ closer = [n \in Attempts |-> FALSE]
    /\ reader = [n \in Attempts |-> "idle"] /\ events = [n \in Attempts |-> "empty"]
    /\ stopped = [n \in Attempts |-> FALSE]
    /\ sent = [n \in Attempts |-> 0] /\ handled = [n \in Attempts |-> 0]
    /\ received = [n \in Attempts |-> Nothing]

Failed == {"unavailable", "timed_out", "broken", "empty_result"}
Returned == {"text", "calls"}

----------------------------------------------------------------------------
\* ProviderPreflight.check: passed when its own short stream shows a terminal
\* event; a key, HTTP or transport failure or its absence blocks the run.
Preflight ==
    /\ preflight = "pending" /\ preflight' \in {"passed", "blocked", "unavailable", "failed"}
    /\ UNCHANGED <<mode, callVars, relayVars, connect, results, closer, reader, events>>

----------------------------------------------------------------------------
\* _create_sync_stream.

\* _handle_streaming_responses starts the connect thread.
StartCall(n) ==
    /\ mode = "sync" /\ preflight = "passed" /\ attempt = n /\ call[n] = "idle"
    /\ call' = [call EXCEPT ![n] = "waiting"] /\ connect' = [connect EXCEPT ![n] = "creating"]
    /\ UNCHANGED <<mode, preflight, attempt, abandoned, stopped, handled, received,
                   relayVars, results, closer, reader, events>>

\* responses.create returns a stream or raises.
Created(n) ==
    /\ connect[n] = "creating"
    /\ \/ connect' = [connect EXCEPT ![n] = "stream"] /\ stream' = [stream EXCEPT ![n] = "open"]
       \/ connect' = [connect EXCEPT ![n] = "error"] /\ UNCHANGED stream
    /\ UNCHANGED <<mode, preflight, callVars, sent, results, closer, reader, events>>

\* With the handoff lock: hand over, or close what nobody waits for.
HandOver(n) ==
    /\ connect[n] \in {"stream", "error"} /\ connect' = [connect EXCEPT ![n] = "done"]
    /\ IF ~abandoned[n]
       THEN results' = [results EXCEPT ![n] = connect[n]] /\ UNCHANGED closer
       ELSE /\ closer' = [closer EXCEPT ![n] = connect[n] = "stream"]
            /\ UNCHANGED results
    /\ UNCHANGED <<mode, preflight, callVars, relayVars, reader, events>>

\* results.get: the stream goes to the reader, the error to the caller.
Take(n) ==
    /\ call[n] = "waiting" /\ results[n] # "empty"
    /\ results' = [results EXCEPT ![n] = "empty"]
    /\ IF results[n] = "stream"
       THEN /\ call' = [call EXCEPT ![n] = "iterating"]
            /\ reader' = [reader EXCEPT ![n] = "reading"]
       ELSE call' = [call EXCEPT ![n] = "unavailable"] /\ UNCHANGED reader
    /\ UNCHANGED <<mode, preflight, attempt, abandoned, stopped, handled, received,
                   relayVars, connect, closer, events>>

\* queue.Empty.
GetTimesOut(n) ==
    /\ call[n] = "waiting" /\ results[n] = "empty"
    /\ call' = [call EXCEPT ![n] = "abandoning"]
    /\ UNCHANGED <<mode, preflight, attempt, abandoned, stopped, handled, received,
                   relayVars, connect, results, closer, reader, events>>

\* Mutant: the queue is not looked at again.
Abandon_NoDrain(n) ==
    /\ call[n] = "abandoning" /\ call' = [call EXCEPT ![n] = "timed_out"]
    /\ abandoned' = [abandoned EXCEPT ![n] = TRUE]
    /\ UNCHANGED <<mode, preflight, attempt, stopped, handled, received, relayVars, connect,
                   results, closer, reader, events>>

\* With the handoff lock: a stream that landed after the timeout is closed.
Abandon(n) ==
    /\ call[n] = "abandoning" /\ call' = [call EXCEPT ![n] = "timed_out"]
    /\ abandoned' = [abandoned EXCEPT ![n] = TRUE]
    /\ results' = [results EXCEPT ![n] = "empty"]
    /\ closer' = [closer EXCEPT ![n] = @ \/ results[n] = "stream"]
    /\ UNCHANGED <<mode, preflight, attempt, stopped, handled, received, relayVars, connect,
                   reader, events>>

\* close_late_stream and close_stream: close() may block for ever, and its errors
\* are dropped.
Close(n) ==
    /\ closer[n] /\ closer' = [closer EXCEPT ![n] = FALSE]
    /\ stream' = [stream EXCEPT ![n] = "closed"]
    /\ UNCHANGED <<mode, preflight, callVars, sent, connect, results, reader, events>>

----------------------------------------------------------------------------
\* _iter_sse_events: the reader thread.

\* The relay sends the next event to a reader that waits for it.
RelaySends(n, event) ==
    /\ reader[n] = "reading" /\ stream[n] = "open"
    /\ reader' = [reader EXCEPT ![n] = event]
    /\ sent' = IF stopped[n] THEN sent ELSE [sent EXCEPT ![n] = (@ + 1) % 3]
    /\ UNCHANGED <<mode, preflight, callVars, stream, connect, results, closer, events>>

\* The stream ends, or it breaks; so does one that was closed.
End(n) ==
    /\ reader[n] = "reading"
    /\ \/ stream[n] = "open" /\ reader' = [reader EXCEPT ![n] = "end"]
       \/ reader' = [reader EXCEPT ![n] = "error"]
    /\ stream' = [stream EXCEPT ![n] = "closed"]
    /\ UNCHANGED <<mode, preflight, callVars, sent, connect, results, closer, events>>

\* Mutant: an event is dropped when the queue is full.
Publish_DropWhenFull(n) ==
    /\ reader[n] \notin {"idle", "reading", "over"} /\ ~stopped[n]
    /\ events' = [events EXCEPT ![n] = IF @ = "empty" THEN reader[n] ELSE @]
    /\ reader' = [reader EXCEPT ![n] =
                    IF @ = "end" THEN "over" ELSE IF @ = "error" THEN "end" ELSE "reading"]
    /\ UNCHANGED <<mode, preflight, callVars, relayVars, connect, results, closer>>

\* publish waits for the place in the queue; consume ends with "end".
Publish(n) ==
    /\ reader[n] \notin {"idle", "reading", "over"} /\ ~stopped[n] /\ events[n] = "empty"
    /\ events' = [events EXCEPT ![n] = reader[n]]
    /\ reader' = [reader EXCEPT ![n] =
                    IF @ = "end" THEN "over" ELSE IF @ = "error" THEN "end" ELSE "reading"]
    /\ UNCHANGED <<mode, preflight, callVars, relayVars, connect, results, closer>>

\* A reader that is stopped publishes nothing more.
Quit(n) ==
    /\ stopped[n] /\ reader[n] \notin {"idle", "reading", "over"}
    /\ reader' = [reader EXCEPT ![n] = "over"]
    /\ UNCHANGED <<mode, preflight, callVars, relayVars, connect, results, closer, events>>

----------------------------------------------------------------------------
\* _iter_sse_events and _handle_streaming_responses: the calling thread.

\* The outcome of the loop: function calls, text, or an empty result, which
\* call() refuses.
Outcome(collected) ==
    IF "call" \in collected THEN "calls"
    ELSE IF "text" \in collected THEN "text" ELSE "empty_result"

Leave(n, outcome) ==
    /\ call' = [call EXCEPT ![n] = outcome] /\ stopped' = [stopped EXCEPT ![n] = TRUE]

Handle(n) ==
    /\ call[n] = "iterating" /\ events[n] # "empty"
    /\ events' = [events EXCEPT ![n] = "empty"]
    /\ CASE events[n] = "end" ->
                Leave(n, Outcome(received[n])) /\ UNCHANGED <<handled, received>>
         [] events[n] = "error" -> Leave(n, "broken") /\ UNCHANGED <<handled, received>>
         [] OTHER ->
                /\ received' = [received EXCEPT ![n] = @ \cup {events[n]}]
                /\ handled' = [handled EXCEPT ![n] = (@ + 1) % 3]
                /\ UNCHANGED <<call, stopped>>
    /\ UNCHANGED <<mode, preflight, attempt, abandoned, relayVars, connect, results,
                   closer, reader>>

\* No event within the read timeout: the stream is closed in a thread.
ReadTimesOut(n) ==
    /\ mode = "sync" /\ call[n] = "iterating" /\ events[n] = "empty" /\ Leave(n, "timed_out")
    /\ closer' = [closer EXCEPT ![n] = TRUE]
    /\ UNCHANGED <<mode, preflight, attempt, abandoned, handled, received, relayVars,
                   connect, results, reader, events>>

\* Mutant: the ceiling is looked at only while nothing comes.
Ceiling_Idle(n) ==
    /\ call[n] = "iterating" /\ events[n] = "empty" /\ reader[n] = "reading"
    /\ Leave(n, "timed_out")
    /\ UNCHANGED <<mode, preflight, attempt, abandoned, handled, received, relayVars,
                   connect, results, closer, reader, events>>

\* The request ceiling, before a get or with an event in hand: nothing is closed.
Ceiling(n) ==
    /\ call[n] = "iterating" /\ Leave(n, "timed_out")
    /\ UNCHANGED <<mode, preflight, attempt, abandoned, handled, received, relayVars,
                   connect, results, closer, reader, events>>

----------------------------------------------------------------------------
\* _ahandle_streaming_responses and _aiter_sse_events.

AsyncQuiet == UNCHANGED <<mode, preflight, attempt, abandoned, connect, results, closer,
                          reader, events>>

\* wait_for: headers arrive, creation fails, or it is cancelled.
AsyncCreate(n) ==
    /\ mode = "async" /\ preflight = "passed" /\ attempt = n /\ call[n] = "idle"
    /\ \/ call' = [call EXCEPT ![n] = "iterating"] /\ stream' = [stream EXCEPT ![n] = "open"]
       \/ /\ \E outcome \in {"unavailable", "timed_out"} :
                call' = [call EXCEPT ![n] = outcome]
          /\ UNCHANGED stream
    /\ UNCHANGED <<sent, handled, received, stopped>> /\ AsyncQuiet

\* __anext__ returns an event; the loop handles it at once.
AsyncEvent(n, event) ==
    /\ mode = "async" /\ call[n] = "iterating"
    /\ received' = [received EXCEPT ![n] = @ \cup {event}]
    /\ sent' = [sent EXCEPT ![n] = (@ + 1) % 3]
    /\ handled' = [handled EXCEPT ![n] = (@ + 1) % 3]
    /\ UNCHANGED <<call, stream, stopped>> /\ AsyncQuiet

\* The stream ends: what was collected decides, as in the other handler.
AsyncReturn(n) ==
    /\ mode = "async" /\ call[n] = "iterating"
    /\ Leave(n, Outcome(received[n]))
    /\ stream' = [stream EXCEPT ![n] = "closed"]
    /\ UNCHANGED <<sent, handled, received>> /\ AsyncQuiet

\* The stream breaks, or no event comes within the read timeout.
AsyncEnd(n) ==
    /\ mode = "async" /\ call[n] = "iterating"
    /\ \E outcome \in {"broken", "timed_out"} : Leave(n, outcome)
    /\ stream' = [stream EXCEPT ![n] = "closed"]
    /\ UNCHANGED <<sent, handled, received>> /\ AsyncQuiet

AsyncStep(n) ==
    AsyncCreate(n) \/ AsyncReturn(n) \/ AsyncEnd(n)
    \/ \E event \in Events : AsyncEvent(n, event)

\* The WorkItem is tried again; what the failed attempt collected is dropped.
RetryCall ==
    /\ call[attempt] \in Failed /\ attempt < max_attempts
    /\ attempt' = attempt + 1
    /\ received' = [received EXCEPT ![attempt] = Nothing]
    /\ handled' = [handled EXCEPT ![attempt] = 0] /\ sent' = [sent EXCEPT ![attempt] = 0]
    /\ events' = [events EXCEPT ![attempt] = "empty"]
    /\ UNCHANGED <<mode, preflight, call, abandoned, stopped, stream, connect, results,
                   closer, reader>>

Done ==
    /\ \/ preflight \notin {"pending", "passed"}
       \/ call[attempt] \in Returned
       \/ call[attempt] \in Failed /\ attempt = max_attempts
    /\ UNCHANGED streamVars

Caller(n) == StartCall(n) \/ Take(n) \/ GetTimesOut(n) \/ Abandon(n) \/ Handle(n)

Threads(n) == HandOver(n) \/ Close(n) \/ Publish(n) \/ Quit(n)

Relay(n) == Created(n) \/ End(n) \/ \E event \in Events : RelaySends(n, event)

StreamNext ==
    \/ \E n \in Attempts : Caller(n) \/ Threads(n) \/ Relay(n) \/ ReadTimesOut(n) \/ Ceiling(n)
                           \/ AsyncStep(n)
    \/ Preflight \/ RetryCall \/ Done

StreamSpec == StreamInit /\ [][StreamNext]_streamVars

\* Threads are scheduled and clocks go on; nothing is assumed of the relay, and
\* not that a close() that is called on its stream returns.
StreamFairSpec ==
    /\ StreamSpec /\ WF_streamVars(RetryCall)
    /\ \A n \in Attempts :
        /\ WF_streamVars(Caller(n)) /\ WF_streamVars(AsyncCreate(n)) /\ WF_streamVars(Ceiling(n))
        /\ WF_streamVars(HandOver(n)) /\ WF_streamVars(Publish(n)) /\ WF_streamVars(Quit(n))

----------------------------------------------------------------------------
\* Type invariant.
StreamTypeOK ==
    /\ mode \in {"sync", "async"} /\ attempt \in Attempts
    /\ preflight \in {"pending", "passed", "blocked", "unavailable", "failed"}
    /\ call \in [Attempts -> {"idle", "waiting", "abandoning", "iterating"}
                              \cup Failed \cup Returned]
    /\ connect \in [Attempts -> {"idle", "creating", "stream", "error", "done"}]
    /\ results \in [Attempts -> {"empty", "stream", "error"}]
    /\ abandoned \in [Attempts -> BOOLEAN] /\ stopped \in [Attempts -> BOOLEAN]
    /\ stream \in [Attempts -> {"none", "open", "closed"}]
    /\ closer \in [Attempts -> BOOLEAN]
    /\ reader \in [Attempts -> {"idle", "reading", "end", "error", "over"} \cup Events]
    /\ events \in [Attempts -> {"empty", "end", "error"} \cup Events]
    /\ sent \in [Attempts -> 0..2] /\ handled \in [Attempts -> 0..2]
    /\ received \in [Attempts -> SUBSET Events]

\* A call that returned has handled every event of its stream: the queue of one
\* place between the threads loses none.
EveryEventHandled ==
    \A n \in Attempts : call[n] \in Returned => handled[n] = sent[n] /\ events[n] = "empty"

\* A stream that arrives for a call that no longer waits has close() called on it,
\* in whatever order the timeout, the hand-over and the lock come.
LateStreamClosed ==
    \A n \in Attempts :
        (abandoned[n] /\ stream[n] = "open") ~> (closer[n] \/ stream[n] = "closed")

\* A call ends, whether the relay is silent, breaks or never stops sending.
CallEnds ==
    \A n \in Attempts : (call[n] \in {"waiting", "iterating"}) ~> (call[n] \in Failed \cup Returned)

\* A call returns text only when the stream had its terminal event.  Refuted
\* (stream_terminal.cfg): a stream that breaks off after text is taken as complete.
TextHasTerminal ==
    \A n \in Attempts : call[n] = "text" => "completed" \in received[n]
=============================================================================
