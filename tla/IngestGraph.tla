----------------------------- MODULE IngestGraph ----------------------------
(***************************************************************************)
(* The ingest service (services/ingest, Go): HTTP handlers hand each event *)
(* to the graph writer and publish it to the fusion topic                  *)
(* (internal/handler/handler.go); the writer's goroutine batches its queue *)
(* into Neo4j (internal/graph/writer.go); main.go shuts the two down.      *)
(*                                                                         *)
(* A select statement is one step that takes any of its ready cases.  A    *)
(* flush is an action of its own; its outcome is Neo4j's, including an     *)
(* error reported for a transaction that did commit.                       *)
(***************************************************************************)
EXTENDS Naturals, Sequences, FiniteSets, SequencesExt

CONSTANTS
    Events,         \* one per request
    QueueSize,      \* capacity of the channel
    BatchSize

ASSUME IngestAssumption ==
    QueueSize \in Nat \ {0} /\ BatchSize \in Nat \ {0}

VARIABLES
    request,    \* per event: how far its handler is
    queue,      \* Writer.queue
    batch,      \* the flusher's batch
    flusher,    \* where flushLoop is
    closed,     \* Writer.closed is closed
    cancelled,  \* rootCtx is done
    process,    \* what main is doing
    accepted,   \* history: the events WriteEvent enqueued, in order
    written,    \* outside world: events merged into Neo4j, in order
    published   \* outside world: events on the fusion topic

writer  == <<queue, batch, flusher, closed, cancelled>>
outside == <<accepted, written, published>>
vars    == <<request, writer, process, outside>>

-----------------------------------------------------------------------------
Flushing == {"flush", "drain_flush", "last_flush"}

TypeOK ==
    /\ request \in [Events -> {"new", "arrived", "projected", "ok", "error"}]
    /\ queue \in Seq(Events) /\ Len(queue) <= QueueSize
    /\ batch \in Seq(Events) /\ Len(batch) <= BatchSize
    /\ flusher \in {"loop", "drain", "exited"} \cup Flushing
    /\ closed \in BOOLEAN /\ cancelled \in BOOLEAN
    /\ process \in {"serving", "stopping", "closing", "exited", "fatal"}
    /\ accepted \in Seq(Events) /\ written \in Seq(Events)
    /\ published \subseteq Events
    \* a flush has something to flush, and only a closed writer drains
    /\ flusher \in Flushing => batch # << >>
    /\ flusher \in {"drain", "drain_flush", "last_flush", "exited"} => closed
    /\ cancelled => closed

Init ==
    /\ request = [e \in Events |-> "new"]
    /\ queue = << >> /\ batch = << >>
    /\ flusher = "loop"
    /\ closed = FALSE /\ cancelled = FALSE
    /\ process = "serving"
    /\ accepted = << >> /\ written = << >>
    /\ published = {}

Running == process \notin {"exited", "fatal"}
Busy    == {e \in Events : request[e] \in {"arrived", "projected"}}

-----------------------------------------------------------------------------
(***************************************************************************)
(* IngestEvents                                                            *)
(***************************************************************************)
Arrive(e) ==
    /\ process = "serving"
    /\ request[e] = "new"
    /\ request' = [request EXCEPT ![e] = "arrived"]
    /\ UNCHANGED <<writer, process, outside>>

Projected(e) == request' = [request EXCEPT ![e] = "projected"]

\* Mutant: no default case, so a full queue holds the handler up.
WriteEvent_Blocking(e) ==
    /\ Running /\ request[e] = "arrived"
    /\ Projected(e)
    /\ \/ closed /\ UNCHANGED <<queue, accepted>>
       \/ /\ Len(queue) < QueueSize
          /\ queue' = Append(queue, e)
          /\ accepted' = Append(accepted, e)
    /\ UNCHANGED <<batch, flusher, closed, cancelled, process, written,
                   published>>

\* Refused by a closed writer, enqueued, or dropped: in each case the
\* handler goes on.
WriteEvent(e) ==
    /\ Running /\ request[e] = "arrived"
    /\ Projected(e)
    /\ \/ closed /\ UNCHANGED <<queue, accepted>>
       \/ /\ Len(queue) < QueueSize
          /\ queue' = Append(queue, e)
          /\ accepted' = Append(accepted, e)
       \/ /\ ~closed /\ Len(queue) = QueueSize
          /\ UNCHANGED <<queue, accepted>>
    /\ UNCHANGED <<batch, flusher, closed, cancelled, process, written,
                   published>>

\* Mutant: a failed publish is answered like one that succeeded.
Publish_Swallowed(e, ok) ==
    /\ Running /\ request[e] = "projected"
    /\ request' = [request EXCEPT ![e] = "ok"]
    /\ \/ published' = published \cup {e}
       \/ ~ok /\ published' = published
    /\ UNCHANGED <<writer, process, accepted, written>>

\* PublishBatch, then the response.  A failed call may have been sent.
Publish(e, ok) ==
    /\ Running /\ request[e] = "projected"
    /\ request' = [request EXCEPT ![e] = IF ok THEN "ok" ELSE "error"]
    /\ \/ published' = published \cup {e}
       \/ ~ok /\ published' = published
    /\ UNCHANGED <<writer, process, accepted, written>>

-----------------------------------------------------------------------------
(***************************************************************************)
(* flushLoop                                                               *)
(***************************************************************************)
\* Receive one event; a full batch is flushed at once.
Take(from, to) ==
    /\ Running /\ flusher = from
    /\ queue # << >>
    /\ queue' = Tail(queue)
    /\ batch' = Append(batch, Head(queue))
    /\ flusher' = IF Len(batch) + 1 >= BatchSize THEN to ELSE from
    /\ UNCHANGED <<request, closed, cancelled, process, outside>>

Tick ==
    /\ Running /\ flusher = "loop"
    /\ batch # << >>
    /\ flusher' = "flush"
    /\ UNCHANGED <<request, queue, batch, closed, cancelled, process, outside>>

\* Mutant: closed is looked at on a tick with something to flush only.
SeeClosed_OnTick ==
    /\ Running /\ flusher = "loop"
    /\ closed /\ batch # << >>
    /\ flusher' = "drain"
    /\ UNCHANGED <<request, queue, batch, closed, cancelled, process, outside>>

SeeClosed ==
    /\ Running /\ flusher = "loop"
    /\ closed
    /\ flusher' = "drain"
    /\ UNCHANGED <<request, queue, batch, closed, cancelled, process, outside>>

DrainEnd ==
    /\ Running /\ flusher = "drain"
    /\ queue = << >>
    /\ flusher' = IF batch = << >> THEN "exited" ELSE "last_flush"
    /\ UNCHANGED <<request, queue, batch, closed, cancelled, process, outside>>

After == CASE flusher = "flush"       -> "loop"
           [] flusher = "drain_flush" -> "drain"
           [] flusher = "last_flush"  -> "exited"

\* Mutant: a failed flush puts its batch back at the end of the queue.
Flush_Requeue(outcome) ==
    /\ Running /\ flusher \in Flushing
    /\ outcome = "ok" => ~cancelled
    /\ written' = IF outcome = "error" THEN written ELSE written \o batch
    /\ queue' = IF outcome = "error" THEN queue \o batch ELSE queue
    /\ batch' = << >>
    /\ flusher' = After
    /\ UNCHANGED <<request, closed, cancelled, process, accepted, published>>

\* A failed batch is dropped.  Once the root context is done every flush
\* fails; so does one whose commit was not acknowledged.
Flush(outcome) ==
    /\ Running /\ flusher \in Flushing
    /\ outcome = "ok" => ~cancelled
    /\ written' = IF outcome = "error" THEN written ELSE written \o batch
    /\ batch' = << >>
    /\ flusher' = After
    /\ UNCHANGED <<request, queue, closed, cancelled, process, accepted,
                   published>>

Outcomes == {"ok", "error", "committed_error"}

Flusher ==
    \/ Take("loop", "flush") \/ Take("drain", "drain_flush")
    \/ Tick \/ SeeClosed \/ DrainEnd

-----------------------------------------------------------------------------
(***************************************************************************)
(* main: signal, http.Server.Shutdown with a deadline, deferred Close      *)
(***************************************************************************)
Signal ==
    /\ process = "serving"
    /\ process' = "stopping"
    /\ UNCHANGED <<request, writer, outside>>

\* Shutdown returns once no handler runs; then the deferred Close.
Close ==
    /\ process = "stopping"
    /\ Busy = {}
    /\ process' = "closing"
    /\ closed' = TRUE
    /\ UNCHANGED <<request, queue, batch, flusher, cancelled, outside>>

\* Shutdown's own deadline: log.Fatal exits without running deferred calls.
ShutdownTimeout ==
    /\ process = "stopping"
    /\ Busy # {}
    /\ process' = "fatal"
    /\ UNCHANGED <<request, writer, outside>>

\* The grace window of Close is over.
Grace ==
    /\ process = "closing"
    /\ ~cancelled
    /\ cancelled' = TRUE
    /\ UNCHANGED <<request, queue, batch, flusher, closed, process, outside>>

\* wg.Wait returns.
Exit ==
    /\ process = "closing"
    /\ flusher = "exited"
    /\ process' = "exited"
    /\ UNCHANGED <<request, writer, outside>>

-----------------------------------------------------------------------------
Handle(e) == WriteEvent(e) \/ \E ok \in BOOLEAN : Publish(e, ok)

Next ==
    \/ \E e \in Events : Arrive(e) \/ Handle(e)
    \/ Flusher
    \/ \E o \in Outcomes : Flush(o)
    \/ Signal \/ Close \/ ShutdownTimeout \/ Grace \/ Exit

Spec == Init /\ [][Next]_vars

\* The handlers run and a publish ends, and main goes on when it can.  The
\* flusher need not ever run again and Neo4j need not ever answer.
Fairness ==
    /\ \A e \in Events : WF_vars(Handle(e))
    /\ WF_vars(Close \/ Exit)

FairSpec == Spec /\ Fairness

\* The flusher's goroutine runs, and a flush ends by its deadline.
FlusherRuns == WF_vars(Flusher) /\ WF_vars(\E o \in Outcomes : Flush(o))
-----------------------------------------------------------------------------
(***************************************************************************)
(* Properties                                                              *)
(***************************************************************************)
\* What is written, being flushed and queued are, in this order, events that
\* WriteEvent accepted, in the order it accepted them and none twice: a
\* later observation of an entity is never overwritten by an earlier one.
WrittenInOrder ==
    LET pipeline == written \o batch \o queue
        Place(e) == CHOOSE n \in DOMAIN accepted : accepted[n] = e
    IN /\ ToSet(pipeline) \subseteq ToSet(accepted)
       /\ \A m, n \in DOMAIN pipeline :
             m < n => Place(pipeline[m]) < Place(pipeline[n])

\* "Drain remaining queued events so we don't lose them on shutdown": when
\* main returns, nothing an HTTP handler handed over is still in memory.
ExitIsDrained ==
    process = "exited" => queue = << >> /\ batch = << >> /\ Busy = {}

\* The graph may be ahead of the fusion topic, but not behind the sender's
\* back: of an event that Neo4j holds and the topic does not, the handler is
\* still at work, has answered with an error, or died without an answer.
GraphAheadIsKnown ==
    \A e \in ToSet(written) \ published : request[e] \in {"projected", "error"}

\* What the writer promises, in the writer's own terms: what it has taken
\* from the queue and what it has not is one log, open until main closes it.
Phase == CASE process \in {"serving", "stopping"} -> "open"
           [] process = "closing" -> "closing"
           [] process = "exited"  -> "ended"
           [] process = "fatal"   -> "aborted"

LogOf == INSTANCE GraphLog WITH
    log_accepted <- accepted, log_waiting <- batch \o queue,
    log_stored <- written, log_phase <- Phase

\* The writer implements that log: every step of a handler, of the flusher
\* and of main is one step of it or none, up to the last one of the process.
ImplementsLog == LogOf!LogSpec

\* "graph-write failures must NOT block fusion ingest": a request is
\* answered, even when no flush ever returns, unless the process dies.
AnsweredAnyway ==
    \A e \in Events :
        request[e] = "arrived" ~> request[e] \in {"ok", "error"} \/ ~Running

\* A signal ends the process, whatever Neo4j answers by the deadline of a
\* flush.
StopsOnSignal == FlusherRuns => (process = "stopping" ~> ~Running)

(***************************************************************************)
(* Statements of the repository that the code does not keep.               *)
(***************************************************************************)
\* "The caller already published the event to the Kafka fusion topic".
GraphAfterFusion == ToSet(written) \subseteq published

\* "so we don't lose them on shutdown", for every way the process ends.
NothingLeftBehind == ~Running => queue = << >> /\ batch = << >>

=============================================================================
