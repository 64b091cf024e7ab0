------------------------------ MODULE GraphLog ------------------------------
(***************************************************************************)
(* What the graph writer promises the handlers (the comment above Writer   *)
(* in internal/graph/writer.go): a bounded memory of accepted events that  *)
(* leaves in the order it came, a batch at a time, each batch into the     *)
(* graph or lost as a whole, and nothing in it when the process ends of    *)
(* its own accord.                                                         *)
(***************************************************************************)
EXTENDS Naturals, Sequences, SequencesExt

CONSTANTS Events, QueueSize, BatchSize

VARIABLES
    log_accepted,   \* everything accepted so far, in order
    log_waiting,    \* what is still in memory
    log_stored,     \* what the graph holds, in order
    log_phase

log_vars == <<log_accepted, log_waiting, log_stored, log_phase>>

LogInit ==
    /\ log_accepted = << >> /\ log_waiting = << >> /\ log_stored = << >>
    /\ log_phase = "open"

\* No event is accepted twice, nor any after the log began to close.
LogAccept(e) ==
    /\ log_phase = "open"
    /\ e \notin ToSet(log_accepted)
    /\ Len(log_waiting) < QueueSize + BatchSize
    /\ log_accepted' = Append(log_accepted, e)
    /\ log_waiting' = Append(log_waiting, e)
    /\ UNCHANGED <<log_stored, log_phase>>

\* The first n waiting events leave together, stored or lost.
LogSettle(n) ==
    /\ log_phase \in {"open", "closing"}
    /\ n <= Len(log_waiting)
    /\ log_waiting' = SubSeq(log_waiting, n + 1, Len(log_waiting))
    /\ log_stored' \in {log_stored, log_stored \o SubSeq(log_waiting, 1, n)}
    /\ UNCHANGED <<log_accepted, log_phase>>

LogClose ==
    /\ log_phase = "open"
    /\ log_phase' = "closing"
    /\ UNCHANGED <<log_accepted, log_waiting, log_stored>>

LogEnd ==
    /\ log_phase = "closing"
    /\ log_waiting = << >>
    /\ log_phase' = "ended"
    /\ UNCHANGED <<log_accepted, log_waiting, log_stored>>

\* The process dies without closing the log.
LogAbort ==
    /\ log_phase = "open"
    /\ log_phase' = "aborted"
    /\ UNCHANGED <<log_accepted, log_waiting, log_stored>>

LogNext ==
    \/ \E e \in Events : LogAccept(e)
    \/ \E n \in 1 .. BatchSize : LogSettle(n)
    \/ LogClose \/ LogEnd \/ LogAbort

LogSpec == LogInit /\ [][LogNext]_log_vars

=============================================================================
