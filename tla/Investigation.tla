---------------------------- MODULE Investigation --------------------------
(***************************************************************************)
(* One autonomous investigation of the agents service: the background task *)
(* of app/api/investigate.py drives InvestigatorOrchestrator.stream        *)
(* (app/investigator/orchestrator.py), which runs the agents as a pipeline *)
(* of nodes, writes every new entry of the audit log to the ledger         *)
(* (app/investigator/ledger.py) and yields it; WebSocket clients tail the  *)
(* run in memory.                                                          *)
(*                                                                         *)
(* All of it runs in one event loop: what lies between two awaits is one   *)
(* step.  Writes to the ledger are best effort.  An entry of the audit log *)
(* is known by its node and its number in the node; number 0 is the entry  *)
(* _safe_node logs for a node that raised.                                 *)
(***************************************************************************)
EXTENDS Naturals, Sequences

CONSTANTS
    NumNodes,   \* recon, forensic, responder, report_writer
    MaxEntries, \* bound: entries one node adds to the log
    Watchers    \* WebSocket clients

ASSUME InvestigationAssumption ==
    NumNodes \in Nat \ {0} /\ MaxEntries \in Nat

VARIABLES
    pc,         \* where the background task is
    node,       \* the node that runs, or ran last
    log,        \* audit_log of the graph's state
    outcome,    \* status of the graph's state
    emitted,    \* emitted_count
    offset,     \* of the entry being emitted, in new_entries
    tenant,     \* tenant_uuid is not None: the run has a ledger row
    audit,      \* _runs[run_id].audit_log
    status,     \* _runs[run_id].status; "gone" after a restart
    ledgerRun,  \* status in investigation_runs
    rows,       \* investigation_events: seq to entry
    unsaved,    \* history: the sequence numbers whose write failed
    watch       \* per client: where its handler is, seen, the slice, sent

graph   == <<node, log, outcome>>
stream  == <<emitted, offset, tenant>>
memory  == <<audit, status>>
ledger  == <<ledgerRun, rows, unsaved>>
vars    == <<pc, graph, stream, memory, ledger, watch>>

-----------------------------------------------------------------------------
Entry == (1 .. NumNodes) \X (0 .. MaxEntries)

TypeOK ==
    /\ pc \in {"posted", "node", "emit", "deliver", "complete", "done",
               "error", "ended", "lost"}
    /\ node \in 1 .. NumNodes
    /\ log \in Seq(Entry) /\ audit \in Seq(Entry)
    /\ outcome \in {"pending", "running", "completed", "failed"}
    /\ emitted \in Nat /\ offset \in Nat /\ tenant \in BOOLEAN
    /\ status \in {"running", "completed", "failed", "gone"}
    /\ ledgerRun \in {"none", "running", "completed", "failed"}
    /\ unsaved \subseteq Nat
    /\ DOMAIN rows \subseteq Nat
    /\ \A s \in DOMAIN rows : rows[s] \in Entry

Idle == [at |-> "away", seen |-> 0, slice |-> << >>, sent |-> << >>]

\* launch_investigation has answered; its background task has not started.
Init ==
    /\ pc = "posted" /\ node = 1
    /\ log = << >> /\ outcome = "pending"
    /\ emitted = 0 /\ offset = 0 /\ tenant = FALSE
    /\ audit = << >> /\ status = "running"
    /\ ledgerRun = "none" /\ rows = << >> /\ unsaved = {}
    /\ watch = [w \in Watchers |-> Idle]

-----------------------------------------------------------------------------
(***************************************************************************)
(* The pipeline                                                            *)
(***************************************************************************)
\* start_run: without a database or a known tenant there is no row.
Start(written) ==
    /\ pc = "posted"
    /\ pc' = "node"
    /\ tenant' = written
    /\ ledgerRun' = IF written THEN "running" ELSE ledgerRun
    /\ UNCHANGED <<graph, emitted, offset, memory, rows, unsaved, watch>>

\* The context could not be fetched: the exception ends the generator
\* before its try, and the task's own handler marks the run.
PrefetchFails ==
    /\ pc = "posted"
    /\ pc' = "ended" /\ status' = "failed"
    /\ UNCHANGED <<graph, stream, audit, ledger, watch>>

NodeReturns(count) ==
    /\ pc = "node"
    /\ log' = log \o [k \in 1 .. count |-> <<node, k>>]
    /\ outcome' = IF node = NumNodes THEN "completed" ELSE "running"
    /\ pc' = "emit" /\ offset' = 0
    /\ UNCHANGED <<node, emitted, tenant, memory, ledger, watch>>

\* _safe_node starts over from the state the node was given, so what the
\* node logged before it raised is not in the log.
NodeRaises ==
    /\ pc = "node"
    /\ log' = Append(log, <<node, 0>>)
    /\ outcome' = "failed"
    /\ pc' = "emit" /\ offset' = 0
    /\ UNCHANGED <<node, emitted, tenant, memory, ledger, watch>>

GraphRaises ==
    /\ pc = "node"
    /\ pc' = "error"
    /\ UNCHANGED <<graph, stream, memory, ledger, watch>>

-----------------------------------------------------------------------------
(***************************************************************************)
(* stream: new entries of the log                                          *)
(***************************************************************************)
New == SubSeq(log, emitted + 1, Len(log))

\* Mutant: the sequence number starts again with every node.
SeqNo_PerNode == offset
SeqNo == emitted + offset

\* ON CONFLICT (run_id, seq) DO NOTHING
Inserted(s, entry) ==
    IF s \in DOMAIN rows THEN rows
    ELSE [t \in DOMAIN rows \cup {s} |-> IF t = s THEN entry ELSE rows[t]]

\* record_event, awaited before the entry is yielded.
Persist(ok) ==
    /\ pc = "emit" /\ offset < Len(New)
    /\ ok => tenant
    /\ rows' = IF ok THEN Inserted(SeqNo, New[offset + 1]) ELSE rows
    /\ unsaved' = IF ok THEN unsaved ELSE unsaved \cup {emitted + offset}
    /\ pc' = "deliver"
    /\ UNCHANGED <<graph, stream, memory, ledgerRun, watch>>

\* Mutant: the entry of a pipeline that is over marks the run in memory.
Deliver_Ends ==
    /\ pc = "deliver"
    /\ audit' = Append(audit, New[offset + 1])
    /\ offset' = offset + 1
    /\ pc' = "emit"
    /\ status' = IF outcome \in {"failed", "completed"} THEN outcome ELSE status
    /\ UNCHANGED <<graph, emitted, tenant, ledger, watch>>

\* The task appends the entry to the run in memory and forwards it to the
\* realtime service, whose answer does not matter.
Deliver ==
    /\ pc = "deliver"
    /\ audit' = Append(audit, New[offset + 1])
    /\ offset' = offset + 1
    /\ pc' = "emit"
    /\ UNCHANGED <<graph, emitted, tenant, status, ledger, watch>>

Advance == emitted' = Len(log)

\* _guard
NodeEmitted ==
    /\ pc = "emit" /\ offset = Len(New)
    /\ Advance
    /\ IF outcome \in {"failed", "completed"}
       THEN pc' = "complete" /\ UNCHANGED node
       ELSE pc' = "node" /\ node' = node + 1
    /\ UNCHANGED <<log, outcome, offset, tenant, memory, ledger, watch>>

Complete(ok) ==
    /\ pc = "complete"
    /\ ok => tenant
    /\ ledgerRun' = IF ok THEN outcome ELSE ledgerRun
    /\ pc' = "done"
    /\ UNCHANGED <<graph, stream, memory, rows, unsaved, watch>>

\* Mutant: the terminal event is broadcast, the run in memory not updated.
Done_BroadcastOnly ==
    /\ pc = "done"
    /\ pc' = "ended"
    /\ UNCHANGED <<graph, stream, memory, ledger, watch>>

\* The "done" event: whatever the state in it says, the run is completed.
Done ==
    /\ pc = "done"
    /\ status' = "completed"
    /\ pc' = "ended"
    /\ UNCHANGED <<graph, stream, audit, ledger, watch>>

\* The "error" event, after complete_run with "failed".
Error(ok) ==
    /\ pc = "error"
    /\ ok => tenant
    /\ ledgerRun' = IF ok THEN "failed" ELSE ledgerRun
    /\ status' = "failed"
    /\ pc' = "ended"
    /\ UNCHANGED <<graph, stream, audit, rows, unsaved, watch>>

Task ==
    \/ \E ok \in BOOLEAN : Start(ok) \/ Persist(ok) \/ Complete(ok) \/ Error(ok)
    \/ \E count \in 0 .. MaxEntries : NodeReturns(count)
    \/ PrefetchFails \/ NodeRaises \/ GraphRaises
    \/ Deliver \/ NodeEmitted \/ Done

-----------------------------------------------------------------------------
(***************************************************************************)
(* stream_investigation: a client tails the run                            *)
(***************************************************************************)
Watching(w, at) == watch[w].at = at /\ pc # "lost"

\* Mutant: seen is moved on by what one pass may send at most.
Seen_ByPass(w) == watch[w].seen + 1
\* The length of the live list, after the sends.
Seen(w) == Len(audit)

\* The end of one pass of the loop, with what was sent: note the length and
\* read the status, then stop or sleep.
Settle(w, sent) ==
    watch' = [watch EXCEPT ![w] =
                [at |-> IF status = "running" THEN "asleep" ELSE "told",
                 seen |-> Seen(w), slice |-> << >>, sent |-> sent]]

\* The slice is taken once; the sends that follow are awaited.
Look(w) ==
    /\ Watching(w, "away") \/ Watching(w, "asleep")
    /\ LET slice == SubSeq(audit, watch[w].seen + 1, Len(audit))
       IN IF slice = << >>
          THEN Settle(w, watch[w].sent)
          ELSE watch' = [watch EXCEPT ![w].at = "sending", ![w].slice = slice]
    /\ UNCHANGED <<pc, graph, stream, memory, ledger>>

Sent(w) ==
    /\ Watching(w, "sending")
    /\ LET sent == Append(watch[w].sent, Head(watch[w].slice))
           rest == Tail(watch[w].slice)
       IN IF rest = << >>
          THEN Settle(w, sent)
          ELSE watch' = [watch EXCEPT ![w].slice = rest, ![w].sent = sent]
    /\ UNCHANGED <<pc, graph, stream, memory, ledger>>

Disconnect(w) ==
    /\ Watching(w, "sending")
    /\ watch' = [watch EXCEPT ![w].at = "left"]
    /\ UNCHANGED <<pc, graph, stream, memory, ledger>>

-----------------------------------------------------------------------------
\* The task and the run live in the process.
Restart ==
    /\ pc # "lost"
    /\ pc' = "lost" /\ status' = "gone"
    /\ UNCHANGED <<graph, stream, audit, ledger, watch>>

Next ==
    \/ Task
    \/ \E w \in Watchers : Look(w) \/ Sent(w) \/ Disconnect(w)
    \/ Restart

Spec == Init /\ [][Next]_vars

\* Nodes return or raise, as calls of models and tools have timeouts; a
\* client that is awake and connected is served.
Fairness ==
    /\ WF_vars(Task)
    /\ \A w \in Watchers :
          WF_vars(watch[w].at # "away" /\ (Look(w) \/ Sent(w)))

FairSpec == Spec /\ Fairness
-----------------------------------------------------------------------------
(***************************************************************************)
(* Properties                                                              *)
(***************************************************************************)
\* "one per agent audit-log entry, in order, exactly once": the entries the
\* task received are the log's, in the log's order, none twice, and all of
\* them once the terminal event of an undisturbed pipeline is out.
StepsOnce ==
    /\ Len(audit) <= Len(log)
    /\ \A i \in DOMAIN audit : audit[i] = log[i]
    /\ pc \in {"complete", "done"} => Len(audit) = Len(log)

\* "Persist before emitting": the ledger holds every entry a subscriber can
\* know of, under its place in the log, but for those whose write failed;
\* it holds no other but the one about to be emitted.
LedgerAgrees ==
    /\ \A i \in DOMAIN audit :
          \/ i - 1 \in unsaved
          \/ i - 1 \in DOMAIN rows /\ rows[i - 1] = audit[i]
    /\ \A s \in DOMAIN rows :
          s < Len(log) /\ s <= Len(audit) /\ rows[s] = log[s + 1]

\* A client is sent entries of the log in order and none twice, however the
\* passes of its loop fall between those of the pipeline.
TailInOrder ==
    \A w \in Watchers :
        LET got == watch[w].sent \o watch[w].slice
            Place(e) == CHOOSE i \in DOMAIN audit : audit[i] = e
        IN \A m, n \in DOMAIN got : m < n => Place(got[m]) < Place(got[n])

\* A run that anybody is told is over is a whole one: once the ledger's row
\* is finished, or a client was told the end, the run holds every entry of
\* the log and no more will come, however the task's steps, a restart and the
\* clients' passes fall; a row that says "completed" is that of a pipeline
\* that completed.
EndIsWhole ==
    /\ ledgerRun \in {"completed", "failed"} => audit = log
    /\ ledgerRun = "completed" => outcome = "completed"
    /\ \A w \in Watchers : watch[w].at = "told" => audit = log

\* What the run streams is its audit log: each entry once and in order, and
\* all of them by the time anybody learns that it is over.
StreamIsLog == StepsOnce /\ EndIsWhole

\* A client that tails the run and stays is told how it ended, unless the
\* process was restarted.
WatcherHears ==
    \A w \in Watchers :
        watch[w].at \in {"sending", "asleep"} ~>
            watch[w].at \in {"told", "left"} \/ status = "gone"

(***************************************************************************)
(* Statements of the repository that the code does not keep.               *)
(***************************************************************************)
\* "An error in any node marks the state as failed": a poll must not read
\* that the run completed.
FailureReported == outcome = "failed" => status # "completed"

\* "emits per-step JSON events as the pipeline progresses", "Send any new
\* audit entries": a client that was told the end has had every entry.
TailComplete ==
    \A w \in Watchers : watch[w].at = "told" => watch[w].sent = audit

\* "Finalise the run": a run that has a row and no task is finished.
LedgerSettles == pc = "lost" => ledgerRun # "running"

=============================================================================
