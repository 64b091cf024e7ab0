--------------------------- MODULE ConnectorJobs ---------------------------
(***************************************************************************)
(* How the connector scheduler (services/connectors, app/scheduler.py)     *)
(* keeps its poll jobs in step with the connectors table: a reload loop    *)
(* reads the enabled rows, adds a job for each new or changed one and      *)
(* removes the jobs of the others.  APScheduler runs the jobs; of it, only *)
(* what this code uses is modelled: a job has a next run time or is        *)
(* paused, and only a job with a next run time is ever run.                *)
(***************************************************************************)
EXTENDS Naturals, FiniteSets

CONSTANTS
    Connectors,
    Signatures,     \* "type|interval" fingerprints of a row
    ReloadLoop,     \* id of the job that runs reload_jobs
    Off,            \* no enabled row; no signature; no job
    MaxEdits,       \* bound: changes of the table
    MaxFailures,    \* bound: reloads that find the database unavailable
    MaxRestarts     \* bound: restarts of the scheduler

ASSUME JobsAssumption ==
    /\ ReloadLoop \notin Connectors
    /\ Off \notin Signatures
    /\ MaxEdits \in Nat /\ MaxFailures \in Nat /\ MaxRestarts \in Nat

JobIds == Connectors \cup {ReloadLoop}

VARIABLES
    rows,      \* the signature of each enabled row
    running,   \* self._scheduler is not None
    known,     \* _known_signatures
    jobs,      \* the job store
    loaded,    \* rows read by a reload that has not synced yet, or Off
    ran,       \* jobs run since the scheduler started
    edits, failures, restarts

jobs_vars == <<rows, running, known, jobs, loaded, ran, edits, failures, restarts>>
bounds    == <<edits, failures, restarts>>

-----------------------------------------------------------------------------
\* next_run_time: left out (computed from the trigger) or given as None.
Job(sig, given) == [sig |-> sig, armed |-> given = "computed"]

Jobs == [sig : Signatures \cup {ReloadLoop}, armed : BOOLEAN]

\* No job is told apart from every job.
ASSUME OffAssumption == Off \notin Jobs

Nothing == [c \in Connectors |-> Off]

JobsTypeOK ==
    /\ rows \in [Connectors -> Signatures \cup {Off}]
    /\ running \in BOOLEAN
    /\ known \in [Connectors -> Signatures \cup {Off}]
    /\ jobs \in [JobIds -> Jobs \cup {Off}]
    /\ loaded \in [Connectors -> Signatures \cup {Off}] \cup {Off}
    /\ ran \subseteq JobIds
    /\ edits \in Nat /\ failures \in Nat /\ restarts \in Nat
    \* a stopped scheduler has no job, no signature and no reload in flight
    /\ ~running => known = Nothing /\ loaded = Off /\ \A j \in JobIds : jobs[j] = Off

JobsInit ==
    /\ rows = Nothing
    /\ running = FALSE
    /\ known = Nothing
    /\ jobs = [j \in JobIds |-> Off]
    /\ loaded = Off
    /\ ran = {}
    /\ edits = 0 /\ failures = 0 /\ restarts = 0

-----------------------------------------------------------------------------
\* The API creates, enables, retunes, disables or deletes an instance.
Edit(c, sig) ==
    /\ rows[c] # sig
    /\ edits < MaxEdits
    /\ edits' = edits + 1
    /\ rows' = [rows EXCEPT ![c] = sig]
    /\ UNCHANGED <<running, known, jobs, loaded, ran, failures, restarts>>

\* start(): the first reload is awaited before its loop is scheduled.
StartScheduler ==
    /\ ~running
    /\ running' = TRUE
    /\ loaded' = rows
    /\ UNCHANGED <<rows, known, jobs, ran, bounds>>

\* APScheduler runs a job that has a next run time (max_instances = 1).  The
\* reload loop reads the table; a connector's job starts a poll cycle.
Run(j) ==
    /\ running
    /\ jobs[j] # Off
    /\ jobs[j].armed
    /\ IF j = ReloadLoop THEN loaded = Off /\ loaded' = rows
                         ELSE UNCHANGED loaded
    /\ ran' = ran \cup {j}
    /\ UNCHANGED <<rows, running, known, jobs, bounds>>

\* The rows are loaded: reconcile without another await.  After start()'s own
\* reload, the loop is scheduled.  (Mutant first: a job that exists is left
\* alone even when its row's signature changed.)
Reconcile_AddOnly ==
    [ j \in JobIds |->
        IF j = ReloadLoop THEN Job(ReloadLoop, "computed")
        ELSE IF loaded[j] = Off THEN Off
        ELSE IF known[j] # Off THEN jobs[j]
        ELSE Job(loaded[j], "None") ]

Reconcile ==
    [ j \in JobIds |->
        IF j = ReloadLoop THEN Job(ReloadLoop, "computed")
        ELSE IF loaded[j] = Off THEN Off
        ELSE IF loaded[j] = known[j] THEN jobs[j]
        ELSE Job(loaded[j], "None") ]

Sync ==
    /\ loaded # Off
    /\ jobs' = Reconcile
    /\ known' = loaded
    /\ loaded' = Off
    /\ UNCHANGED <<rows, running, ran, bounds>>

\* The table cannot be read: nothing changes until the next tick.
ReadFails ==
    /\ loaded # Off
    /\ failures < MaxFailures
    /\ failures' = failures + 1
    /\ jobs' = [jobs EXCEPT ![ReloadLoop] = Job(ReloadLoop, "computed")]
    /\ loaded' = Off
    /\ UNCHANGED <<rows, running, known, ran, edits, restarts>>

\* stop(): the job store is dropped with the scheduler, the reload in flight
\* is cancelled and the signatures are cleared (mutant first: they are kept).
StopScheduler_KeepsKnown ==
    /\ running
    /\ restarts < MaxRestarts
    /\ restarts' = restarts + 1
    /\ running' = FALSE
    /\ jobs' = [j \in JobIds |-> Off]
    /\ loaded' = Off
    /\ ran' = {}
    /\ UNCHANGED <<rows, known, edits, failures>>

StopScheduler ==
    /\ running
    /\ restarts < MaxRestarts
    /\ restarts' = restarts + 1
    /\ running' = FALSE
    /\ jobs' = [j \in JobIds |-> Off]
    /\ known' = Nothing
    /\ loaded' = Off
    /\ ran' = {}
    /\ UNCHANGED <<rows, edits, failures>>

JobsNext ==
    \/ \E c \in Connectors, sig \in Signatures \cup {Off} : Edit(c, sig)
    \/ StartScheduler \/ StopScheduler
    \/ \E j \in JobIds : Run(j)
    \/ Sync \/ ReadFails

\* The event loop runs due jobs and resumes awaited queries.
Fairness ==
    /\ WF_jobs_vars(StartScheduler)
    /\ WF_jobs_vars(Sync)
    /\ \A j \in JobIds : WF_jobs_vars(Run(j))

JobsSpec == JobsInit /\ [][JobsNext]_jobs_vars /\ Fairness
-----------------------------------------------------------------------------
(***************************************************************************)
(* Properties                                                              *)
(***************************************************************************)

\* What the scheduler believes it has scheduled is what the job store holds:
\* a signature is remembered exactly for the jobs that exist, and it is the
\* one their interval was taken from, also across restarts and failed reloads.
KnownIsScheduled ==
    \A c \in Connectors :
        IF known[c] = Off THEN jobs[c] = Off
        ELSE jobs[c] # Off /\ jobs[c].sig = known[c]

\* "Idempotent reloads keep the scheduler state in sync with the DB": once the
\* table stops changing, every enabled row has the job its signature asks for
\* and no other job is left.
Converges ==
    <>[](\A c \in Connectors :
            IF rows[c] = Off THEN jobs[c] = Off
            ELSE jobs[c] # Off /\ jobs[c].sig = rows[c])

\* "Worst case a newly-created connector waits up to 60s for its first poll":
\* a row that stays enabled is polled.
FirstPoll ==
    \A c \in Connectors : rows[c] # Off ~> c \in ran \/ rows[c] = Off

=============================================================================
