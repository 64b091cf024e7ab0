-------------------------- MODULE ConnectorProofs --------------------------
(***************************************************************************)
(* The connector scheduler: its job store follows its signature cache, for *)
(* any connectors and signatures; and what the poll cycles of a row keep,  *)
(* for any events, intervals, thresholds and windows.  The outage marker   *)
(* holds for any number of processes that poll the row; the decision to    *)
(* backfill, the reach of the backfill and drift are about one process,    *)
(* which is what the service runs (two break them: ConnectorParallel.cfg). *)
(***************************************************************************)
EXTENDS ConnectorJobs, ConnectorPoll, TLAPS

(***************************************************************************)
(* The job store                                                           *)
(***************************************************************************)
\* The shape of the functions that the agreement is about.
ShapeOK ==
    /\ known \in [Connectors -> Signatures \cup {Off}]
    /\ jobs \in [JobIds -> Jobs \cup {Off}]
    /\ rows \in [Connectors -> Signatures \cup {Off}]
    /\ loaded \in [Connectors -> Signatures \cup {Off}] \cup {Off}

\* A scheduled job is a job, and is not the absence of one.
LEMMA JobTypes ==
    /\ \A s \in Signatures \cup {ReloadLoop}, g \in {"computed", "None"} :
          /\ Job(s, g) \in Jobs
          /\ Job(s, g) # Off
          /\ Job(s, g).sig = s
    /\ ReloadLoop \in JobIds
    /\ \A c \in Connectors : c \in JobIds /\ c # ReloadLoop
<1>1. \A s \in Signatures \cup {ReloadLoop}, g \in {"computed", "None"} :
         Job(s, g) \in Jobs /\ Job(s, g).sig = s
  BY DEF Job, Jobs
<1>2. \A k \in Jobs : k # Off
  BY OffAssumption
<1>3. \A c \in Connectors : c \in JobIds /\ c # ReloadLoop
  BY JobsAssumption DEF JobIds
<1> QED BY <1>1, <1>2, <1>3 DEF JobIds

\* Rows, as rows[c] or as a reload read them, are signatures or Off.
LEMMA NothingType == Nothing \in [Connectors -> Signatures \cup {Off}]
BY DEF Nothing

\* A signature is remembered exactly for the jobs that exist, and it is the
\* one their interval was taken from: reconciling keeps what is unchanged and
\* replaces or drops the rest, and a stop clears both sides.
THEOREM JobsFollowSignatures == JobsSpec => []KnownIsScheduled
<1> DEFINE Inv == ShapeOK /\ KnownIsScheduled
<1>1. JobsInit => Inv
  BY JobTypes, NothingType, OffAssumption
     DEF JobsInit, ShapeOK, KnownIsScheduled, Nothing
<1>2. Inv /\ [JobsNext]_jobs_vars => Inv'
  <2> SUFFICES ASSUME ShapeOK, KnownIsScheduled, [JobsNext]_jobs_vars
               PROVE  ShapeOK' /\ KnownIsScheduled'
    OBVIOUS
  <2> USE JobTypes DEF ShapeOK
  <2>1. ASSUME NEW c \in Connectors, NEW sig \in Signatures \cup {Off},
               Edit(c, sig)
        PROVE  ShapeOK' /\ KnownIsScheduled'
    BY <2>1 DEF Edit, KnownIsScheduled
  <2>2. CASE StartScheduler
    BY <2>2 DEF StartScheduler, KnownIsScheduled, bounds
  <2>3. CASE StopScheduler
    BY <2>3, NothingType DEF StopScheduler, KnownIsScheduled, Nothing
  <2>4. ASSUME NEW j \in JobIds, Run(j)
        PROVE  ShapeOK' /\ KnownIsScheduled'
    BY <2>4 DEF Run, KnownIsScheduled, bounds
  <2>5. CASE Sync
    <3>1. loaded \in [Connectors -> Signatures \cup {Off}]
      BY <2>5 DEF Sync
    <3>2. /\ jobs' \in [JobIds -> Jobs \cup {Off}]
          /\ \A c \in Connectors :
                jobs'[c] = IF loaded[c] = Off THEN Off
                           ELSE IF loaded[c] = known[c] THEN jobs[c]
                           ELSE Job(loaded[c], "None")
      BY <2>5, <3>1 DEF Sync, Reconcile, JobIds
    <3>3. KnownIsScheduled'
      BY <2>5, <3>1, <3>2 DEF Sync, KnownIsScheduled
    <3> QED BY <2>5, <3>1, <3>2, <3>3 DEF Sync
  <2>6. CASE ReadFails
    <3>1. /\ jobs' \in [JobIds -> Jobs \cup {Off}]
          /\ \A c \in Connectors : jobs'[c] = jobs[c]
      BY <2>6 DEF ReadFails
    <3> QED BY <2>6, <3>1 DEF ReadFails, KnownIsScheduled
  <2>7. CASE UNCHANGED jobs_vars
    BY <2>7 DEF jobs_vars, KnownIsScheduled
  <2> QED BY <2>1, <2>2, <2>3, <2>4, <2>5, <2>6, <2>7 DEF JobsNext
<1> QED BY <1>1, <1>2, PTL DEF JobsSpec

-----------------------------------------------------------------------------
(***************************************************************************)
(* The poll cycle: types                                                   *)
(***************************************************************************)
\* A cycle that is about to stamp a backfill has decided on one.
Decided == \A p \in Pollers : poll[p].pc = "stamping" => poll[p].snap.outage \in Nat

Typed == TypeOK /\ Decided

-----------------------------------------------------------------------------
\* What a step of a poller does to its cycle: it goes on, or it is done.
LEMMA Gone ==
    ASSUME Typed, NEW p \in Pollers, NEW pc \in PC, Goto(p, pc)
    PROVE  /\ poll' \in [Pollers -> Cycle]
           /\ poll'[p].pc = pc /\ poll'[p].kind = poll[p].kind
           /\ poll'[p].snap = poll[p].snap /\ poll'[p].from = poll[p].from
           /\ poll'[p].batch = poll[p].batch /\ poll'[p].lost = poll[p].lost
           /\ \A q \in Pollers \ {p} : poll'[q] = poll[q]
BY DEF Typed, TypeOK, Goto, Cycle

LEMMA Ended ==
    ASSUME Typed, NEW p \in Pollers, End(p)
    PROVE  /\ poll' \in [Pollers -> Cycle]
           /\ poll'[p] = NoCycle
           /\ \A q \in Pollers \ {p} : poll'[q] = poll[q]
<1>1. NoCycle \in Cycle
  BY DEF NoCycle, Cycle, PC, NewRow, Row, Time, Fields
<1> QED
  BY <1>1 DEF Typed, TypeOK, End

LEMMA Started ==
    ASSUME Typed, NEW p \in Pollers, NEW kind \in {"regular", "backfill"},
           NEW lookback \in Int, Start(p, kind, lookback)
    PROVE  /\ poll' \in [Pollers -> Cycle]
           /\ poll'[p].pc = "fetching" /\ poll'[p].kind = kind
           /\ poll'[p].snap = row /\ poll'[p].from = now - lookback
           /\ \A q \in Pollers \ {p} : poll'[q] = poll[q]
<1>1. [ pc |-> "fetching", kind |-> kind, snap |-> row,
        from |-> now - lookback, batch |-> {}, lost |-> {} ] \in Cycle
  BY DEF Typed, TypeOK, Cycle, PC
<1> QED
  BY <1>1 DEF Typed, TypeOK, Start

LEMMA Fetched ==
    ASSUME Typed, NEW p \in Pollers, Fetch(p)
    PROVE  /\ poll' \in [Pollers -> Cycle]
           /\ poll'[p].pc = "pushing" /\ poll'[p].kind = poll[p].kind
           /\ poll'[p].snap = poll[p].snap /\ poll'[p].from = poll[p].from
           /\ poll'[p].batch \cup poll'[p].lost = EventsIn(poll[p].from + 1, now)
           /\ \A q \in Pollers \ {p} : poll'[q] = poll[q]
<1> DEFINE window == EventsIn(poll[p].from + 1, now)
<1>1. window \subseteq Nat
  BY PollAssumption DEF EventsIn
<1>2. PICK got \in SUBSET window :
         poll' = [poll EXCEPT ![p].pc = "pushing", ![p].batch = got,
                              ![p].lost = window \ got]
  BY DEF Fetch
<1> HIDE DEF window
<1>3. [poll[p] EXCEPT !.pc = "pushing", !.batch = got, !.lost = window \ got] \in Cycle
  BY <1>1, <1>2 DEF Typed, TypeOK, Cycle, PC
<1>4. poll' = [poll EXCEPT ![p] = [poll[p] EXCEPT !.pc = "pushing", !.batch = got,
                                                  !.lost = window \ got]]
  BY <1>2 DEF Typed, TypeOK
<1>5. poll[p] \in Cycle /\ poll'[p] = [poll[p] EXCEPT !.pc = "pushing", !.batch = got,
                                                     !.lost = window \ got]
  BY <1>4 DEF Typed, TypeOK
<1>6. poll'[p].batch = got /\ poll'[p].lost = window \ got
  BY <1>5 DEF Cycle
<1>7. poll'[p].batch \cup poll'[p].lost = window
  BY <1>2, <1>6
<1>8. /\ poll'[p].pc = "pushing" /\ poll'[p].kind = poll[p].kind
      /\ poll'[p].snap = poll[p].snap /\ poll'[p].from = poll[p].from
  BY <1>5 DEF Cycle
<1> QED
  BY <1>3, <1>4, <1>7, <1>8 DEF Typed, TypeOK, window

\* What ingest answers to a push: each event of the batch is in the lake or
\* among the lost.
LEMMA Pushed ==
    ASSUME Typed, NEW p \in Pollers, Push(p)
    PROVE  /\ poll' \in [Pollers -> Cycle]
           /\ poll'[p].pc = IF Drifted(p) THEN "drifting" ELSE "recording"
           /\ poll'[p].kind = poll[p].kind /\ poll'[p].snap = poll[p].snap
           /\ poll'[p].from = poll[p].from /\ poll'[p].batch = poll[p].batch
           /\ lake' \subseteq Nat /\ poll[p].lost \subseteq poll'[p].lost
           /\ lake \subseteq lake' /\ poll[p].batch \subseteq lake' \cup poll'[p].lost
           /\ \A q \in Pollers \ {p} : poll'[q] = poll[q]
<1> DEFINE pc == IF Drifted(p) THEN "drifting" ELSE "recording"
<1>1. PICK stored \in SUBSET poll[p].batch :
         /\ lake' = lake \cup stored
         /\ poll' = [poll EXCEPT ![p].pc = pc,
                                 ![p].lost = @ \cup (poll[p].batch \ stored)]
  BY DEF Push
<1>2. pc \in PC
  BY DEF PC
<1> HIDE DEF pc
<1>3. poll[p] \in Cycle /\ lake \subseteq Nat /\ poll \in [Pollers -> Cycle]
  BY DEF Typed, TypeOK
<1>4. poll[p].batch \subseteq Nat /\ poll[p].lost \subseteq Nat
  BY <1>3 DEF Cycle
<1> DEFINE lost == poll[p].lost \cup (poll[p].batch \ stored)
<1>5. lost \in SUBSET Nat
  BY <1>4
<1>6. poll' = [poll EXCEPT ![p] = [poll[p] EXCEPT !.pc = pc, !.lost = lost]]
  BY <1>1, <1>3
<1>7. poll[p].batch \subseteq lake' \cup lost /\ poll[p].lost \subseteq lost
      /\ lake' \subseteq Nat /\ lake \subseteq lake'
  BY <1>1, <1>3, <1>4
<1> HIDE DEF lost
<1>8. [poll[p] EXCEPT !.pc = pc, !.lost = lost] \in Cycle
  BY <1>2, <1>3, <1>5 DEF Cycle
<1>9. poll'[p] = [poll[p] EXCEPT !.pc = pc, !.lost = lost]
  BY <1>3, <1>6
<1>10. /\ poll'[p].pc = pc /\ poll'[p].lost = lost
       /\ poll'[p].kind = poll[p].kind /\ poll'[p].snap = poll[p].snap
       /\ poll'[p].from = poll[p].from /\ poll'[p].batch = poll[p].batch
  BY <1>3, <1>9 DEF Cycle
<1> QED
  BY <1>3, <1>6, <1>7, <1>8, <1>10 DEF pc

\* The window of a backfill is a number of ticks.
LEMMA WindowIsInt ==
    ASSUME Typed, NEW p \in Pollers, poll[p].snap.outage \in Nat
    PROVE  BackfillWindow(p) \in Int
BY PollAssumption DEF Typed, TypeOK, BackfillWindow, AtMost

\* What the success of a poll does to the cycle.
LEMMA Succeeded ==
    ASSUME Typed, NEW p \in Pollers, NEW ok \in BOOLEAN, RecordSuccess(p, ok)
    PROVE  /\ poll' \in [Pollers -> Cycle]
           /\ \A q \in Pollers \ {p} : poll'[q] = poll[q]
           /\ \/ ~BackfillDue(p) /\ poll'[p] = NoCycle
              \/ /\ BackfillDue(p) /\ poll[p].snap.outage \in Nat
                 /\ poll'[p].pc = "stamping" /\ poll'[p].kind = poll[p].kind
                 /\ poll'[p].snap = poll[p].snap
                 /\ poll'[p].from = now - BackfillWindow(p)
<1>1. CASE BackfillDue(p)
  <2>1. poll[p] \in Cycle /\ poll[p].snap \in Row
    BY DEF Typed, TypeOK, Cycle
  <2>2. poll[p].snap.outage \in Nat
    BY <1>1, <2>1 DEF BackfillDue, Row, Time
  <2>3. now - BackfillWindow(p) \in Int
    BY <2>2, WindowIsInt DEF Typed, TypeOK
  <2>4. [poll[p] EXCEPT !.pc = "stamping", !.from = now - BackfillWindow(p)] \in Cycle
    BY <2>1, <2>3 DEF Cycle, PC
  <2>5. poll' = [poll EXCEPT ![p] =
                   [poll[p] EXCEPT !.pc = "stamping", !.from = now - BackfillWindow(p)]]
    BY <1>1 DEF RecordSuccess, Typed, TypeOK
  <2> QED
    BY <1>1, <2>1, <2>2, <2>4, <2>5 DEF Typed, TypeOK, Cycle
<1>2. CASE ~BackfillDue(p)
  BY <1>2, Ended DEF RecordSuccess
<1> QED
  BY <1>1, <1>2

LEMMA FingerprintType ==
    ASSUME NEW batch
    PROVE  Fingerprint(batch) \in Fields
BY DEF Fingerprint, Fields

LEMMA RowTypes ==
    ASSUME Typed, NEW p \in Pollers, NEW ok \in BOOLEAN,
           \/ RecordFailure(p, ok) \/ RecordDrift(p, ok)
           \/ RecordSuccess(p, ok) \/ Stamp(p, ok)
    PROVE  row' \in Row /\ dbErrors' \in Nat /\ firstFail' \in Time
<1>a. row \in Row /\ now \in Nat /\ dbErrors \in Nat /\ firstFail \in Time
  BY DEF Typed, TypeOK
<1>b. now \in Time /\ Never \in Time
  BY <1>a DEF Time
<1>1. CASE RecordFailure(p, ok)
  <2>1. row' \in Row
    BY <1>1, <1>a, <1>b DEF RecordFailure, Unhealthy, Row
  <2> QED
    BY <1>1, <1>a, <1>b, <2>1 DEF RecordFailure, Wrote
<1>2. CASE RecordDrift(p, ok)
  <2>1. row' \in Row
    BY <1>2, <1>a, <1>b, FingerprintType DEF RecordDrift, Row
  <2> QED
    BY <1>2, <1>a, <2>1 DEF RecordDrift, Wrote, history
<1>3. CASE RecordSuccess(p, ok)
  <2>1. row' \in Row
    BY <1>3, <1>a, <1>b, FingerprintType DEF RecordSuccess, Row
  <2> QED
    BY <1>3, <1>a, <1>b, <2>1 DEF RecordSuccess, Wrote
<1>4. CASE Stamp(p, ok)
  <2>1. row' \in Row
    BY <1>4, <1>a, <1>b DEF Stamp, Row
  <2> QED
    BY <1>4, <1>a, <2>1 DEF Stamp, Wrote
<1> QED
  BY <1>1, <1>2, <1>3, <1>4

\* A backfill is remembered with what its cycle had decided.
LEMMA Stamped ==
    ASSUME Typed, NEW p \in Pollers, NEW ok \in BOOLEAN, Stamp(p, ok)
    PROVE  /\ backfills' \in Seq(Backfill) /\ Len(backfills') = Len(backfills) + 1
           /\ \A k \in DOMAIN backfills : backfills'[k] = backfills[k]
           /\ DOMAIN backfills' = DOMAIN backfills \cup {Len(backfills')}
           /\ backfills'[Len(backfills')].outage = poll[p].snap.outage
           /\ backfills'[Len(backfills')].at = now
           /\ backfills'[Len(backfills')].stamped = ok
<1> DEFINE b == [ outage |-> poll[p].snap.outage, from |-> poll[p].from,
                  synced |-> poll[p].snap.sync, at |-> now, stamped |-> ok ]
<1>1. poll[p] \in Cycle /\ poll[p].snap \in Row /\ poll[p].snap.outage \in Nat
  BY DEF Typed, TypeOK, Cycle, Decided, Stamp
<1>2. b \in Backfill
  BY <1>1 DEF Backfill, Cycle, Row, Typed, TypeOK
<1>3. backfills' = Append(backfills, b) /\ backfills \in Seq(Backfill)
  BY DEF Stamp, Typed, TypeOK
<1> QED
  BY <1>2, <1>3

-----------------------------------------------------------------------------
\* Every reachable state has the declared types.
LEMMA StepTypes ==
    ASSUME Typed, NEW p \in Pollers, Step(p)
    PROVE  Typed'
<1>a. /\ now \in Nat /\ row \in Row /\ poll \in [Pollers -> Cycle] /\ lake \subseteq Nat
      /\ dbErrors \in Nat /\ stops \in Nat /\ firstFail \in Time
      /\ backfills \in Seq(Backfill) /\ Decided
  BY DEF Typed, TypeOK
<1>b. poll[p] \in Cycle /\ poll[p].batch \subseteq Nat /\ poll[p].from \in Int
  BY <1>a DEF Cycle
<1>c. ASSUME poll' \in [Pollers -> Cycle],
             \A q \in Pollers \ {p} : poll'[q] = poll[q],
             poll'[p].pc = "stamping" => poll'[p].snap.outage \in Nat
      PROVE  Decided'
  BY <1>a, <1>c DEF Decided
<1> USE DEF budgets, history
<1>1. CASE Begin(p)
  <2>1. Start(p, "regular", Interval) /\ Interval \in Int
    BY <1>1, PollAssumption DEF Begin
  <2>2. poll' \in [Pollers -> Cycle] /\ Decided'
    BY <2>1, <1>c, Started
  <2> QED
    BY <1>a, <1>1, <2>2 DEF Begin, Typed, TypeOK
<1>2. CASE Fetch(p)
  <2>1. poll' \in [Pollers -> Cycle] /\ Decided'
    BY <1>2, <1>c, Fetched
  <2> QED
    BY <1>a, <1>2, <2>1 DEF Fetch, Typed, TypeOK
<1>3. CASE FetchFails(p)
  <2>1. poll' \in [Pollers -> Cycle] /\ Decided'
    BY <1>3, <1>c, Gone DEF FetchFails, PC
  <2> QED
    BY <1>a, <1>3, <2>1 DEF FetchFails, Typed, TypeOK
<1>4. CASE Push(p)
  <2>1. poll' \in [Pollers -> Cycle] /\ Decided' /\ lake' \subseteq Nat
    BY <1>4, <1>c, Pushed
  <2> QED
    BY <1>a, <1>4, <2>1 DEF Push, Typed, TypeOK
<1>5. CASE Reload(p)
  <2>1. Start(p, "backfill", now - poll[p].from) /\ now - poll[p].from \in Int
    BY <1>a, <1>b, <1>5 DEF Reload
  <2>2. poll' \in [Pollers -> Cycle] /\ Decided'
    BY <2>1, <1>c, Started
  <2> QED
    BY <1>a, <1>5, <2>2 DEF Reload, Typed, TypeOK
<1>d. ASSUME End(p)
      PROVE  poll' \in [Pollers -> Cycle] /\ Decided'
  BY <1>c, <1>d, Ended DEF NoCycle
<1>6. CASE Stop(p)
  BY <1>a, <1>6, <1>d DEF Stop, Typed, TypeOK
<1>7. CASE PushFails(p)
  <2>1. poll' \in [Pollers -> Cycle] /\ Decided'
    BY <1>7, <1>c, Gone DEF PushFails, PC
  <2> QED
    BY <1>a, <1>b, <1>7, <2>1 DEF PushFails, Typed, TypeOK
<1>8. ASSUME NEW b \in BOOLEAN, RecordFailure(p, b)
      PROVE  Typed'
  <2>1. row' \in Row /\ dbErrors' \in Nat /\ firstFail' \in Time
    BY <1>8, RowTypes
  <2> QED
    BY <1>a, <1>8, <1>d, <2>1 DEF RecordFailure, Typed, TypeOK
<1>9. ASSUME NEW b \in BOOLEAN, RecordDrift(p, b)
      PROVE  Typed'
  <2>1. row' \in Row /\ dbErrors' \in Nat /\ firstFail' \in Time
    BY <1>9, RowTypes
  <2>2. poll' \in [Pollers -> Cycle] /\ Decided'
    BY <1>9, <1>c, Gone DEF RecordDrift, PC
  <2> QED
    BY <1>a, <1>9, <2>1, <2>2 DEF RecordDrift, Typed, TypeOK
<1>10. ASSUME NEW b \in BOOLEAN, RecordSuccess(p, b)
       PROVE  Typed'
  <2>1. row' \in Row /\ dbErrors' \in Nat /\ firstFail' \in Time
    BY <1>10, RowTypes
  <2>2. poll' \in [Pollers -> Cycle] /\ Decided'
    BY <1>10, <1>c, Succeeded DEF NoCycle
  <2> QED
    BY <1>a, <1>10, <2>1, <2>2 DEF RecordSuccess, Typed, TypeOK
<1>11. ASSUME NEW b \in BOOLEAN, Stamp(p, b)
       PROVE  Typed'
  <2>1. row' \in Row /\ dbErrors' \in Nat /\ firstFail' \in Time
    BY <1>11, RowTypes
  <2>2. poll' \in [Pollers -> Cycle] /\ Decided'
    BY <1>11, <1>c, Gone DEF Stamp, PC
  <2>3. backfills' \in Seq(Backfill)
    BY <1>11, Stamped
  <2> QED
    BY <1>a, <1>11, <2>1, <2>2, <2>3 DEF Stamp, Typed, TypeOK
<1>12. ASSUME NEW b \in BOOLEAN, ReloadFails(p, b)
       PROVE  Typed'
  BY <1>a, <1>12, <1>d DEF ReloadFails, Wrote, Typed, TypeOK
<1> QED
  BY <1>1, <1>2, <1>3, <1>4, <1>5, <1>6, <1>7, <1>8, <1>9, <1>10, <1>11, <1>12 DEF Step

LEMMA EnvironmentTypes ==
    ASSUME Typed, Tick \/ Toggle
    PROVE  Typed'
<1>1. now' \in Nat
  BY DEF Typed, TypeOK, Tick, Toggle
<1>2. (~row.enabled) \in BOOLEAN
  OBVIOUS
<1>3. row' \in Row
  BY <1>2 DEF Typed, TypeOK, Tick, Toggle, Row
<1> QED
  BY <1>1, <1>3 DEF Typed, TypeOK, Decided, Tick, Toggle, budgets, history

THEOREM PollTypes == Spec => []Typed
<1>1. Init => Typed
  BY PollAssumption DEF Init, Typed, TypeOK, Decided, NoCycle, NewRow, Cycle, PC, Row, Time,
                        Fields
<1>2. Typed /\ [Next]_vars => Typed'
  <2>1. CASE UNCHANGED vars
    BY <2>1 DEF vars, Typed, TypeOK, Decided
  <2> QED
    BY <2>1, StepTypes, EnvironmentTypes DEF Next
<1> QED
  BY <1>1, <1>2, PTL DEF Spec

-----------------------------------------------------------------------------
\* Whatever processes poll the row, its outage marker is the first recorded
\* failure since the last recorded success: each row write keeps them equal.
THEOREM OutageIsTrue == Spec => []OutageIsFirstFailure
<1>1. Init => OutageIsFirstFailure
  BY DEF Init, OutageIsFirstFailure, NewRow
<1>2. Typed /\ OutageIsFirstFailure /\ [Next]_vars => OutageIsFirstFailure'
  <2> SUFFICES ASSUME Typed, OutageIsFirstFailure, [Next]_vars
               PROVE  OutageIsFirstFailure'
    OBVIOUS
  <2> USE DEF OutageIsFirstFailure, history
  <2>a. row \in Row
    BY DEF Typed, TypeOK
  <2>1. CASE Toggle \/ Tick \/ UNCHANGED vars
    BY <2>1, <2>a DEF Toggle, Tick, vars, Row
  <2>2. ASSUME NEW p \in Pollers, Step(p)
        PROVE  OutageIsFirstFailure'
    <3>1. ASSUME NEW b \in BOOLEAN, RecordFailure(p, b)
          PROVE  OutageIsFirstFailure'
      BY <3>1, <2>a DEF RecordFailure, Row
    <3>2. ASSUME NEW b \in BOOLEAN, RecordSuccess(p, b)
          PROVE  OutageIsFirstFailure'
      BY <3>2, <2>a DEF RecordSuccess, Row
    <3>3. ASSUME NEW b \in BOOLEAN, RecordDrift(p, b) \/ Stamp(p, b)
          PROVE  OutageIsFirstFailure'
      BY <3>3, <2>a DEF RecordDrift, Stamp, Row
    <3>4. CASE Begin(p) \/ Fetch(p) \/ FetchFails(p) \/ Push(p) \/ Reload(p) \/ Stop(p)
               \/ PushFails(p) \/ \E b \in BOOLEAN : ReloadFails(p, b)
      BY <3>4 DEF Begin, Fetch, FetchFails, Push, Reload, Stop, PushFails, ReloadFails
    <3> QED
      BY <2>2, <3>1, <3>2, <3>3, <3>4 DEF Step
  <2> QED
    BY <2>1, <2>2 DEF Next
<1> QED
  BY <1>1, <1>2, PollTypes, PTL DEF Spec

-----------------------------------------------------------------------------
(***************************************************************************)
(* One poller                                                              *)
(***************************************************************************)
LastBackfill == backfills[Len(backfills)]

\* Until it stamps, what the cycle has read of the stamp is what the row has.
StampAsLoaded(p) ==
    poll[p].pc \notin {"idle", "reloading"} => poll[p].snap.stamp = row.stamp

\* The stamp of the row is no older than any backfill that was stamped.
StampIsLast ==
    \A k \in DOMAIN backfills :
        /\ backfills[k].at <= now
        /\ backfills[k].stamped => row.stamp \in Nat /\ backfills[k].at <= row.stamp

\* The decision to backfill still holds when it is stamped.
DueHolds(p) ==
    poll[p].pc = "stamping" =>
        /\ poll[p].kind = "regular"
        /\ row.stamp # Never => now - row.stamp >= FlapWindow
        /\ poll[p].from = now - BackfillWindow(p)

\* The backfill poll asks for what the last remembered backfill decided, and
\* has it in its batch and then in the lake, less what it knows it has lost.
Reaches(p) ==
    LET b    == LastBackfill
        span == EventsIn(poll[p].from + 1, b.at)
    IN /\ poll[p].kind = "backfill" \/ poll[p].pc = "reloading" =>
             /\ backfills # << >>
             /\ poll[p].from = b.at - AtMost(b.at - b.outage + Buffer, MaxLookback)
       /\ poll[p].kind = "backfill" =>
             /\ poll[p].pc = "pushing"
                   => span \subseteq poll[p].batch \cup poll[p].lost
             /\ poll[p].pc \in {"drifting", "recording"}
                   => span \subseteq lake \cup poll[p].lost

\* The fingerprint of the row is the one the cycle compared with; a change
\* has been recorded before the success is.
BaselineHolds(p) ==
    /\ poll[p].pc \in {"fetching", "pushing", "drifting"}
          => poll[p].snap.fields = row.fields
    /\ dbErrors = 0 /\ poll[p].pc = "recording"
          => \/ Fingerprint(poll[p].batch) = {} \/ row.fields = {}
             \/ Fingerprint(poll[p].batch) = row.fields

AloneInv(p) ==
    /\ StampAsLoaded(p) /\ StampIsLast /\ DueHolds(p) /\ Reaches(p)
    /\ BaselineHolds(p) /\ BackfillsSpaced

\* Outside its backfill the cycle owes nothing to the last one.
LEMMA AloneStep ==
    ASSUME Typed, NEW p, Pollers = {p}, AloneInv(p), Step(p)
    PROVE  AloneInv(p)'
<1>a. /\ p \in Pollers /\ now \in Nat /\ row \in Row /\ poll[p] \in Cycle /\ lake \subseteq Nat
      /\ dbErrors \in Nat /\ backfills \in Seq(Backfill)
  BY DEF Typed, TypeOK
<1>b. /\ row.stamp \in Nat \cup {Never} /\ Never \notin Nat /\ poll[p].from \in Int
      /\ FlapWindow \in Nat /\ Events \subseteq Nat
  BY <1>a, PollAssumption DEF Row, Time, Cycle
<1>e. \A k \in DOMAIN backfills : backfills[k].at \in Nat
  <2>1. \A k \in DOMAIN backfills : backfills[k] \in Backfill
    BY <1>a
  <2> QED
    BY <2>1 DEF Backfill
<1> USE DEF AloneInv, budgets, history
<1> DEFINE Remembered ==
             now' = now /\ backfills' = backfills /\ row'.stamp = row.stamp
<1>c. ASSUME Remembered
      PROVE  StampIsLast' /\ BackfillsSpaced'
  BY <1>c DEF StampIsLast, BackfillsSpaced
<1>d. ASSUME End(p), Remembered
      PROVE  AloneInv(p)'
  <2>1. poll'[p] = NoCycle
    BY <1>a, <1>d, Ended
  <2> QED
    BY <1>c, <1>d, <2>1
       DEF NoCycle, StampAsLoaded, DueHolds, Reaches, BaselineHolds
<1>1. CASE Begin(p)
  <2>1. Start(p, "regular", Interval) /\ Interval \in Int /\ Remembered /\ row' = row
    BY <1>1, PollAssumption DEF Begin
  <2>2. /\ poll'[p].pc = "fetching" /\ poll'[p].kind = "regular" /\ poll'[p].snap = row
    BY <1>a, <2>1, Started
  <2> QED
    BY <1>c, <2>1, <2>2 DEF StampAsLoaded, DueHolds, Reaches, BaselineHolds
<1>2. CASE Fetch(p)
  <2>1. /\ Remembered /\ row' = row /\ UNCHANGED <<lake, dbErrors>> /\ poll[p].pc = "fetching"
        /\ poll'[p].pc = "pushing" /\ poll'[p].kind = poll[p].kind
        /\ poll'[p].snap = poll[p].snap /\ poll'[p].from = poll[p].from
        /\ poll'[p].batch \cup poll'[p].lost = EventsIn(poll[p].from + 1, now)
    BY <1>a, <1>2, Fetched DEF Fetch
  <2>2. ASSUME poll[p].kind = "backfill"
        PROVE  EventsIn(poll[p].from + 1, LastBackfill.at)
                  \subseteq poll'[p].batch \cup poll'[p].lost
    <3>1. LastBackfill.at <= now /\ LastBackfill.at \in Nat
      BY <1>a, <1>e, <2>2 DEF Reaches, StampIsLast, LastBackfill
    <3>2. \A t \in Events : t <= LastBackfill.at => t <= now
      BY <1>a, <1>b, <3>1
    <3> QED
      BY <2>1, <3>2 DEF EventsIn
  <2>3. Reaches(p)'
    BY <2>1, <2>2 DEF Reaches, LastBackfill, EventsIn
  <2> QED
    BY <1>c, <2>1, <2>3 DEF StampAsLoaded, DueHolds, BaselineHolds
<1>3. CASE FetchFails(p) \/ PushFails(p)
  <2>1. /\ Remembered /\ row' = row /\ UNCHANGED dbErrors /\ lake \subseteq lake'
        /\ Goto(p, "failing") /\ poll[p].pc \in {"fetching", "pushing"}
    BY <1>3 DEF FetchFails, PushFails
  <2>2. /\ poll'[p].pc = "failing" /\ poll'[p].kind = poll[p].kind
        /\ poll'[p].snap = poll[p].snap /\ poll'[p].from = poll[p].from
    BY <1>a, <2>1, Gone DEF PC
  <2> QED
    BY <1>c, <2>1, <2>2
       DEF StampAsLoaded, DueHolds, Reaches, BaselineHolds, LastBackfill
<1>4. CASE Push(p)
  <2>1. /\ Remembered /\ row' = row /\ UNCHANGED dbErrors /\ poll[p].pc = "pushing"
    BY <1>4 DEF Push
  <2>2. /\ poll'[p].pc = IF Drifted(p) THEN "drifting" ELSE "recording"
        /\ poll'[p].kind = poll[p].kind /\ poll'[p].snap = poll[p].snap
        /\ poll'[p].from = poll[p].from /\ poll'[p].batch = poll[p].batch
        /\ poll[p].lost \subseteq poll'[p].lost
        /\ poll[p].batch \subseteq lake' \cup poll'[p].lost
    BY <1>a, <1>4, Pushed
  <2>3. Reaches(p)'
    <3>1. LastBackfill' = LastBackfill
      BY <2>1 DEF LastBackfill
    <3> HIDE DEF LastBackfill
    <3> QED
      BY <2>1, <2>2, <3>1 DEF Reaches, EventsIn
  <2>4. BaselineHolds(p)'
    BY <2>1, <2>2 DEF BaselineHolds, Drifted
  <2> QED
    BY <1>c, <2>1, <2>2, <2>3, <2>4 DEF StampAsLoaded, DueHolds
<1>5. CASE Reload(p)
  <2>1. /\ Start(p, "backfill", now - poll[p].from) /\ now - poll[p].from \in Int
        /\ Remembered /\ row' = row /\ poll[p].pc = "reloading"
    BY <1>a, <1>b, <1>5 DEF Reload
  <2>2. /\ poll'[p].pc = "fetching" /\ poll'[p].kind = "backfill" /\ poll'[p].snap = row
        /\ poll'[p].from = poll[p].from
    BY <1>a, <1>b, <2>1, Started
  <2>3. Reaches(p)'
    BY <2>1, <2>2 DEF Reaches, LastBackfill
  <2> QED
    BY <1>c, <2>1, <2>2, <2>3 DEF StampAsLoaded, DueHolds, BaselineHolds
<1>6. CASE Stop(p)
  BY <1>6, <1>d DEF Stop
<1>7. ASSUME NEW b \in BOOLEAN, RecordFailure(p, b)
      PROVE  AloneInv(p)'
  BY <1>a, <1>7, <1>d DEF RecordFailure, Row
<1>8. ASSUME NEW b \in BOOLEAN, RecordDrift(p, b)
      PROVE  AloneInv(p)'
  <2>1. /\ Goto(p, "recording") /\ poll[p].pc = "drifting" /\ UNCHANGED <<now, backfills, lake>>
        /\ row'.stamp = row.stamp
        /\ IF b THEN row'.fields = Fingerprint(poll[p].batch) ELSE dbErrors' = dbErrors + 1
    BY <1>a, <1>8 DEF RecordDrift, Wrote, Row
  <2>2. /\ poll'[p].pc = "recording" /\ poll'[p].kind = poll[p].kind
        /\ poll'[p].snap = poll[p].snap /\ poll'[p].from = poll[p].from
        /\ poll'[p].batch = poll[p].batch /\ poll'[p].lost = poll[p].lost
    BY <1>a, <2>1, Gone DEF PC
  <2>3. BaselineHolds(p)'
    BY <1>a, <2>1, <2>2 DEF BaselineHolds
  <2> QED
    BY <1>c, <2>1, <2>2, <2>3 DEF StampAsLoaded, DueHolds, Reaches, LastBackfill
<1>9. ASSUME NEW b \in BOOLEAN, RecordSuccess(p, b)
      PROVE  AloneInv(p)'
  <2>1. UNCHANGED <<now, backfills, lake>> /\ row'.stamp = row.stamp /\ poll[p].pc = "recording"
    BY <1>a, <1>9 DEF RecordSuccess, Row
  <2>2. CASE ~BackfillDue(p)
    BY <1>9, <1>d, <2>1, <2>2 DEF RecordSuccess
  <2>3. CASE BackfillDue(p)
    <3>1. /\ poll'[p].pc = "stamping" /\ poll'[p].kind = poll[p].kind
          /\ poll'[p].snap = poll[p].snap /\ poll'[p].from = now - BackfillWindow(p)
      BY <1>a, <1>9, <2>3, Succeeded
    <3>2. poll[p].kind = "regular" /\ (row.stamp # Never => now - row.stamp >= FlapWindow)
      BY <2>1, <2>3 DEF BackfillDue, StampAsLoaded
    <3>3. DueHolds(p)'
      BY <2>1, <3>1, <3>2 DEF DueHolds, BackfillWindow
    <3> QED
      BY <1>c, <2>1, <3>1, <3>2, <3>3 DEF StampAsLoaded, Reaches, BaselineHolds
  <2> QED
    BY <2>2, <2>3
<1>10. ASSUME NEW b \in BOOLEAN, Stamp(p, b)
       PROVE  AloneInv(p)'
  <2>1. /\ Goto(p, "reloading") /\ poll[p].pc = "stamping" /\ UNCHANGED <<now, lake>>
        /\ row'.stamp = IF b THEN now ELSE row.stamp
    BY <1>a, <1>10 DEF Stamp, Row
  <2>2. /\ poll'[p].pc = "reloading" /\ poll'[p].kind = poll[p].kind
        /\ poll'[p].from = poll[p].from
    BY <1>a, <2>1, Gone DEF PC
  <2>3. /\ backfills' \in Seq(Backfill) /\ Len(backfills') = Len(backfills) + 1
        /\ \A k \in DOMAIN backfills : backfills'[k] = backfills[k]
        /\ DOMAIN backfills' = DOMAIN backfills \cup {Len(backfills')}
        /\ backfills'[Len(backfills')].outage = poll[p].snap.outage
        /\ backfills'[Len(backfills')].at = now
        /\ backfills'[Len(backfills')].stamped = b
    BY <1>a, <1>10, Stamped
  <2>4. StampIsLast'
    BY <1>a, <1>b, <1>e, <2>1, <2>3 DEF StampIsLast
  <2>5. BackfillsSpaced'
    <3>1. \A k \in DOMAIN backfills :
             backfills[k].stamped => now - backfills[k].at >= FlapWindow
      BY <1>a, <1>b, <1>e, <2>1 DEF StampIsLast, DueHolds
    <3>2. DOMAIN backfills = 1 .. Len(backfills) /\ Len(backfills) \in Nat
      BY <1>a
    <3> QED
      BY <2>3, <3>1, <3>2 DEF BackfillsSpaced
  <2>6. Reaches(p)'
    BY <1>a, <2>1, <2>2, <2>3 DEF Reaches, LastBackfill, DueHolds, BackfillWindow
  <2> QED
    BY <2>1, <2>2, <2>4, <2>5, <2>6 DEF StampAsLoaded, DueHolds, BaselineHolds
<1>11. ASSUME NEW b \in BOOLEAN, ReloadFails(p, b)
       PROVE  AloneInv(p)'
  BY <1>11, <1>d DEF ReloadFails
<1> QED
  BY <1>1, <1>2, <1>3, <1>4, <1>5, <1>6, <1>7, <1>8, <1>9, <1>10, <1>11 DEF Step

\* Time does not pass while a row is written, and a toggle writes its own column.
LEMMA AloneEnvironment ==
    ASSUME Typed, NEW p, Pollers = {p}, AloneInv(p), Tick \/ Toggle \/ UNCHANGED vars
    PROVE  AloneInv(p)'
<1>a. row \in Row /\ now \in Nat /\ backfills \in Seq(Backfill)
  BY DEF Typed, TypeOK
<1>b. \A k \in DOMAIN backfills : backfills[k].at \in Nat
  <2>1. \A k \in DOMAIN backfills : backfills[k] \in Backfill
    BY <1>a
  <2> QED
    BY <2>1 DEF Backfill
<1>1. /\ UNCHANGED <<poll, lake, dbErrors, backfills>> /\ row'.stamp = row.stamp
      /\ row'.fields = row.fields /\ now' \in Nat /\ now <= now'
      /\ now' = now \/ poll[p].pc # "stamping"
  BY <1>a DEF Tick, Toggle, vars, budgets, history, Row
<1>2. StampIsLast'
  BY <1>a, <1>b, <1>1 DEF AloneInv, StampIsLast
<1> QED
  BY <1>1, <1>2 DEF AloneInv, StampAsLoaded, DueHolds, Reaches, LastBackfill, EventsIn,
                    BaselineHolds, BackfillsSpaced, BackfillWindow

LEMMA AloneAlways ==
    ASSUME NEW p, Pollers = {p}
    PROVE  Spec => [](Typed /\ AloneInv(p))
<1>1. Init => AloneInv(p)
  BY DEF Init, NoCycle, AloneInv, StampAsLoaded, StampIsLast, DueHolds, Reaches,
         BaselineHolds, BackfillsSpaced
<1>2. Typed /\ AloneInv(p) /\ [Next]_vars => AloneInv(p)'
  BY AloneStep, AloneEnvironment DEF Next
<1> QED
  BY <1>1, <1>2, PollTypes, PTL DEF Spec

\* With one scheduler process, once the row remembers a backfill the next one
\* waits for the flap window: the stamp a cycle has read is still the row's
\* when it decides, and the decision still holds when it stamps.
THEOREM OnePollerSpaces ==
    ASSUME NEW p, Pollers = {p}
    PROVE  Spec => []BackfillsSpaced
<1>1. AloneInv(p) => BackfillsSpaced
  BY DEF AloneInv
<1> QED
  BY <1>1, AloneAlways, PTL

\* With one scheduler process, when a backfill succeeds each event of the
\* outage is in the lake, unless the source left it out of its answer or ingest
\* rejected it, whatever the length, the buffer and the lookback cap.
THEOREM BackfillIsWhole ==
    ASSUME NEW p, Pollers = {p}
    PROVE  Spec => []BackfillClosesOutage
<1>1. Typed /\ AloneInv(p) => BackfillClosesOutage
  <2> SUFFICES ASSUME Typed, AloneInv(p), poll[p].kind = "backfill",
                      poll[p].pc \in {"drifting", "recording"},
                      NEW t \in EventsIn(LastBackfill.outage, LastBackfill.at),
                      t \notin 0 .. LastBackfill.at - MaxLookback
               PROVE  t \in lake \cup poll[p].lost
    BY DEF BackfillClosesOutage, OutageEvents, LastBackfill
  <2>1. /\ backfills # << >>
        /\ EventsIn(poll[p].from + 1, LastBackfill.at) \subseteq lake \cup poll[p].lost
        /\ poll[p].from = LastBackfill.at
              - AtMost(LastBackfill.at - LastBackfill.outage + Buffer, MaxLookback)
    BY DEF AloneInv, Reaches
  <2>2. LastBackfill.at \in Nat /\ LastBackfill.outage \in Nat
    <3>1. LastBackfill \in Backfill
      BY <2>1 DEF Typed, TypeOK, LastBackfill
    <3> QED
      BY <3>1 DEF Backfill
  <2>3. t \in Nat /\ t \in Events /\ LastBackfill.outage <= t /\ t <= LastBackfill.at
    BY PollAssumption DEF EventsIn
  <2>4. poll[p].from + 1 <= t
    BY <2>1, <2>2, <2>3, PollAssumption DEF AtMost
  <2> QED
    BY <2>1, <2>3, <2>4 DEF EventsIn
<1> QED
  BY <1>1, AloneAlways, PTL

\* With one scheduler process, a fingerprint the row has is replaced only
\* together with a drift stamp, unless a row write was lost: a success that
\* would move it was compared with it and recorded as a drift before.
THEOREM DriftIsNoticed ==
    ASSUME NEW p, Pollers = {p}
    PROVE  Spec => DriftNoticed
<1>1. ASSUME Typed, AloneInv(p), [Next]_vars, dbErrors = 0, row.fields # {},
             row'.fields # row.fields
      PROVE  row'.drift = now
  <2>a. row \in Row
    BY <1>1 DEF Typed, TypeOK
  <2>1. Step(p)
    BY <1>1, <2>a DEF Next, Tick, Toggle, vars, Row
  <2>2. ASSUME NEW b \in BOOLEAN, RecordDrift(p, b)
        PROVE  row'.drift = now
    BY <1>1, <2>2, <2>a DEF RecordDrift, Row
  <2>3. ASSUME NEW b \in BOOLEAN, RecordSuccess(p, b)
        PROVE  FALSE
    BY <1>1, <2>3, <2>a DEF RecordSuccess, Row, AloneInv, BaselineHolds
  <2>4. ASSUME NEW b \in BOOLEAN, RecordFailure(p, b) \/ Stamp(p, b) \/ ReloadFails(p, b)
        PROVE  FALSE
    BY <1>1, <2>4, <2>a DEF RecordFailure, Stamp, ReloadFails, Row
  <2>5. ~(Begin(p) \/ Fetch(p) \/ FetchFails(p) \/ Push(p) \/ PushFails(p)
          \/ Reload(p) \/ Stop(p))
    BY <1>1 DEF Begin, Fetch, FetchFails, Push, PushFails, Reload, Stop
  <2> QED
    BY <2>1, <2>2, <2>3, <2>4, <2>5 DEF Step
<1>2. Typed /\ AloneInv(p) /\ [Next]_vars
         => [ dbErrors = 0 /\ row.fields # {} /\ row'.fields # row.fields
                => row'.drift = now ]_vars
  BY <1>1
<1> QED
  BY <1>2, AloneAlways, PTL DEF DriftNoticed, Spec

=============================================================================
