--------------------------- MODULE ConnectorPoll ---------------------------
(***************************************************************************)
(* One poll cycle of a connector instance (services/connectors,            *)
(* app/scheduler.py _poll_one) and what it writes to the connector's row   *)
(* (app/db/connector_repo.py): fetch from the source, push to ingest,      *)
(* record drift, success or failure, and after a long outage poll once     *)
(* more with a longer lookback.                                            *)
(*                                                                         *)
(* Time is a number of ticks.  The source has at most one event per tick   *)
(* that the filter rules keep, so an event is named by its tick, a fetch   *)
(* is an interval of ticks, and the field set of an event tells whether it *)
(* is from before or after a change of the source's schema.  Each await of *)
(* the cycle ends a step.  A source may answer with a part of what it was  *)
(* asked for (connectors cap a query and do not page, and one takes a      *)
(* refusal for an empty answer), and ingest may accept a part of what it   *)
(* is sent: the poll succeeds all the same.                                *)
(***************************************************************************)
EXTENDS Integers, Sequences, FiniteSets

CONSTANTS
    Pollers,      \* scheduler processes (each runs one poll of the row at a time)
    Events,       \* ticks at which the source has an event
    SchemaChange, \* first tick whose events have the new field set
    Interval,     \* poll_interval_seconds
    Threshold,    \* _BACKFILL_OUTAGE_THRESHOLD_S
    FlapWindow,   \* _BACKFILL_FLAP_WINDOW_S
    Buffer,       \* _BACKFILL_LOOKBACK_BUFFER_S
    MaxLookback,  \* _MAX_BACKFILL_LOOKBACK_S
    Never,        \* null timestamp
    MaxTime,      \* bound: the clock
    MaxDbErrors,  \* bound: row writes that fail (and are swallowed)
    MaxStops      \* bound: polls cut off by stop() or a crash

ASSUME PollAssumption ==
    /\ Events \subseteq Nat
    /\ SchemaChange \in Nat
    /\ Interval \in Nat \ {0} /\ Threshold \in Nat /\ FlapWindow \in Nat
    /\ Buffer \in Nat \ {0} /\ MaxLookback \in Nat \ {0}
    /\ Never \notin Nat
    /\ MaxTime \in Nat /\ MaxDbErrors \in Nat /\ MaxStops \in Nat

VARIABLES
    now,
    row,        \* the connectors row, less the columns no step reads
    poll,       \* the cycle each process is in
    lake,       \* events the ingest service has accepted
    dbErrors,
    stops,
    firstFail,  \* history: first recorded failure since the last recorded success
    backfills   \* history: the backfill polls started

vars    == <<now, row, poll, lake, dbErrors, stops, firstFail, backfills>>
budgets == <<dbErrors, stops>>
history == <<firstFail, backfills>>

-----------------------------------------------------------------------------
Time   == Nat \cup {Never}
Fields == SUBSET {"old", "new"}   \* a fingerprint; {} is NULL

Row ==
    [ enabled : BOOLEAN,
      health  : {"unknown", "healthy", "unhealthy"},
      sync    : Time,        \* last_sync
      outage  : Time,        \* last_outage_at
      stamp   : Time,        \* last_backfill_at
      fields  : Fields,      \* schema_fingerprint
      drift   : Time ]       \* last_schema_drift_at

\* Where a cycle is suspended.
PC == {"idle", "fetching", "failing", "pushing", "drifting", "recording",
       "stamping", "reloading"}

Cycle ==
    [ pc    : PC,
      kind  : {"regular", "backfill"},
      snap  : Row,           \* the row as loaded
      from  : Int,           \* events after this tick are asked for
      batch : SUBSET Nat,    \* what the source returned
      lost  : SUBSET Nat ]   \* history: asked for and not returned, or rejected

NewRow ==
    [ enabled |-> TRUE, health |-> "unknown", sync |-> Never, outage |-> Never,
      stamp |-> Never, fields |-> {}, drift |-> Never ]

NoCycle ==
    [ pc |-> "idle", kind |-> "regular", snap |-> NewRow,
      from |-> 0, batch |-> {}, lost |-> {} ]

Backfill == [outage : Nat, from : Int, synced : Time, at : Nat, stamped : BOOLEAN]

TypeOK ==
    /\ now \in Nat
    /\ row \in Row
    /\ poll \in [Pollers -> Cycle]
    /\ lake \subseteq Nat
    /\ dbErrors \in Nat
    /\ stops \in Nat
    /\ firstFail \in Time
    /\ backfills \in Seq(Backfill)

Init ==
    /\ now = 0
    /\ row = NewRow
    /\ poll = [p \in Pollers |-> NoCycle]
    /\ lake = {}
    /\ dbErrors = 0
    /\ stops = 0
    /\ firstFail = Never
    /\ backfills = << >>

\* The events of a span of ticks.
EventsIn(a, b) == {t \in Events : a <= t /\ t <= b}

\* compute_fingerprint: the union of the field sets of a batch.
Fingerprint(batch) ==
    {IF t < SchemaChange THEN "old" ELSE "new" : t \in batch}

AtMost(a, b) == IF a <= b THEN a ELSE b

-----------------------------------------------------------------------------
\* The database answers within the tick: time passes only while a poll waits
\* for the source or for the ingest service.
Tick ==
    /\ now < MaxTime
    /\ \A p \in Pollers : poll[p].pc \in {"idle", "fetching", "pushing"}
    /\ now' = now + 1
    /\ UNCHANGED <<row, poll, lake, budgets, history>>

\* The API enables or disables the instance.
Toggle ==
    /\ row' = [row EXCEPT !.enabled = ~@]
    /\ UNCHANGED <<now, poll, lake, budgets, history>>

\* Load the row and start the query (lookback is since_seconds).
Start(p, kind, lookback) ==
    poll' = [poll EXCEPT ![p] =
        [ pc |-> "fetching", kind |-> kind, snap |-> row,
          from |-> now - lookback, batch |-> {}, lost |-> {} ]]

Begin(p) ==
    /\ poll[p].pc = "idle"
    /\ row.enabled
    /\ Start(p, "regular", Interval)
    /\ UNCHANGED <<now, row, lake, budgets, history>>

Goto(p, pc) == poll' = [poll EXCEPT ![p].pc = pc]

End(p) == poll' = [poll EXCEPT ![p] = NoCycle]

\* The source answers, perhaps not with all of it: crowdstrike.py asks for at
\* most 100 detections and okta.py for 50 log entries of a kind, neither asks
\* for a second page, and okta.py takes any answer but a 200 for an empty one.
Fetch(p) ==
    LET window == EventsIn(poll[p].from + 1, now)
    IN /\ poll[p].pc = "fetching"
       /\ \E got \in SUBSET window :
             poll' = [poll EXCEPT ![p].pc = "pushing", ![p].batch = got,
                                  ![p].lost = window \ got]
       /\ UNCHANGED <<now, row, lake, budgets, history>>

\* Unknown connector type, credentials that do not decrypt, a constructor
\* that refuses the config, or a source that does not answer.
FetchFails(p) ==
    /\ poll[p].pc = "fetching"
    /\ Goto(p, "failing")
    /\ UNCHANGED <<now, row, lake, budgets, history>>

\* Mutant: backfill polls are left out of drift detection.
Drifted_RegularOnly(p) ==
    LET new == Fingerprint(poll[p].batch)
        old == poll[p].snap.fields
    IN poll[p].kind = "regular" /\ new # {} /\ old # {} /\ new # old

Drifted(p) ==
    LET new == Fingerprint(poll[p].batch)
        old == poll[p].snap.fields
    IN new # {} /\ old # {} /\ new # old

\* Ingest answers 200 with the number it accepted, and the poll goes on to
\* its success whatever the number.
Push(p) ==
    /\ poll[p].pc = "pushing"
    /\ \E stored \in SUBSET poll[p].batch :
          /\ lake' = lake \cup stored
          /\ poll' = [poll EXCEPT
                ![p].pc   = IF Drifted(p) THEN "drifting" ELSE "recording",
                ![p].lost = @ \cup (poll[p].batch \ stored)]
    /\ UNCHANGED <<now, row, budgets, history>>

\* An empty batch is not sent at all.  Any part of a failed push may have
\* arrived (the answer was lost, or the publication broke off).
PushFails(p) ==
    /\ poll[p].pc = "pushing"
    /\ poll[p].batch # {}
    /\ \E arrived \in SUBSET poll[p].batch : lake' = lake \cup arrived
    /\ Goto(p, "failing")
    /\ UNCHANGED <<now, row, budgets, history>>

-----------------------------------------------------------------------------
(***************************************************************************)
(* Row writes.  A write that raises is logged and the cycle goes on as if  *)
(* it had succeeded (ok is FALSE).                                         *)
(***************************************************************************)
Wrote(ok) ==
    /\ ok \/ dbErrors < MaxDbErrors
    /\ dbErrors' = IF ok THEN dbErrors ELSE dbErrors + 1

Unhealthy == "unhealthy"

\* Mutant: every failure restamps the outage.
RecordFailure_Restamp(p, ok) ==
    /\ poll[p].pc = "failing"
    /\ Wrote(ok)
    /\ row' = IF ok THEN [row EXCEPT !.health = Unhealthy, !.outage = now]
                    ELSE row
    /\ firstFail' = IF ok /\ firstFail = Never THEN now ELSE firstFail
    /\ End(p)
    /\ UNCHANGED <<now, lake, stops, backfills>>

RecordFailure(p, ok) ==
    /\ poll[p].pc = "failing"
    /\ Wrote(ok)
    /\ row' = IF ok
              THEN [row EXCEPT !.health = Unhealthy,
                               !.outage = IF @ = Never THEN now ELSE @]
              ELSE row
    /\ firstFail' = IF ok /\ firstFail = Never THEN now ELSE firstFail
    /\ End(p)
    /\ UNCHANGED <<now, lake, stops, backfills>>

RecordDrift(p, ok) ==
    /\ poll[p].pc = "drifting"
    /\ Wrote(ok)
    /\ row' = IF ok
              THEN [row EXCEPT !.fields = Fingerprint(poll[p].batch),
                               !.drift = now]
              ELSE row
    /\ Goto(p, "recording")
    /\ UNCHANGED <<now, lake, stops, history>>

\* Mutant: no flap suppression.
BackfillDue_NoFlap(p) ==
    LET c == poll[p]
    IN /\ c.kind = "regular"
       /\ c.snap.outage # Never
       /\ now - c.snap.outage >= Threshold

\* The recovery decision, made from the row as it was loaded.
BackfillDue(p) ==
    LET c == poll[p]
    IN /\ c.kind = "regular"
       /\ c.snap.outage # Never
       /\ now - c.snap.outage >= Threshold
       /\ c.snap.stamp # Never => now - c.snap.stamp >= FlapWindow

\* Mutant: the wrong end of the outage.
BackfillWindow_Short(p) == AtMost(Interval, MaxLookback)

BackfillWindow(p) == AtMost(now - poll[p].snap.outage + Buffer, MaxLookback)

RecordSuccess(p, ok) ==
    LET new == Fingerprint(poll[p].batch)
    IN /\ poll[p].pc = "recording"
       /\ Wrote(ok)
       /\ row' = IF ok
                 THEN [row EXCEPT !.health = "healthy", !.sync = now,
                                  !.outage = Never,
                                  !.fields = IF new = {} THEN @ ELSE new]
                 ELSE row
       /\ firstFail' = IF ok THEN Never ELSE firstFail
       /\ IF BackfillDue(p)
          THEN poll' = [poll EXCEPT ![p].pc = "stamping",
                                    ![p].from = now - BackfillWindow(p)]
          ELSE End(p)
       /\ UNCHANGED <<now, lake, stops, backfills>>

\* record_backfill_run, before the backfill poll is entered.
Stamp(p, ok) ==
    /\ poll[p].pc = "stamping"
    /\ Wrote(ok)
    /\ row' = IF ok THEN [row EXCEPT !.stamp = now] ELSE row
    /\ backfills' = Append(backfills,
          [ outage  |-> poll[p].snap.outage,
            from    |-> poll[p].from,
            synced  |-> poll[p].snap.sync,
            at      |-> now,
            stamped |-> ok ])
    /\ Goto(p, "reloading")
    /\ UNCHANGED <<now, lake, stops, firstFail>>

\* The nested _poll_one loads the row again and asks for the window.
Reload(p) ==
    /\ poll[p].pc = "reloading"
    /\ row.enabled
    /\ Start(p, "backfill", now - poll[p].from)
    /\ UNCHANGED <<now, row, lake, budgets, history>>

\* ... or returns at once: the row cannot be loaded, or is disabled by now.
ReloadFails(p, dberror) ==
    /\ poll[p].pc = "reloading"
    /\ IF dberror THEN Wrote(FALSE) ELSE ~row.enabled /\ UNCHANGED dbErrors
    /\ End(p)
    /\ UNCHANGED <<now, row, lake, stops, history>>

\* stop() shuts the scheduler down without waiting: the cycle is cancelled.
Stop(p) ==
    /\ poll[p].pc # "idle"
    /\ stops < MaxStops
    /\ stops' = stops + 1
    /\ End(p)
    /\ UNCHANGED <<now, row, lake, dbErrors, history>>

Step(p) ==
    \/ Begin(p) \/ Fetch(p) \/ FetchFails(p) \/ Push(p) \/ PushFails(p)
    \/ Reload(p) \/ Stop(p)
    \/ \E b \in BOOLEAN :
          \/ RecordFailure(p, b) \/ RecordDrift(p, b) \/ RecordSuccess(p, b)
          \/ Stamp(p, b) \/ ReloadFails(p, b)

Next == Tick \/ Toggle \/ \E p \in Pollers : Step(p)

Spec == Init /\ [][Next]_vars
-----------------------------------------------------------------------------
(***************************************************************************)
(* Properties                                                              *)
(***************************************************************************)

\* The outage marker is the moment of the first recorded failure since the
\* last recorded success, and is absent when there is none: what the length
\* of an outage is computed from is neither lost nor moved by later failures,
\* by a cut-off poll or by a swallowed write.
OutageIsFirstFailure == row.outage = firstFail

\* Once the row remembers a backfill, the next one waits for the flap window
\* to pass, even when the recovery itself could not be written to the row.
BackfillsSpaced ==
    \A j, k \in DOMAIN backfills :
        j < k /\ backfills[j].stamped
            => backfills[k].at - backfills[j].at >= FlapWindow

\* The events of an outage, from its first failed poll to the decision to
\* backfill, up to the lookback cap.
OutageEvents(b) == EventsIn(b.outage, b.at) \ (0 .. b.at - MaxLookback)

\* When a backfill succeeds, each event of the outage is in the lake, unless
\* the source left it out of that very answer or ingest rejected it: the poller
\* itself leaves no hole, whatever failed, was cut off or was written in
\* between, and what the row says by then.
BackfillClosesOutage ==
    \A p \in Pollers :
        LET b == backfills[Len(backfills)]
        IN poll[p].kind = "backfill" /\ poll[p].pc \in {"drifting", "recording"}
           => OutageEvents(b) \subseteq lake \cup poll[p].lost

\* The window reaches back to the last successful poll when the first failed
\* one came a poll interval later (the buffer "cover[s] the gap between the
\* last successful poll and last_outage_at").
BufferCoversGap ==
    \A k \in DOMAIN backfills :
        LET b == backfills[k]
        IN /\ b.synced # Never
           /\ b.outage - b.synced <= Interval
           /\ b.at - b.synced <= MaxLookback
           => b.from <= b.synced

\* A fingerprint the row has is only ever replaced together with a drift
\* stamp: unless a row write was lost, no change of the source's schema is
\* absorbed unnoticed, however empty, failed, cut-off and backfill polls
\* alternate.
DriftNoticed ==
    [][ dbErrors = 0 /\ row.fields # {} /\ row'.fields # row.fields
          => row'.drift = now ]_vars

(***************************************************************************)
(* Statements of the repository that the code does not keep.               *)
(***************************************************************************)

\* A recovered connector polls again "so the customer doesn't have a hole in
\* their data for the duration of the outage": what a backfill was recorded as
\* a success for is in the lake.
BackfillFillsOutage ==
    \A p \in Pollers :
        poll[p].kind = "backfill" /\ poll[p].pc = "recording"
            => OutageEvents(backfills[Len(backfills)]) \subseteq lake

\* ... and an outage whose backfill failed stays on the row, for the next
\* recovery to fill, unless its events have arrived all the same.
LongOutageFilled ==
    [][ \A p \in Pollers :
          LET b == backfills[Len(backfills)]
          IN /\ poll[p].kind = "backfill" /\ poll[p].pc = "failing"
             /\ row'.outage # row.outage
             => \/ row'.outage <= b.outage
                \/ OutageEvents(b) \subseteq lake ]_vars

\* "Outages shorter than the 30-minute threshold should never schedule a
\* backfill -- the recovery poll covers them."
ShortOutageCovered ==
    [][ \A p \in Pollers :
          /\ poll[p].pc = "recording" /\ poll'[p].pc = "idle"
          /\ row.outage # Never /\ row'.outage = Never
          /\ now - row.outage < Threshold
          => EventsIn(row.outage, now) \subseteq lake \cup poll[p].lost ]_vars

=============================================================================
