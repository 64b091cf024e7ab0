-------------------------- MODULE FusionPipeline --------------------------
(***************************************************************************)
(* The alert-fusion service (services/fusion): a Kafka consumer takes raw  *)
(* alerts, drops repeats by fingerprint, groups the others into incidents  *)
(* kept in Redis, and publishes what it decided (workers/consumer.py,      *)
(* services/fusion_engine.py, deduplicator.py, correlator.py).             *)
(*                                                                         *)
(* A replica handles one message at a time; every Redis call is an await   *)
(* and ends a step.  Kafka is modelled by what the consumer relies on: a   *)
(* partition per replica, a position that advances as messages are handed  *)
(* out, an auto-commit of that position at any time, and a restart from    *)
(* the committed offset, or from the end of the partition when there is    *)
(* none.  Redis keys expire on their own.                                  *)
(***************************************************************************)
EXTENDS Naturals, Sequences, FiniteSets, SequencesExt

CONSTANTS
    Replicas,
    Alerts,
    Invalid,        \* alerts RawAlert does not validate
    Malformed,      \* messages json.loads does not read
    Fingerprint,    \* alert -> fingerprint()
    CorrelationKey, \* alert -> correlation_key()
    MaxAlerts,      \* max_alerts_per_incident
    None,
    MaxMessages,    \* bound: messages per partition
    MaxIncidents,   \* bound: incidents created
    MaxCrashes,     \* bound: crashes of a replica
    MaxErrors       \* bound: calls that raise, and deliveries that fail

ASSUME FusionAssumption ==
    /\ Invalid \subseteq Alerts /\ Malformed \subseteq Alerts \ Invalid
    /\ Fingerprint \in [Alerts -> Nat]
    /\ CorrelationKey \in [Alerts -> Nat]
    /\ MaxAlerts \in Nat \ {0}
    /\ None \notin Alerts \cup Nat
    /\ MaxMessages \in Nat /\ MaxIncidents \in Nat
    /\ MaxCrashes \in Nat /\ MaxErrors \in Nat

VARIABLES
    topic,      \* aisoc.alerts.raw: one partition per replica
    position,   \* messages handed out
    committed,  \* the group's offset, or None
    listening,  \* the consume loop is running
    work,       \* the message a replica is handling
    dedup,      \* Redis: fingerprint -> id of the alert that registered it
    index,      \* Redis: correlation key -> incident id
    incidents,  \* Redis: incident id -> alert_ids (alert_count is its length)
    outbox,     \* records sent and not yet delivered
    fused,      \* aisoc.alerts.fused
    grouped,    \* history: alerts that have been saved in an incident
    created,    \* incident ids drawn so far (uuid4: never drawn twice)
    forgotten,  \* history: fingerprints whose registration has expired
    crashes, errors

kafka  == <<topic, position, committed, listening>>
redis  == <<dedup, index, incidents, created, forgotten, grouped>>
output == <<outbox, fused>>
bounds == <<crashes, errors>>
vars   == <<kafka, work, redis, output, bounds>>

-----------------------------------------------------------------------------
IncidentIds  == 1 .. MaxIncidents
Fingerprints == {Fingerprint[a] : a \in Alerts}
Keys         == {CorrelationKey[a] : a \in Alerts}

Idle == [pc |-> "idle", alert |-> None, incident |-> None, members |-> << >>]

Work ==
    [ pc       : {"idle", "check", "register", "lookup", "load", "merge",
                  "create", "index", "correlated", "new_incident"},
      alert    : Alerts \cup {None},
      incident : IncidentIds \cup {None},
      members  : Seq(Alerts) ]      \* the incident as it was loaded

Fused ==
    [ alert    : Alerts,
      decision : {"duplicate", "correlated", "new_incident"},
      ref      : Alerts \cup IncidentIds ]   \* duplicate_of or incident_id

TypeOK ==
    /\ topic \in [Replicas -> Seq(Alerts)]
    /\ position \in [Replicas -> Nat]
    /\ committed \in [Replicas -> Nat \cup {None}]
    /\ listening \in [Replicas -> BOOLEAN]
    /\ work \in [Replicas -> Work]
    /\ dedup \in [Fingerprints -> Alerts \cup {None}]
    /\ index \in [Keys -> IncidentIds \cup {None}]
    /\ incidents \in [IncidentIds -> Seq(Alerts)]
    /\ outbox \in [Replicas -> SUBSET Fused]
    /\ fused \subseteq Fused
    /\ created \in 0 .. MaxIncidents
    /\ forgotten \subseteq Fingerprints
    /\ grouped \subseteq Alerts
    /\ crashes \in Nat /\ errors \in Nat
    \* a replica is never ahead of its partition, nor its commit ahead of it
    /\ \A w \in Replicas :
          /\ position[w] <= Len(topic[w])
          /\ committed[w] # None => committed[w] <= position[w]

Init ==
    /\ topic = [w \in Replicas |-> << >>]
    /\ position = [w \in Replicas |-> 0]
    /\ committed = [w \in Replicas |-> None]
    /\ listening = [w \in Replicas |-> TRUE]
    /\ work = [w \in Replicas |-> Idle]
    /\ dedup = [f \in Fingerprints |-> None]
    /\ index = [k \in Keys |-> None]
    /\ incidents = [i \in IncidentIds |-> << >>]
    /\ outbox = [w \in Replicas |-> {}]
    /\ fused = {}
    /\ created = 0
    /\ forgotten = {}
    /\ grouped = {}
    /\ crashes = 0 /\ errors = 0

-----------------------------------------------------------------------------
(***************************************************************************)
(* Kafka                                                                   *)
(***************************************************************************)
Produce(w, a) ==
    /\ Len(topic[w]) < MaxMessages
    /\ topic' = [topic EXCEPT ![w] = Append(@, a)]
    /\ UNCHANGED <<position, committed, listening, work, redis, output, bounds>>

\* The loop asks for the next message.
Awaits(w) == listening[w] /\ work[w] = Idle /\ position[w] < Len(topic[w])

Upcoming(w) == topic[w][position[w] + 1]

\* It takes it; one that does not validate is counted and skipped.
Consume(w) ==
    /\ Awaits(w) /\ Upcoming(w) \notin Malformed
    /\ position' = [position EXCEPT ![w] = @ + 1]
    /\ work' = IF Upcoming(w) \in Invalid THEN work
               ELSE [work EXCEPT ![w] = [Idle EXCEPT !.pc = "check",
                                                     !.alert = Upcoming(w)]]
    /\ UNCHANGED <<topic, committed, listening, redis, output, bounds>>

\* The deserializer raises where the loop fetches, outside the try around one
\* message: the loop is over, the message not passed, and nothing but a
\* restart of the process begins it again.
ConsumeStops(w) ==
    /\ Awaits(w) /\ Upcoming(w) \in Malformed
    /\ listening' = [listening EXCEPT ![w] = FALSE]
    /\ UNCHANGED <<topic, position, committed, work, redis, output, bounds>>

\* The consumer's timer; it does not wait for the message being handled.
AutoCommit(w) ==
    /\ committed[w] # position[w]
    /\ committed' = [committed EXCEPT ![w] = position[w]]
    /\ UNCHANGED <<topic, position, listening, work, redis, output, bounds>>

\* A restart resumes at the commit, or at the end (auto_offset_reset=latest);
\* what was sent and not delivered is lost.
Crash(w) ==
    /\ crashes < MaxCrashes
    /\ crashes' = crashes + 1
    /\ position' = [position EXCEPT ![w] =
                       IF committed[w] = None THEN Len(topic[w])
                                              ELSE committed[w]]
    /\ listening' = [listening EXCEPT ![w] = TRUE]
    /\ work' = [work EXCEPT ![w] = Idle]
    /\ outbox' = [outbox EXCEPT ![w] = {}]
    /\ UNCHANGED <<topic, committed, redis, fused, errors>>

\* The producer's batch goes out.
Deliver(w) ==
    /\ outbox[w] # {}
    /\ fused' = fused \cup outbox[w]
    /\ outbox' = [outbox EXCEPT ![w] = {}]
    /\ UNCHANGED <<kafka, work, redis, bounds>>

\* Or it expires or is refused: send returned a future that nobody awaits.
DeliveryFails(w) ==
    /\ outbox[w] # {}
    /\ errors < MaxErrors
    /\ errors' = errors + 1
    /\ outbox' = [outbox EXCEPT ![w] = {}]
    /\ UNCHANGED <<kafka, work, redis, fused, crashes>>

-----------------------------------------------------------------------------
(***************************************************************************)
(* FusionEngine.process                                                    *)
(***************************************************************************)
At(w, pc) == work[w].pc = pc

Send(w, decision, ref) ==
    outbox' = [outbox EXCEPT ![w] = @ \cup
        {[alert |-> work[w].alert, decision |-> decision, ref |-> ref]}]

\* Mutant: a duplicate is dropped without telling anyone downstream.
CheckDuplicate_Silent(w) ==
    LET original == dedup[Fingerprint[work[w].alert]]
    IN /\ At(w, "check")
       /\ work' = IF original = None THEN [work EXCEPT ![w].pc = "register"]
                                     ELSE [work EXCEPT ![w] = Idle]
       /\ UNCHANGED <<kafka, redis, output, bounds>>

\* is_duplicate: a duplicate is published at once.
CheckDuplicate(w) ==
    LET original == dedup[Fingerprint[work[w].alert]]
    IN /\ At(w, "check")
       /\ IF original = None
          THEN /\ work' = [work EXCEPT ![w].pc = "register"]
               /\ UNCHANGED outbox
          ELSE /\ work' = [work EXCEPT ![w] = Idle]
               /\ Send(w, "duplicate", original)
       /\ UNCHANGED <<kafka, redis, fused, bounds>>

\* Mutant: nothing is registered until the alert has been grouped.
Register_Late(w) ==
    /\ At(w, "register")
    /\ work' = [work EXCEPT ![w].pc = "lookup"]
    /\ UNCHANGED <<kafka, redis, output, bounds>>

Register(w) ==
    /\ At(w, "register")
    /\ dedup' = [dedup EXCEPT ![Fingerprint[work[w].alert]] = work[w].alert]
    /\ work' = [work EXCEPT ![w].pc = "lookup"]
    /\ UNCHANGED <<kafka, index, incidents, created, forgotten, grouped,
                   output, bounds>>

Lookup(w) ==
    LET i == index[CorrelationKey[work[w].alert]]
    IN /\ At(w, "lookup")
       /\ work' = [work EXCEPT ![w].incident = i,
                               ![w].pc = IF i = None THEN "create" ELSE "load"]
       /\ UNCHANGED <<kafka, redis, output, bounds>>

\* An incident that has expired or is full is left alone.
Load(w) ==
    LET members == incidents[work[w].incident]
    IN /\ At(w, "load")
       /\ work' = [work EXCEPT ![w].members = members,
             ![w].pc = IF members # << >> /\ Len(members) < MaxAlerts
                       THEN "merge" ELSE "create"]
       /\ UNCHANGED <<kafka, redis, output, bounds>>

\* Mutant: the merged incident is published but not saved.
Merge_Unsaved(w) ==
    /\ At(w, "merge")
    /\ work' = [work EXCEPT ![w].pc = "correlated"]
    /\ UNCHANGED <<kafka, redis, output, bounds>>

\* The incident as loaded, with the alert, replaces the one in Redis.
Merge(w) ==
    /\ At(w, "merge")
    /\ incidents' = [incidents EXCEPT ![work[w].incident] =
                        Append(work[w].members, work[w].alert)]
    /\ work' = [work EXCEPT ![w].pc = "correlated"]
    /\ grouped' = grouped \cup {work[w].alert}
    /\ UNCHANGED <<kafka, dedup, index, created, forgotten, output, bounds>>

\* Mutant: the new incident is indexed but never saved.
Create_Unsaved(w) ==
    /\ At(w, "create")
    /\ created < MaxIncidents
    /\ created' = created + 1
    /\ work' = [work EXCEPT ![w].incident = created + 1, ![w].pc = "index"]
    /\ UNCHANGED <<kafka, dedup, index, incidents, forgotten, grouped, output,
                   bounds>>

Create(w) ==
    /\ At(w, "create")
    /\ created < MaxIncidents
    /\ created' = created + 1
    /\ incidents' = [incidents EXCEPT ![created + 1] = <<work[w].alert>>]
    /\ work' = [work EXCEPT ![w].incident = created + 1, ![w].pc = "index"]
    /\ grouped' = grouped \cup {work[w].alert}
    /\ UNCHANGED <<kafka, dedup, index, forgotten, output, bounds>>

Index(w) ==
    /\ At(w, "index")
    /\ index' = [index EXCEPT ![CorrelationKey[work[w].alert]] =
                    work[w].incident]
    /\ work' = [work EXCEPT ![w].pc = "new_incident"]
    /\ UNCHANGED <<kafka, dedup, incidents, created, forgotten, grouped,
                   output, bounds>>

\* Scoring, risk and narrative never stop the alert; then it is sent.
Publish(w) ==
    /\ work[w].pc \in {"correlated", "new_incident"}
    /\ Send(w, work[w].pc, work[w].incident)
    /\ work' = [work EXCEPT ![w] = Idle]
    /\ UNCHANGED <<kafka, redis, fused, bounds>>

\* A Redis call or the send raises: the loop logs it and goes on.
ProcessError(w) ==
    /\ ~At(w, "idle")
    /\ errors < MaxErrors
    /\ errors' = errors + 1
    /\ work' = [work EXCEPT ![w] = Idle]
    /\ UNCHANGED <<kafka, redis, output, crashes>>

-----------------------------------------------------------------------------
(***************************************************************************)
(* Expiry: the fingerprint after the dedup window; the index entry a       *)
(* correlation window after the incident was created; the incident a       *)
(* correlation window after its last save, hence not before an index entry *)
(* that points to it unless it was never merged into.                      *)
(***************************************************************************)
ExpireFingerprint(f) ==
    /\ dedup[f] # None
    /\ dedup' = [dedup EXCEPT ![f] = None]
    /\ forgotten' = forgotten \cup {f}
    /\ UNCHANGED <<kafka, work, index, incidents, created, grouped, output,
                   bounds>>

ExpireIndex(k) ==
    /\ index[k] # None
    /\ index' = [index EXCEPT ![k] = None]
    /\ UNCHANGED <<kafka, work, dedup, incidents, created, forgotten, grouped,
                   output, bounds>>

ExpireIncident(i) ==
    /\ incidents[i] # << >>
    /\ (\E k \in Keys : index[k] = i) => Len(incidents[i]) = 1
    /\ incidents' = [incidents EXCEPT ![i] = << >>]
    /\ UNCHANGED <<kafka, work, dedup, index, created, forgotten, grouped,
                   output, bounds>>

Process(w) ==
    \/ Consume(w) \/ ConsumeStops(w) \/ CheckDuplicate(w) \/ Register(w)
    \/ Lookup(w) \/ Load(w) \/ Merge(w) \/ Create(w) \/ Index(w) \/ Publish(w)

Expire ==
    \/ \E f \in Fingerprints : ExpireFingerprint(f)
    \/ \E k \in Keys : ExpireIndex(k)
    \/ \E i \in IncidentIds : ExpireIncident(i)

Next ==
    \/ \E w \in Replicas :
          \/ \E a \in Alerts : Produce(w, a)
          \/ Process(w) \/ ProcessError(w) \/ AutoCommit(w)
          \/ Deliver(w) \/ DeliveryFails(w) \/ Crash(w)
    \/ Expire

Spec == Init /\ [][Next]_vars

\* An awaited call returns or raises, and a batch goes out or fails; which of
\* the two is not promised.
FairSpec ==
    /\ Spec
    /\ \A w \in Replicas : /\ WF_vars(Process(w) \/ ProcessError(w))
                           /\ WF_vars(Deliver(w) \/ DeliveryFails(w))

-----------------------------------------------------------------------------
(***************************************************************************)
(* Properties                                                              *)
(***************************************************************************)
Records == fused \cup UNION {outbox[w] : w \in Replicas}

\* What is published agrees with what is stored: an alert announced as part
\* of an incident is in that incident's alert_ids for as long as it exists.
PublishedIsStored ==
    \A r \in Records :
        r.decision # "duplicate" /\ incidents[r.ref] # << >>
            => Contains(incidents[r.ref], r.alert)

\* A redelivered message is not counted twice: while its fingerprint has not
\* expired, an alert is in at most one incident, once.
CountedOnce ==
    \A a \in Alerts :
        Fingerprint[a] \notin forgotten =>
            \A i, j \in IncidentIds :
                \A m \in DOMAIN incidents[i], n \in DOMAIN incidents[j] :
                    incidents[i][m] = a /\ incidents[j][n] = a
                        => i = j /\ m = n

\* No replica crashed, no call raised and no delivery failed.
Undisturbed == crashes = 0 /\ errors = 0

\* Undisturbed, an alert suppressed as a duplicate repeats one that has been
\* saved in an incident.
SuppressedIsGrouped ==
    Undisturbed =>
        \A r \in Records : r.decision = "duplicate" => r.ref \in grouped

\* Undisturbed, a message that was handed out, and whose offset may be
\* committed, is being worked on or has been published.
NothingDropped ==
    Undisturbed =>
        \A w \in Replicas : \A k \in 1 .. position[w] :
            \/ topic[w][k] \in Invalid
            \/ work[w].pc # "idle" /\ work[w].alert = topic[w][k]
            \/ \E r \in Records : r.alert = topic[w][k]

\* Undisturbed, no alert is lost: what was handed out is at work or
\* published, and what was suppressed repeats an alert an incident has.
NoAlertLost == NothingDropped /\ SuppressedIsGrouped

IsFused(a) == \E r \in fused : r.alert = a

\* No message before it is one the deserializer does not read.
Reachable(w, a) ==
    \E k \in DOMAIN topic[w] :
        topic[w][k] = a /\ \A n \in 1 .. k : topic[w][n] \notin Malformed

\* Undisturbed, every valid message the loop can reach is fused, the
\* duplicates too ("so downstream can track"): nothing but a message that is
\* not JSON ends the loop.
EveryAlertFused ==
    \A w \in Replicas, a \in Alerts \ (Invalid \cup Malformed) :
        Reachable(w, a) ~> ~Undisturbed \/ IsFused(a)

(***************************************************************************)
(* Statements of the repository that the code does not keep.               *)
(***************************************************************************)
\* "Register an alert fingerprint to suppress future duplicates": after a
\* crash between the registration and the incident, the redelivered alert is
\* suppressed as a duplicate of itself.
RedeliveredIsGrouped ==
    \A r \in Records : r.decision = "duplicate" => r.ref \in grouped

\* "Failed to process message": a message that cannot be read costs that
\* message; in fact the valid ones behind it are never fused.
EveryValidFused ==
    \A w \in Replicas, a \in Alerts \ (Invalid \cup Malformed) :
        Contains(topic[w], a) ~> ~Undisturbed \/ IsFused(a)

\* "Publish fused alert (even duplicates, so downstream can track)": unless
\* the process crashes, what was sent is in the outbox or published; a batch
\* that fails is gone, and the offset of its message may be committed.
SentIsDelivered ==
    [][\A w \in Replicas :
          crashes' = crashes => outbox[w] \subseteq outbox'[w] \cup fused']_vars

=============================================================================
