------------------------ MODULE FusionPipelineProofs ------------------------
(***************************************************************************)
(* The fusion pipeline, for any alerts, fingerprints, correlation keys and *)
(* bounds.  Its types hold for any number of replicas.  What it promises   *)
(* about incidents and duplicates is proved for one replica, as            *)
(* docker-compose.yml runs the service: load, merge and save of an         *)
(* incident are separate calls, and the two replicas of the Helm chart do  *)
(* break it (FusionReplicas.cfg).                                          *)
(***************************************************************************)
EXTENDS FusionPipeline, TLAPS

HasIncident == {"load", "merge", "correlated", "index", "new_incident"}

\* A replica at work has its alert and, past the lookup, an incident.
AtWork ==
    \A w \in Replicas :
        /\ work[w].pc # "idle" => work[w].alert \in Alerts
        /\ work[w].pc \in HasIncident => work[w].incident \in 1 .. created

\* Nothing refers to an incident that has not been created.
Announces(r) == r.decision # "duplicate" => r.ref \in 1 .. created

Drawn ==
    /\ \A k \in Keys : index[k] # None => index[k] \in 1 .. created
    /\ \A r \in fused : Announces(r)
    /\ \A w \in Replicas : \A r \in outbox[w] : Announces(r)

Types == TypeOK /\ AtWork /\ Drawn

(***************************************************************************)
(* One replica, w                                                          *)
(***************************************************************************)
\* What is about to be saved or announced agrees with what was announced.
Stored(w) ==
    /\ PublishedIsStored
    /\ work[w].pc = "merge" =>
          /\ \A r \in Records :
                r.decision # "duplicate" /\ r.ref = work[w].incident
                    => Contains(work[w].members, r.alert)
          /\ incidents[work[w].incident] \in {work[w].members, << >>}
    /\ work[w].pc \in {"correlated", "index", "new_incident"}
          /\ incidents[work[w].incident] # << >>
       => Contains(incidents[work[w].incident], work[w].alert)

\* The incident being merged counts as it was loaded: it may expire and be
\* saved again.
Held(w, i) ==
    IF work[w].pc = "merge" /\ i = work[w].incident THEN work[w].members ELSE incidents[i]

Ungrouped == {"lookup", "load", "merge", "create"}

\* An alert that is in an incident has its fingerprint registered; one whose
\* fingerprint was just registered is in none.
Counted(w) ==
    /\ \A a \in Alerts : Fingerprint[a] \notin forgotten =>
          \A i, j \in IncidentIds :
             \A m \in DOMAIN Held(w, i), n \in DOMAIN Held(w, j) :
                Held(w, i)[m] = a /\ Held(w, j)[n] = a => i = j /\ m = n
    /\ \A a \in Alerts : Fingerprint[a] \notin forgotten /\ dedup[Fingerprint[a]] = None =>
          \A i \in IncidentIds : \A m \in DOMAIN Held(w, i) : Held(w, i)[m] # a
    /\ work[w].pc = "register" => dedup[Fingerprint[work[w].alert]] = None
    /\ work[w].pc \in Ungrouped /\ Fingerprint[work[w].alert] \notin forgotten =>
          /\ dedup[Fingerprint[work[w].alert]] # None
          /\ \A i \in IncidentIds : \A m \in DOMAIN Held(w, i) :
                Held(w, i)[m] # work[w].alert

\* Undisturbed, a registered fingerprint is of an alert that is in an
\* incident or on its way into one.
Suppressed(w) ==
    Undisturbed =>
        /\ \A r \in Records : r.decision = "duplicate" => r.ref \in grouped
        /\ \A f \in Fingerprints : dedup[f] # None =>
              \/ dedup[f] \in grouped
              \/ work[w].pc \in Ungrouped /\ dedup[f] = work[w].alert

-----------------------------------------------------------------------------
(***************************************************************************)
(* What the steps of a replica do to its work                              *)
(***************************************************************************)
\* The replica is at p with alert a, incident i and members m; no other moved.
Now(w, p, a, i, m) ==
    /\ work' \in [Replicas -> Work]
    /\ work'[w].pc = p /\ work'[w].alert = a
    /\ work'[w].incident = i /\ work'[w].members = m
    /\ \A v \in Replicas \ {w} : work'[v] = work[v]

LEMMA Replaced ==
    ASSUME TypeOK, NEW w \in Replicas, NEW x \in Work, work' = [work EXCEPT ![w] = x]
    PROVE  Now(w, x.pc, x.alert, x.incident, x.members)
<1>1. work' \in [Replicas -> Work] /\ work'[w] = x
  BY DEF TypeOK
<1>2. \A v \in Replicas \ {w} : work'[v] = work[v]
  BY DEF TypeOK
<1> QED
  BY <1>1, <1>2 DEF Now

LEMMA WorkIs ==
    ASSUME TypeOK, NEW w \in Replicas
    PROVE  /\ work[w] \in Work
           /\ work[w].pc \in {"idle", "check", "register", "lookup", "load", "merge",
                              "create", "index", "correlated", "new_incident"}
           /\ work[w].alert \in Alerts \cup {None}
           /\ work[w].incident \in IncidentIds \cup {None}
           /\ work[w].members \in Seq(Alerts)
BY DEF TypeOK, Work

LEMMA Advances ==
    ASSUME TypeOK, NEW w \in Replicas, NEW p, work' = [work EXCEPT ![w].pc = p],
           p \in {"register", "lookup", "correlated", "new_incident"}
    PROVE  Now(w, p, work[w].alert, work[w].incident, work[w].members)
<1> DEFINE x == [work[w] EXCEPT !.pc = p]
<1>1. work[w] \in Work
  BY WorkIs
<1>2. /\ x \in Work /\ x.pc = p /\ x.alert = work[w].alert
      /\ x.incident = work[w].incident /\ x.members = work[w].members
  BY <1>1 DEF Work
<1>3. work' = [work EXCEPT ![w] = x]
  OBVIOUS
<1> HIDE DEF x
<1> QED
  BY <1>2, <1>3, Replaced

LEMMA Stops ==
    ASSUME TypeOK, NEW w \in Replicas, work' = [work EXCEPT ![w] = Idle]
    PROVE  Now(w, "idle", None, None, << >>)
<1>1. Idle \in Work
  BY DEF Idle, Work
<1>2. Now(w, Idle.pc, Idle.alert, Idle.incident, Idle.members)
  BY <1>1, Replaced
<1> QED
  BY <1>2 DEF Idle

LEMMA Consumes ==
    ASSUME TypeOK, NEW w \in Replicas, Consume(w)
    PROVE  /\ work[w] = Idle
           /\ \/ work' = work
              \/ \E a \in Alerts : Now(w, "check", a, None, << >>)
           /\ position[w] + 1 \in 1 .. Len(topic[w])
           /\ position' = [position EXCEPT ![w] = position[w] + 1]
           /\ UNCHANGED <<topic, committed, listening, redis, output, bounds>>
<1> DEFINE a == Upcoming(w)
           x == [Idle EXCEPT !.pc = "check", !.alert = a]
<1>1. position[w] + 1 \in 1 .. Len(topic[w]) /\ a \in Alerts
  BY DEF TypeOK, Consume, Awaits, Upcoming
<1>2. /\ x \in Work /\ x.pc = "check" /\ x.alert = a /\ x.incident = None
      /\ x.members = << >>
  <2>1. /\ Idle \in Work /\ Idle.incident = None /\ Idle.members = << >>
        /\ DOMAIN Idle = {"pc", "alert", "incident", "members"}
    BY DEF Idle, Work
  <2> HIDE DEF a
  <2> QED
    BY <1>1, <2>1 DEF Work, a
<1>3. work' = work \/ work' = [work EXCEPT ![w] = x]
  BY DEF Consume
<1> HIDE DEF x
<1>4. work' = work \/ Now(w, "check", a, None, << >>)
  BY <1>2, <1>3, Replaced
<1>5. work' = work \/ \E b \in Alerts : Now(w, "check", b, None, << >>)
  BY <1>1, <1>4
<1> QED
  BY <1>1, <1>5 DEF Consume, Awaits

LEMMA LooksUp ==
    ASSUME TypeOK, AtWork, Drawn, NEW w \in Replicas, Lookup(w)
    PROVE  /\ work[w].pc = "lookup" /\ work[w].alert \in Alerts
           /\ \/ \E i \in 1 .. created : Now(w, "load", work[w].alert, i, work[w].members)
              \/ Now(w, "create", work[w].alert, None, work[w].members)
           /\ UNCHANGED <<kafka, redis, output, bounds>>
<1> DEFINE i == index[CorrelationKey[work[w].alert]]
           x == [work[w] EXCEPT !.incident = i, !.pc = IF i = None THEN "create" ELSE "load"]
<1>1. work[w].pc = "lookup" /\ work[w].alert \in Alerts /\ work[w] \in Work
  BY WorkIs DEF Lookup, At, AtWork
<1>2. CorrelationKey[work[w].alert] \in Keys
  BY <1>1 DEF Keys
<1>3. i \in IncidentIds \cup {None} /\ (i # None => i \in 1 .. created)
  BY <1>2 DEF TypeOK, Drawn
<1>4. work' = [work EXCEPT ![w] = x]
  BY DEF Lookup
<1> HIDE DEF i
<1>5. /\ x \in Work /\ x.pc = (IF i = None THEN "create" ELSE "load")
      /\ x.alert = work[w].alert /\ x.incident = i /\ x.members = work[w].members
  BY <1>1, <1>3 DEF Work
<1> HIDE DEF x
<1>6. Now(w, IF i = None THEN "create" ELSE "load", work[w].alert, i, work[w].members)
  BY <1>4, <1>5, Replaced
<1> QED
  BY <1>1, <1>3, <1>6 DEF Lookup

LEMMA Loads ==
    ASSUME TypeOK, AtWork, NEW w \in Replicas, Load(w)
    PROVE  LET members == incidents[work[w].incident]
           IN /\ work[w].pc = "load" /\ work[w].alert \in Alerts
              /\ work[w].incident \in 1 .. created
              /\ \/ members # << >> /\ Now(w, "merge", work[w].alert, work[w].incident, members)
                 \/ Now(w, "create", work[w].alert, work[w].incident, members)
              /\ UNCHANGED <<kafka, redis, output, bounds>>
<1> DEFINE members == incidents[work[w].incident]
           p == IF members # << >> /\ Len(members) < MaxAlerts THEN "merge" ELSE "create"
           x == [work[w] EXCEPT !.members = members, !.pc = p]
<1>1. /\ work[w].pc = "load" /\ work[w].alert \in Alerts /\ work[w] \in Work
      /\ work[w].incident \in 1 .. created
  BY WorkIs DEF Load, At, AtWork, HasIncident
<1>2. members \in Seq(Alerts)
  BY <1>1, FusionAssumption DEF TypeOK, IncidentIds
<1>4. work' = [work EXCEPT ![w] = x]
  BY DEF Load
<1> HIDE DEF members
<1>5. /\ x \in Work /\ x.pc = p
      /\ x.alert = work[w].alert /\ x.incident = work[w].incident /\ x.members = members
  BY <1>1, <1>2 DEF Work
<1>6. p \in {"merge", "create"} /\ (p = "merge" => members # << >>)
  OBVIOUS
<1> HIDE DEF x, p
<1>7. Now(w, p, work[w].alert, work[w].incident, members)
  BY <1>4, <1>5, Replaced
<1> QED
  BY <1>1, <1>6, <1>7 DEF Load, members

LEMMA Creates ==
    ASSUME TypeOK, AtWork, NEW w \in Replicas, Create(w)
    PROVE  /\ work[w].pc = "create" /\ work[w].alert \in Alerts
           /\ created + 1 \in IncidentIds /\ created' = created + 1
           /\ Now(w, "index", work[w].alert, created + 1, work[w].members)
           /\ incidents' = [incidents EXCEPT ![created + 1] = <<work[w].alert>>]
           /\ incidents' \in [IncidentIds -> Seq(Alerts)]
           /\ grouped' = grouped \cup {work[w].alert}
           /\ UNCHANGED <<kafka, dedup, index, forgotten, output, bounds>>
<1> DEFINE x == [work[w] EXCEPT !.incident = created + 1, !.pc = "index"]
<1>1. work[w].pc = "create" /\ work[w].alert \in Alerts /\ work[w] \in Work
  BY WorkIs DEF Create, At, AtWork
<1>2. created + 1 \in IncidentIds
  BY FusionAssumption DEF TypeOK, Create, IncidentIds
<1>4. work' = [work EXCEPT ![w] = x]
  BY DEF Create
<1>5. /\ x \in Work /\ x.pc = "index"
      /\ x.alert = work[w].alert /\ x.incident = created + 1 /\ x.members = work[w].members
  BY <1>1, <1>2 DEF Work
<1> HIDE DEF x
<1>6. Now(w, "index", work[w].alert, created + 1, work[w].members)
  BY <1>4, <1>5, Replaced
<1>7. <<work[w].alert>> \in Seq(Alerts)
  BY <1>1
<1>8. incidents' \in [IncidentIds -> Seq(Alerts)]
  BY <1>2, <1>7 DEF TypeOK, Create
<1> QED
  BY <1>1, <1>2, <1>6, <1>8 DEF Create

LEMMA Merges ==
    ASSUME TypeOK, AtWork, NEW w \in Replicas, Merge(w)
    PROVE  /\ work[w].pc = "merge" /\ work[w].alert \in Alerts
           /\ work[w].incident \in 1 .. created /\ work[w].incident \in IncidentIds
           /\ work[w].members \in Seq(Alerts)
           /\ Now(w, "correlated", work[w].alert, work[w].incident, work[w].members)
           /\ incidents' = [incidents EXCEPT ![work[w].incident] =
                               Append(work[w].members, work[w].alert)]
           /\ incidents' \in [IncidentIds -> Seq(Alerts)]
           /\ grouped' = grouped \cup {work[w].alert}
           /\ UNCHANGED <<kafka, dedup, index, created, forgotten, output, bounds>>
<1>1. /\ work[w].pc = "merge" /\ work[w].alert \in Alerts
      /\ work[w].incident \in 1 .. created /\ work[w].members \in Seq(Alerts)
  BY WorkIs DEF Merge, At, AtWork, HasIncident
<1>2. work[w].incident \in IncidentIds
  BY <1>1, FusionAssumption DEF TypeOK, IncidentIds
<1>3. Append(work[w].members, work[w].alert) \in Seq(Alerts)
  BY <1>1
<1>4. incidents' \in [IncidentIds -> Seq(Alerts)]
  BY <1>2, <1>3 DEF TypeOK, Merge
<1>5. Now(w, "correlated", work[w].alert, work[w].incident, work[w].members)
  BY Advances DEF Merge
<1> QED
  BY <1>1, <1>2, <1>4, <1>5 DEF Merge

\* What is put in the outbox.
LEMMA Sends ==
    ASSUME TypeOK, NEW w \in Replicas, NEW decision, NEW ref, Send(w, decision, ref),
           [alert |-> work[w].alert, decision |-> decision, ref |-> ref] \in Fused
    PROVE  /\ outbox' \in [Replicas -> SUBSET Fused]
           /\ outbox'[w] = outbox[w] \cup
                 {[alert |-> work[w].alert, decision |-> decision, ref |-> ref]}
           /\ \A v \in Replicas \ {w} : outbox'[v] = outbox[v]
<1> DEFINE r == [alert |-> work[w].alert, decision |-> decision, ref |-> ref]
<1>1. outbox' = [outbox EXCEPT ![w] = @ \cup {r}]
  BY DEF Send
<1>2. r \in Fused
  OBVIOUS
<1> HIDE DEF r
<1>3. outbox' \in [Replicas -> SUBSET Fused]
  BY <1>1, <1>2 DEF TypeOK
<1>4. outbox'[w] = outbox[w] \cup {r} /\ \A v \in Replicas \ {w} : outbox'[v] = outbox[v]
  BY <1>1 DEF TypeOK
<1> QED
  BY <1>3, <1>4 DEF r

LEMMA Checks ==
    ASSUME TypeOK, AtWork, NEW w \in Replicas, CheckDuplicate(w)
    PROVE  LET original == dedup[Fingerprint[work[w].alert]]
           IN /\ work[w].pc = "check" /\ work[w].alert \in Alerts
              /\ Fingerprint[work[w].alert] \in Fingerprints
              /\ \/ /\ original = None /\ outbox' = outbox
                    /\ Now(w, "register", work[w].alert, work[w].incident, work[w].members)
                 \/ /\ original \in Alerts /\ Now(w, "idle", None, None, << >>)
                    /\ Send(w, "duplicate", original)
                    /\ [alert |-> work[w].alert, decision |-> "duplicate",
                        ref |-> original] \in Fused
              /\ UNCHANGED <<kafka, redis, fused, bounds>>
<1> DEFINE original == dedup[Fingerprint[work[w].alert]]
<1>1. work[w].pc = "check" /\ work[w].alert \in Alerts
  BY WorkIs DEF CheckDuplicate, At, AtWork
<1>2. Fingerprint[work[w].alert] \in Fingerprints
  BY <1>1 DEF Fingerprints
<1>3. original \in Alerts \cup {None}
  BY <1>2 DEF TypeOK
<1>4. CASE original = None
  <2>1. work' = [work EXCEPT ![w].pc = "register"] /\ outbox' = outbox
    BY <1>4 DEF CheckDuplicate
  <2> QED
    BY <1>1, <1>2, <1>4, <2>1, Advances DEF CheckDuplicate
<1>5. CASE original # None
  <2>1. work' = [work EXCEPT ![w] = Idle] /\ Send(w, "duplicate", original)
    BY <1>5 DEF CheckDuplicate
  <2>2. [alert |-> work[w].alert, decision |-> "duplicate", ref |-> original] \in Fused
    BY <1>1, <1>3, <1>5 DEF Fused
  <2> QED
    BY <1>1, <1>2, <1>3, <1>5, <2>1, <2>2, Stops DEF CheckDuplicate
<1> QED
  BY <1>4, <1>5

LEMMA Publishes ==
    ASSUME TypeOK, AtWork, NEW w \in Replicas, Publish(w)
    PROVE  /\ work[w].pc \in {"correlated", "new_incident"} /\ work[w].alert \in Alerts
           /\ work[w].incident \in 1 .. created
           /\ Now(w, "idle", None, None, << >>)
           /\ Send(w, work[w].pc, work[w].incident)
           /\ [alert |-> work[w].alert, decision |-> work[w].pc,
               ref |-> work[w].incident] \in Fused
           /\ UNCHANGED <<kafka, redis, fused, bounds>>
<1>1. /\ work[w].pc \in {"correlated", "new_incident"} /\ work[w].alert \in Alerts
      /\ work[w].incident \in 1 .. created
  BY WorkIs DEF Publish, AtWork, HasIncident
<1>2. work[w].incident \in IncidentIds
  BY <1>1, FusionAssumption DEF TypeOK, IncidentIds
<1>3. [alert |-> work[w].alert, decision |-> work[w].pc, ref |-> work[w].incident] \in Fused
  BY <1>1, <1>2 DEF Fused
<1> QED
  BY <1>1, <1>3, Stops DEF Publish

-----------------------------------------------------------------------------
(***************************************************************************)
(* Types, for any number of replicas                                       *)
(***************************************************************************)
LEMMA TypesInit == Init => Types
<1> SUFFICES ASSUME Init PROVE Types
  OBVIOUS
<1>1. Idle \in Work /\ Idle.pc = "idle"
  BY DEF Idle, Work
<1>2. /\ topic \in [Replicas -> Seq(Alerts)] /\ incidents \in [IncidentIds -> Seq(Alerts)]
      /\ \A w \in Replicas : Len(topic[w]) = 0
  BY DEF Init
<1>3. TypeOK
  BY <1>1, <1>2, FusionAssumption DEF Init, TypeOK, Idle
<1>4. AtWork /\ Drawn
  BY <1>1 DEF Init, AtWork, Drawn, HasIncident
<1> QED
  BY <1>3, <1>4 DEF Types

\* A replica moves and neither Kafka nor Redis changes.
LEMMA TypesOfMove ==
    ASSUME Types, NEW w \in Replicas, NEW p, NEW a, NEW i, NEW m, Now(w, p, a, i, m),
           p # "idle" => a \in Alerts,
           p \in HasIncident => i \in 1 .. created',
           created' \in Nat, created' >= created,
           \A k \in Keys : index'[k] # None => index'[k] \in 1 .. created',
           UNCHANGED output
    PROVE  AtWork' /\ Drawn'
<1>0. created \in Nat
  BY FusionAssumption DEF Types, TypeOK
<1>1. AtWork'
  BY <1>0 DEF Types, AtWork, Now
<1>2. outbox' = outbox /\ fused' = fused
  BY DEF output
<1>3. Drawn'
  BY <1>0, <1>2 DEF Types, Drawn, Announces
<1> QED
  BY <1>1, <1>3

LEMMA TypesStep == Types /\ [Next]_vars => Types'
<1> SUFFICES ASSUME Types, [Next]_vars PROVE Types'
  OBVIOUS
<1>0. TypeOK /\ AtWork /\ Drawn
  BY DEF Types
<1>a. created \in Nat /\ created \in 0 .. MaxIncidents
  BY <1>0, FusionAssumption DEF TypeOK
<1>b. \A k \in Keys : index[k] # None => index[k] \in 1 .. created
  BY <1>0 DEF Drawn
<1>1. ASSUME NEW w \in Replicas, NEW a \in Alerts, Produce(w, a) PROVE Types'
  <2>1. topic' \in [Replicas -> Seq(Alerts)]
    BY <1>0, <1>1 DEF TypeOK, Produce
  <2>2. \A v \in Replicas : Len(topic'[v]) >= Len(topic[v]) /\ Len(topic[v]) \in Nat
    BY <1>0, <1>1 DEF TypeOK, Produce
  <2>3. /\ UNCHANGED <<position, committed, listening, work, dedup, index, incidents, created>>
        /\ UNCHANGED <<forgotten, grouped, outbox, fused, crashes, errors>>
    BY <1>1 DEF Produce, redis, output, bounds
  <2>4. TypeOK'
    BY <1>0, <2>1, <2>2, <2>3 DEF TypeOK
  <2> QED
    BY <1>0, <2>3, <2>4 DEF Types, AtWork, Drawn, Announces
<1>2. ASSUME NEW w \in Replicas, Consume(w) PROVE Types'
  <2>1. /\ work' = work \/ \E a \in Alerts : Now(w, "check", a, None, << >>)
        /\ position[w] + 1 \in 1 .. Len(topic[w])
        /\ position' = [position EXCEPT ![w] = position[w] + 1]
        /\ UNCHANGED <<topic, committed, listening, redis, output, bounds>>
    BY <1>0, <1>2, Consumes
  <2>2. work' \in [Replicas -> Work]
    BY <1>0, <2>1 DEF TypeOK, Now
  <2>3. /\ position' \in [Replicas -> Nat]
        /\ \A v \in Replicas : /\ position'[v] <= Len(topic[v])
                               /\ committed[v] # None => committed[v] <= position'[v]
    BY <1>0, <2>1 DEF TypeOK
  <2>4. TypeOK'
    BY <1>0, <2>1, <2>2, <2>3 DEF TypeOK, redis, output, bounds
  <2>5. AtWork' /\ Drawn'
    <3>1. CASE work' = work
      BY <1>0, <2>1, <3>1 DEF AtWork, Drawn, Announces, redis, output
    <3>2. CASE \E a \in Alerts : Now(w, "check", a, None, << >>)
      BY <1>a, <1>b, <2>1, <3>2, TypesOfMove DEF redis, HasIncident
    <3> QED
      BY <2>1, <3>1, <3>2
  <2> QED
    BY <2>4, <2>5 DEF Types
<1>3. ASSUME NEW w \in Replicas, CheckDuplicate(w) PROVE Types'
  <2> DEFINE original == dedup[Fingerprint[work[w].alert]]
  <2>1. /\ \/ /\ outbox' = outbox
              /\ Now(w, "register", work[w].alert, work[w].incident, work[w].members)
           \/ /\ Now(w, "idle", None, None, << >>)
              /\ Send(w, "duplicate", original)
              /\ [alert |-> work[w].alert, decision |-> "duplicate",
                  ref |-> original] \in Fused
        /\ work[w].alert \in Alerts
        /\ UNCHANGED <<kafka, redis, fused, bounds>>
    BY <1>0, <1>3, Checks
  <2>2. /\ UNCHANGED <<topic, position, committed, listening, dedup, index, incidents, created>>
        /\ UNCHANGED <<forgotten, grouped, crashes, errors, fused>>
    BY <2>1 DEF kafka, redis, bounds
  <2>3. outbox' \in [Replicas -> SUBSET Fused] /\ work' \in [Replicas -> Work]
    BY <1>0, <2>1, Sends DEF Now, TypeOK
  <2>4. TypeOK'
    BY <1>0, <2>2, <2>3 DEF TypeOK
  <2>5. AtWork'
    BY <1>0, <2>1, <2>2 DEF AtWork, Now, HasIncident
  <2>6. Drawn'
    <3>1. \A v \in Replicas : \A r \in outbox'[v] : r \in outbox[v] \/ r.decision = "duplicate"
      BY <1>0, <2>1, Sends
    <3> QED
      BY <1>0, <2>2, <3>1 DEF Drawn, Announces
  <2> QED
    BY <2>4, <2>5, <2>6 DEF Types
<1>4. ASSUME NEW w \in Replicas, Register(w) PROVE Types'
  <2>1. /\ work[w].pc = "register" /\ work[w].alert \in Alerts
        /\ Now(w, "lookup", work[w].alert, work[w].incident, work[w].members)
        /\ UNCHANGED <<kafka, index, incidents, created, forgotten, grouped, output, bounds>>
    BY <1>0, <1>4, WorkIs, Advances DEF Register, At, AtWork
  <2>2. dedup' \in [Fingerprints -> Alerts \cup {None}]
    BY <1>0, <1>4, <2>1 DEF TypeOK, Register
  <2>3. TypeOK'
    BY <1>0, <2>1, <2>2 DEF TypeOK, kafka, output, bounds, Now
  <2>4. AtWork' /\ Drawn'
    BY <1>a, <1>b, <2>1, TypesOfMove DEF HasIncident
  <2> QED
    BY <2>3, <2>4 DEF Types
<1>5. ASSUME NEW w \in Replicas, NEW p, NEW i, NEW m,
             Now(w, p, work[w].alert, i, m), work[w].alert \in Alerts,
             p \in HasIncident => i \in 1 .. created,
             UNCHANGED <<kafka, redis, output, bounds>>
      PROVE  Types'
  <2>1. TypeOK'
    BY <1>0, <1>5 DEF TypeOK, kafka, redis, output, bounds, Now
  <2>2. created' = created /\ index' = index
    BY <1>5 DEF redis
  <2>3. AtWork' /\ Drawn'
    BY <1>a, <1>b, <1>5, <2>2, TypesOfMove
  <2> QED
    BY <2>1, <2>3 DEF Types
<1>6. ASSUME NEW w \in Replicas, Lookup(w) PROVE Types'
  BY <1>0, <1>5, <1>6, LooksUp DEF HasIncident
<1>7. ASSUME NEW w \in Replicas, Load(w) PROVE Types'
  BY <1>0, <1>5, <1>7, Loads DEF HasIncident
<1>8. ASSUME NEW w \in Replicas, Merge(w) PROVE Types'
  <2>1. /\ Now(w, "correlated", work[w].alert, work[w].incident, work[w].members)
        /\ work[w].alert \in Alerts /\ work[w].incident \in 1 .. created
        /\ incidents' \in [IncidentIds -> Seq(Alerts)]
        /\ grouped' = grouped \cup {work[w].alert}
        /\ UNCHANGED <<kafka, dedup, index, created, forgotten, output, bounds>>
    BY <1>0, <1>8, Merges
  <2>2. TypeOK'
    BY <1>0, <2>1 DEF TypeOK, kafka, output, bounds, Now
  <2>3. AtWork' /\ Drawn'
    BY <1>a, <1>b, <2>1, TypesOfMove DEF HasIncident
  <2> QED
    BY <2>2, <2>3 DEF Types
<1>9. ASSUME NEW w \in Replicas, Create(w) PROVE Types'
  <2>1. /\ Now(w, "index", work[w].alert, created + 1, work[w].members)
        /\ work[w].alert \in Alerts
        /\ created + 1 \in IncidentIds /\ created' = created + 1
        /\ incidents' \in [IncidentIds -> Seq(Alerts)]
        /\ grouped' = grouped \cup {work[w].alert}
        /\ UNCHANGED <<kafka, dedup, index, forgotten, output, bounds>>
    BY <1>0, <1>9, Creates
  <2>2. created' \in 0 .. MaxIncidents /\ created' >= created /\ created + 1 \in 1 .. created'
        /\ \A k \in Keys : index'[k] # None => index'[k] \in 1 .. created'
    BY <1>a, <1>b, <2>1 DEF IncidentIds
  <2>3. TypeOK'
    BY <1>0, <2>1, <2>2 DEF TypeOK, kafka, output, bounds, Now
  <2>4. AtWork' /\ Drawn'
    BY <2>1, <2>2, TypesOfMove DEF HasIncident
  <2> QED
    BY <2>3, <2>4 DEF Types
<1>10. ASSUME NEW w \in Replicas, Index(w) PROVE Types'
  <2>1. /\ work[w].alert \in Alerts /\ work[w].incident \in 1 .. created
        /\ Now(w, "new_incident", work[w].alert, work[w].incident, work[w].members)
        /\ index' = [index EXCEPT ![CorrelationKey[work[w].alert]] = work[w].incident]
        /\ UNCHANGED <<kafka, dedup, incidents, created, forgotten, grouped, output, bounds>>
    BY <1>0, <1>10, WorkIs, Advances DEF Index, At, AtWork, HasIncident
  <2>2. /\ index' \in [Keys -> IncidentIds \cup {None}]
        /\ \A k \in Keys : index'[k] # None => index'[k] \in 1 .. created
    <3>1. work[w].incident \in IncidentIds
      BY <1>a, <2>1, FusionAssumption DEF IncidentIds
    <3>2. index' \in [Keys -> IncidentIds \cup {None}]
      BY <1>0, <2>1, <3>1 DEF TypeOK
    <3>3. \A k \in Keys : index'[k] = index[k] \/ index'[k] = work[w].incident
      BY <1>0, <2>1 DEF TypeOK
    <3> QED
      BY <1>b, <2>1, <3>2, <3>3
  <2>3. TypeOK'
    BY <1>0, <2>1, <2>2 DEF TypeOK, kafka, output, bounds, Now
  <2>4. AtWork' /\ Drawn'
    BY <1>a, <2>1, <2>2, TypesOfMove
  <2> QED
    BY <2>3, <2>4 DEF Types
<1>11. ASSUME NEW w \in Replicas, Publish(w) PROVE Types'
  <2>1. /\ Now(w, "idle", None, None, << >>)
        /\ Send(w, work[w].pc, work[w].incident)
        /\ work[w].incident \in 1 .. created
        /\ [alert |-> work[w].alert, decision |-> work[w].pc,
            ref |-> work[w].incident] \in Fused
        /\ UNCHANGED <<kafka, redis, fused, bounds>>
    BY <1>0, <1>11, Publishes
  <2>2. /\ UNCHANGED <<topic, position, committed, listening, dedup, index, incidents, created>>
        /\ UNCHANGED <<forgotten, grouped, crashes, errors, fused>>
    BY <2>1 DEF kafka, redis, bounds
  <2>3. outbox' \in [Replicas -> SUBSET Fused] /\ work' \in [Replicas -> Work]
    BY <1>0, <2>1, Sends DEF Now
  <2>4. TypeOK'
    BY <1>0, <2>2, <2>3 DEF TypeOK
  <2>5. AtWork'
    BY <1>0, <2>1, <2>2 DEF AtWork, Now, HasIncident
  <2>6. Drawn'
    <3>1. \A v \in Replicas : \A r \in outbox'[v] :
             r \in outbox[v] \/ r.ref = work[w].incident
      BY <1>0, <2>1, Sends
    <3> QED
      BY <1>0, <2>1, <2>2, <3>1 DEF Drawn, Announces
  <2> QED
    BY <2>4, <2>5, <2>6 DEF Types
<1>12. ASSUME NEW w \in Replicas, Deliver(w) PROVE Types'
  <2>1. /\ fused' = fused \cup outbox[w] /\ outbox' = [outbox EXCEPT ![w] = {}]
        /\ UNCHANGED <<kafka, work, redis, bounds>>
    BY <1>12 DEF Deliver
  <2>2. fused' \subseteq Fused /\ outbox' \in [Replicas -> SUBSET Fused]
    BY <1>0, <2>1 DEF TypeOK
  <2>3. TypeOK'
    BY <1>0, <2>1, <2>2 DEF TypeOK, kafka, redis, bounds
  <2>4. AtWork'
    BY <1>0, <2>1 DEF AtWork, redis
  <2>5. Drawn'
    BY <1>0, <2>1 DEF Drawn, Announces, redis, TypeOK
  <2> QED
    BY <2>3, <2>4, <2>5 DEF Types
<1>13. ASSUME NEW w \in Replicas, AutoCommit(w) PROVE Types'
  <2>1. /\ committed' = [committed EXCEPT ![w] = position[w]]
        /\ UNCHANGED <<topic, position, listening, work, redis, output, bounds>>
    BY <1>13 DEF AutoCommit
  <2>2. /\ committed' \in [Replicas -> Nat \cup {None}]
        /\ \A v \in Replicas : committed'[v] # None => committed'[v] <= position[v]
    BY <1>0, <2>1 DEF TypeOK
  <2>3. TypeOK'
    BY <1>0, <2>1, <2>2 DEF TypeOK, redis, output, bounds
  <2> QED
    BY <1>0, <2>1, <2>3 DEF Types, AtWork, Drawn, Announces, redis, output
<1>14. ASSUME NEW w \in Replicas, Crash(w) PROVE Types'
  <2>1. /\ crashes' = crashes + 1
        /\ Now(w, "idle", None, None, << >>)
        /\ outbox' = [outbox EXCEPT ![w] = {}]
        /\ position' = [position EXCEPT ![w] =
              IF committed[w] = None THEN Len(topic[w]) ELSE committed[w]]
        /\ listening' = [listening EXCEPT ![w] = TRUE]
        /\ UNCHANGED <<topic, committed, redis, fused, errors>>
    BY <1>0, <1>14, Stops DEF Crash
  <2>2. /\ position' \in [Replicas -> Nat]
        /\ \A v \in Replicas : /\ position'[v] <= Len(topic[v])
                               /\ committed[v] # None => committed[v] <= position'[v]
    <3>1. committed[w] # None => committed[w] \in Nat /\ committed[w] <= Len(topic[w])
      BY <1>0 DEF TypeOK
    <3>2. Len(topic[w]) \in Nat
      BY <1>0 DEF TypeOK
    <3>3. position' \in [Replicas -> Nat]
      BY <1>0, <2>1, <3>1, <3>2 DEF TypeOK
    <3> QED
      BY <1>0, <2>1, <3>1, <3>2, <3>3 DEF TypeOK
  <2>3. /\ outbox' \in [Replicas -> SUBSET Fused] /\ crashes' \in Nat
        /\ listening' \in [Replicas -> BOOLEAN]
    BY <1>0, <2>1 DEF TypeOK
  <2>4. TypeOK'
    BY <1>0, <2>1, <2>2, <2>3 DEF TypeOK, redis, Now
  <2>5. AtWork'
    BY <1>0, <2>1 DEF AtWork, Now, HasIncident, redis
  <2>6. Drawn'
    BY <1>0, <2>1 DEF Drawn, Announces, redis, TypeOK
  <2> QED
    BY <2>4, <2>5, <2>6 DEF Types
<1>15. ASSUME NEW w \in Replicas, ProcessError(w) PROVE Types'
  <2>1. /\ errors' = errors + 1
        /\ Now(w, "idle", None, None, << >>)
        /\ UNCHANGED <<kafka, redis, output, crashes>>
    BY <1>0, <1>15, Stops DEF ProcessError
  <2>2. TypeOK'
    BY <1>0, <2>1 DEF TypeOK, redis, kafka, output, Now
  <2>3. AtWork' /\ Drawn'
    BY <1>a, <1>b, <2>1, TypesOfMove DEF HasIncident, redis
  <2> QED
    BY <2>2, <2>3 DEF Types
<1>18. ASSUME NEW w \in Replicas, ConsumeStops(w) PROVE Types'
  <2>1. /\ listening' \in [Replicas -> BOOLEAN]
        /\ UNCHANGED <<topic, position, committed, work, redis, output, bounds>>
    BY <1>0, <1>18 DEF ConsumeStops, TypeOK
  <2>2. TypeOK'
    BY <1>0, <2>1 DEF TypeOK, redis, output, bounds
  <2> QED
    BY <1>0, <2>1, <2>2 DEF Types, AtWork, Drawn, Announces, redis, output
<1>19. ASSUME NEW w \in Replicas, DeliveryFails(w) PROVE Types'
  <2>1. /\ errors' = errors + 1 /\ outbox' = [outbox EXCEPT ![w] = {}]
        /\ UNCHANGED <<kafka, work, redis, fused, crashes>>
    BY <1>19 DEF DeliveryFails
  <2>2. outbox' \in [Replicas -> SUBSET Fused] /\ errors' \in Nat
    BY <1>0, <2>1 DEF TypeOK
  <2>3. TypeOK'
    BY <1>0, <2>1, <2>2 DEF TypeOK, kafka, redis
  <2>4. AtWork'
    BY <1>0, <2>1 DEF AtWork, redis
  <2>5. Drawn'
    BY <1>0, <2>1 DEF Drawn, Announces, redis, TypeOK
  <2> QED
    BY <2>3, <2>4, <2>5 DEF Types
<1>16. CASE Expire
  <2>1. /\ UNCHANGED <<kafka, work, created, grouped, output, bounds>>
        /\ \/ \E f \in Fingerprints : ExpireFingerprint(f)
           \/ \E k \in Keys : ExpireIndex(k)
           \/ \E i \in IncidentIds : ExpireIncident(i)
    BY <1>16 DEF Expire, ExpireFingerprint, ExpireIndex, ExpireIncident
  <2>2. /\ dedup' \in [Fingerprints -> Alerts \cup {None}] /\ forgotten' \subseteq Fingerprints
        /\ index' \in [Keys -> IncidentIds \cup {None}]
        /\ incidents' \in [IncidentIds -> Seq(Alerts)]
        /\ \A k \in Keys : index'[k] # None => index'[k] = index[k]
    <3>1. CASE \E f \in Fingerprints : ExpireFingerprint(f)
      BY <1>0, <3>1 DEF TypeOK, ExpireFingerprint
    <3>2. CASE \E k \in Keys : ExpireIndex(k)
      BY <1>0, <3>2 DEF TypeOK, ExpireIndex
    <3>3. CASE \E i \in IncidentIds : ExpireIncident(i)
      <4>1. << >> \in Seq(Alerts)
        OBVIOUS
      <4> QED
        BY <1>0, <3>3, <4>1 DEF TypeOK, ExpireIncident
    <3> QED
      BY <2>1, <3>1, <3>2, <3>3
  <2>3. TypeOK'
    BY <1>0, <2>1, <2>2 DEF TypeOK, kafka, output, bounds
  <2> QED
    BY <1>0, <2>1, <2>2, <2>3 DEF Types, AtWork, Drawn, Announces, output
<1>17. CASE UNCHANGED vars
  BY <1>0, <1>17 DEF Types, TypeOK, AtWork, Drawn, Announces, vars, kafka, redis, output, bounds
<1> QED
  BY <1>1, <1>2, <1>3, <1>4, <1>6, <1>7, <1>8, <1>9, <1>10, <1>11, <1>12, <1>13, <1>14,
     <1>15, <1>16, <1>17, <1>18, <1>19 DEF Next, Process

-----------------------------------------------------------------------------
(***************************************************************************)
(* One replica: what a step keeps                                          *)
(***************************************************************************)
OneInv(w) == Types /\ Stored(w) /\ Counted(w) /\ Suppressed(w)

LEMMA ContainsAppended ==
    ASSUME NEW S, NEW s \in Seq(S), NEW e, NEW x, Contains(s, x) \/ x = e, e \in S
    PROVE  Contains(Append(s, e), x)
<1>1. /\ Len(Append(s, e)) = Len(s) + 1 /\ Len(s) \in Nat
      /\ \A n \in 1 .. Len(s) : Append(s, e)[n] = s[n]
      /\ Append(s, e)[Len(s) + 1] = e
  OBVIOUS
<1>2. CASE Contains(s, x)
  <2>1. PICK n \in 1 .. Len(s) : s[n] = x
    BY <1>2 DEF Contains
  <2>2. n \in 1 .. Len(s) + 1
    BY <1>1
  <2> QED
    BY <1>1, <2>1, <2>2 DEF Contains
<1>3. CASE x = e
  BY <1>1, <1>3 DEF Contains
<1> QED
  BY <1>2, <1>3

LEMMA RecordsOfOne ==
    ASSUME NEW w, Replicas = {w}
    PROVE  Records = fused \cup outbox[w] /\ Records' = fused' \cup outbox'[w]
BY DEF Records

\* What is announced of an incident is announced of one that was created.
LEMMA RefersToIncident ==
    ASSUME NEW w, Replicas = {w}, Types, NEW r \in Records, r.decision # "duplicate"
    PROVE  r.ref \in 1 .. created /\ r.ref \in IncidentIds
<1>1. r.ref \in 1 .. created
  BY RecordsOfOne DEF Types, Drawn, Announces
<1> QED
  BY <1>1, FusionAssumption DEF Types, TypeOK, IncidentIds

LEMMA StoredKept ==
    ASSUME NEW w, Replicas = {w}, Types, Stored(w),
           \A r \in Records' : r \in Records \/ r.decision = "duplicate",
           \A i \in IncidentIds : incidents'[i] \in {incidents[i], << >>},
           work'[w].pc = "merge" =>
               /\ work[w].pc = "merge"
               /\ work'[w].incident = work[w].incident /\ work'[w].members = work[w].members,
           work'[w].pc \in {"correlated", "index", "new_incident"} =>
               /\ work[w].pc \in {"correlated", "index", "new_incident"}
               /\ work'[w].incident = work[w].incident /\ work'[w].alert = work[w].alert
    PROVE  Stored(w)'
<1>1. work[w].pc \in HasIncident => work[w].incident \in IncidentIds
  BY FusionAssumption DEF Types, AtWork, TypeOK, IncidentIds
<1>2. PublishedIsStored'
  <2> SUFFICES ASSUME NEW r \in Records', r.decision # "duplicate", incidents'[r.ref] # << >>
               PROVE  Contains(incidents'[r.ref], r.alert)
    BY DEF PublishedIsStored
  <2>1. r \in Records
    OBVIOUS
  <2>2. r.ref \in IncidentIds
    BY <2>1, RefersToIncident
  <2>3. incidents'[r.ref] = incidents[r.ref]
    BY <2>2
  <2> QED
    BY <2>1, <2>3 DEF Stored, PublishedIsStored
<1>3. ASSUME work'[w].pc = "merge"
      PROVE  /\ \A r \in Records' :
                   r.decision # "duplicate" /\ r.ref = work'[w].incident
                       => Contains(work'[w].members, r.alert)
             /\ incidents'[work'[w].incident] \in {work'[w].members, << >>}
  BY <1>1, <1>3 DEF Stored, HasIncident
<1>4. ASSUME work'[w].pc \in {"correlated", "index", "new_incident"},
             incidents'[work'[w].incident] # << >>
      PROVE  Contains(incidents'[work'[w].incident], work'[w].alert)
  BY <1>1, <1>4 DEF Stored, HasIncident
<1> QED
  BY <1>2, <1>3, <1>4 DEF Stored

LEMMA CountedKept ==
    ASSUME NEW w, Replicas = {w}, Counted(w),
           \A i \in IncidentIds : Held(w, i)' \in {Held(w, i), << >>},
           forgotten \subseteq forgotten',
           \A a \in Alerts : Fingerprint[a] \notin forgotten'
               => dedup'[Fingerprint[a]] = dedup[Fingerprint[a]],
           work'[w].pc = "register" => dedup'[Fingerprint[work'[w].alert]] = None,
           work'[w].pc \in Ungrouped =>
               /\ work[w].pc \in Ungrouped /\ work'[w].alert = work[w].alert
               /\ work[w].alert \in Alerts
    PROVE  Counted(w)'
<1>1. \A i \in IncidentIds : \A m \in DOMAIN Held(w, i)' :
         m \in DOMAIN Held(w, i) /\ Held(w, i)'[m] = Held(w, i)[m]
  <2>1. DOMAIN << >> = {}
    OBVIOUS
  <2> QED
    BY <2>1
<1> HIDE DEF Held
<1>2. ASSUME NEW a \in Alerts, Fingerprint[a] \notin forgotten', NEW i \in IncidentIds,
             NEW j \in IncidentIds, NEW m \in DOMAIN Held(w, i)', NEW n \in DOMAIN Held(w, j)',
             Held(w, i)'[m] = a, Held(w, j)'[n] = a
      PROVE  i = j /\ m = n
  BY <1>1, <1>2 DEF Counted
<1>3. ASSUME NEW a \in Alerts, Fingerprint[a] \notin forgotten', dedup'[Fingerprint[a]] = None,
             NEW i \in IncidentIds, NEW m \in DOMAIN Held(w, i)'
      PROVE  Held(w, i)'[m] # a
  BY <1>1, <1>3 DEF Counted
<1>4. ASSUME work'[w].pc \in Ungrouped, Fingerprint[work'[w].alert] \notin forgotten'
      PROVE  /\ dedup'[Fingerprint[work'[w].alert]] # None
             /\ \A i \in IncidentIds : \A m \in DOMAIN Held(w, i)' :
                   Held(w, i)'[m] # work'[w].alert
  BY <1>1, <1>4 DEF Counted
<1> QED
  BY <1>2, <1>3, <1>4 DEF Counted, Ungrouped

LEMMA SuppressedKept ==
    ASSUME NEW w, Replicas = {w}, Suppressed(w), Undisturbed' => Undisturbed,
           \A r \in Records' : r.decision = "duplicate" /\ Undisturbed
               => r \in Records \/ r.ref \in grouped,
           grouped \subseteq grouped',
           \A f \in Fingerprints : dedup'[f] \in {dedup[f], None},
           work[w].pc \in Ungrouped /\ Undisturbed' =>
               \/ work'[w].pc \in Ungrouped /\ work'[w].alert = work[w].alert
               \/ work[w].alert \in grouped'
    PROVE  Suppressed(w)'
BY DEF Suppressed, Ungrouped

\* A replica whose work and whose stores stay where they are.
LEMMA AllKept ==
    ASSUME NEW w, Replicas = {w}, OneInv(w), Types',
           UNCHANGED <<work, incidents, dedup, forgotten, grouped, bounds>>,
           Records' \subseteq Records
    PROVE  OneInv(w)'
<1>1. Stored(w)'
  BY StoredKept DEF OneInv
<1>2. Counted(w)'
  <2>1. \A i : Held(w, i)' = Held(w, i)
    BY DEF Held
  <2>2. work[w].pc \in Ungrouped => work[w].alert \in Alerts
    BY DEF OneInv, Types, AtWork, Ungrouped
  <2>3. work'[w].pc = "register" => dedup'[Fingerprint[work'[w].alert]] = None
    BY DEF OneInv, Counted
  <2> HIDE DEF Held
  <2> QED
    BY <2>1, <2>2, <2>3, CountedKept DEF OneInv
<1>3. Suppressed(w)'
  BY SuppressedKept DEF OneInv, Undisturbed, bounds
<1> QED
  BY <1>1, <1>2, <1>3 DEF OneInv

\* A move to p that neither gives up an alert on its way into an incident
\* nor starts on another.
Harmless(w, p, a, i) ==
    \/ p \in {"idle", "check"} /\ (work[w].pc \in Ungrouped => ~Undisturbed')
    \/ p = "register" /\ dedup[Fingerprint[a]] = None /\ work[w].pc = "check"
    \/ p \in {"load", "create"} /\ a = work[w].alert /\ work[w].pc \in {"lookup", "load"}
    \/ /\ p = "new_incident" /\ a = work[w].alert /\ i = work[w].incident
       /\ work[w].pc = "index"

\* What is announced is at most one more duplicate, of a grouped alert.
OnlyDuplicates ==
    /\ Undisturbed' => Undisturbed
    /\ \A r \in Records' :
          \/ r \in Records
          \/ r.decision = "duplicate" /\ (Undisturbed => r.ref \in grouped)

\* A replica moves without touching the fingerprints or the incidents.
LEMMA KeptByMove ==
    ASSUME NEW w, Replicas = {w}, OneInv(w), Types', NEW p, NEW a, NEW i, NEW m,
           Now(w, p, a, i, m),
           Harmless(w, p, a, i), OnlyDuplicates,
           UNCHANGED <<incidents, dedup, forgotten, grouped>>
    PROVE  OneInv(w)'
<1>1. Stored(w)'
  BY StoredKept DEF OneInv, Now, Harmless, OnlyDuplicates
<1>2. Counted(w)'
  <2>1. \A j \in IncidentIds : Held(w, j)' \in {Held(w, j), << >>}
    BY DEF Held, Now, OneInv, Stored, Harmless
  <2>2. work[w].pc \in Ungrouped => work[w].alert \in Alerts
    BY DEF OneInv, Types, AtWork, Ungrouped
  <2> HIDE DEF Held
  <2> QED
    BY <2>1, <2>2, CountedKept DEF OneInv, Now, Ungrouped, Harmless
<1>3. Suppressed(w)'
  BY SuppressedKept DEF OneInv, Now, Ungrouped, Harmless, OnlyDuplicates
<1> QED
  BY <1>1, <1>2, <1>3 DEF OneInv

\* The alert at work is put at the end of an incident, or in a new one.
LEMMA CountedOfSave ==
    ASSUME NEW w, Replicas = {w}, Types, Counted(w), work[w].pc \in Ungrouped,
           NEW at \in IncidentIds,
           UNCHANGED <<dedup, forgotten>>,
           work'[w].pc \in {"correlated", "index"},
           \A i \in IncidentIds \ {at} : incidents'[i] = Held(w, i),
           \/ incidents'[at] = Append(Held(w, at), work[w].alert) /\ Held(w, at) \in Seq(Alerts)
           \/ incidents'[at] = <<work[w].alert>>
    PROVE  Counted(w)'
<1> DEFINE a == work[w].alert
<1>1. a \in Alerts
  BY DEF Types, AtWork, Ungrouped
<1>2. \A i \in IncidentIds : Held(w, i)' = incidents'[i]
  BY DEF Held
<1> HIDE DEF Held
\* Each element was there before, or is the one that is new.
<1>3. \E new :
         /\ new \in DOMAIN incidents'[at] /\ incidents'[at][new] = a
         /\ \A n \in DOMAIN incidents'[at] : n # new =>
               n \in DOMAIN Held(w, at) /\ incidents'[at][n] = Held(w, at)[n]
  <2>1. CASE incidents'[at] = Append(Held(w, at), a) /\ Held(w, at) \in Seq(Alerts)
    <3>1. /\ Len(Held(w, at)) + 1 \in DOMAIN incidents'[at]
          /\ incidents'[at][Len(Held(w, at)) + 1] = a
          /\ \A n \in DOMAIN incidents'[at] : n # Len(Held(w, at)) + 1 =>
                n \in DOMAIN Held(w, at) /\ incidents'[at][n] = Held(w, at)[n]
      BY <2>1
    <3> QED
      BY <3>1
  <2>2. CASE incidents'[at] = <<a>>
    <3>1. 1 \in DOMAIN incidents'[at] /\ incidents'[at][1] = a
          /\ \A n \in DOMAIN incidents'[at] : n = 1
      BY <2>2
    <3> QED
      BY <3>1
  <2> QED
    BY <2>1, <2>2
<1>4. PICK new :
         /\ new \in DOMAIN incidents'[at] /\ incidents'[at][new] = a
         /\ \A n \in DOMAIN incidents'[at] : n # new =>
               n \in DOMAIN Held(w, at) /\ incidents'[at][n] = Held(w, at)[n]
  BY <1>3
<1>5. \A i \in IncidentIds : \A m \in DOMAIN incidents'[i] :
         \/ i = at /\ m = new /\ incidents'[i][m] = a
         \/ m \in DOMAIN Held(w, i) /\ incidents'[i][m] = Held(w, i)[m]
  BY <1>4
<1>6. Fingerprint[a] \notin forgotten =>
         /\ dedup[Fingerprint[a]] # None
         /\ \A i \in IncidentIds : \A m \in DOMAIN Held(w, i) : Held(w, i)[m] # a
  BY DEF Counted
<1> HIDE DEF a
<1>7. ASSUME NEW b \in Alerts, Fingerprint[b] \notin forgotten, NEW i \in IncidentIds,
             NEW j \in IncidentIds, NEW m \in DOMAIN incidents'[i],
             NEW n \in DOMAIN incidents'[j], incidents'[i][m] = b, incidents'[j][n] = b
      PROVE  i = j /\ m = n
  <2>1. CASE b = a
    BY <1>5, <1>6, <1>7, <2>1
  <2>2. CASE b # a
    BY <1>5, <1>7, <2>2 DEF Counted
  <2> QED
    BY <2>1, <2>2
<1>8. ASSUME NEW b \in Alerts, Fingerprint[b] \notin forgotten, dedup[Fingerprint[b]] = None,
             NEW i \in IncidentIds, NEW m \in DOMAIN incidents'[i]
      PROVE  incidents'[i][m] # b
  BY <1>5, <1>6, <1>8 DEF Counted
<1> QED
  BY <1>2, <1>7, <1>8 DEF Counted, Ungrouped

-----------------------------------------------------------------------------
LEMMA OneInit ==
    ASSUME NEW w, Replicas = {w}, Init
    PROVE  OneInv(w)
<1>1. Types
  BY TypesInit
<1>2. Idle.pc = "idle" /\ work[w] = Idle
  BY DEF Init, Idle
<1>3. Records = {}
  BY RecordsOfOne DEF Init
<1>4. \A i \in IncidentIds : incidents[i] = << >>
  BY DEF Init
<1>5. DOMAIN << >> = {}
  OBVIOUS
<1>6. Stored(w)
  BY <1>2, <1>3 DEF Stored, PublishedIsStored
<1>7. \A i \in IncidentIds : DOMAIN Held(w, i) = {}
  BY <1>2, <1>4, <1>5 DEF Held
<1>8. Counted(w)
  BY <1>2, <1>7 DEF Counted, Ungrouped
<1>9. Suppressed(w)
  BY <1>3 DEF Suppressed, Init
<1> QED
  BY <1>1, <1>6, <1>8, <1>9 DEF OneInv

LEMMA OneStep ==
    ASSUME NEW w, Replicas = {w}, OneInv(w), [Next]_vars
    PROVE  OneInv(w)'
<1>0. /\ TypeOK /\ AtWork /\ Drawn /\ Types /\ Types'
      /\ Stored(w) /\ Counted(w) /\ Suppressed(w) /\ w \in Replicas
  BY TypesStep DEF OneInv, Types
<1>a. Records = fused \cup outbox[w] /\ Records' = fused' \cup outbox'[w]
  BY RecordsOfOne
<1>b. UNCHANGED bounds => (Undisturbed' <=> Undisturbed)
  BY DEF Undisturbed, bounds
<1>1. ASSUME UNCHANGED <<work, redis, bounds>>, Records' \subseteq Records PROVE OneInv(w)'
  BY <1>0, <1>1, AllKept DEF redis
<1>2. ASSUME NEW a \in Alerts, Produce(w, a) PROVE OneInv(w)'
  BY <1>a, <1>1, <1>2 DEF Produce, output
<1>3. CASE AutoCommit(w)
  BY <1>a, <1>1, <1>3 DEF AutoCommit, output
<1>4. CASE Deliver(w)
  <2>1. fused' = fused \cup outbox[w] /\ outbox'[w] = {} /\ UNCHANGED <<work, redis, bounds>>
    BY <1>0, <1>4 DEF Deliver, TypeOK
  <2> QED
    BY <1>a, <1>1, <2>1
<1>5. CASE UNCHANGED vars
  BY <1>a, <1>1, <1>5 DEF vars, output
<1>6. CASE Consume(w)
  <2>1. /\ work[w] = Idle /\ UNCHANGED <<redis, output, bounds>>
        /\ work' = work \/ \E a \in Alerts : Now(w, "check", a, None, << >>)
    BY <1>0, <1>6, Consumes
  <2>2. work[w].pc = "idle" /\ Records' = Records
    BY <1>a, <2>1 DEF Idle, output
  <2>3. CASE work' = work
    BY <1>1, <2>1, <2>2, <2>3
  <2>4. CASE \E a \in Alerts : Now(w, "check", a, None, << >>)
    <3>1. PICK a \in Alerts : Now(w, "check", a, None, << >>)
      BY <2>4
    <3>2. Harmless(w, "check", a, None) /\ OnlyDuplicates
      BY <1>b, <2>1, <2>2 DEF Harmless, OnlyDuplicates, Ungrouped
    <3> QED
      BY <1>0, <2>1, <3>1, <3>2, KeptByMove DEF redis
  <2> QED
    BY <2>1, <2>3, <2>4
<1>7. CASE CheckDuplicate(w)
  <2> DEFINE original == dedup[Fingerprint[work[w].alert]]
             r == [alert |-> work[w].alert, decision |-> "duplicate", ref |-> original]
  <2>1. /\ work[w].pc = "check" /\ work[w].alert \in Alerts
        /\ Fingerprint[work[w].alert] \in Fingerprints
        /\ UNCHANGED <<kafka, redis, fused, bounds>>
        /\ \/ /\ original = None /\ outbox' = outbox
              /\ Now(w, "register", work[w].alert, work[w].incident, work[w].members)
           \/ /\ original \in Alerts /\ Now(w, "idle", None, None, << >>)
              /\ Send(w, "duplicate", original) /\ r \in Fused
    BY <1>0, <1>7, Checks
  <2>2. CASE /\ original = None /\ outbox' = outbox
             /\ Now(w, "register", work[w].alert, work[w].incident, work[w].members)
    <3>1. Records' = Records
      BY <1>a, <2>1, <2>2
    <3>2. Harmless(w, "register", work[w].alert, work[w].incident) /\ OnlyDuplicates
      BY <1>b, <2>1, <2>2, <3>1 DEF Harmless, OnlyDuplicates
    <3> QED
      BY <1>0, <2>1, <2>2, <3>2, KeptByMove DEF redis
  <2>3. CASE /\ original \in Alerts /\ Now(w, "idle", None, None, << >>)
             /\ Send(w, "duplicate", original) /\ r \in Fused
    <3>1. outbox'[w] = outbox[w] \cup {r}
      BY <1>0, <2>3, Sends
    <3>2. \A q \in Records' : q \in Records \/ q = r
      BY <1>a, <2>1, <3>1
    <3>3. Undisturbed => original \in grouped
      <4>1. original # None
        BY <2>3, FusionAssumption
      <4> QED
        BY <1>0, <2>1, <4>1 DEF Suppressed, Ungrouped
    <3>4. r.decision = "duplicate" /\ r.ref = original
      OBVIOUS
    <3> HIDE DEF r, original
    <3>5. Harmless(w, "idle", None, None) /\ OnlyDuplicates
      BY <1>b, <2>1, <3>2, <3>3, <3>4 DEF Harmless, OnlyDuplicates, Ungrouped
    <3> QED
      BY <1>0, <2>1, <2>3, <3>5, KeptByMove DEF redis
  <2> QED
    BY <2>1, <2>2, <2>3
<1>8. CASE Register(w)
  <2> DEFINE f == Fingerprint[work[w].alert]
  <2>1. /\ work[w].pc = "register" /\ work[w].alert \in Alerts
        /\ Now(w, "lookup", work[w].alert, work[w].incident, work[w].members)
        /\ dedup' = [dedup EXCEPT ![f] = work[w].alert]
        /\ UNCHANGED <<kafka, index, incidents, created, forgotten, grouped, output, bounds>>
    BY <1>0, <1>8, WorkIs, Advances DEF Register, At, AtWork
  <2>2. f \in Fingerprints /\ dedup[f] = None
    BY <1>0, <2>1 DEF Fingerprints, Counted
  <2>3. /\ dedup'[f] = work[w].alert /\ work[w].alert # None
        /\ \A g \in Fingerprints \ {f} : dedup'[g] = dedup[g]
    BY <1>0, <2>1, <2>2, FusionAssumption DEF TypeOK
  <2>4. Records' = Records
    BY <1>a, <2>1 DEF output
  <2>5. Stored(w)'
    BY <1>0, <2>1, <2>4, StoredKept DEF Now
  <2>6. Counted(w)'
    <3>1. \A i : Held(w, i)' = Held(w, i)
      BY <2>1 DEF Held, Now
    <3>2. \A a \in Alerts : Fingerprint[a] \in Fingerprints
      BY DEF Fingerprints
    <3>3. work'[w].pc = "lookup" /\ work'[w].alert = work[w].alert /\ forgotten' = forgotten
      BY <2>1 DEF Now
    <3> HIDE DEF Held, f
    <3>4. ASSUME NEW a \in Alerts, Fingerprint[a] \notin forgotten, dedup'[Fingerprint[a]] = None,
                 NEW i \in IncidentIds, NEW m \in DOMAIN Held(w, i)
          PROVE  Held(w, i)[m] # a
      BY <1>0, <2>3, <3>2, <3>4 DEF Counted
    <3>5. ASSUME Fingerprint[work[w].alert] \notin forgotten
          PROVE  /\ dedup'[Fingerprint[work[w].alert]] # None
                 /\ \A i \in IncidentIds : \A m \in DOMAIN Held(w, i) :
                       Held(w, i)[m] # work[w].alert
      BY <1>0, <2>1, <2>2, <2>3, <3>5 DEF Counted, f
    <3>6. \A a \in Alerts : Fingerprint[a] \notin forgotten =>
             \A i, j \in IncidentIds :
                \A m \in DOMAIN Held(w, i), n \in DOMAIN Held(w, j) :
                   Held(w, i)[m] = a /\ Held(w, j)[n] = a => i = j /\ m = n
      BY <1>0 DEF Counted
    <3> QED
      BY <3>1, <3>3, <3>4, <3>5, <3>6 DEF Counted, Ungrouped
  <2>7. Suppressed(w)'
    BY <1>0, <1>b, <2>1, <2>2, <2>3, <2>4 DEF Suppressed, Now, Ungrouped
  <2> QED
    BY <1>0, <2>5, <2>6, <2>7 DEF OneInv
<1>9. CASE Lookup(w)
  <2>1. /\ work[w].pc = "lookup" /\ UNCHANGED <<redis, output, bounds>>
        /\ \E p \in {"load", "create"} : \E i : Now(w, p, work[w].alert, i, work[w].members)
    BY <1>0, <1>9, LooksUp
  <2>2. Records' = Records
    BY <1>a, <2>1 DEF output
  <2>3. PICK p \in {"load", "create"} :
             \E i : Now(w, p, work[w].alert, i, work[w].members)
    BY <2>1
  <2>4. PICK i : Now(w, p, work[w].alert, i, work[w].members)
    BY <2>3
  <2>5. Harmless(w, p, work[w].alert, i) /\ OnlyDuplicates
    BY <1>b, <2>1, <2>2 DEF Harmless, OnlyDuplicates
  <2> QED
    BY <1>0, <2>1, <2>4, <2>5, KeptByMove DEF redis
<1>10. CASE Load(w)
  <2> DEFINE members == incidents[work[w].incident]
  <2>1. /\ work[w].pc = "load" /\ work[w].alert \in Alerts
        /\ work[w].incident \in 1 .. created /\ UNCHANGED <<redis, output, bounds>>
        /\ \/ members # << >> /\ Now(w, "merge", work[w].alert, work[w].incident, members)
           \/ Now(w, "create", work[w].alert, work[w].incident, members)
    BY <1>0, <1>10, Loads
  <2>2. Records' = Records
    BY <1>a, <2>1 DEF output
  <2>3. CASE Now(w, "create", work[w].alert, work[w].incident, members)
    <3>1. Harmless(w, "create", work[w].alert, work[w].incident) /\ OnlyDuplicates
      BY <1>b, <2>1, <2>2 DEF Harmless, OnlyDuplicates
    <3> QED
      BY <1>0, <2>1, <2>3, <3>1, KeptByMove DEF redis
  <2>4. CASE members # << >> /\ Now(w, "merge", work[w].alert, work[w].incident, members)
    <3>1. Stored(w)'
      BY <1>0, <2>1, <2>2, <2>4 DEF Stored, PublishedIsStored, Now, redis
    <3>2. Counted(w)'
      <4>1. \A i \in IncidentIds : Held(w, i)' = Held(w, i)
        BY <2>1, <2>4 DEF Held, Now, redis
      <4> HIDE DEF Held
      <4> QED
        BY <1>0, <2>1, <2>4, <4>1, CountedKept DEF Now, redis, Ungrouped
    <3>3. Suppressed(w)'
      BY <1>0, <1>b, <2>1, <2>2, <2>4, SuppressedKept DEF Now, redis, Ungrouped
    <3> QED
      BY <1>0, <3>1, <3>2, <3>3 DEF OneInv
  <2> QED
    BY <2>1, <2>3, <2>4
<1>11. CASE Index(w)
  <2>1. /\ work[w].pc = "index"
        /\ Now(w, "new_incident", work[w].alert, work[w].incident, work[w].members)
        /\ UNCHANGED <<incidents, dedup, forgotten, grouped, output, bounds>>
    BY <1>0, <1>11, Advances DEF Index, At
  <2>2. Records' = Records
    BY <1>a, <2>1 DEF output
  <2>3. Harmless(w, "new_incident", work[w].alert, work[w].incident) /\ OnlyDuplicates
    BY <1>b, <2>1, <2>2 DEF Harmless, OnlyDuplicates
  <2> QED
    BY <1>0, <2>1, <2>3, KeptByMove
<1>12. CASE Publish(w)
  <2> DEFINE r == [alert |-> work[w].alert, decision |-> work[w].pc, ref |-> work[w].incident]
  <2>1. /\ work[w].pc \in {"correlated", "new_incident"} /\ work[w].alert \in Alerts
        /\ Now(w, "idle", None, None, << >>) /\ r \in Fused
        /\ Send(w, work[w].pc, work[w].incident)
        /\ UNCHANGED <<kafka, redis, fused, bounds>>
    BY <1>0, <1>12, Publishes
  <2>2. outbox'[w] = outbox[w] \cup {r}
    BY <1>0, <2>1, Sends
  <2>3. \A q \in Records' : q \in Records \/ q = r
    BY <1>a, <2>1, <2>2
  <2>4. r.alert = work[w].alert /\ r.decision = work[w].pc /\ r.ref = work[w].incident
    OBVIOUS
  <2> HIDE DEF r
  <2>5. Stored(w)'
    <3>1. \A q \in Records' : q.decision # "duplicate" /\ incidents[q.ref] # << >>
             => Contains(incidents[q.ref], q.alert)
      BY <1>0, <2>1, <2>3, <2>4 DEF Stored, PublishedIsStored
    <3> QED
      BY <2>1, <3>1 DEF Stored, PublishedIsStored, Now, redis
  <2>6. Counted(w)'
    <3>1. \A i \in IncidentIds : Held(w, i)' = Held(w, i)
      BY <2>1 DEF Held, Now, redis
    <3> HIDE DEF Held
    <3> QED
      BY <1>0, <2>1, <3>1, CountedKept DEF Now, redis, Ungrouped
  <2>7. Suppressed(w)'
    BY <1>0, <1>b, <2>1, <2>3, <2>4, SuppressedKept DEF Now, redis, Ungrouped
  <2> QED
    BY <1>0, <2>5, <2>6, <2>7 DEF OneInv
<1>17. CASE ConsumeStops(w)
  BY <1>a, <1>1, <1>17 DEF ConsumeStops, output
<1>18. CASE DeliveryFails(w)
  <2>1. /\ UNCHANGED <<work, redis>> /\ Records' \subseteq Records
        /\ ~Undisturbed'
    BY <1>0, <1>a, <1>18 DEF DeliveryFails, Undisturbed, TypeOK
  <2>2. Stored(w)'
    BY <1>0, <2>1, StoredKept DEF redis
  <2>3. Counted(w)'
    <3>1. \A i : Held(w, i)' = Held(w, i)
      BY <2>1 DEF Held, redis
    <3> QED
      BY <1>0, <2>1, <3>1 DEF Counted, redis
  <2> QED
    BY <1>0, <2>1, <2>2, <2>3 DEF OneInv, Suppressed
<1>13. CASE Crash(w) \/ ProcessError(w)
  <2>1. Now(w, "idle", None, None, << >>)
    BY <1>0, <1>13, Stops DEF Crash, ProcessError
  <2>2. ~Undisturbed' /\ UNCHANGED redis
    BY <1>0, <1>13 DEF Crash, ProcessError, Undisturbed, TypeOK
  <2>3. Records' \subseteq Records
    BY <1>0, <1>a, <1>13 DEF Crash, ProcessError, TypeOK, output
  <2>4. Harmless(w, "idle", None, None) /\ OnlyDuplicates
    BY <2>2, <2>3 DEF Harmless, OnlyDuplicates
  <2> QED
    BY <1>0, <2>1, <2>2, <2>4, KeptByMove DEF redis
<1>14. CASE Merge(w)
  <2> DEFINE saved == Append(work[w].members, work[w].alert)
             at == work[w].incident
  <2>1. /\ work[w].pc = "merge" /\ work[w].alert \in Alerts /\ at \in IncidentIds
        /\ work[w].members \in Seq(Alerts)
        /\ Now(w, "correlated", work[w].alert, at, work[w].members)
        /\ incidents' = [incidents EXCEPT ![at] = saved]
        /\ grouped' = grouped \cup {work[w].alert}
        /\ UNCHANGED <<kafka, dedup, index, created, forgotten, output, bounds>>
    BY <1>0, <1>14, Merges
  <2>2. incidents'[at] = saved /\ \A i \in IncidentIds \ {at} : incidents'[i] = incidents[i]
    BY <1>0, <2>1 DEF TypeOK
  <2>3. Records' = Records
    BY <1>a, <2>1 DEF output
  <2>4. Stored(w)'
    <3>1. Contains(saved, work[w].alert)
      BY <2>1, ContainsAppended
    <3>2. ASSUME NEW r \in Records, r.decision # "duplicate", incidents'[r.ref] # << >>
          PROVE  Contains(incidents'[r.ref], r.alert)
      <4>1. r.ref \in IncidentIds
        BY <1>0, <3>2, RefersToIncident
      <4>2. CASE r.ref = at
        <5>1. Contains(work[w].members, r.alert)
          BY <1>0, <2>1, <3>2, <4>2 DEF Stored
        <5>2. Contains(saved, r.alert)
          BY <2>1, <5>1, ContainsAppended
        <5> QED
          BY <2>2, <4>2, <5>2
      <4>3. CASE r.ref # at
        BY <1>0, <2>2, <3>2, <4>1, <4>3 DEF Stored, PublishedIsStored
      <4> QED
        BY <4>2, <4>3
    <3> HIDE DEF saved
    <3> QED
      BY <2>1, <2>2, <2>3, <3>1, <3>2 DEF Stored, PublishedIsStored, Now
  <2>5. Counted(w)'
    BY <1>0, <2>1, <2>2, CountedOfSave DEF Now, Held, Ungrouped
  <2>6. Suppressed(w)'
    BY <1>0, <1>b, <2>1, <2>3, SuppressedKept DEF Now, Ungrouped
  <2> QED
    BY <1>0, <2>4, <2>5, <2>6 DEF OneInv
<1>15. CASE Create(w)
  <2> DEFINE at == created + 1
  <2>1. /\ work[w].pc = "create" /\ work[w].alert \in Alerts /\ at \in IncidentIds
        /\ Now(w, "index", work[w].alert, at, work[w].members)
        /\ incidents' = [incidents EXCEPT ![at] = <<work[w].alert>>]
        /\ grouped' = grouped \cup {work[w].alert}
        /\ UNCHANGED <<kafka, dedup, index, forgotten, output, bounds>>
    BY <1>0, <1>15, Creates
  <2>2. /\ incidents'[at] = <<work[w].alert>>
        /\ \A i \in IncidentIds \ {at} : incidents'[i] = incidents[i]
    BY <1>0, <2>1 DEF TypeOK
  <2>3. Records' = Records
    BY <1>a, <2>1 DEF output
  <2>4. Stored(w)'
    <3>1. Contains(<<work[w].alert>>, work[w].alert)
      BY DEF Contains
    <3>2. ASSUME NEW r \in Records, r.decision # "duplicate", incidents'[r.ref] # << >>
          PROVE  Contains(incidents'[r.ref], r.alert)
      <4>0. created \in Nat
        BY <1>0, FusionAssumption DEF TypeOK
      <4>1. r.ref \in IncidentIds /\ r.ref \in 1 .. created
        BY <1>0, <3>2, RefersToIncident
      <4>2. r.ref # at
        BY <4>0, <4>1
      <4> QED
        BY <1>0, <2>2, <3>2, <4>1, <4>2 DEF Stored, PublishedIsStored
    <3> HIDE DEF at
    <3> QED
      BY <2>1, <2>2, <2>3, <3>1, <3>2 DEF Stored, PublishedIsStored, Now
  <2>5. Counted(w)'
    BY <1>0, <2>1, <2>2, CountedOfSave DEF Now, Held, Ungrouped
  <2>6. Suppressed(w)'
    BY <1>0, <1>b, <2>1, <2>3, SuppressedKept DEF Now, Ungrouped
  <2> QED
    BY <1>0, <2>4, <2>5, <2>6 DEF OneInv
<1>16. CASE Expire
  <2>1. /\ UNCHANGED <<work, grouped, output, bounds>>
        /\ forgotten \subseteq forgotten'
        /\ \A i \in IncidentIds : incidents'[i] \in {incidents[i], << >>}
        /\ \A f \in Fingerprints : dedup'[f] \in {dedup[f], None}
        /\ \A f \in Fingerprints : f \notin forgotten' => dedup'[f] = dedup[f]
    <3>1. CASE \E f \in Fingerprints : ExpireFingerprint(f)
      BY <1>0, <3>1 DEF TypeOK, ExpireFingerprint
    <3>2. CASE \E k \in Keys : ExpireIndex(k)
      BY <1>0, <3>2 DEF TypeOK, ExpireIndex
    <3>3. CASE \E i \in IncidentIds : ExpireIncident(i)
      BY <1>0, <3>3 DEF TypeOK, ExpireIncident
    <3> QED
      BY <1>16, <3>1, <3>2, <3>3 DEF Expire
  <2>2. Records' = Records
    BY <1>a, <2>1 DEF output
  <2>3. Stored(w)'
    BY <1>0, <2>1, <2>2, StoredKept
  <2>4. Counted(w)'
    <3>1. \A i \in IncidentIds : Held(w, i)' \in {Held(w, i), << >>}
      BY <2>1 DEF Held
    <3>2. \A a \in Alerts : Fingerprint[a] \in Fingerprints
      BY DEF Fingerprints
    <3>3. work[w].pc \in Ungrouped \cup {"register"} => work[w].alert \in Alerts
      BY <1>0 DEF AtWork, Ungrouped
    <3> HIDE DEF Held
    <3>4. work[w].pc = "register" => dedup'[Fingerprint[work[w].alert]] = None
      BY <1>0, <2>1, <3>2, <3>3 DEF Counted
    <3> QED
      BY <1>0, <2>1, <3>1, <3>2, <3>3, <3>4, CountedKept
  <2>5. Suppressed(w)'
    BY <1>0, <1>b, <2>1, <2>2, SuppressedKept
  <2> QED
    BY <1>0, <2>3, <2>4, <2>5 DEF OneInv
<1> QED
  BY <1>2, <1>3, <1>4, <1>5, <1>6, <1>7, <1>8, <1>9, <1>10, <1>11, <1>12, <1>13, <1>14,
     <1>15, <1>16, <1>17, <1>18 DEF Next, Process

-----------------------------------------------------------------------------
\* The consumer is never ahead of its partition nor the commit ahead of the
\* consumer, and an incident is referred to only once it exists, for any
\* number of replicas that share the keys.
THEOREM PipelineTypes == Spec => []Types
BY TypesInit, TypesStep, PTL DEF Spec

\* An alert announced as part of an incident is in its alert_ids for as long
\* as the incident exists, whatever keys expire between load and save and
\* wherever the replica crashes.
THEOREM AnnouncedIsStored ==
    ASSUME NEW w, Replicas = {w} PROVE Spec => []PublishedIsStored
<1>1. Init => OneInv(w)
  BY OneInit
<1>2. OneInv(w) /\ [Next]_vars => OneInv(w)'
  BY OneStep
<1>3. OneInv(w) => PublishedIsStored
  BY DEF OneInv, Stored
<1> QED
  BY <1>1, <1>2, <1>3, PTL DEF Spec

\* A message handed out again after a crash or an error is not counted twice
\* while its fingerprint lives: an alert is in one incident at most, once.
THEOREM NoneCountedTwice ==
    ASSUME NEW w, Replicas = {w} PROVE Spec => []CountedOnce
<1>1. Init => OneInv(w)
  BY OneInit
<1>2. OneInv(w) /\ [Next]_vars => OneInv(w)'
  BY OneStep
<1>3. OneInv(w) => CountedOnce
  BY DEF OneInv, Stored, Counted, CountedOnce, Held
<1> QED
  BY <1>1, <1>2, <1>3, PTL DEF Spec

\* Without crashes and errors, what is suppressed as a duplicate repeats an
\* alert that is in an incident.
THEOREM DuplicatesAreOfGrouped ==
    ASSUME NEW w, Replicas = {w} PROVE Spec => []SuppressedIsGrouped
<1>1. Init => OneInv(w)
  BY OneInit
<1>2. OneInv(w) /\ [Next]_vars => OneInv(w)'
  BY OneStep
<1>3. OneInv(w) => SuppressedIsGrouped
  BY DEF OneInv, Suppressed, SuppressedIsGrouped
<1> QED
  BY <1>1, <1>2, <1>3, PTL DEF Spec

-----------------------------------------------------------------------------
(***************************************************************************)
(* Nothing is dropped, for any number of replicas                          *)
(***************************************************************************)
\* An alert that replica w has taken is not valid, at work, or published.
Seen(w, a) ==
    \/ a \in Invalid
    \/ work[w].pc # "idle" /\ work[w].alert = a
    \/ \E r \in Records : r.alert = a

\* The same after the step.
SeenThen(w, a) ==
    \/ a \in Invalid
    \/ work'[w].pc # "idle" /\ work'[w].alert = a
    \/ \E r \in Records' : r.alert = a

\* No replica loses sight of an alert.
SightKept == \A w \in Replicas, a \in Alerts : Seen(w, a) => SeenThen(w, a)

LEMMA RecordsAre ==
    /\ \A r : r \in Records <=> r \in fused \/ \E w \in Replicas : r \in outbox[w]
    /\ \A r : r \in Records' <=> r \in fused' \/ \E w \in Replicas : r \in outbox'[w]
BY DEF Records

\* A replica goes on with its alert, and nothing is taken back.
LEMMA SightOfMove ==
    ASSUME NEW w \in Replicas, NEW p, NEW i, NEW m, p # "idle",
           Now(w, p, work[w].alert, i, m), Records \subseteq Records'
    PROVE  SightKept
BY DEF SightKept, Seen, SeenThen, Now

\* A replica publishes its alert and is idle.
LEMMA SightOfSend ==
    ASSUME TypeOK, NEW w \in Replicas, NEW decision, NEW ref, Send(w, decision, ref),
           [alert |-> work[w].alert, decision |-> decision, ref |-> ref] \in Fused,
           Now(w, "idle", None, None, << >>), fused' = fused
    PROVE  SightKept
<1> DEFINE r == [alert |-> work[w].alert, decision |-> decision, ref |-> ref]
<1>1. /\ outbox'[w] = outbox[w] \cup {r} /\ r.alert = work[w].alert
      /\ \A v \in Replicas \ {w} : outbox'[v] = outbox[v]
  BY Sends
<1> HIDE DEF r
<1>2. Records \subseteq Records' /\ r \in Records'
  BY <1>1, RecordsAre
<1> QED
  BY <1>1, <1>2 DEF SightKept, Seen, SeenThen, Now

LEMMA SightStep ==
    ASSUME Types, [Next]_vars, Undisturbed'
    PROVE  SightKept
<1>0. TypeOK /\ AtWork /\ Drawn /\ crashes \in Nat /\ errors \in Nat
  BY DEF Types, TypeOK
<1>1. ASSUME work' = work, Records \subseteq Records' PROVE SightKept
  BY <1>1 DEF SightKept, Seen, SeenThen
<1>2. ASSUME UNCHANGED output PROVE Records \subseteq Records'
  BY <1>2 DEF Records, output
<1>3. ASSUME NEW w \in Replicas, NEW a \in Alerts, Produce(w, a) PROVE SightKept
  BY <1>1, <1>2, <1>3 DEF Produce
<1>4. ASSUME NEW w \in Replicas, Consume(w) PROVE SightKept
  <2>1. Records' = Records /\ work[w].pc = "idle"
    BY <1>4 DEF Consume, Awaits, output, Records, Idle
  <2>2. \A v \in Replicas \ {w} : work'[v] = work[v]
    BY <1>0, <1>4, Consumes DEF Now
  <2> QED
    BY <2>1, <2>2 DEF SightKept, Seen, SeenThen
<1>5. ASSUME NEW w \in Replicas, CheckDuplicate(w) PROVE SightKept
  <2> DEFINE original == dedup[Fingerprint[work[w].alert]]
  <2>1. /\ \/ /\ outbox' = outbox
              /\ Now(w, "register", work[w].alert, work[w].incident, work[w].members)
           \/ /\ Now(w, "idle", None, None, << >>) /\ Send(w, "duplicate", original)
              /\ [alert |-> work[w].alert, decision |-> "duplicate",
                  ref |-> original] \in Fused
        /\ fused' = fused
    BY <1>0, <1>5, Checks
  <2> HIDE DEF original
  <2>2. CASE /\ outbox' = outbox
             /\ Now(w, "register", work[w].alert, work[w].incident, work[w].members)
    BY <1>2, <2>1, <2>2, SightOfMove DEF output
  <2> QED
    BY <1>0, <2>1, <2>2, SightOfSend
<1>6. ASSUME NEW w \in Replicas, Register(w) PROVE SightKept
  <2>1. Now(w, "lookup", work[w].alert, work[w].incident, work[w].members)
    BY <1>0, <1>6, Advances DEF Register
  <2> QED
    BY <1>2, <1>6, <2>1, SightOfMove DEF Register
<1>7. ASSUME NEW w \in Replicas, Lookup(w) PROVE SightKept
  BY <1>0, <1>2, <1>7, LooksUp, SightOfMove
<1>8. ASSUME NEW w \in Replicas, Load(w) PROVE SightKept
  BY <1>0, <1>2, <1>8, Loads, SightOfMove
<1>9. ASSUME NEW w \in Replicas, Merge(w) PROVE SightKept
  BY <1>0, <1>2, <1>9, Merges, SightOfMove
<1>10. ASSUME NEW w \in Replicas, Create(w) PROVE SightKept
  BY <1>0, <1>2, <1>10, Creates, SightOfMove
<1>11. ASSUME NEW w \in Replicas, Index(w) PROVE SightKept
  <2>1. Now(w, "new_incident", work[w].alert, work[w].incident, work[w].members)
    BY <1>0, <1>11, Advances DEF Index
  <2> QED
    BY <1>2, <1>11, <2>1, SightOfMove DEF Index
<1>12. ASSUME NEW w \in Replicas, Publish(w) PROVE SightKept
  BY <1>0, <1>12, Publishes, SightOfSend
<1>13. ASSUME NEW w \in Replicas, Deliver(w) PROVE SightKept
  <2>1. /\ fused' = fused \cup outbox[w] /\ work' = work
        /\ \A v \in Replicas \ {w} : outbox'[v] = outbox[v]
    BY <1>0, <1>13 DEF Deliver, TypeOK
  <2>2. Records \subseteq Records'
    BY <2>1, RecordsAre
  <2> QED
    BY <1>1, <2>1, <2>2
<1>14. ASSUME NEW w \in Replicas, Crash(w) \/ ProcessError(w) \/ DeliveryFails(w)
       PROVE  FALSE
  BY <1>0, <1>14 DEF Crash, ProcessError, DeliveryFails, Undisturbed
<1>15. ASSUME \/ Expire \/ UNCHANGED vars
              \/ \E w \in Replicas : AutoCommit(w) \/ ConsumeStops(w)
       PROVE  SightKept
  BY <1>1, <1>2, <1>15 DEF Expire, ExpireFingerprint, ExpireIndex, ExpireIncident,
     AutoCommit, ConsumeStops, vars
<1> QED
  BY <1>3, <1>4, <1>5, <1>6, <1>7, <1>8, <1>9, <1>10, <1>11, <1>12, <1>13, <1>14, <1>15
     DEF Next, Process

\* Messages move only at the end of a partition, and one at a time out of it.
LEMMA HandedOut ==
    ASSUME Types, [Next]_vars, Undisturbed', NEW w \in Replicas
    PROVE  /\ \A k \in 1 .. position[w] : topic'[w][k] = topic[w][k]
           /\ \A k \in 1 .. position'[w] :
                 k \in 1 .. position[w] \/ SeenThen(w, topic'[w][k])
<1>0. /\ TypeOK /\ position[w] \in Nat /\ position[w] <= Len(topic[w])
      /\ topic[w] \in Seq(Alerts) /\ crashes \in Nat
  BY DEF Types, TypeOK
<1>1. CASE topic' = topic /\ position' = position
  BY <1>1
<1>2. ASSUME NEW v \in Replicas, NEW a \in Alerts, Produce(v, a)
      PROVE  /\ \A k \in 1 .. position[w] : topic'[w][k] = topic[w][k]
             /\ position' = position
  <2>1. position' = position /\ topic' = [topic EXCEPT ![v] = Append(topic[v], a)]
    BY <1>2 DEF Produce
  <2>2. topic'[w] = topic[w] \/ topic'[w] = Append(topic[w], a)
    BY <1>0, <2>1 DEF TypeOK
  <2>3. \A k \in 1 .. Len(topic[w]) : Append(topic[w], a)[k] = topic[w][k]
    BY <1>0
  <2> QED
    BY <1>0, <2>1, <2>2, <2>3
<1>3. ASSUME NEW v \in Replicas, Consume(v)
      PROVE  /\ topic' = topic
             /\ \A k \in 1 .. position'[w] :
                   k \in 1 .. position[w] \/ SeenThen(w, topic'[w][k])
  <2>1. /\ topic' = topic /\ position' = [position EXCEPT ![v] = position[v] + 1]
    BY <1>3 DEF Consume
  <2>2. CASE v # w
    BY <1>0, <2>1, <2>2 DEF TypeOK
  <2>3. CASE v = w
    <3> DEFINE a == Upcoming(w)
    <3>1. a \in Invalid \/ work'[w] = [Idle EXCEPT !.pc = "check", !.alert = a]
      BY <1>0, <1>3, <2>3 DEF Consume, TypeOK
    <3>6. a = topic[w][position[w] + 1]
      BY DEF Upcoming
    <3> HIDE DEF a
    <3>2. /\ [Idle EXCEPT !.pc = "check", !.alert = a].pc = "check"
          /\ [Idle EXCEPT !.pc = "check", !.alert = a].alert = a
      BY DEF Idle
    <3>3. SeenThen(w, a)
      BY <3>1, <3>2 DEF SeenThen
    <3>4. position'[w] = position[w] + 1
      BY <1>0, <2>1, <2>3 DEF TypeOK
    <3>5. \A k \in 1 .. position'[w] : k \in 1 .. position[w] \/ k = position[w] + 1
      BY <1>0, <3>4
    <3> QED
      BY <2>1, <3>3, <3>5, <3>6
  <2> QED
    BY <2>1, <2>2, <2>3
<1>4. ASSUME NEW v \in Replicas, Crash(v) PROVE FALSE
  BY <1>0, <1>4 DEF Crash, Undisturbed
<1>5. ASSUME NEW v \in Replicas,
             \/ CheckDuplicate(v) \/ Register(v) \/ Lookup(v) \/ Load(v) \/ Merge(v)
             \/ Create(v) \/ Index(v) \/ Publish(v) \/ Deliver(v) \/ AutoCommit(v)
             \/ ProcessError(v) \/ DeliveryFails(v) \/ ConsumeStops(v)
      PROVE  topic' = topic /\ position' = position
  BY <1>5 DEF CheckDuplicate, Register, Lookup, Load, Merge, Create, Index, Publish,
     Deliver, AutoCommit, ProcessError, DeliveryFails, ConsumeStops, kafka
<1>6. ASSUME Expire \/ UNCHANGED vars PROVE topic' = topic /\ position' = position
  BY <1>6 DEF Expire, ExpireFingerprint, ExpireIndex, ExpireIncident, kafka, vars
<1> QED
  BY <1>1, <1>2, <1>3, <1>4, <1>5, <1>6 DEF Next, Process

LEMMA Calm == Types /\ [Next]_vars /\ Undisturbed' => Undisturbed
<1> SUFFICES ASSUME Types, [Next]_vars, Undisturbed' PROVE Undisturbed
  OBVIOUS
<1>0. crashes \in Nat /\ errors \in Nat
  BY DEF Types, TypeOK
<1>1. ASSUME NEW w \in Replicas, Crash(w) \/ ProcessError(w) \/ DeliveryFails(w)
      PROVE  FALSE
  BY <1>0, <1>1 DEF Crash, ProcessError, DeliveryFails, Undisturbed
<1>2. CASE UNCHANGED bounds
  BY <1>2 DEF bounds, Undisturbed
<1>3. ASSUME NEW w \in Replicas,
             \/ \E a \in Alerts : Produce(w, a)
             \/ Consume(w) \/ CheckDuplicate(w) \/ Register(w) \/ Lookup(w) \/ Load(w)
             \/ Merge(w) \/ Create(w) \/ Index(w) \/ Publish(w) \/ Deliver(w) \/ AutoCommit(w)
             \/ ConsumeStops(w)
      PROVE  UNCHANGED bounds
  BY <1>3 DEF Produce, Consume, CheckDuplicate, Register, Lookup, Load, Merge, Create,
     Index, Publish, Deliver, AutoCommit, ConsumeStops
<1>4. ASSUME Expire \/ UNCHANGED vars PROVE UNCHANGED bounds
  BY <1>4 DEF Expire, ExpireFingerprint, ExpireIndex, ExpireIncident, vars
<1> QED
  BY <1>1, <1>2, <1>3, <1>4 DEF Next, Process

LEMMA DroppedIs ==
    /\ NothingDropped <=>
          (Undisturbed => \A w \in Replicas : \A k \in 1 .. position[w] : Seen(w, topic[w][k]))
    /\ NothingDropped' <=>
          (Undisturbed' => \A w \in Replicas : \A k \in 1 .. position'[w] : SeenThen(w, topic'[w][k]))
BY DEF NothingDropped, Seen, SeenThen

\* Without crashes and errors, each message the consumer has been handed is
\* being worked on or has been published, whatever the order in which any
\* number of replicas share the keys in Redis and whatever expires.
THEOREM NothingIsDropped == Spec => []NothingDropped
<1>1. Init => NothingDropped
  BY DEF Init, NothingDropped
<1>2. Types /\ NothingDropped /\ [Next]_vars => NothingDropped'
  <2> SUFFICES ASSUME Types, NothingDropped, [Next]_vars, Undisturbed',
                      NEW w \in Replicas, NEW k \in 1 .. position'[w]
               PROVE  SeenThen(w, topic'[w][k])
    BY DroppedIs
  <2>1. Undisturbed
    BY Calm
  <2>2. CASE k \in 1 .. position[w]
    <3>1. topic'[w][k] = topic[w][k] /\ topic[w][k] \in Alerts
      BY <2>2, HandedOut DEF Types, TypeOK
    <3>2. Seen(w, topic[w][k])
      BY <2>1, <2>2, DroppedIs
    <3> QED
      BY <3>1, <3>2, SightStep DEF SightKept
  <2> QED
    BY <2>2, HandedOut
<1> QED
  BY <1>1, <1>2, PipelineTypes, PTL DEF Spec

\* With one replica, undisturbed, an alert that was handed out ends up in an
\* incident or repeats one that is in an incident, the duplicates published
\* like the rest.
THEOREM NoAlertIsLost ==
    ASSUME NEW w, Replicas = {w} PROVE Spec => []NoAlertLost
<1>1. Spec => []SuppressedIsGrouped
  BY DuplicatesAreOfGrouped
<1>2. NothingDropped /\ SuppressedIsGrouped => NoAlertLost
  BY DEF NoAlertLost
<1> QED
  BY <1>1, <1>2, NothingIsDropped, PTL

=============================================================================
