---------------------------- MODULE EntityRisk -----------------------------
(***************************************************************************)
(* Risk-based alerting of the fusion service (services/fusion,             *)
(* services/entity_risk.py): the points an alert adds to every entity it   *)
(* touches, in a Redis hash that is loaded, changed and saved in separate  *)
(* calls, the queue of the riskiest entities, and the promotion of an      *)
(* entity whose score crosses the threshold.                               *)
(*                                                                         *)
(* A tick is one half-life; an observation takes far less, so the clock    *)
(* stands while one is under way.  Points are multiples of 2^MaxTime: a    *)
(* score halves without a remainder and the cut-off at 0.05 is never       *)
(* reached.  The lists of alerts and severities are saved with the score   *)
(* and follow it; the set of promoted entities only feeds a statistic.     *)
(***************************************************************************)
EXTENDS Integers, Sequences, FiniteSets, SequencesExt

CONSTANTS
    Replicas,    \* fusion replicas, each with one alert at a time
    Entities,
    Alerts,
    Touches,    \* alert -> its entities: user, host, address, domain
    Points,     \* alert -> weight of its severity with the confidence boost
    PromotionThreshold, \* rba_promotion_threshold
    Window,     \* rba_window_seconds
    MaxTop,     \* rba_max_top_entities
    Nil,        \* no key, no time
    MaxTime,    \* bound: ticks
    MaxSignals, \* bound: signals counted for an entity
    MaxFails    \* bound: observations that are cut off

ASSUME RiskAssumption ==
    /\ Touches \in [Alerts -> Seq(Entities) \ {<< >>}]
    /\ MaxTime \in Nat
    /\ Points \in [Alerts -> Nat] /\ \A a \in Alerts : Points[a] % 2 ^ MaxTime = 0
    /\ Nil \notin Nat \cup [score : Nat, seen : Nat, promoted : Nat \cup {Nil}]

VARIABLES
    clock,
    hashes,     \* Redis: the record of an entity, or Nil
    deadline,   \* Redis: when that key expires; Nil: never
    rank,       \* Redis: the queue, entity -> score, or Nil
    queue_deadline, \* Redis: when the queue expires
    replica,    \* the observation a replica is at
    counted,    \* history: the signals an entity's record was saved with
    reports,    \* history: promotions of it that were returned
    cut,        \* history: entities whose last observation was cut off
    fails

risk_vars == <<clock, hashes, deadline, rank, queue_deadline, replica, counted,
               reports, cut, fails>>

-----------------------------------------------------------------------------
NoRecord == [score |-> 0, seen |-> 0, promoted |-> Nil]
Idle == [pc |-> "idle", points |-> 0, todo |-> << >>, record |-> NoRecord,
         promotions |-> {}]

RiskInit ==
    /\ clock = 0
    /\ hashes = [e \in Entities |-> Nil]
    /\ deadline = [e \in Entities |-> Nil]
    /\ rank = [e \in Entities |-> Nil] /\ queue_deadline = Nil
    /\ replica = [w \in Replicas |-> Idle]
    /\ counted = [e \in Entities |-> << >>]
    /\ reports = [e \in Entities |-> 0]
    /\ cut = {} /\ fails = 0

Decay(points, elapsed) == points \div 2 ^ elapsed

Doing(w, pc) == replica[w].pc = pc
Subject(w) == Head(replica[w].todo)

\* observe, once the signals of the alert are built.
Observe(w, a) ==
    /\ replica[w] = Idle
    /\ replica' = [replica EXCEPT ![w] =
                     [Idle EXCEPT !.pc = "load", !.points = Points[a], !.todo = Touches[a]]]
    /\ UNCHANGED <<clock, hashes, deadline, rank, queue_deadline, counted, reports, cut, fails>>

\* Mutant: the score found is not decayed.
Applied_Undecayed(r, points) ==
    [score |-> r.score + points, seen |-> clock, promoted |-> r.promoted]

\* The record with the signal's points.
Applied(r, points) ==
    [score |-> Decay(r.score, clock - r.seen) + points, seen |-> clock,
     promoted |-> r.promoted]

Load(w) ==
    LET e == Subject(w)
        found == IF hashes[e] = Nil THEN [NoRecord EXCEPT !.seen = clock] ELSE hashes[e]
    IN /\ Doing(w, "load")
       /\ Len(counted[e]) < MaxSignals
       /\ replica' = [replica EXCEPT ![w].pc = "hash",
                                   ![w].record = Applied(found, replica[w].points)]
       /\ UNCHANGED <<clock, hashes, deadline, rank, queue_deadline, counted, reports, cut, fails>>

Promoting(w) == replica[w].pc = "promoted"

\* _save: the hash, its expiry, the queue.  The save of a promotion is the
\* same three calls with the same score.
Save(w) ==
    LET e == Subject(w)
    IN /\ replica[w].pc \in {"hash", "promoted"}
       /\ hashes' = [hashes EXCEPT ![e] = replica[w].record]
       /\ counted' = [counted EXCEPT ![e] =
             IF Promoting(w) THEN @
             ELSE Append(@, [points |-> replica[w].points, at |-> clock])]
       /\ cut' = cut \ {e}
       /\ replica' = [replica EXCEPT ![w].pc = IF Promoting(w) THEN "promoted_ttl" ELSE "ttl"]
       /\ UNCHANGED <<clock, deadline, rank, queue_deadline, reports, fails>>

SetExpiry(w) ==
    /\ replica[w].pc \in {"ttl", "promoted_ttl"}
    /\ deadline' = [deadline EXCEPT ![Subject(w)] = clock + Window]
    /\ replica' = [replica EXCEPT ![w].pc = IF Doing(w, "ttl") THEN "rank" ELSE "promoted_rank"]
    /\ UNCHANGED <<clock, hashes, rank, queue_deadline, counted, reports, cut, fails>>

\* The members zremrangebyrank keeps: the MaxTop of highest score.
Members(q) == {e \in Entities : q[e] # Nil}
Kept(q) ==
    {top \in SUBSET Members(q) :
        /\ Cardinality(top) = IF Cardinality(Members(q)) < MaxTop
                              THEN Cardinality(Members(q)) ELSE MaxTop
        /\ \A e \in top, f \in Members(q) \ top : q[e] >= q[f]}
Trimmed(q, top) == [e \in Entities |-> IF e \in top THEN q[e] ELSE Nil]

Ranked(w) == [rank EXCEPT ![Subject(w)] = replica[w].record.score]

\* Mutant: a promoted entity is promoted again.
Crosses_Again(r) == r.score >= PromotionThreshold

Crosses(r) == r.score >= PromotionThreshold /\ r.promoted = Nil

\* The next entity of the alert, or the end: observe returns what it promoted.
Advanced(w, promotions) ==
    IF Len(replica[w].todo) = 1
    THEN /\ replica' = [replica EXCEPT ![w] = Idle]
         /\ reports' = [e \in Entities |-> reports[e] + (IF e \in promotions THEN 1 ELSE 0)]
    ELSE /\ replica' = [replica EXCEPT ![w].pc = "load", ![w].todo = Tail(@),
                                     ![w].promotions = promotions]
         /\ UNCHANGED reports

\* The queue; then _promote saves the record again, or the next entity's turn.
Rank(w) ==
    LET r == replica[w].record
        promoted == replica[w].promotions \cup
                       (IF Doing(w, "promoted_rank") THEN {Subject(w)} ELSE {})
    IN /\ replica[w].pc \in {"rank", "promoted_rank"}
       /\ \E top \in Kept(Ranked(w)) : rank' = Trimmed(Ranked(w), top)
       /\ queue_deadline' = clock + Window
       /\ IF Doing(w, "rank") /\ Crosses(r)
          THEN /\ replica' = [replica EXCEPT ![w].pc = "promoted", ![w].record.promoted = clock]
               /\ UNCHANGED reports
          ELSE Advanced(w, promoted)
       /\ UNCHANGED <<clock, hashes, deadline, counted, cut, fails>>

\* A Redis call raises, which the engine logs, or the replica dies.
Fail(w) ==
    /\ replica[w] # Idle /\ fails < MaxFails
    /\ fails' = fails + 1
    /\ replica' = [replica EXCEPT ![w] = Idle]
    /\ cut' = IF replica[w].pc \in {"load", "hash"} THEN cut ELSE cut \cup {Subject(w)}
    /\ UNCHANGED <<clock, hashes, deadline, rank, queue_deadline, counted, reports>>

Due(d) == d # Nil /\ d <= clock + 1
Expired(f, gone, value) == [e \in Entities |-> IF e \in gone THEN value ELSE f[e]]

\* A key goes when its time has come: the hash of an entity, or the queue.
Tick ==
    LET due == {e \in Entities : Due(deadline[e])}
    IN /\ clock < MaxTime
       /\ \A w \in Replicas : replica[w] = Idle
       /\ clock' = clock + 1
       /\ hashes' = Expired(hashes, due, Nil) /\ deadline' = Expired(deadline, due, Nil)
       /\ rank' = Expired(rank, IF Due(queue_deadline) THEN Entities ELSE {}, Nil)
       /\ queue_deadline' = IF Due(queue_deadline) THEN Nil ELSE queue_deadline
       /\ counted' = Expired(counted, due, << >>) /\ reports' = Expired(reports, due, 0)
       /\ cut' = cut \ due
       /\ UNCHANGED <<replica, fails>>

RiskNext ==
    \/ \E w \in Replicas :
          \/ \E a \in Alerts : Observe(w, a)
          \/ Load(w) \/ Save(w) \/ SetExpiry(w) \/ Rank(w) \/ Fail(w)
    \/ Tick

RiskSpec == RiskInit /\ [][RiskNext]_risk_vars

-----------------------------------------------------------------------------
(***************************************************************************)
(* Properties                                                              *)
(***************************************************************************)
Settled(e) == e \notin cut /\ \A w \in Replicas : ~Contains(replica[w].todo, e)

DecayedSum(signals, t) ==
    LET sum[n \in 0 .. Len(signals)] ==
            IF n = 0 THEN 0
            ELSE sum[n - 1] + Decay(signals[n].points, t - signals[n].at)
    IN sum[Len(signals)]

\* "Points decay exponentially": decayed step by step and saved with every
\* signal, the score is the sum of all signals since the record was created,
\* each decayed for its own age, whatever observations were cut off; and the
\* queue has the score of the record.
ScoreIsDecayedSum ==
    \A e \in Entities :
        hashes[e] # Nil =>
            /\ hashes[e].score = DecayedSum(counted[e], hashes[e].seen)
            /\ Settled(e) /\ rank[e] # Nil => rank[e] = hashes[e].score

\* "Once an entity's score crosses rba_promotion_threshold AiSOC promotes the
\* entity": a record that settled above the threshold is promoted, and what
\* observe returns was promoted and is returned once in the life of a record.
PromotedOnce ==
    \A e \in Entities :
        /\ Settled(e) /\ hashes[e] # Nil /\ hashes[e].score >= PromotionThreshold
              => hashes[e].promoted # Nil
        /\ reports[e] <= 1
        /\ reports[e] = 1 => hashes[e] # Nil /\ hashes[e].promoted # Nil

(***************************************************************************)
(* Statements of the repository that the code does not keep.               *)
(***************************************************************************)
ScoreNow(e) == Decay(hashes[e].score, clock - hashes[e].seen)

\* "Return the top-N entities by current decayed score".
QueueIsCurrent ==
    \A e, f \in Entities :
        /\ hashes[e] # Nil /\ Settled(e) /\ hashes[f] # Nil /\ Settled(f)
        /\ rank[e] # Nil /\ rank[f] # Nil
        /\ rank[e] > rank[f]
        => ScoreNow(e) >= ScoreNow(f)

\* "cold entities self-evict": from the queue too, and from its count.
ColdLeaveQueue == \A e \in Entities : rank[e] # Nil /\ Settled(e) => hashes[e] # Nil

\* A promotion reaches the alert that caused it.
PromotionReported ==
    \A e \in Entities :
        /\ hashes[e] # Nil /\ hashes[e].promoted # Nil
        /\ \A w \in Replicas : replica[w] = Idle
        => reports[e] = 1

=============================================================================
