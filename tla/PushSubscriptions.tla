------------------------- MODULE PushSubscriptions -------------------------
(***************************************************************************)
(* Web-push subscriptions of the realtime gateway (services/realtime,      *)
(* src/push.ts): one device of one tenant, its record and the Redis sets   *)
(* it is found by, under concurrent requests of subscribing, unsubscribing *)
(* and sending.  A MULTI is one step; what it writes was decided from a    *)
(* read before it.  Every key expires on its own.                          *)
(*                                                                         *)
(* Devices do not share anything but the sets, which hold ids; the set of  *)
(* the tenant is treated as those of the topics and is left out.           *)
(***************************************************************************)
EXTENDS Integers, FiniteSets

CONSTANTS
    Requests,
    Users,
    Topics,
    None,
    MaxExpired  \* bound: keys that expire

VARIABLES
    record,     \* Redis: [user, topics], or None
    topic_sets, \* Redis: topics whose set has the device
    user_sets,  \* Redis: users whose set has the device
    request,    \* per request: what it does and what it has read
    wanted,     \* history: the subscription of the last one that took effect
    pushed,     \* history: pushes a request was asked to send and delivered
    overlapped, \* history: a request began while another was under way
    touched,    \* the record outlives its last subscription
    expired     \* history: keys that expired

push_vars == <<record, topic_sets, user_sets, request, wanted, pushed, overlapped, touched, expired>>

Subscription == [user : Users \cup {None}, topics : SUBSET Topics \ {{}}]
UserOf(sub) == {sub.user} \ {None}

\* What a push is for: the subscribers of a topic, or a user.
Targets == [user : Users] \cup [topic : Topics]
Nothing == [pc |-> "new", body |-> None, seen |-> None]

PushInit ==
    /\ record = None /\ topic_sets = {} /\ user_sets = {}
    /\ request = [r \in Requests |-> Nothing]
    /\ wanted = None /\ pushed = {}
    /\ overlapped = FALSE /\ touched = FALSE /\ expired = {}

-----------------------------------------------------------------------------
Stands(r, pc) == request[r].pc = pc
Open(r) == request[r].pc \notin {"new", "done"}
Busy == \E r \in Requests : Open(r)

\* Requests are numbered in the order in which they begin.
Begin(r, pc, body) ==
    /\ Stands(r, "new") /\ \A q \in Requests : q < r => ~Stands(q, "new")
    /\ request' = [request EXCEPT ![r].pc = pc, ![r].body = body]
    /\ overlapped' = (overlapped \/ Busy)
    /\ UNCHANGED <<record, topic_sets, user_sets, wanted, pushed, touched, expired>>

Moves(r, pc, seen) == request' = [request EXCEPT ![r].pc = pc, ![r].seen = seen]

\* upsertSubscription: the record as it is,
ReadExisting(r) ==
    /\ Stands(r, "subscribe")
    /\ Moves(r, "upsert", record)
    /\ UNCHANGED <<record, topic_sets, user_sets, wanted, pushed, overlapped, touched, expired>>

\* Mutant: the old topics are not pruned.
Dropped_None(existing, body) == {}

\* Mutant: all of the old topics are pruned, those still asked for too.
Dropped_All(existing, body) == IF existing = None THEN {} ELSE existing.topics

Dropped(existing, body) == IF existing = None THEN {} ELSE existing.topics \ body.topics

\* ... and the pipeline.
Upsert(r) ==
    LET body == request[r].body
    IN /\ Stands(r, "upsert")
       /\ record' = body
       /\ topic_sets' = (topic_sets \cup body.topics) \ Dropped(request[r].seen, body)
       /\ user_sets' = user_sets \cup UserOf(body)
       /\ wanted' = body
       /\ Moves(r, "done", None)
       /\ touched' = FALSE
       /\ UNCHANGED <<pushed, overlapped, expired>>

\* removeSubscriptionById, for an unsubscribe or a dead endpoint.
ReadRemoved(r) ==
    /\ Stands(r, "remove")
    /\ Moves(r, IF record = None THEN "done" ELSE "delete", record)
    /\ UNCHANGED <<record, topic_sets, user_sets, wanted, pushed, overlapped, touched, expired>>

Delete(r) ==
    /\ Stands(r, "delete")
    /\ record' = None
    /\ topic_sets' = topic_sets \ request[r].seen.topics
    /\ user_sets' = user_sets \ UserOf(request[r].seen)
    /\ wanted' = None
    /\ Moves(r, "done", None)
    /\ UNCHANGED <<pushed, overlapped, touched, expired>>

\* resolveSubscriptions: the set of the target,
Lists(target) ==
    IF "user" \in DOMAIN target THEN target.user \in user_sets
                                ELSE target.topic \in topic_sets

List(r) ==
    /\ Stands(r, "send")
    /\ Moves(r, IF Lists(request[r].body) THEN "get" ELSE "done", None)
    /\ UNCHANGED <<record, topic_sets, user_sets, wanted, pushed, overlapped, touched, expired>>

\* ... and the record of the id, if there is one.
Get(r) ==
    /\ Stands(r, "get")
    /\ Moves(r, IF record = None THEN "done" ELSE "push", record)
    /\ UNCHANGED <<record, topic_sets, user_sets, wanted, pushed, overlapped, touched, expired>>

\* sendNotification: delivered, the endpoint is gone (404, 410), or an error.
Delivered(r) ==
    /\ Stands(r, "push")
    /\ pushed' = pushed \cup {[to |-> request[r].body, user |-> request[r].seen.user]}
    /\ Moves(r, "touch", request[r].seen)
    /\ UNCHANGED <<record, topic_sets, user_sets, wanted, overlapped, touched, expired>>

Undelivered(r) ==
    /\ Stands(r, "push")
    /\ \E pc \in {"remove", "done"} : Moves(r, pc, None)
    /\ UNCHANGED <<record, topic_sets, user_sets, wanted, pushed, overlapped, touched, expired>>

\* "Refresh last_seen": the record that was read is written back.
Touch(r) ==
    /\ Stands(r, "touch")
    /\ record' = request[r].seen
    /\ touched' = TRUE
    /\ Moves(r, "done", None)
    /\ UNCHANGED <<topic_sets, user_sets, wanted, pushed, overlapped, expired>>

\* Ninety days after the last subscription that names it a set goes, unless
\* other devices keep it; after the last subscription or push, the record.
Current == IF record = None THEN {} ELSE record.topics \cup UserOf(record)

Expire ==
    /\ ~Busy /\ Cardinality(expired) < MaxExpired
    /\ \/ /\ record # None
          /\ record' = None /\ expired' = expired \cup {"record"}
          /\ UNCHANGED <<topic_sets, user_sets>>
       \/ \E k \in topic_sets \cup user_sets :
             /\ k \notin Current \/ touched
             /\ topic_sets' = topic_sets \ {k} /\ user_sets' = user_sets \ {k}
             /\ expired' = expired \cup {k}
             /\ UNCHANGED record
    /\ UNCHANGED <<request, wanted, pushed, overlapped, touched>>

Subscribe(r)   == \E body \in Subscription : Begin(r, "subscribe", body)
Unsubscribe(r) == Begin(r, "remove", None)
Send(r)        == \E target \in Targets : Begin(r, "send", target)

PushNext ==
    \/ \E r \in Requests :
          \/ Subscribe(r) \/ Unsubscribe(r) \/ Send(r)
          \/ ReadExisting(r) \/ Upsert(r) \/ ReadRemoved(r) \/ Delete(r)
          \/ List(r) \/ Get(r) \/ Delivered(r) \/ Undelivered(r) \/ Touch(r)
    \/ Expire

PushSpec == PushInit /\ [][PushNext]_push_vars
-----------------------------------------------------------------------------
(***************************************************************************)
(* Properties                                                              *)
(***************************************************************************)
\* "target everyone subscribed to a topic": whatever requests overlap, a
\* device whose last request to take effect was a subscription has a record
\* and is in the set of every topic it asked for, unless a key expired.
WantedIsReached ==
    wanted # None /\ expired = {} =>
        /\ record # None /\ UserOf(wanted) \subseteq user_sets
        /\ wanted.topics \subseteq topic_sets

\* "If topics changed, prune the subscription from old topic sets": unless
\* requests overlapped, the device is in the sets of no other topics, and in
\* none when it has unsubscribed.
OptOutHonoured ==
    ~overlapped /\ expired = {} =>
        topic_sets = (IF wanted = None THEN {} ELSE wanted.topics)

(***************************************************************************)
(* Statements of the repository that the code does not keep.               *)
(***************************************************************************)
\* ... also when they overlapped, and all have ended.
OptOutSettles ==
    ~Busy /\ expired = {} =>
        topic_sets = (IF wanted = None THEN {} ELSE wanted.topics)

\* "target a specific on-call user".
PushGoesToUser ==
    \A p \in pushed : "user" \in DOMAIN p.to => p.user = p.to.user

\* "so the entry stays fresh": a record that lives is still found.
FreshIsFound ==
    ~overlapped /\ record # None /\ "record" \notin expired
        => record.topics \subseteq topic_sets

\* A removed subscription stays removed.
GoneIsGone == ~Busy /\ wanted = None => record = None

=============================================================================
