----------------------------- MODULE GraphStream ----------------------------
(***************************************************************************)
(* The live tail of graph updates to WebSocket clients: the broadcaster of *)
(* the ingest service and the handler of each connection                   *)
(* (services/ingest/internal/graph_ws).                                    *)
(*                                                                         *)
(* An update is its position among the messages read.  One goroutine reads *)
(* the topic and offers every update to the subscribers it sees at that    *)
(* moment, one after the other, while connections come and go.  A client   *)
(* that comes back is another client.                                      *)
(***************************************************************************)
EXTENDS Integers, Sequences, FiniteSets, SequencesExt

CONSTANTS
    Clients,
    Tenants,
    Unscoped,   \* an update without a tenant
    Garbage,    \* a message that does not decode
    Buffer,     \* subscriberBufferDefault: updates a client may be behind
    MaxUpdates  \* bound: messages on the topic

ASSUME GraphStreamAssumption ==
    /\ Unscoped \notin Tenants /\ Garbage \notin Tenants \cup {Unscoped}
    /\ Buffer \in Nat \ {0} /\ MaxUpdates \in Nat

VARIABLES
    topic,      \* whose update each message is that the loop took
    loop,       \* the consumer goroutine: "next", "dispatch" or "done"
    targets,    \* subscribers it still has to offer the current update to
    stopping,   \* Stop was called
    dropped,    \* DroppedDeliveries
    panicked,   \* the process died of a panic
    tenant,     \* per client: the tenant of its connection
    conn,       \* per client: where its handler is
    updates,    \* per client: the channel
    taken,      \* per client: what its handler took from the channel
    since,      \* history, per client: messages read when it subscribed
    until       \* history, per client: ... and when it was removed; or -1

consumer    == <<topic, loop, targets, stopping, dropped, panicked>>
handler     == <<tenant, conn, updates, taken, since, until>>
stream_vars == <<consumer, handler>>

-----------------------------------------------------------------------------
StreamTypeOK ==
    /\ topic \in Seq(Tenants \cup {Unscoped, Garbage}) /\ Len(topic) <= MaxUpdates
    /\ loop \in {"next", "dispatch", "done"}
    /\ targets \subseteq Clients
    /\ stopping \in BOOLEAN /\ panicked \in BOOLEAN
    /\ dropped \in Nat
    /\ tenant \in [Clients -> Tenants]
    /\ conn \in [Clients -> {"away", "open", "removed", "closed"}]
    /\ updates \in [Clients -> Seq(1 .. MaxUpdates)]
    /\ taken \in [Clients -> Seq(1 .. MaxUpdates)]
    /\ since \in [Clients -> 0 .. MaxUpdates]
    /\ until \in [Clients -> -1 .. MaxUpdates]

StreamInit ==
    /\ topic = << >>
    /\ loop = "next" /\ targets = {}
    /\ stopping = FALSE /\ dropped = 0 /\ panicked = FALSE
    /\ tenant \in [Clients -> Tenants]
    /\ conn = [c \in Clients |-> "away"]
    /\ updates = [c \in Clients |-> << >>] /\ taken = [c \in Clients |-> << >>]
    /\ since = [c \in Clients |-> 0] /\ until = [c \in Clients |-> -1]

read == Len(topic)
subscribers == {c \in Clients : conn[c] = "open"}

\* Mutant: the tenants are not compared.
Sees_Any(c, message) == message # Garbage
Sees(c, message) == message \in {tenant[c], Unscoped}

-----------------------------------------------------------------------------
(***************************************************************************)
(* The consumer                                                            *)
(***************************************************************************)
\* src.Next, with the message the writer published, and the targets of
\* dispatch collected under the read lock.  A message that Next returns while
\* Stop is being called counts as read before.
Read(message) ==
    /\ loop = "next" /\ ~stopping
    /\ Len(topic) < MaxUpdates
    /\ topic' = Append(topic, message)
    /\ IF message = Garbage
       THEN UNCHANGED <<loop, targets>>
       ELSE /\ loop' = "dispatch"
            /\ targets' = {c \in subscribers : Sees(c, message)}
    /\ UNCHANGED <<stopping, dropped, panicked, handler>>

HasRoom(c) == Len(updates[c]) < Buffer

\* Mutant: the loop waits for a slow client.
Offer_Blocking(c) ==
    /\ HasRoom(c)
    /\ updates' = [updates EXCEPT ![c] = Append(@, read)]
    /\ UNCHANGED dropped

\* Mutant: a slow client loses the oldest update in place of the newest.
Offer_DropsOldest(c) ==
    IF HasRoom(c)
    THEN updates' = [updates EXCEPT ![c] = Append(@, read)] /\ UNCHANGED dropped
    ELSE updates' = [updates EXCEPT ![c] = Append(Tail(@), read)]
         /\ UNCHANGED dropped

\* select with a default: the buffer has room, or the delivery is dropped.
Offer(c) ==
    IF HasRoom(c)
    THEN updates' = [updates EXCEPT ![c] = Append(@, read)] /\ UNCHANGED dropped
    ELSE dropped' = dropped + 1 /\ UNCHANGED updates

Deliver(c) ==
    /\ loop = "dispatch" /\ c \in targets
    /\ conn[c] # "closed"
    /\ targets' = targets \ {c}
    /\ Offer(c)
    /\ UNCHANGED <<topic, loop, stopping, panicked>>
    /\ UNCHANGED <<tenant, conn, taken, since, until>>

\* A send on a closed channel panics, and no one recovers.
Panic(c) ==
    /\ loop = "dispatch" /\ c \in targets
    /\ conn[c] = "closed"
    /\ panicked' = TRUE
    /\ UNCHANGED <<topic, loop, targets, stopping, dropped, handler>>

Dispatched ==
    /\ loop = "dispatch" /\ targets = {}
    /\ loop' = "next"
    /\ UNCHANGED <<topic, targets, stopping, dropped, panicked, handler>>

LoopExit ==
    /\ loop = "next" /\ stopping
    /\ loop' = "done"
    /\ UNCHANGED <<topic, targets, stopping, dropped, panicked, handler>>

\* The signal cancels the context, and main calls Stop.
Stop ==
    /\ ~stopping
    /\ stopping' = TRUE
    /\ UNCHANGED <<topic, loop, targets, dropped, panicked, handler>>

consumeLoop ==
    \/ \E c \in Clients : Deliver(c) \/ Panic(c)
    \/ Dispatched \/ LoopExit

-----------------------------------------------------------------------------
(***************************************************************************)
(* A connection                                                            *)
(***************************************************************************)
Subscribe(c) ==
    /\ conn[c] = "away"
    /\ conn' = [conn EXCEPT ![c] = "open"]
    /\ since' = [since EXCEPT ![c] = read]
    /\ UNCHANGED <<consumer, tenant, updates, taken, until>>

\* The handler takes an update and writes it to the wire.
Write(c) ==
    /\ conn[c] = "open" /\ updates[c] # << >>
    /\ updates' = [updates EXCEPT ![c] = Tail(@)]
    /\ taken' = [taken EXCEPT ![c] = Append(@, Head(updates[c]))]
    /\ UNCHANGED <<consumer, tenant, conn, since, until>>

\* The client went, or a write failed: Unsubscribe removes it from the map.
Unsubscribe(c) ==
    /\ conn[c] = "open"
    /\ conn' = [conn EXCEPT ![c] = "removed"]
    /\ until' = [until EXCEPT ![c] = read]
    /\ UNCHANGED <<consumer, tenant, updates, taken, since>>

\* ... and closes the channel after it has given the lock back.
CloseChannel(c) ==
    /\ conn[c] = "removed"
    /\ conn' = [conn EXCEPT ![c] = "closed"]
    /\ UNCHANGED <<consumer, tenant, updates, taken, since, until>>

StreamNext ==
    /\ ~panicked
    /\ \/ \E message \in Tenants \cup {Unscoped, Garbage} : Read(message)
       \/ Stop \/ consumeLoop
       \/ \E c \in Clients : Subscribe(c) \/ Write(c) \/ Unsubscribe(c) \/ CloseChannel(c)

StreamSpec == StreamInit /\ [][StreamNext]_stream_vars

\* The scheduler runs the goroutine of the loop; clients may never read, and
\* there may be no further message.
StreamFairness == WF_stream_vars(~panicked /\ consumeLoop)

StreamFairSpec == StreamSpec /\ StreamFairness

-----------------------------------------------------------------------------
(***************************************************************************)
(* Properties                                                              *)
(***************************************************************************)
\* The updates the loop owes client c so far: its own and the unscoped ones
\* read while it was subscribed, but for the one being offered.
Owed(c) ==
    LET Until == IF until[c] = -1 THEN read ELSE until[c]
        Mine == IF conn[c] = "away" THEN {} ELSE since[c] + 1 .. Until
    IN {n \in Mine : topic[n] \in {tenant[c], Unscoped}}
           \ (IF loop = "dispatch" /\ c \in targets THEN {read} ELSE {})

Got(c) == taken[c] \o updates[c]

\* "a live tail": a client gets what it is owed, in the order of the topic,
\* nothing twice and nothing of another tenant, however connections come and
\* go during a dispatch.
TailInOrder ==
    \A c \in Clients :
        /\ \A i, j \in DOMAIN Got(c) : i < j => Got(c)[i] < Got(c)[j]
        /\ ToSet(Got(c)) \subseteq Owed(c)

\* The deliveries the clients went without.
Missed == UNION {{c} \X (Owed(c) \ ToSet(Got(c))) : c \in Clients}

\* "the broadcaster drops the in-flight message for that subscriber and
\* increments droppedDeliveries": the counter accounts for every update a
\* client misses, and for nothing else.
LossIsCounted == dropped = Cardinality(Missed)

\* "it must NEVER block the Kafka consumer loop": with clients that never
\* read, every dispatch ends, and Stop returns, unless the process died.
ConsumerMoves ==
    /\ loop = "dispatch" ~> loop # "dispatch" \/ panicked
    /\ stopping ~> loop = "done" \/ panicked

(***************************************************************************)
(* Statements of the repository that the code does not keep.               *)
(***************************************************************************)
\* "Safe for concurrent use": a client may leave at any time.
NoSendOnClosed == ~panicked

=============================================================================
