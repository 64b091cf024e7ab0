---------------------------- MODULE IngestProofs ---------------------------
(***************************************************************************)
(* The graph writer puts the events it accepted into Neo4j in order and    *)
(* none twice, and leaves nothing behind on a clean exit; the live tail of *)
(* graph updates is in order, of the client's own tenant, and what a       *)
(* client misses is counted.  Both for queues, batches and buffers of any  *)
(* size.                                                                   *)
(***************************************************************************)
EXTENDS IngestGraph, GraphStream, FiniteSetTheorems, TLAPS

(***************************************************************************)
(* IngestGraph: sequences of accepted events                               *)
(***************************************************************************)
\* The place of an event among those accepted.
Place(acc, e) == CHOOSE n \in DOMAIN acc : acc[n] = e

Injective(acc) == \A m, n \in DOMAIN acc : acc[m] = acc[n] => m = n

\* A pipeline of accepted events in the order in which they were accepted.
Ordered(s, acc) ==
    /\ ToSet(s) \subseteq ToSet(acc)
    /\ \A m, n \in DOMAIN s : m < n => Place(acc, s[m]) < Place(acc, s[n])

\* All of s was accepted before all of t.
Before(s, t, acc) ==
    \A x \in ToSet(s), y \in ToSet(t) : Place(acc, x) < Place(acc, y)

LEMMA PlaceIs ==
    ASSUME NEW S, NEW acc \in Seq(S), Injective(acc)
    PROVE  /\ \A n \in DOMAIN acc : Place(acc, acc[n]) = n
           /\ \A e \in ToSet(acc) : Place(acc, e) \in DOMAIN acc /\ acc[Place(acc, e)] = e
<1>1. \A n \in DOMAIN acc : Place(acc, acc[n]) = n
  BY DEF Place, Injective
<1> QED
  BY <1>1 DEF ToSet

\* An event accepted last has its place behind all others, which keep theirs.
LEMMA PlaceOfLast ==
    ASSUME NEW S, NEW acc \in Seq(S), Injective(acc), NEW e \in S, e \notin ToSet(acc)
    PROVE  /\ Append(acc, e) \in Seq(S) /\ Injective(Append(acc, e))
           /\ ToSet(Append(acc, e)) = ToSet(acc) \cup {e}
           /\ \A x \in ToSet(acc) : /\ Place(Append(acc, e), x) = Place(acc, x)
                                    /\ Place(Append(acc, e), x) < Place(Append(acc, e), e)
<1> DEFINE new == Append(acc, e)
<1>1. /\ new \in Seq(S) /\ DOMAIN new = 1 .. Len(acc) + 1 /\ DOMAIN acc = 1 .. Len(acc)
      /\ Len(acc) \in Nat
      /\ \A n \in DOMAIN acc : new[n] = acc[n]
      /\ new[Len(acc) + 1] = e
  OBVIOUS
<1> HIDE DEF new
<1>2. Injective(new)
  BY <1>1 DEF Injective, ToSet
<1>3. ToSet(new) = ToSet(acc) \cup {e}
  BY <1>1 DEF ToSet
<1>4. Place(new, e) = Len(acc) + 1
  BY <1>1, <1>2, PlaceIs
<1>5. ASSUME NEW x \in ToSet(acc)
      PROVE  Place(new, x) = Place(acc, x) /\ Place(new, x) < Place(new, e)
  <2>1. PICK n \in DOMAIN acc : acc[n] = x
    BY <1>5 DEF ToSet
  <2>2. Place(acc, x) = n
    BY <2>1, PlaceIs
  <2>3. Place(new, x) = n
    BY <1>1, <1>2, <2>1, PlaceIs
  <2> QED
    BY <1>1, <1>4, <2>1, <2>2, <2>3
<1> QED
  BY <1>1, <1>2, <1>3, <1>5 DEF new

\* A concatenation is in order when its parts are and the first is before the second.
LEMMA OrderedConcat ==
    ASSUME NEW S, NEW s \in Seq(S), NEW t \in Seq(S), NEW acc
    PROVE  /\ ToSet(s \o t) = ToSet(s) \cup ToSet(t)
           /\ Ordered(s \o t, acc)
                <=> Ordered(s, acc) /\ Ordered(t, acc) /\ Before(s, t, acc)
<1> DEFINE c == s \o t
<1>1. /\ DOMAIN s = 1 .. Len(s) /\ DOMAIN t = 1 .. Len(t) /\ DOMAIN c = 1 .. Len(s) + Len(t)
      /\ Len(s) \in Nat /\ Len(t) \in Nat
      /\ \A n \in DOMAIN s : c[n] = s[n]
      /\ \A n \in DOMAIN t : c[Len(s) + n] = t[n]
  OBVIOUS
<1> HIDE DEF c
<1>2. \A n \in DOMAIN s : n \in DOMAIN c
  BY <1>1
<1>3. \A n \in DOMAIN t : Len(s) + n \in DOMAIN c
  BY <1>1
<1>4. \A n \in DOMAIN c : n \in DOMAIN s \/ (n - Len(s) \in DOMAIN t /\ c[n] = t[n - Len(s)])
  BY <1>1
<1>5. ToSet(c) = ToSet(s) \cup ToSet(t)
  BY <1>1, <1>2, <1>3, <1>4 DEF ToSet
<1>6. ASSUME Ordered(c, acc)
      PROVE  Ordered(s, acc) /\ Ordered(t, acc) /\ Before(s, t, acc)
  <2>1. Ordered(s, acc)
    BY <1>1, <1>2, <1>5, <1>6 DEF Ordered
  <2>2. Ordered(t, acc)
    <3>1. ASSUME NEW m \in DOMAIN t, NEW n \in DOMAIN t, m < n
          PROVE  Place(acc, t[m]) < Place(acc, t[n])
      <4>1. Len(s) + m < Len(s) + n
        BY <1>1, <3>1
      <4> QED
        BY <1>1, <1>3, <1>6, <4>1 DEF Ordered
    <3> QED
      BY <1>5, <1>6, <3>1 DEF Ordered
  <2>3. ASSUME NEW m \in DOMAIN s, NEW n \in DOMAIN t
        PROVE  Place(acc, s[m]) < Place(acc, t[n])
    <3>1. m < Len(s) + n
      BY <1>1
    <3> QED
      BY <1>1, <1>2, <1>3, <1>6, <3>1 DEF Ordered
  <2>4. Before(s, t, acc)
    BY <2>3 DEF Before, ToSet
  <2> QED
    BY <2>1, <2>2, <2>4
<1>7. ASSUME Ordered(s, acc), Ordered(t, acc), Before(s, t, acc)
      PROVE  Ordered(c, acc)
  <2>1. ASSUME NEW m \in DOMAIN c, NEW n \in DOMAIN c, m < n
        PROVE  Place(acc, c[m]) < Place(acc, c[n])
    <3>1. CASE n \in DOMAIN s
      <4>1. m \in DOMAIN s
        BY <1>1, <2>1, <3>1
      <4> QED
        BY <1>1, <1>7, <2>1, <3>1, <4>1 DEF Ordered
    <3>2. CASE n \notin DOMAIN s /\ m \in DOMAIN s
      <4>1. c[m] \in ToSet(s) /\ c[n] \in ToSet(t)
        BY <1>1, <1>4, <3>2 DEF ToSet
      <4> QED
        BY <1>7, <4>1 DEF Before
    <3>3. CASE n \notin DOMAIN s /\ m \notin DOMAIN s
      <4>1. /\ m - Len(s) \in DOMAIN t /\ n - Len(s) \in DOMAIN t
            /\ m - Len(s) < n - Len(s)
            /\ c[m] = t[m - Len(s)] /\ c[n] = t[n - Len(s)]
        BY <1>1, <1>4, <2>1, <3>3
      <4> QED
        BY <1>7, <4>1 DEF Ordered
    <3> QED
      BY <3>1, <3>2, <3>3
  <2> QED
    BY <1>5, <1>7, <2>1 DEF Ordered
<1> QED
  BY <1>5, <1>6, <1>7 DEF c

\* What has been accepted and put at the end of the pipeline is in order.
LEMMA OrderedAppend ==
    ASSUME NEW S, NEW s \in Seq(S), NEW acc \in Seq(S), Injective(acc), Ordered(s, acc),
           NEW e \in S, e \notin ToSet(acc)
    PROVE  Ordered(Append(s, e), Append(acc, e))
<1> DEFINE c   == Append(s, e)
           new == Append(acc, e)
<1>1. /\ DOMAIN c = 1 .. Len(s) + 1 /\ DOMAIN s = 1 .. Len(s) /\ Len(s) \in Nat
      /\ \A n \in DOMAIN s : c[n] = s[n] /\ s[n] \in ToSet(acc)
      /\ c[Len(s) + 1] = e
  BY DEF Ordered, ToSet
<1>2. /\ ToSet(new) = ToSet(acc) \cup {e}
      /\ \A x \in ToSet(acc) : /\ Place(new, x) = Place(acc, x)
                               /\ Place(new, x) < Place(new, e)
  BY PlaceOfLast
<1> HIDE DEF c, new
<1>3. ToSet(c) \subseteq ToSet(new)
  <2>1. \A n \in DOMAIN c : c[n] \in ToSet(acc) \cup {e}
    BY <1>1
  <2> QED
    BY <1>2, <2>1 DEF ToSet
<1>4. ASSUME NEW m \in DOMAIN c, NEW n \in DOMAIN c, m < n
      PROVE  Place(new, c[m]) < Place(new, c[n])
  <2>1. m \in DOMAIN s
    BY <1>1, <1>4
  <2>2. CASE n = Len(s) + 1
    BY <1>1, <1>2, <2>1, <2>2
  <2>3. CASE n # Len(s) + 1
    <3>1. n \in DOMAIN s
      BY <1>1, <2>3
    <3> QED
      BY <1>1, <1>2, <1>4, <2>1, <3>1 DEF Ordered
  <2> QED
    BY <2>2, <2>3
<1> QED
  BY <1>3, <1>4 DEF c, new, Ordered

\* A batch that is lost leaves the rest of the pipeline in order.
LEMMA OrderedWithoutMiddle ==
    ASSUME NEW S, NEW s \in Seq(S), NEW t \in Seq(S), NEW u \in Seq(S), NEW acc,
           Ordered(s \o t \o u, acc)
    PROVE  Ordered(s \o u, acc)
<1>1. s \o t \in Seq(S)
  OBVIOUS
<1>2. Ordered(s \o t, acc) /\ Ordered(u, acc) /\ Before(s \o t, u, acc)
  BY <1>1, OrderedConcat
<1>3. Ordered(s, acc) /\ ToSet(s) \subseteq ToSet(s \o t)
  BY <1>2, OrderedConcat
<1>4. Before(s, u, acc)
  BY <1>2, <1>3 DEF Before
<1> QED
  BY <1>2, <1>3, <1>4, OrderedConcat

\* One element moves from the front of a sequence to the end of another.
LEMMA TakeOne ==
    ASSUME NEW S, NEW q \in Seq(S), q # << >>, NEW b \in Seq(S)
    PROVE  /\ Tail(q) \in Seq(S) /\ Len(Tail(q)) = Len(q) - 1 /\ Len(q) \in Nat
           /\ Append(b, Head(q)) \in Seq(S) /\ Append(b, Head(q)) # << >>
           /\ Len(Append(b, Head(q))) = Len(b) + 1
           /\ Append(b, Head(q)) \o Tail(q) = b \o q
OBVIOUS

LEMMA AppendAtTheEnd ==
    ASSUME NEW S, NEW s \in Seq(S), NEW t \in Seq(S), NEW u \in Seq(S), NEW e \in S
    PROVE  s \o t \o u \in Seq(S) /\ s \o t \o Append(u, e) = Append(s \o t \o u, e)
OBVIOUS

-----------------------------------------------------------------------------
(***************************************************************************)
(* Nothing is lost on a clean exit                                         *)
(***************************************************************************)
\* The writer is closed after the last handler: nothing is enqueued then, and
\* the flusher leaves only with what it has drained.
Drained ==
    /\ closed <=> process \in {"closing", "exited"}
    /\ process \in {"closing", "exited"} => Busy = {}
    /\ process = "exited" => flusher = "exited"
    /\ flusher \in {"last_flush", "exited"} => queue = << >>
    /\ flusher = "exited" => batch = << >>
    /\ flusher \in {"loop", "drain"} => Len(batch) < BatchSize

TypedDrained == TypeOK /\ Drained

LEMMA DrainedInit == Init => TypedDrained
<1> SUFFICES ASSUME Init PROVE TypedDrained
  OBVIOUS
<1>1. Busy = {}
  BY DEF Init, Busy
<1>2. << >> \in Seq(Events) /\ Len(<< >>) = 0
  OBVIOUS
<1>3. closed \in BOOLEAN /\ cancelled \in BOOLEAN /\ ~closed /\ ~cancelled
  BY Zenon DEF Init
<1>4. /\ queue \in Seq(Events) /\ Len(queue) <= QueueSize
      /\ batch \in Seq(Events) /\ Len(batch) <= BatchSize
      /\ accepted \in Seq(Events) /\ written \in Seq(Events)
  BY <1>2, IngestAssumption DEF Init
<1>5. TypeOK
  BY <1>3, <1>4 DEF Init, TypeOK, Flushing
<1>6. Len(batch) < BatchSize
  BY <1>2, IngestAssumption DEF Init
<1> QED
  BY <1>1, <1>3, <1>5, <1>6 DEF Init, Drained, TypedDrained

LEMMA DrainedStep == TypedDrained /\ [Next]_vars => TypedDrained'
<1> SUFFICES ASSUME TypeOK, Drained, [Next]_vars
             PROVE  TypeOK' /\ Drained'
  BY DEF TypedDrained
<1> USE DEF TypeOK, Drained, Busy, writer, outside, Flushing, Running
<1>1. ASSUME NEW e \in Events, Arrive(e)
      PROVE  TypeOK' /\ Drained'
  BY <1>1 DEF Arrive
<1>2. ASSUME NEW e \in Events, WriteEvent(e)
      PROVE  TypeOK' /\ Drained'
  <2>1. /\ request' \in [Events -> {"new", "arrived", "projected", "ok", "error"}]
        /\ \A f \in Events \ {e} : request'[f] = request[f]
    BY <1>2 DEF WriteEvent, Projected
  <2>2. e \in Busy /\ ~closed
    BY <1>2 DEF WriteEvent
  <2>3. /\ queue' \in Seq(Events) /\ Len(queue') <= QueueSize /\ accepted' \in Seq(Events)
        /\ UNCHANGED <<batch, flusher, closed, cancelled, process, written, published>>
    <3>1. queue \in Seq(Events) /\ accepted \in Seq(Events) /\ Len(queue) <= QueueSize
      OBVIOUS
    <3>2. CASE UNCHANGED <<queue, accepted>>
      BY <1>2, <3>1, <3>2 DEF WriteEvent
    <3>3. CASE /\ Len(queue) < QueueSize
               /\ queue' = Append(queue, e) /\ accepted' = Append(accepted, e)
      <4>1. queue' \in Seq(Events) /\ Len(queue') = Len(queue) + 1 /\ accepted' \in Seq(Events)
        BY <3>1, <3>3
      <4> QED
        BY <1>2, <3>1, <3>3, <4>1, IngestAssumption DEF WriteEvent
    <3> QED
      BY <1>2, <3>2, <3>3 DEF WriteEvent
  <2> QED
    BY <2>1, <2>2, <2>3
<1>3. ASSUME NEW e \in Events, NEW ok \in BOOLEAN, Publish(e, ok)
      PROVE  TypeOK' /\ Drained'
  BY <1>3 DEF Publish
<1>4. ASSUME Take("loop", "flush") \/ Take("drain", "drain_flush")
      PROVE  TypeOK' /\ Drained'
  <2>1. /\ queue # << >> /\ queue' = Tail(queue) /\ batch' = Append(batch, Head(queue))
        /\ flusher \in {"loop", "drain"}
        /\ flusher = "loop" => flusher' \in {"loop", "flush"}
        /\ flusher = "drain" => flusher' \in {"drain", "drain_flush"}
        /\ flusher' \in {"loop", "drain"} => ~(Len(batch) + 1 >= BatchSize)
        /\ UNCHANGED <<request, closed, cancelled, process, accepted, written, published>>
    BY <1>4 DEF Take
  <2>2. /\ queue \in Seq(Events) /\ batch \in Seq(Events) /\ Len(queue) <= QueueSize
        /\ Len(batch) < BatchSize /\ QueueSize \in Nat /\ BatchSize \in Nat
    BY <2>1, IngestAssumption
  <2>3. /\ queue' \in Seq(Events) /\ Len(queue') <= QueueSize
        /\ batch' \in Seq(Events) /\ batch' # << >> /\ Len(batch') = Len(batch) + 1
    BY <2>1, <2>2, TakeOne
  <2>4. /\ Len(batch') <= BatchSize
        /\ flusher' \in {"loop", "drain"} => Len(batch') < BatchSize
    <3>1. Len(batch) \in Nat
      BY <2>2
    <3> QED
      BY <2>1, <2>2, <2>3, <3>1
  <2> QED
    BY <2>1, <2>3, <2>4
<1>5. CASE Tick \/ SeeClosed \/ DrainEnd
  BY <1>5 DEF Tick, SeeClosed, DrainEnd
<1>6. ASSUME NEW o \in Outcomes, Flush(o)
      PROVE  TypeOK' /\ Drained'
  BY <1>6, IngestAssumption DEF Flush, After
<1>7. CASE Signal \/ ShutdownTimeout \/ Exit
  BY <1>7 DEF Signal, ShutdownTimeout, Exit
<1>9. CASE Close \/ Grace
  <2>1. CASE Close
    <3>1. closed' /\ closed' \in BOOLEAN
      BY <2>1, Zenon DEF Close
    <3> QED
      BY <2>1, <3>1 DEF Close
  <2>2. CASE Grace
    <3>1. cancelled' \in BOOLEAN /\ closed
      BY <2>2, Zenon DEF Grace
    <3> QED
      BY <2>2, <3>1 DEF Grace
  <2> QED
    BY <1>9, <2>1, <2>2
<1>8. CASE UNCHANGED vars
  BY <1>8 DEF vars
<1> QED
  BY <1>1, <1>2, <1>3, <1>4, <1>5, <1>6, <1>7, <1>8, <1>9 DEF Next, Handle, Flusher

-----------------------------------------------------------------------------
(***************************************************************************)
(* The order of what is written                                            *)
(***************************************************************************)
pipeline == written \o batch \o queue

\* Only an event whose handler has got past WriteEvent was ever accepted.
InOrder ==
    /\ Injective(accepted)
    /\ \A e \in ToSet(accepted) : request[e] \notin {"new", "arrived"}
    /\ Ordered(pipeline, accepted)

\* The pipeline and what was accepted are as they were.
LEMMA StaysInOrder ==
    ASSUME InOrder, TypeOK, pipeline' = pipeline, accepted' = accepted,
           \A e \in Events : request[e] \notin {"new", "arrived"}
                              => request'[e] \notin {"new", "arrived"}
    PROVE  InOrder'
<1>1. ToSet(accepted) \subseteq Events
  BY DEF TypeOK, ToSet
<1> QED
  BY <1>1 DEF InOrder, Ordered

LEMMA InOrderInit == Init => InOrder
<1> SUFFICES ASSUME Init PROVE InOrder
  OBVIOUS
<1>1. pipeline = << >> /\ accepted = << >>
  BY DEF Init, pipeline
<1>2. DOMAIN << >> = {} /\ ToSet(<< >>) = {}
  BY DEF ToSet
<1> QED
  BY <1>1, <1>2 DEF InOrder, Injective, Ordered

LEMMA InOrderStep == TypeOK /\ InOrder /\ [Next]_vars => InOrder'
<1> SUFFICES ASSUME TypeOK, InOrder, [Next]_vars PROVE InOrder'
  OBVIOUS
<1>0. /\ request \in [Events -> {"new", "arrived", "projected", "ok", "error"}]
      /\ written \in Seq(Events) /\ batch \in Seq(Events) /\ queue \in Seq(Events)
      /\ accepted \in Seq(Events)
  BY DEF TypeOK
<1>1. ASSUME NEW e \in Events, Arrive(e) PROVE InOrder'
  <2>1. /\ request' = [request EXCEPT ![e] = "arrived"] /\ request[e] = "new"
        /\ UNCHANGED <<written, batch, queue, accepted>>
    BY <1>1 DEF Arrive, writer, outside
  <2> QED
    BY <1>0, <2>1, StaysInOrder DEF pipeline
<1>2. ASSUME NEW e \in Events, WriteEvent(e) PROVE InOrder'
  <2>1. /\ request' = [request EXCEPT ![e] = "projected"] /\ request[e] = "arrived"
        /\ UNCHANGED <<written, batch>>
        /\ \/ UNCHANGED <<queue, accepted>>
           \/ queue' = Append(queue, e) /\ accepted' = Append(accepted, e)
    BY <1>2 DEF WriteEvent, Projected
  <2>2. CASE UNCHANGED <<queue, accepted>>
    BY <1>0, <2>1, <2>2, StaysInOrder DEF pipeline
  <2>3. CASE queue' = Append(queue, e) /\ accepted' = Append(accepted, e)
    <3>1. e \notin ToSet(accepted) /\ Injective(accepted)
      BY <2>1 DEF InOrder
    <3>2. /\ Injective(Append(accepted, e))
          /\ ToSet(Append(accepted, e)) = ToSet(accepted) \cup {e}
      BY <1>0, <3>1, PlaceOfLast
    <3>3. pipeline' = Append(pipeline, e) /\ pipeline \in Seq(Events)
      BY <1>0, <2>1, <2>3, AppendAtTheEnd DEF pipeline
    <3>4. Ordered(Append(pipeline, e), Append(accepted, e))
      BY <1>0, <3>1, <3>3, OrderedAppend DEF InOrder
    <3>5. ToSet(accepted) \subseteq Events
      BY <1>0 DEF ToSet
    <3>6. \A f \in ToSet(accepted) \cup {e} : request'[f] \notin {"new", "arrived"}
      BY <1>0, <2>1, <3>5 DEF InOrder
    <3> QED
      BY <2>3, <3>2, <3>3, <3>4, <3>6 DEF InOrder
  <2> QED
    BY <2>1, <2>2, <2>3
<1>3. ASSUME NEW e \in Events, NEW ok \in BOOLEAN, Publish(e, ok) PROVE InOrder'
  <2>1. /\ \E r \in {"ok", "error"} : request' = [request EXCEPT ![e] = r]
        /\ UNCHANGED <<written, batch, queue, accepted>>
    BY <1>3 DEF Publish, writer
  <2> QED
    BY <1>0, <2>1, StaysInOrder DEF pipeline
<1>4. ASSUME Take("loop", "flush") \/ Take("drain", "drain_flush") PROVE InOrder'
  <2>1. /\ queue # << >> /\ queue' = Tail(queue) /\ batch' = Append(batch, Head(queue))
        /\ UNCHANGED <<request, accepted, written>>
    BY <1>4 DEF Take, outside
  <2>2. pipeline' = written \o Append(batch, Head(queue)) \o Tail(queue)
    BY <2>1 DEF pipeline
  <2>3. written \o Append(batch, Head(queue)) \o Tail(queue) = pipeline
    <3> DEFINE b == Append(batch, Head(queue))
               q == Tail(queue)
    <3>1. b \in Seq(Events) /\ q \in Seq(Events) /\ b \o q = batch \o queue
      BY <1>0, <2>1, TakeOne
    <3> HIDE DEF b, q
    <3>2. \A x, y \in Seq(Events) : written \o x \o y = written \o (x \o y)
      BY <1>0
    <3>3. b \in Seq(Events) /\ q \in Seq(Events)
      BY <3>1
    <3>4. written \o b \o q = written \o (b \o q)
      BY <3>2, <3>3, Zenon
    <3>5. written \o batch \o queue = written \o (batch \o queue)
      BY <1>0, <3>2, Zenon
    <3> QED
      BY <3>1, <3>4, <3>5 DEF b, q, pipeline
  <2> QED
    BY <2>1, <2>2, <2>3, StaysInOrder
<1>5. ASSUME NEW o \in Outcomes, Flush(o) PROVE InOrder'
  <2>1. /\ batch' = << >> /\ UNCHANGED <<request, queue, accepted>>
        /\ written' = written \/ written' = written \o batch
    BY <1>5 DEF Flush
  <2>2. CASE written' = written \o batch
    <3>1. pipeline' = pipeline
      BY <1>0, <2>1, <2>2 DEF pipeline
    <3> QED
      BY <2>1, <3>1, StaysInOrder
  <2>3. CASE written' = written
    <3>1. pipeline' = written \o queue
      BY <1>0, <2>1, <2>3 DEF pipeline
    <3>2. Ordered(written \o queue, accepted)
      BY <1>0, OrderedWithoutMiddle DEF InOrder, pipeline
    <3> QED
      BY <2>1, <3>1, <3>2 DEF InOrder
  <2> QED
    BY <2>1, <2>2, <2>3
<1>6. CASE UNCHANGED <<request, queue, batch, accepted, written>>
  BY <1>0, <1>6, StaysInOrder DEF pipeline
<1>7. ASSUME Tick \/ SeeClosed \/ DrainEnd \/ Signal \/ Close \/ ShutdownTimeout \/ Grace \/ Exit
             \/ UNCHANGED vars
      PROVE  UNCHANGED <<request, queue, batch, accepted, written>>
  BY <1>7 DEF Tick, SeeClosed, DrainEnd, Signal, Close, ShutdownTimeout, Grace, Exit, vars,
              writer, outside
<1> QED
  BY <1>1, <1>2, <1>3, <1>4, <1>5, <1>6, <1>7 DEF Next, Handle, Flusher

-----------------------------------------------------------------------------
\* The queue and the batch keep their capacity, a flush has something to
\* flush, and only a closed writer drains.
THEOREM WriterTypes == Spec => []TypeOK
<1>1. TypedDrained => TypeOK
  BY DEF TypedDrained
<1> QED
  BY DrainedInit, DrainedStep, <1>1, PTL DEF Spec

\* "Drain remaining queued events so we don't lose them on shutdown": when
\* main returns, every handler has been answered and every event the writer
\* accepted has been in a flush, for a queue and a batch of any size.
THEOREM CleanExit == Spec => []ExitIsDrained
<1>1. TypedDrained => ExitIsDrained
  BY DEF TypedDrained, Drained, ExitIsDrained
<1> QED
  BY DrainedInit, DrainedStep, <1>1, PTL DEF Spec

\* Neo4j sees the events in the order in which WriteEvent accepted them and
\* none twice, whatever flushes fail.
THEOREM WrittenIsInOrder == Spec => []WrittenInOrder
<1>1. InOrder => WrittenInOrder
  BY DEF InOrder, Ordered, Place, pipeline, WrittenInOrder
<1>2. TypedDrained => TypeOK
  BY DEF TypedDrained
<1>3. Spec => []TypeOK
  BY WriterTypes
<1> QED
  BY InOrderInit, InOrderStep, <1>1, <1>3, PTL DEF Spec

-----------------------------------------------------------------------------
(***************************************************************************)
(* The writer implements GraphLog                                          *)
(***************************************************************************)
LEMMA Parts ==
    ASSUME NEW S, NEW s \in Seq(S), NEW t \in Seq(S)
    PROVE  /\ Len(s) \in Nat /\ Len(s \o t) = Len(s) + Len(t)
           /\ SubSeq(s \o t, 1, Len(s)) = s
           /\ SubSeq(s \o t, Len(s) + 1, Len(s \o t)) = t
<1> DEFINE c == s \o t
<1>1. /\ c \in Seq(S) /\ Len(c) = Len(s) + Len(t) /\ Len(s) \in Nat /\ Len(t) \in Nat
      /\ s = [k \in 1 .. Len(s) |-> s[k]] /\ t = [k \in 1 .. Len(t) |-> t[k]]
      /\ \A k \in 1 .. Len(s) : c[k] = s[k]
      /\ \A k \in 1 .. Len(t) : c[Len(s) + k] = t[k]
  OBVIOUS
<1> HIDE DEF c
<1>2. SubSeq(c, 1, Len(s)) = [k \in 1 .. Len(s) |-> c[k]]
  BY <1>1
<1>3. SubSeq(c, Len(s) + 1, Len(c)) = [k \in 1 .. Len(t) |-> c[Len(s) + k]]
  BY <1>1
<1>4. [k \in 1 .. Len(s) |-> c[k]] = [k \in 1 .. Len(s) |-> s[k]]
  BY <1>1
<1>5. [k \in 1 .. Len(t) |-> c[Len(s) + k]] = [k \in 1 .. Len(t) |-> t[k]]
  BY <1>1
<1>6. SubSeq(c, 1, Len(s)) = s /\ SubSeq(c, Len(s) + 1, Len(c)) = t
  BY <1>1, <1>2, <1>3, <1>4, <1>5
<1> QED
  BY <1>1, <1>6 DEF c

\* The variables of the log.
log == <<accepted, batch \o queue, written, Phase>>

\* The log is as it was.
LEMMA Stutters ==
    ASSUME accepted' = accepted, (batch \o queue)' = batch \o queue,
           written' = written, Phase' = Phase
    PROVE  [LogOf!LogNext]_log
BY DEF log

LEMMA LogStep == TypedDrained /\ InOrder /\ [Next]_vars => [LogOf!LogNext]_log
<1> SUFFICES ASSUME TypedDrained, InOrder, [Next]_vars PROVE [LogOf!LogNext]_log
  OBVIOUS
<1>0. /\ request \in [Events -> {"new", "arrived", "projected", "ok", "error"}]
      /\ written \in Seq(Events) /\ batch \in Seq(Events) /\ queue \in Seq(Events)
      /\ accepted \in Seq(Events)
      /\ Len(batch) <= BatchSize /\ Len(queue) <= QueueSize
      /\ QueueSize \in Nat /\ BatchSize \in Nat
  BY IngestAssumption DEF TypedDrained, TypeOK
<1>1. ASSUME NEW e \in Events, Arrive(e) PROVE [LogOf!LogNext]_log
  BY <1>1, Stutters DEF Arrive, writer, outside, Phase
<1>2. ASSUME NEW e \in Events, WriteEvent(e) PROVE [LogOf!LogNext]_log
  <2>1. UNCHANGED <<batch, written, process>>
    BY <1>2 DEF WriteEvent
  <2>2. CASE UNCHANGED <<queue, accepted>>
    BY <2>1, <2>2, Stutters DEF Phase
  <2>3. CASE /\ Len(queue) < QueueSize
             /\ queue' = Append(queue, e) /\ accepted' = Append(accepted, e)
    <3>1. request[e] = "arrived" /\ e \notin ToSet(accepted)
      BY <1>2 DEF WriteEvent, InOrder
    <3>2. process \in {"serving", "stopping"}
      BY <1>2, <3>1 DEF WriteEvent, Running, Busy, TypedDrained, Drained, TypeOK
    <3>3. Phase = "open" /\ Phase' = Phase
      BY <2>1, <3>2 DEF Phase
    <3>4. (batch \o queue)' = Append(batch \o queue, e)
      BY <1>0, <2>1, <2>3
    <3>5. Len(batch \o queue) < QueueSize + BatchSize
      BY <1>0, <2>3
    <3>6. LogOf!LogAccept(e)
      BY <2>1, <2>3, <3>1, <3>3, <3>4, <3>5 DEF LogOf!LogAccept, LogOf!ToSet, ToSet
    <3> QED
      BY <3>6 DEF LogOf!LogNext
  <2> QED
    BY <1>2, <2>2, <2>3 DEF WriteEvent
<1>3. ASSUME NEW e \in Events, NEW ok \in BOOLEAN, Publish(e, ok)
      PROVE  [LogOf!LogNext]_log
  BY <1>3, Stutters DEF Publish, writer, Phase
<1>4. ASSUME Take("loop", "flush") \/ Take("drain", "drain_flush")
      PROVE  [LogOf!LogNext]_log
  <2>1. /\ queue # << >> /\ queue' = Tail(queue) /\ batch' = Append(batch, Head(queue))
        /\ UNCHANGED <<process, accepted, written>>
    BY <1>4 DEF Take, outside
  <2>2. (batch \o queue)' = batch \o queue
    BY <1>0, <2>1, TakeOne
  <2> QED
    BY <2>1, <2>2, Stutters DEF Phase
\* A flush settles its batch, the first part of the log.
<1>5. ASSUME NEW o \in Outcomes, Flush(o) PROVE [LogOf!LogNext]_log
  <2>1. /\ batch' = << >> /\ UNCHANGED <<queue, accepted, process>>
        /\ written' \in {written, written \o batch}
        /\ flusher \in Flushing /\ Running
    BY <1>5 DEF Flush
  <2>2. batch # << >> /\ Phase \in {"open", "closing"} /\ Phase' = Phase
    BY <2>1 DEF TypedDrained, TypeOK, Running, Phase
  <2>3. Len(batch) \in 1 .. BatchSize
    BY <1>0, <2>2
  <2>4. (batch \o queue)' = queue
    BY <1>0, <2>1
  <2>5. /\ Len(batch) <= Len(batch \o queue)
        /\ SubSeq(batch \o queue, 1, Len(batch)) = batch
        /\ SubSeq(batch \o queue, Len(batch) + 1, Len(batch \o queue)) = queue
    BY <1>0, Parts
  <2>6. LogOf!LogSettle(Len(batch))
    BY <2>1, <2>2, <2>4, <2>5 DEF LogOf!LogSettle
  <2> QED
    BY <2>3, <2>6 DEF LogOf!LogNext
<1>6. CASE Tick \/ SeeClosed \/ DrainEnd \/ Grace \/ UNCHANGED vars
  BY <1>6, Stutters DEF Tick, SeeClosed, DrainEnd, Grace, vars, writer, outside, Phase
<1>7. CASE Signal
  BY <1>7, Stutters DEF Signal, writer, outside, Phase
<1>8. CASE Close
  <2>1. LogOf!LogClose
    BY <1>8 DEF Close, outside, LogOf!LogClose, Phase
  <2> QED
    BY <2>1 DEF LogOf!LogNext
<1>9. CASE ShutdownTimeout
  <2>1. LogOf!LogAbort
    BY <1>9 DEF ShutdownTimeout, writer, outside, LogOf!LogAbort, Phase
  <2> QED
    BY <2>1 DEF LogOf!LogNext
\* The log ends empty: the flusher has left.
<1>10. CASE Exit
  <2>1. batch \o queue = << >>
    BY <1>10 DEF Exit, TypedDrained, Drained
  <2>2. LogOf!LogEnd
    BY <1>10, <2>1 DEF Exit, writer, outside, LogOf!LogEnd, Phase
  <2> QED
    BY <2>2 DEF LogOf!LogNext
<1> QED
  BY <1>1, <1>2, <1>3, <1>4, <1>5, <1>6, <1>7, <1>8, <1>9, <1>10 DEF Next, Handle, Flusher

\* The writer is the log it promises, for any events and any sizes: accepted
\* events leave its memory in order and a batch at a time, none enters it once
\* main has closed it, and a process that exits leaves it empty.
THEOREM LogImplemented == Spec => ImplementsLog
<1>1. Init => LogOf!LogInit
  BY DEF Init, LogOf!LogInit, Phase
<1>2. TypedDrained /\ InOrder /\ [Next]_vars => [LogOf!LogNext]_LogOf!log_vars
  BY LogStep DEF log, LogOf!log_vars
<1>3. TypedDrained => TypeOK
  BY DEF TypedDrained
<1> QED
  BY DrainedInit, DrainedStep, InOrderInit, InOrderStep, <1>1, <1>2, <1>3, PTL
     DEF Spec, ImplementsLog, LogOf!LogSpec

-----------------------------------------------------------------------------
(***************************************************************************)
(* Neo4j ahead of the fusion topic                                         *)
(***************************************************************************)
\* A request that was answered with success was published.
OkIsPublished == \A e \in Events : request[e] = "ok" => e \in published

LEMMA OkIsPublishedStep == TypeOK /\ OkIsPublished /\ [Next]_vars => OkIsPublished'
<1> SUFFICES ASSUME TypeOK, OkIsPublished, [Next]_vars PROVE OkIsPublished'
  OBVIOUS
<1> USE DEF TypeOK, OkIsPublished, writer, outside
<1>1. ASSUME NEW e \in Events, Arrive(e) PROVE OkIsPublished'
  BY <1>1 DEF Arrive
<1>2. ASSUME NEW e \in Events, WriteEvent(e) PROVE OkIsPublished'
  BY <1>2 DEF WriteEvent, Projected
<1>3. ASSUME NEW e \in Events, NEW ok \in BOOLEAN, Publish(e, ok) PROVE OkIsPublished'
  BY <1>3 DEF Publish
<1>4. ASSUME Flusher \/ (\E o \in Outcomes : Flush(o)) \/ Signal \/ Close
             \/ ShutdownTimeout \/ Grace \/ Exit \/ UNCHANGED vars
      PROVE  OkIsPublished'
  BY <1>4 DEF Flusher, Take, Tick, SeeClosed, DrainEnd, Flush, Signal, Close,
     ShutdownTimeout, Grace, Exit, vars
<1> QED
  BY <1>1, <1>2, <1>3, <1>4 DEF Next, Handle

\* An event that is in Neo4j and not on the fusion topic is one whose sender
\* has not been told that all is well, for any number of requests.
THEOREM AheadIsKnown == Spec => []GraphAheadIsKnown
<1>1. Init => OkIsPublished
  BY DEF Init, OkIsPublished
<1>2. TypeOK /\ InOrder /\ OkIsPublished => GraphAheadIsKnown
  <2> SUFFICES ASSUME TypeOK, InOrder, OkIsPublished, NEW e \in ToSet(written) \ published
               PROVE  request[e] \in {"projected", "error"}
    BY DEF GraphAheadIsKnown
  <2>1. written \in Seq(Events) /\ batch \o queue \in Seq(Events) /\ batch \in Seq(Events)
        /\ queue \in Seq(Events)
    BY DEF TypeOK
  <2>2. pipeline = written \o (batch \o queue)
    BY <2>1 DEF pipeline
  <2>3. e \in ToSet(accepted)
    BY <2>1, <2>2, OrderedConcat DEF InOrder, Ordered
  <2>4. e \in Events
    BY <2>3 DEF TypeOK, ToSet
  <2> QED
    BY <2>3, <2>4 DEF TypeOK, InOrder, OkIsPublished
<1>3. TypedDrained => TypeOK
  BY DEF TypedDrained
<1> QED
  BY DrainedInit, DrainedStep, InOrderInit, InOrderStep, OkIsPublishedStep, <1>1, <1>2, <1>3, PTL
     DEF Spec

-----------------------------------------------------------------------------
(***************************************************************************)
(* GraphStream: the live tail                                              *)
(***************************************************************************)

Increasing(s) == \A i, j \in DOMAIN s : i < j => s[i] < s[j]

Below(s, e) == \A k \in DOMAIN s : s[k] < e

\* Where a subscription began and ended goes with its connection.
Placed ==
    \A c \in Clients :
        /\ since[c] <= read
        /\ conn[c] = "away" => taken[c] = << >> /\ updates[c] = << >>
        /\ conn[c] \in {"away", "open"} <=> until[c] = -1
        /\ until[c] <= read

\* A target of the dispatch is owed the update at hand, though it may have
\* left since the targets were collected.
Targeted ==
    loop = "dispatch" =>
        \A c \in targets :
            /\ since[c] < read /\ conn[c] # "away"
            /\ topic[read] \in {tenant[c], Unscoped}
            /\ until[c] \in {-1, read}

StreamInv == StreamTypeOK /\ TailInOrder /\ Placed /\ Targeted

-----------------------------------------------------------------------------
\* What is queued moves to what was taken, and stays where it is in all.
LEMMA TakenFromQueue ==
    ASSUME NEW S, NEW t \in Seq(S), NEW u \in Seq(S), u # << >>
    PROVE  /\ Append(t, Head(u)) \in Seq(S) /\ Tail(u) \in Seq(S)
           /\ Append(t, Head(u)) \o Tail(u) = t \o u
OBVIOUS

\* An update larger than all before keeps them in order.
LEMMA InOrderAppend ==
    ASSUME NEW n \in Nat, NEW t \in Seq(1 .. n), NEW u \in Seq(1 .. n), NEW e \in 1 .. n,
           Increasing(t \o u), Below(t \o u, e)
    PROVE  /\ Append(u, e) \in Seq(1 .. n)
           /\ Increasing(t \o Append(u, e))
           /\ ToSet(t \o Append(u, e)) = ToSet(t \o u) \cup {e}
<1> DEFINE g == t \o u
           h == t \o Append(u, e)
<1>1. h = Append(g, e) /\ g \in Seq(1 .. n)
  OBVIOUS
<1> HIDE DEF g, h
<1>2. /\ DOMAIN h = DOMAIN g \cup {Len(g) + 1} /\ DOMAIN g = 1 .. Len(g) /\ Len(g) \in Nat
      /\ \A k \in DOMAIN g : h[k] = g[k]
      /\ h[Len(g) + 1] = e
  BY <1>1
<1>3. Increasing(g) /\ \A k \in DOMAIN g : g[k] < e
  BY DEF g, Below
<1>4. Increasing(h)
  BY <1>2, <1>3 DEF Increasing
<1>5. ToSet(h) = ToSet(g) \cup {e}
  BY <1>2 DEF ToSet
<1>6. Append(u, e) \in Seq(1 .. n)
  OBVIOUS
<1> QED BY <1>4, <1>5, <1>6 DEF g, h

-----------------------------------------------------------------------------
\* What client c holds is in order and owed to it.
Good(c) == Increasing(Got(c)) /\ ToSet(Got(c)) \subseteq Owed(c)

LEMMA TailIsGood == TailInOrder <=> \A c \in Clients : Good(c)
BY DEF TailInOrder, Good, Increasing

LEMMA StreamFacts ==
    ASSUME StreamTypeOK
    PROVE  /\ read \in 0 .. MaxUpdates /\ MaxUpdates \in Nat
           /\ topic \in Seq(Tenants \cup {Unscoped, Garbage})
           /\ \A c \in Clients :
                 /\ since[c] \in 0 .. MaxUpdates /\ until[c] \in -1 .. MaxUpdates
                 /\ updates[c] \in Seq(1 .. MaxUpdates)
                 /\ taken[c] \in Seq(1 .. MaxUpdates)
BY GraphStreamAssumption DEF StreamTypeOK, read

\* What is owed has been read, and the update on offer is not owed yet.
LEMMA OwedIsRead ==
    ASSUME StreamTypeOK, Placed, NEW c \in Clients, NEW n \in Owed(c)
    PROVE  n \in 1 .. read /\ ~(loop = "dispatch" /\ c \in targets /\ n = read)
BY StreamFacts DEF Owed, Placed

\* No one has connected yet.
LEMMA StreamInitially == StreamInit => StreamInv
<1> SUFFICES ASSUME StreamInit PROVE StreamInv
  OBVIOUS
<1>1. Len(topic) = 0 /\ topic \in Seq(Tenants \cup {Unscoped, Garbage})
  BY DEF StreamInit
<1>2. StreamTypeOK
  <2>1. << >> \in Seq(1 .. MaxUpdates) /\ 0 \in 0 .. MaxUpdates /\ -1 \in -1 .. MaxUpdates
    BY GraphStreamAssumption
  <2>2. /\ updates \in [Clients -> Seq(1 .. MaxUpdates)]
        /\ taken \in [Clients -> Seq(1 .. MaxUpdates)]
    BY <2>1 DEF StreamInit
  <2>3. /\ since \in [Clients -> 0 .. MaxUpdates]
        /\ until \in [Clients -> -1 .. MaxUpdates]
        /\ conn \in [Clients -> {"away", "open", "removed", "closed"}]
    BY <2>1 DEF StreamInit
  <2>4. Len(topic) <= MaxUpdates
    BY <1>1, GraphStreamAssumption
  <2>5. /\ loop \in {"next", "dispatch", "done"} /\ targets \subseteq Clients
        /\ stopping \in BOOLEAN /\ panicked \in BOOLEAN /\ dropped \in Nat
        /\ tenant \in [Clients -> Tenants]
    BY DEF StreamInit
  <2> QED BY <1>1, <2>2, <2>3, <2>4, <2>5 DEF StreamTypeOK
<1>3. ASSUME NEW c \in Clients PROVE Good(c)
  <2>1. Got(c) = << >>
    BY <1>3 DEF StreamInit, Got
  <2>2. DOMAIN << >> = {}
    OBVIOUS
  <2> QED BY <2>1, <2>2 DEF Good, Increasing, ToSet
<1>4. Placed /\ Targeted
  BY <1>1 DEF StreamInit, Placed, Targeted, read
<1> QED BY <1>2, <1>3, <1>4, TailIsGood DEF StreamInv

\* A client whose queue and subscription stay keeps what it has, as long as
\* the loop owes it no less.
LEMMA KeepsGood ==
    ASSUME NEW c \in Clients, Good(c), Got(c)' = Got(c), Owed(c) \subseteq Owed(c)'
    PROVE  Good(c)'
BY DEF Good

LEMMA StreamInductive == StreamInv /\ [StreamNext]_stream_vars => StreamInv'
<1> SUFFICES ASSUME StreamInv, [StreamNext]_stream_vars PROVE StreamInv'
  OBVIOUS
<1>0. StreamTypeOK /\ Placed /\ Targeted /\ \A c \in Clients : Good(c)
  BY TailIsGood DEF StreamInv
<1>a. StreamTypeOK' /\ Placed' /\ Targeted' /\ (\A c \in Clients : Good(c)') => StreamInv'
  <2>1. (\A c \in Clients : Good(c)') => TailInOrder'
    BY DEF TailInOrder, Good, Increasing
  <2> QED BY <2>1 DEF StreamInv
<1>1. ASSUME NEW message \in Tenants \cup {Unscoped, Garbage}, Read(message)
      PROVE  StreamInv'
  <2>1. /\ loop = "next" /\ Len(topic) < MaxUpdates
        /\ topic' = Append(topic, message)
        /\ UNCHANGED <<stopping, dropped, panicked, handler>>
        /\ \/ message = Garbage /\ UNCHANGED <<loop, targets>>
           \/ /\ loop' = "dispatch"
              /\ targets' = {c \in subscribers : Sees(c, message)}
    BY <1>1 DEF Read
  <2>2. /\ topic' \in Seq(Tenants \cup {Unscoped, Garbage})
        /\ read' = read + 1 /\ read' <= MaxUpdates
        /\ \A n \in 1 .. read : topic'[n] = topic[n]
        /\ topic'[read'] = message
    BY <1>0, <2>1, StreamFacts DEF read
  <2>3. StreamTypeOK'
    BY <1>0, <2>1, <2>2 DEF StreamTypeOK, handler, subscribers, read
  <2>4. Placed'
    BY <1>0, <2>1, <2>2, StreamFacts DEF Placed, handler
  <2>5. Targeted'
    BY <1>0, <2>1, <2>2, StreamFacts DEF Targeted, Placed, subscribers, Sees, handler
  <2>6. ASSUME NEW c \in Clients PROVE Good(c)'
    <3>1. Got(c)' = Got(c)
      BY <2>1 DEF Got, handler
    <3>2. ASSUME NEW n \in Owed(c) PROVE n \in Owed(c)'
      <4>1. n \in 1 .. read /\ topic'[n] = topic[n] /\ n # read'
        BY <1>0, <2>2, StreamFacts, OwedIsRead
      <4>2. /\ conn' = conn /\ since' = since /\ until' = until /\ tenant' = tenant
        BY <2>1 DEF handler
      <4>3. /\ conn[c] # "away" /\ n \in since[c] + 1 .. read
            /\ topic[n] \in {tenant[c], Unscoped}
            /\ until[c] = -1 \/ n <= until[c]
        BY <1>0, StreamFacts, <4>1 DEF Owed
      <4>4. n \in since'[c] + 1 .. (IF until'[c] = -1 THEN read' ELSE until'[c])
        BY <1>0, StreamFacts, <2>2, <4>2, <4>3
      <4> QED BY <4>1, <4>2, <4>3, <4>4 DEF Owed
    <3> QED BY <1>0, <3>1, <3>2, KeepsGood
  <2> QED BY <1>a, <2>3, <2>4, <2>5, <2>6
<1>2. ASSUME NEW c \in Clients, Deliver(c) PROVE StreamInv'
  <2>1. /\ loop = "dispatch" /\ c \in targets /\ targets' = targets \ {c}
        /\ UNCHANGED <<topic, loop, stopping, panicked>>
        /\ UNCHANGED <<tenant, conn, taken, since, until>>
        /\ \/ updates' = [updates EXCEPT ![c] = Append(@, read)] /\ dropped' = dropped
           \/ updates' = updates /\ dropped' = dropped + 1
    BY <1>2 DEF Deliver, Offer
  <2>2. /\ since[c] < read /\ conn[c] # "away" /\ read \in 1 .. MaxUpdates
        /\ topic[read] \in {tenant[c], Unscoped} /\ until[c] \in {-1, read}
    BY <1>0, <2>1, StreamFacts DEF Targeted
  <2>3. read' = read
    BY <2>1 DEF read
  <2>4. \A d \in Clients \ {c} : updates'[d] = updates[d]
    BY <1>0, <2>1 DEF StreamTypeOK
  <2>5. \/ updates'[c] = updates[c]
        \/ updates'[c] = Append(updates[c], read)
    BY <1>0, <2>1 DEF StreamTypeOK
  <2>6. StreamTypeOK'
    <3>1. Append(updates[c], read) \in Seq(1 .. MaxUpdates)
      BY <1>0, <2>2, StreamFacts
    <3>2. updates' \in [Clients -> Seq(1 .. MaxUpdates)]
      BY <1>0, <2>1, <3>1 DEF StreamTypeOK
    <3>3. targets' \subseteq Clients /\ dropped' \in Nat
      BY <1>0, <2>1 DEF StreamTypeOK
    <3> QED BY <1>0, <2>1, <3>2, <3>3 DEF StreamTypeOK
  <2>7. Placed' /\ Targeted'
    BY <1>0, <2>1, <2>2, <2>3, <2>4 DEF Placed, Targeted
  <2>8. ASSUME NEW d \in Clients, d # c PROVE Good(d)'
    <3>1. Got(d)' = Got(d) /\ Owed(d)' = Owed(d)
      BY <2>1, <2>3, <2>4, <2>8 DEF Got, Owed
    <3> QED BY <1>0, <3>1, KeepsGood
  <2>9. Owed(c) \subseteq Owed(c)' /\ read \in Owed(c)'
    BY <1>0, <2>1, <2>2, <2>3, StreamFacts DEF Owed
  <2>10. Good(c)'
    <3>1. CASE updates'[c] = updates[c]
      <4>1. Got(c)' = Got(c)
        BY <2>1, <3>1 DEF Got
      <4> QED BY <1>0, <2>9, <4>1, KeepsGood
    <3>2. CASE updates'[c] = Append(updates[c], read)
      <4>1. \A k \in DOMAIN Got(c) : Got(c)[k] < read
        <5>1. ASSUME NEW k \in DOMAIN Got(c) PROVE Got(c)[k] < read
          <6>1. Got(c)[k] \in Owed(c)
            BY <1>0 DEF Good, ToSet
          <6>2. Got(c)[k] \in 1 .. read /\ Got(c)[k] # read
            BY <1>0, <2>1, <6>1, OwedIsRead
          <6> QED BY <6>2, <2>2
        <5> QED BY <5>1
      <4>2. /\ Increasing(taken[c] \o Append(updates[c], read))
            /\ ToSet(taken[c] \o Append(updates[c], read)) = ToSet(Got(c)) \cup {read}
        <5> DEFINE t == taken[c]
                   u == updates[c]
                   e == read
        <5>1. /\ t \in Seq(1 .. MaxUpdates) /\ u \in Seq(1 .. MaxUpdates)
              /\ e \in 1 .. MaxUpdates /\ MaxUpdates \in Nat
              /\ Increasing(t \o u) /\ Below(t \o u, e)
          BY <1>0, <2>2, <4>1, StreamFacts DEF Good, Got, Below
        <5> HIDE DEF t, u, e
        <5>2. /\ Increasing(t \o Append(u, e))
              /\ ToSet(t \o Append(u, e)) = ToSet(t \o u) \cup {e}
          BY <5>1, InOrderAppend
        <5> QED BY <5>2 DEF Got, t, u, e
      <4>3. Got(c)' = taken[c] \o Append(updates[c], read)
        BY <2>1, <3>2 DEF Got
      <4> QED BY <1>0, <2>9, <4>2, <4>3 DEF Good
    <3> QED BY <2>5, <3>1, <3>2
  <2> QED BY <1>a, <2>6, <2>7, <2>8, <2>10
\* The loop and Stop, where no one is sent anything.
<1>3. ASSUME UNCHANGED <<topic, handler>>, StreamTypeOK',
             loop = "dispatch" /\ loop' = "dispatch" => targets' = targets,
             loop = "dispatch" /\ loop' # "dispatch" => targets = {},
             loop # "dispatch" => loop' # "dispatch"
      PROVE  StreamInv'
  <2>1. read' = read
    BY <1>3 DEF read
  <2>2. Placed' /\ Targeted'
    BY <1>0, <1>3, <2>1 DEF Placed, Targeted, handler
  <2>3. ASSUME NEW c \in Clients PROVE Good(c)'
    <3>1. Got(c)' = Got(c) /\ Owed(c)' = Owed(c)
      BY <1>3, <2>1 DEF Got, Owed, handler
    <3> QED BY <1>0, <3>1, KeepsGood
  <2> QED BY <1>a, <1>3, <2>2, <2>3
<1>4. ASSUME NEW c \in Clients, Panic(c) PROVE StreamInv'
  <2>1. StreamTypeOK'
    BY <1>0, <1>4 DEF Panic, StreamTypeOK, handler
  <2> QED BY <1>3, <1>4, <2>1 DEF Panic
<1>5. CASE Dispatched \/ LoopExit \/ Stop
  <2>1. StreamTypeOK'
    BY <1>0, <1>5 DEF Dispatched, LoopExit, Stop, StreamTypeOK, handler
  <2> QED BY <1>3, <1>5, <2>1 DEF Dispatched, LoopExit, Stop
<1>6. ASSUME NEW c \in Clients, Subscribe(c) PROVE StreamInv'
  <2>1. /\ conn[c] = "away" /\ conn' = [conn EXCEPT ![c] = "open"]
        /\ since' = [since EXCEPT ![c] = read]
        /\ UNCHANGED <<consumer, tenant, updates, taken, until>>
    BY <1>6 DEF Subscribe
  <2>2. read' = read
    BY <2>1 DEF read, consumer
  <2>3. StreamTypeOK'
    BY <1>0, <2>1, StreamFacts DEF StreamTypeOK, consumer
  <2>4. \A d \in Clients \ {c} : conn'[d] = conn[d] /\ since'[d] = since[d]
    BY <1>0, <2>1 DEF StreamTypeOK
  <2>5. conn'[c] = "open" /\ since'[c] = read
    BY <1>0, <2>1 DEF StreamTypeOK
  <2>6. Placed'
    BY <1>0, <2>1, <2>2, <2>4, <2>5, StreamFacts DEF Placed
  <2>7. loop = "dispatch" => c \notin targets
    BY <1>0, <2>1 DEF Targeted
  <2>8. Targeted'
    BY <1>0, <2>1, <2>2, <2>4, <2>7 DEF Targeted, StreamTypeOK, consumer
  <2>9. ASSUME NEW d \in Clients, d # c PROVE Good(d)'
    <3>1. Got(d)' = Got(d) /\ Owed(d)' = Owed(d)
      BY <2>1, <2>2, <2>4, <2>9 DEF Got, Owed, consumer
    <3> QED BY <1>0, <3>1, KeepsGood
  <2>10. Good(c)'
    <3>1. Got(c)' = << >>
      BY <1>0, <2>1 DEF Placed, Got
    <3>2. DOMAIN << >> = {}
      OBVIOUS
    <3> QED BY <3>1, <3>2 DEF Good, Increasing, ToSet
  <2> QED BY <1>a, <2>3, <2>6, <2>8, <2>9, <2>10
<1>7. ASSUME NEW c \in Clients, Write(c) PROVE StreamInv'
  <2> DEFINE taken1 == Append(taken[c], Head(updates[c]))
  <2>1. /\ conn[c] = "open" /\ updates[c] # << >>
        /\ updates' = [updates EXCEPT ![c] = Tail(@)]
        /\ taken' = [taken EXCEPT ![c] = taken1]
        /\ UNCHANGED <<consumer, tenant, conn, since, until>>
    BY <1>0, <1>7 DEF Write, StreamTypeOK
  <2>2. read' = read
    BY <2>1 DEF read, consumer
  <2>3. /\ taken1 \in Seq(1 .. MaxUpdates) /\ Tail(updates[c]) \in Seq(1 .. MaxUpdates)
        /\ taken1 \o Tail(updates[c]) = Got(c)
    BY <1>0, <2>1, StreamFacts, TakenFromQueue DEF Got
  <2> HIDE DEF taken1
  <2>4. StreamTypeOK'
    BY <1>0, <2>1, <2>3 DEF StreamTypeOK, consumer
  <2>5. \A d \in Clients \ {c} : updates'[d] = updates[d] /\ taken'[d] = taken[d]
    BY <1>0, <2>1 DEF StreamTypeOK
  <2>6. updates'[c] = Tail(updates[c]) /\ taken'[c] = taken1
    BY <1>0, <2>1 DEF StreamTypeOK
  <2>7. Placed' /\ Targeted'
    BY <1>0, <2>1, <2>2, <2>5 DEF Placed, Targeted, consumer
  <2>8. ASSUME NEW d \in Clients PROVE Good(d)'
    <3>1. Got(d)' = Got(d)
      BY <2>3, <2>5, <2>6 DEF Got
    <3>2. Owed(d)' = Owed(d)
      BY <2>1, <2>2 DEF Owed, consumer
    <3> QED BY <1>0, <3>1, <3>2, KeepsGood
  <2> QED BY <1>a, <2>4, <2>7, <2>8
<1>8. ASSUME NEW c \in Clients, Unsubscribe(c) PROVE StreamInv'
  <2>1. /\ conn[c] = "open" /\ conn' = [conn EXCEPT ![c] = "removed"]
        /\ until' = [until EXCEPT ![c] = read]
        /\ UNCHANGED <<consumer, tenant, updates, taken, since>>
    BY <1>8 DEF Unsubscribe
  <2>2. read' = read
    BY <2>1 DEF read, consumer
  <2>3. StreamTypeOK'
    BY <1>0, <2>1, StreamFacts DEF StreamTypeOK, consumer
  <2>4. /\ \A d \in Clients \ {c} : conn'[d] = conn[d] /\ until'[d] = until[d]
        /\ conn'[c] = "removed" /\ until'[c] = read
    BY <1>0, <2>1 DEF StreamTypeOK
  <2>5. Placed'
    BY <1>0, <2>1, <2>2, <2>4, StreamFacts DEF Placed
  <2>6. Targeted'
    BY <1>0, <2>1, <2>2, <2>4, StreamFacts DEF Targeted, StreamTypeOK, consumer
  <2>7. until[c] = -1
    BY <1>0, <2>1 DEF Placed
  <2>8. ASSUME NEW d \in Clients PROVE Good(d)'
    <3>1. Got(d)' = Got(d)
      BY <2>1 DEF Got
    <3>2. Owed(d)' = Owed(d)
      BY <1>0, <2>1, <2>2, <2>4, <2>7, StreamFacts DEF Owed, consumer
    <3> QED BY <1>0, <3>1, <3>2, KeepsGood
  <2> QED BY <1>a, <2>3, <2>5, <2>6, <2>8
<1>9. ASSUME NEW c \in Clients, CloseChannel(c) PROVE StreamInv'
  <2>1. /\ conn[c] = "removed" /\ conn' = [conn EXCEPT ![c] = "closed"]
        /\ UNCHANGED <<consumer, tenant, updates, taken, since, until>>
    BY <1>9 DEF CloseChannel
  <2>2. read' = read
    BY <2>1 DEF read, consumer
  <2>3. StreamTypeOK'
    BY <1>0, <2>1 DEF StreamTypeOK, consumer
  <2>4. /\ \A d \in Clients \ {c} : conn'[d] = conn[d]
        /\ conn'[c] = "closed"
    BY <1>0, <2>1 DEF StreamTypeOK
  <2>5. Placed' /\ Targeted'
    BY <1>0, <2>1, <2>2, <2>4 DEF Placed, Targeted, StreamTypeOK, consumer
  <2>6. ASSUME NEW d \in Clients PROVE Good(d)'
    <3>1. Got(d)' = Got(d) /\ Owed(d)' = Owed(d)
      BY <2>1, <2>2, <2>4 DEF Got, Owed, consumer
    <3> QED BY <1>0, <3>1, KeepsGood
  <2> QED BY <1>a, <2>3, <2>5, <2>6
<1>10. CASE UNCHANGED stream_vars
  <2>1. StreamTypeOK'
    BY <1>0, <1>10 DEF stream_vars, consumer, handler, StreamTypeOK
  <2> QED BY <1>3, <1>10, <2>1 DEF stream_vars, consumer
<1> QED
  BY <1>1, <1>2, <1>4, <1>5, <1>6, <1>7, <1>8, <1>9, <1>10 DEF StreamNext, consumeLoop

\* "a live tail": whatever connections come and go during a dispatch, a client
\* gets updates of its own tenant and of none, in the order of the topic and
\* none twice, for buffers of any size.
THEOREM TailIsInOrder == StreamSpec => []TailInOrder
<1>1. StreamInv => TailInOrder
  BY DEF StreamInv
<1> QED BY StreamInitially, StreamInductive, <1>1, PTL DEF StreamSpec

-----------------------------------------------------------------------------
\* A client that a step owes nothing new and gives nothing.
Untouched(c) == Owed(c)' = Owed(c) /\ ToSet(Got(c))' = ToSet(Got(c))

\* A message that was read is owed to nobody before it was offered.
LEMMA ReadOwesNothing ==
    ASSUME StreamInv, NEW message \in Tenants \cup {Unscoped, Garbage}, Read(message),
           NEW c \in Clients
    PROVE  Untouched(c)
<1>1. /\ loop = "next" /\ Len(topic) < MaxUpdates
      /\ topic' = Append(topic, message)
      /\ UNCHANGED <<tenant, conn, updates, taken, since, until>>
      /\ IF message = Garbage THEN loop' = "next"
         ELSE loop' = "dispatch" /\ targets' = {d \in subscribers : Sees(d, message)}
  BY DEF Read, handler
<1>2. /\ read' = read + 1 /\ read \in Nat /\ topic'[read'] = message
      /\ \A n \in 1 .. read : topic'[n] = topic[n]
  BY <1>1, StreamFacts DEF StreamInv, read
<1>3. Got(c)' = Got(c)
  BY <1>1 DEF Got
<1>4. /\ since[c] \in Nat /\ since[c] <= read /\ until[c] \in Int /\ until[c] <= read
      /\ conn[c] \in {"away", "open"} <=> until[c] = -1
      /\ conn[c] \in {"away", "open", "removed", "closed"}
  BY StreamFacts DEF StreamInv, Placed, StreamTypeOK
<1>5. ASSUME NEW n \in 1 .. read PROVE n \in Owed(c)' <=> n \in Owed(c)
  <2>1. n # read' /\ topic'[n] = topic[n]
    BY <1>2, <1>5
  <2>2. n \in since[c] + 1 .. (IF until[c] = -1 THEN read' ELSE until[c])
        <=> n \in since[c] + 1 .. (IF until[c] = -1 THEN read ELSE until[c])
    BY <1>2, <1>4, <1>5
  <2> QED BY <1>1, <2>1, <2>2 DEF Owed
<1>6. read' \notin Owed(c)'
  <2> SUFFICES ASSUME read' \in Owed(c)' PROVE FALSE
    OBVIOUS
  <2>3. /\ conn[c] # "away" /\ message \in {tenant[c], Unscoped}
        /\ ~(loop' = "dispatch" /\ c \in targets')
        /\ read' \in since[c] + 1 .. (IF until[c] = -1 THEN read' ELSE until[c])
    BY <1>1, <1>2 DEF Owed
  <2>4. until[c] = -1
    BY <1>2, <1>4, <2>3
  <2>1. conn[c] = "open"
    BY <1>4, <2>3, <2>4
  <2>2. message # Garbage
    BY <2>3, GraphStreamAssumption DEF StreamInv, StreamTypeOK
  <2> QED BY <1>1, <2>1, <2>2, <2>3 DEF subscribers, Sees
<1>7. Owed(c) \subseteq 1 .. read /\ Owed(c)' \subseteq 1 .. read'
  BY <1>1, <1>2, <1>4 DEF Owed
<1>8. Owed(c)' = Owed(c)
  BY <1>2, <1>5, <1>6, <1>7
<1> QED BY <1>3, <1>8 DEF Untouched

\* No step of a connection and no other step of the loop gives or owes a
\* client anything, but for the offer made to it.
LEMMA OthersUntouched ==
    ASSUME StreamInv, StreamInv', NEW c \in Clients, NEW d \in Clients,
           \/ Deliver(d) /\ d # c
           \/ Panic(d) \/ Dispatched \/ LoopExit \/ Stop
           \/ Subscribe(d) \/ Write(d) \/ Unsubscribe(d) \/ CloseChannel(d)
           \/ UNCHANGED stream_vars
    PROVE  Untouched(c) /\ read' = read
<1>0. StreamTypeOK /\ Placed /\ Targeted
  BY DEF StreamInv
<1>1. read' = read
  BY DEF Deliver, Panic, Dispatched, LoopExit, Stop, Subscribe, Write, Unsubscribe,
         CloseChannel, stream_vars, consumer, read
<1>2. ToSet(Got(c))' = ToSet(Got(c))
  <2>1. CASE Write(d) /\ c = d
    <3>1. /\ updates[c] # << >> /\ updates'[c] = Tail(updates[c])
          /\ taken'[c] = Append(taken[c], Head(updates[c]))
          /\ updates[c] \in Seq(1 .. MaxUpdates) /\ taken[c] \in Seq(1 .. MaxUpdates)
      BY <1>0, <2>1 DEF Write, StreamTypeOK
    <3>2. Append(taken[c], Head(updates[c])) \o Tail(updates[c]) = taken[c] \o updates[c]
      <4> DEFINE S == 1 .. MaxUpdates
                 t == taken[c]
                 u == updates[c]
      <4>1. t \in Seq(S) /\ u \in Seq(S) /\ u # << >>
        BY <3>1
      <4> HIDE DEF S, t, u
      <4>2. Append(t, Head(u)) \o Tail(u) = t \o u
        BY <4>1, TakenFromQueue
      <4> QED BY <4>2 DEF t, u
    <3>3. Got(c)' = Got(c)
      BY <3>1, <3>2 DEF Got
    <3> QED BY <3>3
  <2>2. CASE ~(Write(d) /\ c = d)
    <3>1. updates'[c] = updates[c] /\ taken'[c] = taken[c]
      BY <1>0, <2>2 DEF Deliver, Offer, Panic, Dispatched, LoopExit, Stop, Subscribe,
         Write, Unsubscribe, CloseChannel, stream_vars, handler, StreamTypeOK
    <3> QED BY <3>1 DEF Got
  <2> QED BY <2>1, <2>2
<1>3. CASE Subscribe(d) /\ c = d
  <2>1. /\ conn[c] = "away" /\ since'[c] = read /\ until'[c] = until[c] /\ until[c] = -1
        /\ read \in Nat
    BY <1>0, <1>3, StreamFacts DEF Subscribe, StreamTypeOK, Placed
  <2>2. Owed(c) = {} /\ Owed(c)' = {}
    BY <1>1, <2>1 DEF Owed
  <2> QED BY <1>1, <1>2, <2>2 DEF Untouched
<1>4. CASE Unsubscribe(d) /\ c = d
  <2>1. /\ conn[c] = "open" /\ conn'[c] = "removed"
        /\ until[c] = -1 /\ until'[c] = read /\ since'[c] = since[c] /\ read \in Nat
        /\ UNCHANGED <<topic, loop, targets, tenant>>
    BY <1>0, <1>4, StreamFacts DEF Unsubscribe, StreamTypeOK, Placed, consumer
  <2>2. Owed(c)' = Owed(c)
    BY <1>1, <2>1 DEF Owed
  <2> QED BY <1>1, <1>2, <2>2 DEF Untouched
<1>5. CASE ~(c = d /\ (Subscribe(d) \/ Unsubscribe(d)))
  <2>1. /\ topic' = topic /\ tenant'[c] = tenant[c]
        /\ since'[c] = since[c] /\ until'[c] = until[c]
        /\ conn'[c] = "away" <=> conn[c] = "away"
    BY <1>0, <1>5 DEF Deliver, Panic, Dispatched, LoopExit, Stop, Subscribe,
       Write, Unsubscribe, CloseChannel, stream_vars, consumer, handler, StreamTypeOK
  <2>2. (loop' = "dispatch" /\ c \in targets') <=> (loop = "dispatch" /\ c \in targets)
    BY <1>0, <1>5 DEF Deliver, Panic, Dispatched, LoopExit, Stop, Subscribe,
       Write, Unsubscribe, CloseChannel, stream_vars, consumer
  <2>3. Owed(c)' = Owed(c)
    BY <1>1, <2>1, <2>2 DEF Owed
  <2> QED BY <1>1, <1>2, <2>3 DEF Untouched
<1> QED BY <1>3, <1>4, <1>5

LEMMA MissedPairs ==
    \A c, n : <<c, n>> \in Missed <=> c \in Clients /\ n \in Owed(c) \ ToSet(Got(c))
BY DEF Missed

LEMMA MissedKept ==
    ASSUME \A c \in Clients : Untouched(c) PROVE Missed' = Missed
BY DEF Missed, Untouched

\* An offer adds to the losses exactly what it counts.
LEMMA OfferIsCounted ==
    ASSUME StreamInv, StreamInv', NEW c \in Clients, Deliver(c), IsFiniteSet(Missed)
    PROVE  /\ IsFiniteSet(Missed')
           /\ dropped' - dropped = Cardinality(Missed') - Cardinality(Missed)
<1>1. /\ loop = "dispatch" /\ c \in targets /\ targets' = targets \ {c}
      /\ UNCHANGED <<topic, loop, tenant, conn, taken, since, until>>
      /\ \/ updates' = [updates EXCEPT ![c] = Append(@, read)] /\ dropped' = dropped
         \/ updates' = updates /\ dropped' = dropped + 1
  BY DEF Deliver, Offer
<1>2. /\ since[c] < read /\ conn[c] # "away" /\ read \in 1 .. MaxUpdates
      /\ topic[read] \in {tenant[c], Unscoped} /\ until[c] \in {-1, read}
      /\ updates[c] \in Seq(1 .. MaxUpdates) /\ taken[c] \in Seq(1 .. MaxUpdates)
      /\ read' = read /\ since[c] \in Nat
  BY <1>1, StreamFacts DEF StreamInv, Targeted, read
<1>3. Owed(c)' = Owed(c) \cup {read} /\ read \notin Owed(c)
  BY <1>1, <1>2 DEF Owed
<1>4. read \notin ToSet(Got(c))
  BY <1>3 DEF StreamInv, TailInOrder
<1>5. \A d \in Clients \ {c} : Untouched(d)
  BY OthersUntouched
<1>6. Cardinality(Missed) \in Nat /\ dropped \in Nat /\ dropped' \in Nat
  BY FS_CardinalityType DEF StreamInv, StreamTypeOK
<1>7. CASE updates' = [updates EXCEPT ![c] = Append(@, read)] /\ dropped' = dropped
  <2>1. Got(c)' = taken[c] \o Append(updates[c], read)
    BY <1>1, <1>7 DEF Got, StreamInv, StreamTypeOK
  <2>2. ToSet(Got(c))' = ToSet(Got(c)) \cup {read}
    <3>1. taken[c] \o Append(updates[c], read) = Append(Got(c), read)
          /\ Got(c) \in Seq(1 .. MaxUpdates)
      <4> DEFINE S == 1 .. MaxUpdates
                 t == taken[c]
                 u == updates[c]
      <4>1. t \in Seq(S) /\ u \in Seq(S) /\ read \in S
        BY <1>2
      <4> HIDE DEF S, t, u
      <4>2. t \o Append(u, read) = Append(t \o u, read) /\ t \o u \in Seq(S)
        BY <4>1
      <4> QED BY <4>2 DEF Got, S, t, u
    <3>2. /\ Len(Append(Got(c), read)) = Len(Got(c)) + 1 /\ Len(Got(c)) \in Nat
          /\ \A k \in 1 .. Len(Got(c)) : Append(Got(c), read)[k] = Got(c)[k]
          /\ Append(Got(c), read)[Len(Got(c)) + 1] = read
          /\ DOMAIN Append(Got(c), read) = 1 .. Len(Got(c)) + 1
          /\ DOMAIN Got(c) = 1 .. Len(Got(c))
      BY <1>2, <3>1
    <3> QED BY <2>1, <3>1, <3>2 DEF ToSet
  <2>3. (Owed(c) \ ToSet(Got(c)))' = Owed(c) \ ToSet(Got(c))
    BY <1>3, <2>2
  <2>4. Missed' = Missed
    BY <1>5, <2>3 DEF Missed, Untouched
  <2> QED BY <1>6, <1>7, <2>4
<1>8. CASE updates' = updates /\ dropped' = dropped + 1
  <2>1. Got(c)' = Got(c)
    BY <1>1, <1>8 DEF Got
  <2>2. (Owed(c) \ ToSet(Got(c)))' = (Owed(c) \ ToSet(Got(c))) \cup {read}
    BY <1>3, <1>4, <2>1
  <2>3. Missed' = Missed \cup {<<c, read>>} /\ <<c, read>> \notin Missed
    <3>1. <<c, read>> \notin Missed
      BY <1>3, MissedPairs
    <3>2. Missed' = UNION {{d} \X (Owed(d) \ ToSet(Got(d)))' : d \in Clients}
      BY DEF Missed
    <3>3. \A d \in Clients : (Owed(d) \ ToSet(Got(d)))' =
              (Owed(d) \ ToSet(Got(d))) \cup (IF d = c THEN {read} ELSE {})
      BY <1>5, <2>2 DEF Untouched
    <3>4. Missed' = Missed \cup {<<c, read>>}
      BY <3>2, <3>3 DEF Missed
    <3> QED BY <3>1, <3>4
  <2>4. /\ IsFiniteSet(Missed')
        /\ Cardinality(Missed') = Cardinality(Missed) + 1
    BY <2>3, FS_AddElement
  <2> QED BY <1>6, <1>8, <2>4
<1> QED BY <1>1, <1>7, <1>8

LossInv == StreamInv /\ IsFiniteSet(Missed) /\ LossIsCounted

LEMMA LossInitially == StreamInit => LossInv
<1> SUFFICES ASSUME StreamInit PROVE LossInv
  OBVIOUS
<1>1. \A c \in Clients : Owed(c) = {}
  BY DEF StreamInit, Owed
<1>2. Missed = {}
  BY <1>1 DEF Missed
<1> QED BY <1>2, StreamInitially, FS_EmptySet DEF LossInv, LossIsCounted, StreamInit

LEMMA LossInductive == LossInv /\ [StreamNext]_stream_vars => LossInv'
<1> SUFFICES ASSUME LossInv, [StreamNext]_stream_vars PROVE LossInv'
  OBVIOUS
<1>1. StreamInv /\ StreamInv' /\ dropped \in Nat /\ dropped = Cardinality(Missed)
  BY StreamInductive DEF LossInv, LossIsCounted, StreamInv, StreamTypeOK
<1>2. ASSUME NEW c \in Clients, Deliver(c) PROVE LossInv'
  <2>1. /\ IsFiniteSet(Missed') /\ dropped' \in Nat
        /\ dropped' - dropped = Cardinality(Missed') - Cardinality(Missed)
    BY <1>1, <1>2, OfferIsCounted DEF LossInv, StreamInv, StreamTypeOK
  <2>2. Cardinality(Missed') \in Nat
    BY <2>1, FS_CardinalityType
  <2>3. dropped' = Cardinality(Missed')
    BY <1>1, <2>1, <2>2
  <2> QED BY <1>1, <2>1, <2>3 DEF LossInv, LossIsCounted
<1>3. ASSUME \A c \in Clients : Untouched(c), dropped' = dropped PROVE LossInv'
  <2>1. Missed' = Missed
    BY <1>3, MissedKept
  <2> QED BY <1>1, <1>3, <2>1 DEF LossInv, LossIsCounted
<1>4. ASSUME NEW message \in Tenants \cup {Unscoped, Garbage}, Read(message)
      PROVE  LossInv'
  <2>1. \A c \in Clients : Untouched(c)
    BY <1>1, <1>4, ReadOwesNothing
  <2>2. dropped' = dropped
    BY <1>4 DEF Read
  <2> QED BY <1>3, <2>1, <2>2
<1>5. ASSUME NEW d \in Clients,
             \/ Panic(d) \/ Dispatched \/ LoopExit \/ Stop
             \/ Subscribe(d) \/ Write(d) \/ Unsubscribe(d) \/ CloseChannel(d)
      PROVE  LossInv'
  <2>1. \A c \in Clients : Untouched(c)
    BY <1>1, <1>5, OthersUntouched
  <2>2. dropped' = dropped
    BY <1>5 DEF Panic, Dispatched, LoopExit, Stop, Subscribe, Write, Unsubscribe,
       CloseChannel, consumer
  <2> QED BY <1>3, <2>1, <2>2
\* Without clients nobody is owed anything.
<1>6. CASE Dispatched \/ LoopExit \/ Stop \/ UNCHANGED stream_vars
  <2>1. \A c \in Clients : Untouched(c)
    BY <1>1, <1>6, OthersUntouched
  <2>2. dropped' = dropped
    BY <1>6 DEF Dispatched, LoopExit, Stop, stream_vars, consumer
  <2> QED BY <1>3, <2>1, <2>2
<1> QED BY <1>2, <1>4, <1>5, <1>6 DEF StreamNext, consumeLoop

\* "increments droppedDeliveries": for any number of clients and updates and
\* any size of buffer, the counter is the number of deliveries that clients
\* went without, also of those that leave or come during a dispatch.
THEOREM LossesAreCounted == StreamSpec => []LossIsCounted
<1>1. LossInv => LossIsCounted
  BY DEF LossInv
<1> QED BY LossInitially, LossInductive, <1>1, PTL DEF StreamSpec

=============================================================================
