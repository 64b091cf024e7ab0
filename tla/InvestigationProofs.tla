------------------------- MODULE InvestigationProofs -----------------------
(***************************************************************************)
(* What an investigation emits and what it writes to the ledger are its    *)
(* audit log, entry by entry, and what its clients are sent is in the      *)
(* log's order, for any number of nodes, entries and clients.              *)
(***************************************************************************)
EXTENDS Investigation, TLAPS

\* How far the stream has come: the entries emitted before the node's, and
\* those of the node, add up to what was handed on.
Progress ==
    /\ Len(audit) <= Len(log)
    /\ \A i \in DOMAIN audit : audit[i] = log[i]
    /\ pc \in {"posted", "node", "complete", "done"} =>
          Len(audit) = Len(log) /\ emitted = Len(log)
    /\ pc \in {"emit", "deliver"} => Len(audit) = emitted + offset
    /\ pc = "deliver" => Len(audit) < Len(log)

\* The pipeline does not run past its last node, and ends failed or completed.
Ends ==
    /\ pc \in {"emit", "deliver"} =>
          outcome \in {"failed", "completed"} \/ node < NumNodes
    /\ pc = "complete" => outcome \in {"failed", "completed"}

\* The ledger is written one entry ahead of the stream.
Ahead ==
    /\ LedgerAgrees
    /\ pc = "deliver" => Len(audit) \in unsaved \/ Len(audit) \in DOMAIN rows

IInv == TypeOK /\ Progress /\ Ends /\ Ahead

-----------------------------------------------------------------------------
LEMMA Facts ==
    ASSUME TypeOK
    PROVE  /\ Len(log) \in Nat /\ Len(audit) \in Nat
           /\ DOMAIN log = 1 .. Len(log) /\ DOMAIN audit = 1 .. Len(audit)
           /\ log \in Seq(Entry) /\ audit \in Seq(Entry)
           /\ emitted \in Nat /\ offset \in Nat
BY DEF TypeOK

\* The new entries are the log's behind those already emitted.
LEMMA NewEntries ==
    ASSUME TypeOK, emitted <= Len(log)
    PROVE  /\ Len(New) = Len(log) - emitted
           /\ \A k \in 1 .. Len(New) : New[k] = log[emitted + k]
BY Facts DEF New

\* The log only grows, and keeps what it has in place.
LEMMA Grown ==
    ASSUME NEW s \in Seq(Entry), NEW t \in Seq(Entry)
    PROVE  /\ s \o t \in Seq(Entry)
           /\ Len(s \o t) = Len(s) + Len(t) /\ Len(s) <= Len(s \o t)
           /\ \A i \in 1 .. Len(s) : (s \o t)[i] = s[i]
OBVIOUS

\* Appending the next entry of the log to what was handed on.
LEMMA Extended ==
    ASSUME NEW s \in Seq(Entry), NEW e \in Entry
    PROVE  /\ Append(s, e) \in Seq(Entry) /\ Len(Append(s, e)) = Len(s) + 1
           /\ \A i \in 1 .. Len(s) : Append(s, e)[i] = s[i]
           /\ Append(s, e)[Len(s) + 1] = e
OBVIOUS

\* Nothing is logged before the first node.
LEMMA Initially == Init => IInv
<1> SUFFICES ASSUME Init PROVE IInv
  OBVIOUS
<1>1. /\ pc = "posted" /\ node \in 1 .. NumNodes /\ outcome = "pending"
      /\ log \in Seq(Entry) /\ audit \in Seq(Entry)
      /\ status = "running" /\ ledgerRun = "none"
  BY InvestigationAssumption DEF Init
<1>2. DOMAIN rows = {}
  BY DEF Init
<1>3. emitted \in Nat /\ offset \in Nat /\ tenant \in BOOLEAN /\ unsaved \subseteq Nat
  BY DEF Init
<1>4. TypeOK
  BY <1>1, <1>2, <1>3 DEF TypeOK
<1>5. Progress /\ Ends /\ Ahead
  BY DEF Init, Progress, Ends, Ahead, LedgerAgrees
<1> QED BY <1>4, <1>5 DEF IInv

\* Steps that move only the place of the task: everything the invariant
\* speaks of is as it was.
LEMMA Idles ==
    ASSUME IInv, TypeOK', UNCHANGED <<log, audit, emitted, offset, rows, unsaved>>,
           pc' \in {"error", "ended", "lost"}
    PROVE  IInv'
BY DEF IInv, Progress, Ends, Ahead, LedgerAgrees

\* A node that adds entries to the log, those of a failed one among them.
LEMMA NodeLogs ==
    ASSUME IInv, pc = "node", NEW t \in Seq(Entry), log' = log \o t,
           outcome' \in {"running", "completed", "failed"},
           outcome' = "running" => node < NumNodes,
           pc' = "emit", offset' = 0,
           UNCHANGED <<node, emitted, tenant, memory, ledger>>
    PROVE  IInv'
<1>1. /\ log' \in Seq(Entry) /\ Len(log) <= Len(log')
      /\ \A i \in 1 .. Len(log) : log'[i] = log[i]
  BY Grown, Facts DEF IInv
<1>2. TypeOK'
  BY <1>1 DEF IInv, TypeOK, memory, ledger
<1>3. Len(log') \in Nat /\ audit' = audit
  BY <1>2, Facts DEF memory, TypeOK
<1>4. Progress'
  BY <1>1, <1>3, Facts DEF IInv, Progress
<1>5. Ends'
  BY DEF IInv, Ends, TypeOK
<1>6. /\ rows' = rows /\ unsaved' = unsaved /\ LedgerAgrees /\ pc' # "deliver"
  BY DEF IInv, Ahead, ledger
<1>7. \A k \in DOMAIN rows : k \in Nat /\ k < Len(log) /\ k <= Len(audit) /\ rows[k] = log[k + 1]
  BY <1>6 DEF IInv, TypeOK, LedgerAgrees
<1>8. \A k \in DOMAIN rows : k < Len(log') /\ log'[k + 1] = log[k + 1]
  BY <1>1, <1>3, <1>7, Facts DEF IInv
<1>9. Ahead'
  BY <1>3, <1>6, <1>7, <1>8 DEF Ahead, LedgerAgrees
<1> QED BY <1>2, <1>4, <1>5, <1>9 DEF IInv

LEMMA Inductive == IInv /\ [Next]_vars => IInv'
<1> SUFFICES ASSUME IInv, [Next]_vars PROVE IInv'
  OBVIOUS
<1>0. TypeOK /\ Progress /\ Ends /\ Ahead
  BY DEF IInv
<1> USE InvestigationAssumption
<1>1. ASSUME NEW written \in BOOLEAN, Start(written) PROVE IInv'
  <2>1. TypeOK'
    BY <1>0, <1>1 DEF Start, TypeOK, graph, memory
  <2> QED BY <1>0, <1>1, <2>1
          DEF Start, graph, memory, IInv, Progress, Ends, Ahead, LedgerAgrees
<1>2. CASE PrefetchFails
  <2>1. TypeOK'
    BY <1>0, <1>2 DEF PrefetchFails, TypeOK, graph, stream, ledger
  <2> QED BY <1>2, <2>1, Idles DEF PrefetchFails, graph, stream, ledger
<1>3. ASSUME NEW count \in 0 .. MaxEntries, NodeReturns(count) PROVE IInv'
  <2> DEFINE t == [k \in 1 .. count |-> <<node, k>>]
  <2>1. t \in Seq(Entry)
    BY <1>0 DEF Entry, TypeOK
  <2>2. /\ outcome' \in {"running", "completed", "failed"}
        /\ outcome' = "running" => node < NumNodes
    BY <1>0, <1>3 DEF NodeReturns, TypeOK
  <2> HIDE DEF t
  <2>3. log' = log \o t
    BY <1>3 DEF NodeReturns, t
  <2> QED BY <1>3, <2>1, <2>2, <2>3, NodeLogs DEF NodeReturns
<1>4. CASE NodeRaises
  <2>1. <<node, 0>> \in Entry
    BY <1>0 DEF Entry, TypeOK
  <2> DEFINE e == <<node, 0>>
  <2> HIDE DEF e
  <2>2. <<e>> \in Seq(Entry) /\ Append(log, e) = log \o <<e>>
    <3>1. e \in Entry /\ log \in Seq(Entry)
      BY <2>1, <1>0, Facts DEF e
    <3> QED BY <3>1
  <2> QED BY <1>4, <2>2, NodeLogs DEF NodeRaises, e
<1>5. CASE GraphRaises
  <2>1. TypeOK'
    BY <1>0, <1>5 DEF GraphRaises, TypeOK, graph, stream, memory, ledger
  <2> QED BY <1>5, <2>1, Idles DEF GraphRaises, graph, stream, memory, ledger
<1>6. ASSUME NEW ok \in BOOLEAN, Persist(ok) PROVE IInv'
  <2> DEFINE s == Len(audit)
             e == New[offset + 1]
  <2>1. /\ pc = "emit" /\ offset < Len(New) /\ pc' = "deliver"
        /\ UNCHANGED <<graph, stream, memory, ledgerRun>>
    BY <1>6 DEF Persist
  <2>2. /\ emitted <= Len(log) /\ s = emitted + offset
    BY <1>0, <2>1, Facts DEF Progress
  <2>3. s < Len(log) /\ e = log[s + 1] /\ s \in Nat
    <3>1. Len(New) = Len(log) - emitted /\ offset + 1 \in 1 .. Len(New)
      BY <1>0, <2>1, <2>2, NewEntries, Facts
    <3>2. New[offset + 1] = log[emitted + (offset + 1)]
      BY <1>0, <2>2, <3>1, NewEntries
    <3>3. emitted + (offset + 1) = s + 1 /\ s < Len(log) /\ s \in Nat
      BY <1>0, <2>1, <2>2, <3>1, Facts
    <3> QED BY <3>2, <3>3
  <2>4. /\ rows' = IF ok THEN Inserted(s, e) ELSE rows
        /\ unsaved' = IF ok THEN unsaved ELSE unsaved \cup {s}
    BY <1>6, <2>2 DEF Persist, SeqNo
  <2>5. e \in Entry
    BY <1>0, <2>3, Facts
  <2>6. /\ DOMAIN rows \subseteq DOMAIN rows' /\ DOMAIN rows' \subseteq DOMAIN rows \cup {s}
        /\ \A k \in DOMAIN rows : rows'[k] = rows[k]
        /\ s \in DOMAIN rows' \ DOMAIN rows => rows'[s] = e
        /\ s \in unsaved' \/ s \in DOMAIN rows'
        /\ unsaved \subseteq unsaved'
    BY <2>4 DEF Inserted
  <2> HIDE DEF s, e
  <2>7. TypeOK'
    BY <1>0, <2>1, <2>3, <2>4, <2>5, <2>6 DEF TypeOK, graph, stream, memory
  <2>8. Progress' /\ Ends'
    BY <1>0, <2>1, <2>3 DEF Progress, Ends, graph, stream, memory, s
  <2>9. \A k \in DOMAIN rows' : k < Len(log) /\ k <= Len(audit) /\ rows'[k] = log[k + 1]
    BY <1>0, <2>3, <2>6 DEF Ahead, LedgerAgrees, s
  <2>10. Ahead'
    BY <1>0, <2>1, <2>6, <2>9 DEF Ahead, LedgerAgrees, graph, memory, s
  <2> QED BY <2>7, <2>8, <2>10 DEF IInv
<1>7. CASE Deliver
  <2> DEFINE s == Len(audit)
             e == New[offset + 1]
  <2>1. /\ pc = "deliver" /\ audit' = Append(audit, e)
        /\ offset' = offset + 1 /\ pc' = "emit"
        /\ UNCHANGED <<graph, emitted, tenant, status, ledger>>
    BY <1>7 DEF Deliver
  <2>2. /\ s = emitted + offset /\ s < Len(log) /\ emitted <= Len(log) /\ s \in Nat
    BY <1>0, <2>1, Facts DEF Progress
  <2>3. e = log[s + 1]
    <3>1. Len(New) = Len(log) - emitted /\ offset + 1 \in 1 .. Len(New)
      BY <1>0, <2>2, NewEntries, Facts
    <3>2. New[offset + 1] = log[emitted + (offset + 1)]
      BY <1>0, <2>2, <3>1, NewEntries
    <3>3. emitted + (offset + 1) = s + 1
      BY <1>0, <2>2, Facts
    <3> QED BY <3>2, <3>3
  <2>4. e \in Entry
    BY <1>0, <2>2, <2>3, Facts
  <2> HIDE DEF e
  <2>5. /\ audit' \in Seq(Entry) /\ Len(audit') = s + 1
        /\ \A i \in 1 .. s : audit'[i] = audit[i]
        /\ audit'[s + 1] = e
    BY <1>0, <2>1, <2>4, Extended, Facts
  <2>6. TypeOK'
    BY <1>0, <2>1, <2>5 DEF TypeOK, graph, ledger
  <2>7. Progress'
    BY <1>0, <2>1, <2>2, <2>3, <2>5, Facts DEF Progress, graph
  <2>8. Ends'
    BY <1>0, <2>1 DEF Ends, graph
  <2>a. UNCHANGED <<rows, unsaved, log>>
    BY <2>1 DEF ledger, graph
  <2>b. \A k \in DOMAIN rows : k \in Nat /\ k < Len(log) /\ k <= s /\ rows[k] = log[k + 1]
    BY <1>0 DEF Ahead, LedgerAgrees, TypeOK
  <2>9. ASSUME NEW i \in 1 .. s + 1
        PROVE  i - 1 \in unsaved \/ (i - 1 \in DOMAIN rows /\ rows[i - 1] = audit'[i])
    <3>1. CASE i \in 1 .. s
      <4>1. i \in DOMAIN audit /\ audit'[i] = audit[i]
        BY <1>0, <2>5, <3>1, Facts
      <4> QED BY <1>0, <4>1 DEF Ahead, LedgerAgrees
    <3>2. CASE i = s + 1
      <4>1. i - 1 = s /\ audit'[i] = log[s + 1]
        BY <2>2, <2>3, <2>5, <3>2
      <4>2. s \in unsaved \/ s \in DOMAIN rows
        BY <1>0, <2>1 DEF Ahead
      <4> QED BY <2>b, <4>1, <4>2
    <3> QED BY <2>2, <3>1, <3>2
  <2>10. Ahead'
    <3>1. DOMAIN audit' = 1 .. s + 1
      BY <2>5, <2>2
    <3>2. \A k \in DOMAIN rows' : k < Len(log') /\ k <= Len(audit') /\ rows'[k] = log'[k + 1]
      BY <2>2, <2>5, <2>a, <2>b
    <3> QED BY <2>1, <2>9, <2>a, <3>1, <3>2 DEF Ahead, LedgerAgrees
  <2> QED BY <2>6, <2>7, <2>8, <2>10 DEF IInv
<1>8. CASE NodeEmitted
  <2>1. /\ pc = "emit" /\ offset = Len(New) /\ emitted' = Len(log)
        /\ UNCHANGED <<log, outcome, offset, tenant, memory, ledger>>
        /\ \/ /\ outcome \in {"failed", "completed"}
              /\ pc' = "complete" /\ node' = node
           \/ /\ outcome \notin {"failed", "completed"}
              /\ pc' = "node" /\ node' = node + 1
    BY <1>8 DEF NodeEmitted, Advance
  <2>2. emitted <= Len(log) /\ Len(audit) = emitted + offset
    BY <1>0, <2>1, Facts DEF Progress
  <2>3. Len(audit) = Len(log)
    BY <1>0, <2>1, <2>2, NewEntries, Facts
  <2>4. node' \in 1 .. NumNodes
    BY <1>0, <2>1 DEF Ends, TypeOK
  <2>5. TypeOK'
    <3>1. pc' \in {"complete", "node"} /\ emitted' \in Nat
      BY <1>0, <2>1, Facts
    <3>2. UNCHANGED <<log, outcome, offset, tenant, audit, status, ledgerRun, rows, unsaved>>
      BY <2>1 DEF memory, ledger
    <3> QED BY <1>0, <2>4, <3>1, <3>2 DEF TypeOK
  <2>6. Progress' /\ Ends'
    BY <1>0, <2>1, <2>3 DEF Progress, Ends, memory
  <2>7. Ahead'
    BY <1>0, <2>1 DEF Ahead, LedgerAgrees, memory, ledger
  <2> QED BY <2>5, <2>6, <2>7 DEF IInv
<1>9. ASSUME NEW ok \in BOOLEAN, Complete(ok) PROVE IInv'
  <2>1. TypeOK'
    BY <1>0, <1>9 DEF Complete, TypeOK, Ends, graph, stream, memory
  <2> QED BY <1>0, <1>9, <2>1
          DEF Complete, graph, stream, memory, IInv, Progress, Ends, Ahead, LedgerAgrees
<1>10. CASE Done
  <2>1. TypeOK'
    BY <1>0, <1>10 DEF Done, TypeOK, graph, stream, ledger
  <2> QED BY <1>10, <2>1, Idles DEF Done, graph, stream, ledger
<1>11. ASSUME NEW ok \in BOOLEAN, Error(ok) PROVE IInv'
  <2>1. TypeOK'
    BY <1>0, <1>11 DEF Error, TypeOK, graph, stream
  <2> QED BY <1>11, <2>1, Idles DEF Error, graph, stream
<1>12. CASE Restart
  <2>1. TypeOK'
    BY <1>0, <1>12 DEF Restart, TypeOK, graph, stream, ledger
  <2> QED BY <1>12, <2>1, Idles DEF Restart, graph, stream, ledger
<1>13. CASE UNCHANGED <<pc, graph, stream, memory, ledger>>
  BY <1>0, <1>13 DEF graph, stream, memory, ledger, IInv, TypeOK, Progress, Ends,
     Ahead, LedgerAgrees
<1>14. ASSUME NEW w \in Watchers, Look(w) \/ Sent(w) \/ Disconnect(w) PROVE IInv'
  BY <1>13, <1>14 DEF Look, Sent, Disconnect
<1>15. CASE UNCHANGED vars
  BY <1>13, <1>15 DEF vars
<1> QED
  BY <1>1, <1>2, <1>3, <1>4, <1>5, <1>6, <1>7, <1>8, <1>9, <1>10, <1>11, <1>12,
     <1>14, <1>15 DEF Next, Task

\* "one per agent audit-log entry, in order, exactly once", for any number of
\* nodes and entries: the counter beside the log moves exactly with it.
THEOREM StreamedOnce == Spec => []StepsOnce
<1>1. IInv => StepsOnce
  BY DEF IInv, Progress, StepsOnce
<1> QED BY Initially, Inductive, <1>1, PTL DEF Spec

\* "Persist before emitting": whatever writes fail, the ledger agrees with
\* what subscribers were told, at the place they were told it.
THEOREM LedgerIsTheLog == Spec => []LedgerAgrees
<1>1. IInv => LedgerAgrees
  BY DEF IInv, Ahead
<1> QED BY Initially, Inductive, <1>1, PTL DEF Spec

-----------------------------------------------------------------------------
(***************************************************************************)
(* The clients that tail a run                                             *)
(***************************************************************************)
\* A node logs once: an entry carries its node's number and its own, so no
\* two entries of the log are the same, and the node to come has logged none.
Distinct ==
    /\ \A i, j \in DOMAIN log : i < j => log[i] # log[j]
    /\ \A i \in DOMAIN log :
          log[i][1] <= node /\ (pc \in {"posted", "node"} => log[i][1] < node)

Got(w) == watch[w].sent \o watch[w].slice

At == {"away", "asleep", "sending", "told", "left"}

WatchTypes ==
    watch \in [Watchers -> [at : At, seen : Nat, slice : Seq(Entry),
                            sent : Seq(Entry)]]

\* What a client was sent, or is being sent, are entries of the run, each
\* one further on than those before it; between two passes they lie within
\* the part of the run the client has seen.
Follows(w) ==
    /\ watch[w].at \in {"away", "asleep", "told"} => watch[w].slice = << >>
    /\ watch[w].at = "sending" => watch[w].slice # << >>
    /\ \A m \in DOMAIN Got(w) : \E i \in DOMAIN audit :
          /\ audit[i] = Got(w)[m]
          /\ watch[w].at \in {"away", "asleep", "told"} => i <= watch[w].seen
    /\ \A m, n \in DOMAIN Got(w) : m < n =>
          \E i, j \in DOMAIN audit :
             i < j /\ audit[i] = Got(w)[m] /\ audit[j] = Got(w)[n]

TailInv == Distinct /\ WatchTypes /\ \A w \in Watchers : Follows(w)

\* A node that runs adds entries no other has: its number is new.
LEMMA LoggedOnce ==
    ASSUME IInv, Distinct, pc = "node", NEW t \in Seq(Entry), log' = log \o t,
           node' = node, pc' = "emit",
           \A i, j \in DOMAIN t : i < j => t[i] # t[j],
           \A i \in DOMAIN t : t[i][1] = node
    PROVE  Distinct'
<1>1. /\ log \in Seq(Entry) /\ Len(log) \in Nat /\ node \in Nat
      /\ DOMAIN log = 1 .. Len(log)
  BY Facts DEF IInv, TypeOK
<1>2. Len(t) \in Nat /\ DOMAIN t = 1 .. Len(t)
  OBVIOUS
<1>3. /\ DOMAIN log' = 1 .. (Len(log) + Len(t))
      /\ \A i \in 1 .. Len(log) : log'[i] = log[i]
      /\ \A i \in Len(log) + 1 .. Len(log) + Len(t) :
            log'[i] = t[i - Len(log)] /\ i - Len(log) \in DOMAIN t
  BY <1>1, <1>2
<1>4. \A i \in 1 .. Len(log) : log[i][1] < node
  BY <1>1 DEF Distinct
<1>5. \A i \in 1 .. Len(log) : log[i][1] \in Nat
  BY <1>1 DEF Entry
<1>6. \A i \in DOMAIN log' : log'[i][1] <= node
  BY <1>1, <1>2, <1>3, <1>4, <1>5
<1>7. ASSUME NEW i \in DOMAIN log', NEW j \in DOMAIN log', i < j
      PROVE  log'[i] # log'[j]
  <2>1. CASE j <= Len(log)
    BY <1>1, <1>2, <1>3, <1>7, <2>1 DEF Distinct
  <2>2. CASE i <= Len(log) /\ Len(log) < j
    <3>1. log'[i] = log[i] /\ log[i][1] < node
      BY <1>1, <1>2, <1>3, <1>4, <2>2
    <3>2. log'[j][1] = node
      BY <1>1, <1>2, <1>3, <2>2
    <3> QED BY <1>1, <3>1, <3>2
  <2>3. CASE Len(log) < i
    <3>1. /\ log'[i] = t[i - Len(log)] /\ i - Len(log) \in DOMAIN t
          /\ log'[j] = t[j - Len(log)] /\ j - Len(log) \in DOMAIN t
          /\ i - Len(log) < j - Len(log)
      BY <1>1, <1>2, <1>3, <1>7, <2>3
    <3> QED BY <3>1
  <2> QED BY <1>1, <1>2, <1>3, <1>7, <2>1, <2>2, <2>3
<1> QED BY <1>6, <1>7 DEF Distinct

LEMMA DistinctInductive ==
    ASSUME IInv, Distinct, [Next]_vars
    PROVE  Distinct'
<1>0. TypeOK /\ node \in Nat
  BY DEF IInv, TypeOK
<1>1. ASSUME NEW count \in 0 .. MaxEntries, NodeReturns(count) PROVE Distinct'
  <2> DEFINE t == [k \in 1 .. count |-> <<node, k>>]
  <2>1. t \in Seq(Entry)
    BY <1>0, InvestigationAssumption DEF Entry, TypeOK
  <2>2. /\ \A i, j \in DOMAIN t : i < j => t[i] # t[j]
        /\ \A i \in DOMAIN t : t[i][1] = node
    OBVIOUS
  <2>3. log' = log \o t /\ pc = "node" /\ pc' = "emit" /\ node' = node
    BY <1>1 DEF NodeReturns
  <2> HIDE DEF t
  <2> QED BY <2>1, <2>2, <2>3, LoggedOnce
<1>2. CASE NodeRaises
  <2> DEFINE e == <<node, 0>>
             t == <<e>>
  <2>1. e \in Entry /\ e[1] = node
    BY <1>0, InvestigationAssumption DEF Entry, TypeOK
  <2> HIDE DEF e
  <2>2. /\ t \in Seq(Entry) /\ DOMAIN t = {1} /\ t[1] = e
        /\ Append(log, e) = log \o t
    BY <2>1, <1>0, Facts
  <2>3. /\ \A i, j \in DOMAIN t : i < j => t[i] # t[j]
        /\ \A i \in DOMAIN t : t[i][1] = node
    BY <2>1, <2>2
  <2>4. log' = log \o t /\ pc = "node" /\ pc' = "emit" /\ node' = node
    BY <1>2, <2>2 DEF NodeRaises, e
  <2> HIDE DEF t
  <2> QED BY <2>2, <2>3, <2>4, LoggedOnce
<1>3. CASE NodeEmitted
  <2>1. /\ log' = log /\ \/ pc' = "complete" /\ node' = node
                         \/ pc' = "node" /\ node' = node + 1
    BY <1>3 DEF NodeEmitted
  <2>2. \A i \in DOMAIN log : log[i][1] \in Nat /\ log[i][1] <= node
    BY <1>0, Facts DEF Entry, Distinct
  <2>3. \A i \in DOMAIN log : log[i][1] < node + 1 /\ log[i][1] <= node + 1
    BY <1>0, <2>2
  <2> QED BY <2>1, <2>2, <2>3 DEF Distinct
<1>4. CASE UNCHANGED <<log, node>> /\ (pc' \in {"posted", "node"} => pc \in {"posted", "node"})
  BY <1>4 DEF Distinct
<1>5. CASE UNCHANGED vars
  BY <1>4, <1>5 DEF vars, graph
<1>6. ASSUME NEW ok \in BOOLEAN,
             Start(ok) \/ Persist(ok) \/ Complete(ok) \/ Error(ok)
      PROVE  Distinct'
  BY <1>4, <1>6 DEF Start, Persist, Complete, Error, graph
<1>7. CASE PrefetchFails \/ GraphRaises \/ Deliver \/ Done \/ Restart
  BY <1>4, <1>7 DEF PrefetchFails, GraphRaises, Deliver, Done, Restart, graph
<1>8. ASSUME NEW w \in Watchers, Look(w) \/ Sent(w) \/ Disconnect(w)
      PROVE  Distinct'
  BY <1>4, <1>8 DEF Look, Sent, Disconnect, graph
<1> QED
  BY <1>1, <1>2, <1>3, <1>5, <1>6, <1>7, <1>8 DEF Next, Task

\* A client that does not move follows a run that only grew.
LEMMA FollowsOn ==
    ASSUME TypeOK, TypeOK', NEW w \in Watchers, Follows(w), watch' = watch,
           Len(audit) <= Len(audit'),
           \A i \in DOMAIN audit : audit'[i] = audit[i]
    PROVE  Follows(w)'
<1>1. /\ DOMAIN audit = 1 .. Len(audit) /\ Len(audit) \in Nat
      /\ DOMAIN audit' = 1 .. Len(audit') /\ Len(audit') \in Nat
  BY Facts DEF TypeOK
<1>2. DOMAIN audit \subseteq DOMAIN audit'
  BY <1>1
<1>3. Got(w)' = Got(w)
  BY DEF Got
<1> QED BY <1>2, <1>3 DEF Follows

\* Only an entry handed on by the pipeline changes the run in memory.
LEMMA RunGrows ==
    ASSUME IInv, [Next]_vars
    PROVE  /\ \A i \in DOMAIN audit : audit'[i] = audit[i]
           /\ Len(audit) <= Len(audit')
<1>1. CASE audit' = audit
  BY <1>1, Facts DEF IInv
<1>2. CASE Deliver
  <2>1. pc = "deliver" /\ audit' = Append(audit, New[offset + 1])
    BY <1>2 DEF Deliver
  <2>2. New[offset + 1] \in Entry
    <3>1. /\ emitted <= Len(log) /\ Len(audit) = emitted + offset
          /\ Len(audit) < Len(log)
      BY <2>1, Facts DEF IInv, Progress
    <3>2. Len(New) = Len(log) - emitted /\ offset + 1 \in 1 .. Len(New)
      BY <3>1, NewEntries, Facts DEF IInv
    <3>3. New[offset + 1] = log[emitted + (offset + 1)]
      BY <3>1, <3>2, NewEntries DEF IInv
    <3>4. emitted + (offset + 1) \in 1 .. Len(log)
      BY <3>1, Facts DEF IInv
    <3> QED BY <3>3, <3>4, Facts DEF IInv
  <2>3. /\ audit \in Seq(Entry) /\ Len(audit) \in Nat
        /\ DOMAIN audit = 1 .. Len(audit)
    BY Facts DEF IInv
  <2> DEFINE e == New[offset + 1]
  <2> HIDE DEF e
  <2>4. e \in Entry /\ audit' = Append(audit, e)
    BY <2>1, <2>2 DEF e
  <2> QED BY <2>3, <2>4, Extended
<1> QED
  BY <1>1, <1>2
     DEF Next, Task, Start, Persist, Complete, Error, NodeReturns,
         PrefetchFails, NodeRaises, GraphRaises, NodeEmitted, Done,
         Look, Sent, Disconnect, Restart, vars, memory

\* Sequences of what is sent and what is left to send.
LEMMA MovedOver ==
    ASSUME NEW s \in Seq(Entry), NEW t \in Seq(Entry), t # << >>
    PROVE  /\ Append(s, Head(t)) \in Seq(Entry) /\ Tail(t) \in Seq(Entry)
           /\ DOMAIN (Append(s, Head(t)) \o Tail(t)) = DOMAIN (s \o t)
           /\ \A m \in DOMAIN (s \o t) :
                 (Append(s, Head(t)) \o Tail(t))[m] = (s \o t)[m]
<1>1. Len(s) \in Nat /\ Len(t) \in Nat \ {0}
  OBVIOUS
<1>2. /\ Append(s, Head(t)) \in Seq(Entry) /\ Tail(t) \in Seq(Entry)
      /\ Len(Append(s, Head(t))) = Len(s) + 1 /\ Len(Tail(t)) = Len(t) - 1
      /\ Head(t) = t[1]
  OBVIOUS
<1>3. /\ \A k \in 1 .. Len(s) : Append(s, Head(t))[k] = s[k]
      /\ Append(s, Head(t))[Len(s) + 1] = t[1]
      /\ \A k \in 1 .. Len(t) - 1 : Tail(t)[k] = t[k + 1]
  OBVIOUS
<1> DEFINE a == Append(s, Head(t))
           b == Tail(t)
<1> HIDE DEF a, b
<1>4. /\ a \in Seq(Entry) /\ b \in Seq(Entry)
      /\ Len(a) = Len(s) + 1 /\ Len(b) = Len(t) - 1
      /\ \A k \in 1 .. Len(s) : a[k] = s[k]
      /\ a[Len(s) + 1] = t[1]
      /\ \A k \in 1 .. Len(t) - 1 : b[k] = t[k + 1]
  BY <1>2, <1>3 DEF a, b
<1>5. /\ DOMAIN (a \o b) = 1 .. (Len(s) + Len(t))
      /\ DOMAIN (s \o t) = 1 .. (Len(s) + Len(t))
  <2>1. DOMAIN (a \o b) = 1 .. (Len(a) + Len(b))
    <3>1. a \in Seq(Entry) /\ b \in Seq(Entry)
      BY <1>4
    <3> QED BY <3>1
  <2>2. Len(a) + Len(b) = Len(s) + Len(t)
    BY <1>1, <1>4
  <2>3. DOMAIN (s \o t) = 1 .. (Len(s) + Len(t))
    OBVIOUS
  <2> QED BY <2>1, <2>2, <2>3
<1>6. ASSUME NEW m \in 1 .. (Len(s) + Len(t)) PROVE (a \o b)[m] = (s \o t)[m]
  <2>1. CASE m <= Len(s)
    BY <1>1, <1>4, <2>1
  <2>2. CASE m = Len(s) + 1
    BY <1>1, <1>4, <2>2
  <2>3. CASE m > Len(s) + 1
    <3>1. /\ m - Len(a) \in 1 .. Len(t) - 1
          /\ (m - Len(a)) + 1 = m - Len(s)
      BY <1>1, <1>4, <2>3
    <3>2. (a \o b)[m] = b[m - Len(a)]
      BY <1>1, <1>4, <2>3, <3>1
    <3>3. b[m - Len(a)] = t[m - Len(s)]
      BY <1>4, <3>1
    <3>4. (s \o t)[m] = t[m - Len(s)]
      BY <1>1, <2>3
    <3> QED BY <3>2, <3>3, <3>4
  <2>4. m <= Len(s) \/ m = Len(s) + 1 \/ m > Len(s) + 1
    BY <1>1
  <2> QED BY <2>1, <2>2, <2>3, <2>4
<1> QED BY <1>2, <1>5, <1>6 DEF a, b

\* What follows is all of a record: another one with the same entries follows.
LEMMA SameGot ==
    ASSUME NEW w \in Watchers, Follows(w), audit' = audit,
           DOMAIN Got(w)' = DOMAIN Got(w),
           \A m \in DOMAIN Got(w) : Got(w)'[m] = Got(w)[m],
           watch'[w].at \in {"away", "asleep", "told"} =>
              /\ watch'[w].slice = << >>
              /\ \A i \in DOMAIN audit : i <= watch'[w].seen,
           watch'[w].at = "sending" => watch'[w].slice # << >>
    PROVE  Follows(w)'
BY DEF Follows

\* The pass that sent all it had notes the length of the run.
LEMMA Settled ==
    ASSUME TypeOK, WatchTypes, NEW w \in Watchers, NEW sent \in Seq(Entry),
           Settle(w, sent), audit' = audit
    PROVE  /\ WatchTypes'
           /\ Got(w)' = sent
           /\ watch'[w].slice = << >> /\ watch'[w].at # "sending"
           /\ \A i \in DOMAIN audit : i <= watch'[w].seen
           /\ \A v \in Watchers \ {w} : watch'[v] = watch[v]
<1> DEFINE r == [at |-> IF status = "running" THEN "asleep" ELSE "told",
                 seen |-> Len(audit), slice |-> << >>, sent |-> sent]
<1>1. watch' = [watch EXCEPT ![w] = r]
  BY DEF Settle, Seen
<1>2. << >> \in Seq(Entry) /\ Len(audit) \in Nat /\ DOMAIN audit = 1 .. Len(audit)
  BY Facts
<1>3. r \in [at : At, seen : Nat, slice : Seq(Entry), sent : Seq(Entry)]
  BY <1>2 DEF At
<1>4. r.slice = << >> /\ r.at # "sending" /\ r.sent = sent /\ r.seen = Len(audit)
  OBVIOUS
<1> HIDE DEF r
<1>5. watch'[w] = r /\ \A v \in Watchers \ {w} : watch'[v] = watch[v]
  BY <1>1 DEF WatchTypes
<1>6. WatchTypes'
  BY <1>1, <1>3 DEF WatchTypes
<1>7. Got(w)' = sent
  <2>1. sent \o << >> = sent
    OBVIOUS
  <2> QED BY <1>4, <1>5, <2>1 DEF Got
<1> QED BY <1>2, <1>4, <1>5, <1>6, <1>7

LEMMA LookFollows ==
    ASSUME TypeOK, WatchTypes, NEW w \in Watchers, Follows(w), Look(w)
    PROVE  /\ WatchTypes' /\ Follows(w)'
           /\ \A v \in Watchers \ {w} : watch'[v] = watch[v]
<1> DEFINE slice == SubSeq(audit, watch[w].seen + 1, Len(audit))
           seen == watch[w].seen
           s == watch[w].sent
<1>1. /\ watch[w].at \in {"away", "asleep"} /\ audit' = audit
      /\ IF slice = << >>
         THEN Settle(w, s)
         ELSE watch' = [watch EXCEPT ![w].at = "sending", ![w].slice = slice]
  BY DEF Look, Watching, memory
<1>2. /\ watch[w] \in [at : At, seen : Nat, slice : Seq(Entry), sent : Seq(Entry)]
      /\ s \in Seq(Entry) /\ seen \in Nat
      /\ audit \in Seq(Entry) /\ Len(audit) \in Nat
      /\ DOMAIN audit = 1 .. Len(audit)
  BY Facts DEF WatchTypes
<1>3. watch[w].slice = << >> /\ Got(w) = s
  <2>1. watch[w].slice = << >>
    BY <1>1 DEF Follows
  <2>2. s \o << >> = s
    BY <1>2
  <2> QED BY <2>1, <2>2 DEF Got
<1>4. /\ slice \in Seq(Entry) /\ Len(slice) \in Nat
      /\ \A n \in 1 .. Len(slice) :
            seen + n \in DOMAIN audit /\ slice[n] = audit[seen + n]
  <2>1. slice \in Seq(Entry)
    BY <1>2
  <2>2. ASSUME NEW n \in 1 .. Len(slice)
        PROVE  seen + n \in DOMAIN audit /\ slice[n] = audit[seen + n]
    <3>1. /\ Len(slice) = IF seen + 1 <= Len(audit)
                          THEN Len(audit) - (seen + 1) + 1 ELSE 0
      BY <1>2
    <3>2. seen + n \in 1 .. Len(audit)
      BY <1>2, <3>1
    <3>3. slice[n] = audit[(seen + 1) + n - 1]
      BY <1>2, <3>1
    <3> QED BY <1>2, <3>2, <3>3
  <2> QED BY <2>1, <2>2
<1> HIDE DEF slice, seen, s
<1>5. CASE slice = << >>
  <2>1. /\ WatchTypes' /\ Got(w)' = s
        /\ watch'[w].slice = << >> /\ watch'[w].at # "sending"
        /\ \A i \in DOMAIN audit : i <= watch'[w].seen
        /\ \A v \in Watchers \ {w} : watch'[v] = watch[v]
    BY <1>1, <1>2, <1>5, Settled
  <2>2. Follows(w)'
    BY <1>1, <1>3, <2>1, SameGot
  <2> QED BY <2>1, <2>2
<1>6. CASE slice # << >>
  <2>1. watch' = [watch EXCEPT ![w].at = "sending", ![w].slice = slice]
    BY <1>1, <1>6
  <2>2. /\ watch'[w].at = "sending" /\ watch'[w].slice = slice
        /\ watch'[w].sent = s
        /\ \A v \in Watchers \ {w} : watch'[v] = watch[v]
    BY <1>2, <2>1 DEF WatchTypes, s
  <2>3. WatchTypes'
    BY <1>2, <1>4, <2>1 DEF WatchTypes, At
  <2>4. Got(w)' = s \o slice
    BY <2>2 DEF Got
  <2>5. /\ DOMAIN (s \o slice) = 1 .. (Len(s) + Len(slice))
        /\ DOMAIN s = 1 .. Len(s) /\ Len(s) \in Nat
        /\ \A m \in 1 .. Len(s) : (s \o slice)[m] = s[m]
        /\ \A m \in Len(s) + 1 .. Len(s) + Len(slice) :
              /\ (s \o slice)[m] = slice[m - Len(s)]
              /\ m - Len(s) \in 1 .. Len(slice)
    BY <1>2, <1>4
  <2>6. \A m \in 1 .. Len(s) : \E i \in DOMAIN audit :
           audit[i] = (s \o slice)[m] /\ i <= seen
    BY <1>1, <1>3, <2>5 DEF Follows, seen
  <2>7. \A m \in Len(s) + 1 .. Len(s) + Len(slice) :
           /\ seen + (m - Len(s)) \in DOMAIN audit
           /\ audit[seen + (m - Len(s))] = (s \o slice)[m]
    BY <1>4, <2>5
  <2>8. \A m \in 1 .. (Len(s) + Len(slice)) : \E i \in DOMAIN audit :
           audit[i] = (s \o slice)[m]
    BY <1>4, <2>5, <2>6, <2>7
  <2>9. ASSUME NEW m \in 1 .. (Len(s) + Len(slice)),
               NEW n \in 1 .. (Len(s) + Len(slice)), m < n
        PROVE  \E i, j \in DOMAIN audit :
                  i < j /\ audit[i] = (s \o slice)[m] /\ audit[j] = (s \o slice)[n]
    <3>1. CASE n <= Len(s)
      <4>1. m \in DOMAIN s /\ n \in DOMAIN s
        BY <1>4, <2>5, <2>9, <3>1
      <4>2. \E i, j \in DOMAIN audit : i < j /\ audit[i] = s[m] /\ audit[j] = s[n]
        BY <1>3, <2>9, <4>1 DEF Follows
      <4> QED BY <2>5, <4>1, <4>2
    <3>2. CASE m <= Len(s) /\ Len(s) < n
      <4>1. PICK i \in DOMAIN audit : audit[i] = (s \o slice)[m] /\ i <= seen
        BY <1>4, <2>5, <2>6, <3>2
      <4>2. /\ seen + (n - Len(s)) \in DOMAIN audit
            /\ audit[seen + (n - Len(s))] = (s \o slice)[n]
        BY <1>4, <2>5, <2>7, <3>2
      <4>3. i < seen + (n - Len(s))
        BY <1>2, <1>4, <2>5, <3>2, <4>1
      <4> QED BY <4>1, <4>2, <4>3
    <3>3. CASE Len(s) < m
      <4>1. /\ seen + (m - Len(s)) \in DOMAIN audit
            /\ audit[seen + (m - Len(s))] = (s \o slice)[m]
            /\ seen + (n - Len(s)) \in DOMAIN audit
            /\ audit[seen + (n - Len(s))] = (s \o slice)[n]
        BY <1>4, <2>5, <2>7, <2>9, <3>3
      <4>2. seen + (m - Len(s)) < seen + (n - Len(s))
        BY <1>2, <1>4, <2>5, <2>9
      <4> QED BY <4>1, <4>2
    <3> QED BY <1>4, <2>5, <3>1, <3>2, <3>3
  <2>10. Follows(w)'
    BY <1>1, <1>6, <2>2, <2>4, <2>5, <2>8, <2>9 DEF Follows
  <2> QED BY <2>2, <2>3, <2>10
<1> QED BY <1>5, <1>6

LEMMA SentFollows ==
    ASSUME TypeOK, WatchTypes, NEW w \in Watchers, Follows(w), Sent(w)
    PROVE  /\ WatchTypes' /\ Follows(w)'
           /\ \A v \in Watchers \ {w} : watch'[v] = watch[v]
<1> DEFINE s == watch[w].sent
           t == watch[w].slice
           sent == Append(s, Head(t))
           rest == Tail(t)
<1>1. /\ watch[w].at = "sending" /\ audit' = audit
      /\ IF rest = << >>
         THEN Settle(w, sent)
         ELSE watch' = [watch EXCEPT ![w].slice = rest, ![w].sent = sent]
  BY DEF Sent, Watching, memory
<1>2. /\ watch[w] \in [at : At, seen : Nat, slice : Seq(Entry), sent : Seq(Entry)]
      /\ s \in Seq(Entry) /\ t \in Seq(Entry) /\ t # << >>
  BY <1>1 DEF WatchTypes, Follows
<1>3. Got(w) = s \o t
  BY DEF Got
<1>4. /\ sent \in Seq(Entry) /\ rest \in Seq(Entry)
      /\ DOMAIN (sent \o rest) = DOMAIN (s \o t)
      /\ \A m \in DOMAIN (s \o t) : (sent \o rest)[m] = (s \o t)[m]
  BY <1>2, MovedOver
<1> HIDE DEF s, t, sent, rest
<1>5. CASE rest = << >>
  <2>1. /\ WatchTypes' /\ Got(w)' = sent
        /\ watch'[w].slice = << >> /\ watch'[w].at # "sending"
        /\ \A i \in DOMAIN audit : i <= watch'[w].seen
        /\ \A v \in Watchers \ {w} : watch'[v] = watch[v]
    BY <1>1, <1>4, <1>5, Settled
  <2>2. sent \o rest = sent
    BY <1>4, <1>5
  <2>3. Follows(w)'
    BY <1>1, <1>3, <1>4, <2>1, <2>2, SameGot
  <2> QED BY <2>1, <2>3
<1>6. CASE rest # << >>
  <2>1. watch' = [watch EXCEPT ![w].slice = rest, ![w].sent = sent]
    BY <1>1, <1>6
  <2>2. /\ watch'[w].at = "sending" /\ watch'[w].slice = rest
        /\ watch'[w].sent = sent
        /\ \A v \in Watchers \ {w} : watch'[v] = watch[v]
    BY <1>1, <1>2, <2>1 DEF WatchTypes
  <2>3. WatchTypes'
    BY <1>2, <1>4, <2>1 DEF WatchTypes
  <2>4. Got(w)' = sent \o rest
    BY <2>2 DEF Got
  <2>5. Follows(w)'
    BY <1>1, <1>3, <1>4, <1>6, <2>2, <2>4, SameGot
  <2> QED BY <2>2, <2>3, <2>5
<1> QED BY <1>5, <1>6

LEMMA DisconnectFollows ==
    ASSUME WatchTypes, NEW w \in Watchers, Follows(w), Disconnect(w)
    PROVE  /\ WatchTypes' /\ Follows(w)'
           /\ \A v \in Watchers \ {w} : watch'[v] = watch[v]
<1>1. /\ watch' = [watch EXCEPT ![w].at = "left"] /\ audit' = audit
  BY DEF Disconnect, memory
<1>2. /\ watch'[w].at = "left" /\ watch'[w].slice = watch[w].slice
      /\ watch'[w].sent = watch[w].sent
      /\ \A v \in Watchers \ {w} : watch'[v] = watch[v]
  BY <1>1 DEF WatchTypes
<1>3. WatchTypes'
  BY <1>1 DEF WatchTypes, At
<1>4. Got(w)' = Got(w)
  BY <1>2 DEF Got
<1>5. Follows(w)'
  BY <1>1, <1>2, <1>4, SameGot
<1> QED BY <1>2, <1>3, <1>5

\* A client keeps following while another one, or nobody, is served.
LEMMA OthersFollow ==
    ASSUME NEW v \in Watchers, Follows(v), audit' = audit,
           watch'[v] = watch[v]
    PROVE  Follows(v)'
<1>1. Got(v)' = Got(v)
  BY DEF Got
<1> QED BY <1>1 DEF Follows

LEMMA TailInductive ==
    ASSUME IInv, IInv', TailInv, [Next]_vars
    PROVE  TailInv'
<1>0. TypeOK /\ TypeOK' /\ WatchTypes /\ \A w \in Watchers : Follows(w)
  BY DEF IInv, TailInv
<1>1. Distinct'
  BY DistinctInductive DEF TailInv
<1>2. CASE watch' = watch
  <2>1. WatchTypes'
    BY <1>0, <1>2 DEF WatchTypes
  <2>2. \A w \in Watchers : Follows(w)'
    BY <1>0, <1>2, RunGrows, FollowsOn
  <2> QED BY <1>1, <2>1, <2>2 DEF TailInv
<1>3. ASSUME NEW w \in Watchers, Look(w) \/ Sent(w) \/ Disconnect(w)
      PROVE  TailInv'
  <2>1. /\ WatchTypes' /\ Follows(w)'
        /\ \A v \in Watchers \ {w} : watch'[v] = watch[v]
    BY <1>0, <1>3, LookFollows, SentFollows, DisconnectFollows
  <2>2. audit' = audit
    BY <1>3 DEF Look, Sent, Disconnect, memory
  <2>3. \A v \in Watchers \ {w} : Follows(v)'
    BY <1>0, <2>1, <2>2, OthersFollow
  <2> QED BY <1>1, <2>1, <2>3 DEF TailInv
<1> QED
  BY <1>2, <1>3
     DEF Next, Task, Start, Persist, Complete, Error, NodeReturns,
         PrefetchFails, NodeRaises, GraphRaises, Deliver, NodeEmitted, Done,
         Restart, vars

LEMMA TailInitially == Init => TailInv
<1> SUFFICES ASSUME Init PROVE TailInv
  OBVIOUS
<1>1. Distinct
  BY DEF Init, Distinct
<1>2. watch = [w \in Watchers |-> Idle]
  BY DEF Init
<1>3. << >> \in Seq(Entry) /\ << >> \o << >> = << >>
  OBVIOUS
<1>4. Idle \in [at : At, seen : Nat, slice : Seq(Entry), sent : Seq(Entry)]
  BY <1>3 DEF Idle, At
<1>5. \A w \in Watchers : Got(w) = << >>
  BY <1>2, <1>3 DEF Got, Idle
<1>6. ASSUME NEW w \in Watchers PROVE Follows(w)
  <2>1. DOMAIN Got(w) = {} /\ watch[w].at = "away" /\ watch[w].slice = << >>
    BY <1>2, <1>5 DEF Idle
  <2> QED BY <2>1 DEF Follows
<1>7. WatchTypes
  BY <1>2, <1>4 DEF WatchTypes
<1> QED BY <1>1, <1>6, <1>7 DEF TailInv

\* The entries of a run have one place each: those the client is sent are
\* found in the run in the order it gets them.
LEMMA PlacesGrow ==
    ASSUME IInv, TailInv
    PROVE  TailInOrder
<1>1. /\ DOMAIN audit = 1 .. Len(audit) /\ DOMAIN log = 1 .. Len(log)
      /\ Len(audit) <= Len(log) /\ Len(audit) \in Nat /\ Len(log) \in Nat
      /\ \A i \in DOMAIN audit : audit[i] = log[i]
  BY Facts DEF IInv, Progress
<1>2. \A i, j \in DOMAIN audit : audit[i] = audit[j] => i = j
  BY <1>1 DEF TailInv, Distinct
<1> DEFINE Place(e) == CHOOSE i \in DOMAIN audit : audit[i] = e
<1>3. \A i \in DOMAIN audit : Place(audit[i]) = i
  BY <1>2
<1>4. ASSUME NEW w \in Watchers, NEW m \in DOMAIN Got(w),
             NEW n \in DOMAIN Got(w), m < n
      PROVE  Place(Got(w)[m]) < Place(Got(w)[n])
  <2>1. PICK i \in DOMAIN audit, j \in DOMAIN audit :
           i < j /\ audit[i] = Got(w)[m] /\ audit[j] = Got(w)[n]
    BY <1>4 DEF TailInv, Follows
  <2>2. Place(Got(w)[m]) = i
    BY <1>3, <2>1
  <2>3. Place(Got(w)[n]) = j
    BY <1>3, <2>1
  <2> HIDE DEF Place
  <2> QED BY <2>1, <2>2, <2>3
<1> QED BY <1>4 DEF TailInOrder, Got

\* For every instance: a client is sent entries of the run in its order and
\* none twice, however its passes fall between the steps of the pipeline.
THEOREM ClientsTailInOrder == Spec => []TailInOrder
<1>1. IInv /\ IInv' /\ TailInv /\ [Next]_vars => TailInv'
  BY TailInductive
<1> QED BY Initially, Inductive, TailInitially, <1>1, PlacesGrow, PTL DEF Spec

-----------------------------------------------------------------------------
(***************************************************************************)
(* A run that is over                                                      *)
(***************************************************************************)
\* The end is written and told from the last places of the task only, and
\* nothing is logged or handed on there.
Over ==
    \/ ledgerRun \in {"completed", "failed"}
    \/ status \in {"completed", "failed"}
    \/ \E w \in Watchers : watch[w].at = "told"

EndInv ==
    /\ Over => audit = log /\ pc \in {"done", "ended", "lost"}
    /\ ledgerRun = "completed" => outcome = "completed"
    /\ pc = "error" => audit = log
    /\ status = "gone" => pc = "lost"

\* Where the counter has caught up with the log, the run holds all of it.
LEMMA CaughtUp ==
    ASSUME IInv, pc \in {"posted", "node", "complete", "done"}
    PROVE  audit = log
<1>1. /\ Len(audit) = Len(log) /\ \A i \in DOMAIN audit : audit[i] = log[i]
      /\ audit \in Seq(Entry) /\ log \in Seq(Entry)
  BY Facts DEF IInv, Progress
<1> QED BY <1>1

\* Who is served a pass is told the end only of a run that has one.
LEMMA ToldTheEnd ==
    ASSUME IInv, TailInv, EndInv, NEW w \in Watchers,
           Look(w) \/ Sent(w) \/ Disconnect(w)
    PROVE  EndInv'
<1>1. /\ UNCHANGED <<pc, log, outcome, audit, status, ledgerRun>>
      /\ pc # "lost"
  BY DEF Look, Sent, Disconnect, Watching, graph, memory, ledger
<1>2. /\ WatchTypes /\ WatchTypes'
      /\ \A v \in Watchers \ {w} : watch'[v] = watch[v]
  BY LookFollows, SentFollows, DisconnectFollows DEF TailInv, IInv
<1>3. watch'[w].at = "told" => watch[w].at = "told" \/ status # "running"
  BY <1>2 DEF Look, Sent, Disconnect, Settle, WatchTypes, TailInv
<1>4. status \in {"running", "completed", "failed", "gone"}
  BY DEF IInv, TypeOK
<1>5. Over' => Over
  BY <1>1, <1>2, <1>3, <1>4 DEF Over, EndInv
<1> QED BY <1>1, <1>5 DEF EndInv

LEMMA EndInductive ==
    ASSUME IInv, TailInv, EndInv, [Next]_vars
    PROVE  EndInv'
<1>1. ASSUME NEW written \in BOOLEAN, Start(written) PROVE EndInv'
  BY <1>1, CaughtUp DEF Start, graph, memory, EndInv, Over
<1>2. CASE PrefetchFails
  BY <1>2, CaughtUp DEF PrefetchFails, graph, ledger, EndInv, Over
<1>3. ASSUME NEW count \in 0 .. MaxEntries, NodeReturns(count) PROVE EndInv'
  BY <1>3 DEF NodeReturns, memory, ledger, EndInv, Over
<1>4. CASE NodeRaises
  BY <1>4 DEF NodeRaises, memory, ledger, EndInv, Over
<1>5. CASE GraphRaises
  BY <1>5, CaughtUp DEF GraphRaises, graph, memory, ledger, EndInv, Over
<1>6. ASSUME NEW ok \in BOOLEAN, Persist(ok) PROVE EndInv'
  BY <1>6 DEF Persist, graph, memory, EndInv, Over
<1>7. CASE Deliver
  BY <1>7 DEF Deliver, graph, ledger, EndInv, Over
<1>8. CASE NodeEmitted
  BY <1>8 DEF NodeEmitted, memory, ledger, EndInv, Over
<1>9. ASSUME NEW ok \in BOOLEAN, Complete(ok) PROVE EndInv'
  BY <1>9, CaughtUp DEF Complete, graph, memory, EndInv, Over
<1>10. CASE Done
  BY <1>10, CaughtUp DEF Done, graph, ledger, EndInv, Over
<1>11. ASSUME NEW ok \in BOOLEAN, Error(ok) PROVE EndInv'
  BY <1>11 DEF Error, graph, EndInv, Over
<1>12. CASE Restart
  BY <1>12 DEF Restart, graph, ledger, EndInv, Over
<1>13. ASSUME NEW w \in Watchers, Look(w) \/ Sent(w) \/ Disconnect(w)
       PROVE  EndInv'
  BY <1>13, ToldTheEnd
<1>14. CASE UNCHANGED vars
  BY <1>14 DEF vars, graph, memory, ledger, EndInv, Over
<1> QED
  BY <1>1, <1>2, <1>3, <1>4, <1>5, <1>6, <1>7, <1>8, <1>9, <1>10, <1>11, <1>12,
     <1>13, <1>14 DEF Next, Task

\* Whatever a restart cuts off, a row of the ledger that is finished and a
\* client that was told the end speak of a whole run, for any nodes, entries
\* and clients.
THEOREM EndsWhole == Spec => []EndIsWhole
<1>1. Init => EndInv
  BY DEF Init, EndInv, Over, Idle
<1>2. IInv /\ TailInv /\ EndInv /\ [Next]_vars => EndInv'
  BY EndInductive
<1>3. EndInv => EndIsWhole
  BY DEF EndInv, Over, EndIsWhole
<1>4. IInv /\ IInv' /\ TailInv /\ [Next]_vars => TailInv'
  BY TailInductive
<1> QED
  BY Initially, Inductive, TailInitially, <1>1, <1>2, <1>3, <1>4, PTL DEF Spec

\* What a run streams is its audit log, each entry once and all of them before
\* its end is written or told, for any nodes, entries and clients.
THEOREM StreamIsTheLog == Spec => []StreamIsLog
<1>1. StepsOnce /\ EndIsWhole => StreamIsLog
  BY DEF StreamIsLog
<1> QED BY <1>1, StreamedOnce, EndsWhole, PTL

=============================================================================
