------------------------ MODULE PlaybookEngineProofs -----------------------
(***************************************************************************)
(* The bound on the calls of a playbook run, for any playbooks: any number *)
(* of steps, names used twice, missing or leading back.                    *)
(***************************************************************************)
EXTENDS PlaybookEngine, WellFoundedInduction, TLAPS

\* A non-empty set of positions of a sequence has a last one.
LEMMA HasLast ==
    ASSUME NEW n \in Nat, NEW P \in SUBSET (1 .. n), P # {}
    PROVE  \E i \in P : \A j \in P : j <= i
<1> DEFINE T == {n - i : i \in P}
           R == OpToRel(<, Nat)
<1> HIDE DEF R
<1>1. T \subseteq Nat /\ T # {}
  <2>1. \A i \in P : i \in 1 .. n /\ n - i \in Nat
    OBVIOUS
  <2> QED BY <2>1
<1>2. IsWellFoundedOn(R, Nat)
  BY NatLessThanWellFounded DEF R
<1>3. PICK x \in T : \A y \in T : ~ (<<y, x>> \in R)
  <2> HIDE DEF T
  <2> QED BY <1>1, <1>2, WFMin
<1>4. \A y \in T : ~ (y < x)
  BY <1>1, <1>3 DEF OpToRel, R
<1>5. PICK i \in P : x = n - i
  OBVIOUS
<1>6. ASSUME NEW j \in P PROVE j <= i
  <2>1. n - j \in T /\ i \in 1 .. n /\ j \in 1 .. n
    OBVIOUS
  <2>2. ~ (n - j < n - i)
    BY <1>4, <1>5, <2>1
  <2> QED BY <2>1, <2>2
<1> QED BY <1>6

-----------------------------------------------------------------------------
\* What the engine has taken a result or a call of was visited.
VisitedFirst ==
    /\ \A n \in DOMAIN results : results[n].id \in visited
    /\ \A i \in DOMAIN steps : calls[i] > 0 => steps[i].id \in visited

\* The step under way has no result yet, and its calls are its attempts.
Underway ==
    pc = "attempt" =>
        /\ idx \in DOMAIN steps /\ Current.id \in visited
        /\ \A n \in DOMAIN results : results[n].id # Current.id
        /\ attempt <= Current.retry_max
        /\ calls[idx] <= IF dry_run THEN 0 ELSE attempt

IInv == TypeOK /\ CallsBounded /\ VisitedFirst /\ Underway

\* Where a run goes to, by whatever name, is a position or just behind one.
LEMMA GotoIsPosition ==
    ASSUME TypeOK, NEW name PROVE Goto(name) \in Nat \ {0}
<1>1. steps \in Seq(Step) /\ Len(steps) \in Nat /\ DOMAIN steps = 1 .. Len(steps)
  BY PlaybookAssumption DEF TypeOK
<1>2. CASE Places(name) = {}
  BY <1>2 DEF Goto, TypeOK
<1>3. CASE Places(name) # {}
  <2>1. Places(name) \in SUBSET (1 .. Len(steps))
    BY <1>1 DEF Places
  <2>2. \E i \in Places(name) : \A j \in Places(name) : j <= i
    BY <1>1, <1>3, <2>1, HasLast
  <2>3. Goto(name) \in Places(name)
    BY <1>3, <2>2 DEF Goto
  <2> QED BY <2>1, <2>3
<1> QED BY <1>2, <1>3

\* At a step, the step is one of the playbook's.
LEMMA CurrentIsStep ==
    ASSUME TypeOK, idx <= Len(steps)
    PROVE  /\ idx \in DOMAIN steps /\ Current \in Step
           /\ Current.id \in Ids /\ Current.retry_max \in Nat
<1>1. steps \in Seq(Step) /\ idx \in 1 .. Len(steps)
  BY PlaybookAssumption DEF TypeOK
<1>2. Current \in Step
  BY <1>1 DEF Current
<1> QED BY <1>1, <1>2 DEF Step

\* Recording the current step adds one result, of its id, at the end.
LEMMA Recorded ==
    ASSUME TypeOK, idx <= Len(steps),
           NEW status \in {"skipped", "success", "failed"}, Record(status)
    PROVE  /\ results' \in Seq(Result)
           /\ DOMAIN results' = DOMAIN results \cup {Len(results) + 1}
           /\ Len(results) + 1 \notin DOMAIN results
           /\ \A n \in DOMAIN results : results'[n] = results[n]
           /\ results'[Len(results) + 1].id = Current.id
<1> DEFINE r == [at |-> idx, id |-> Current.id, status |-> status]
<1>1. r \in Result /\ results \in Seq(Result)
  BY CurrentIsStep DEF TypeOK, Result
<1>2. results' = Append(results, r)
  BY DEF Record
<1>3. r.id = Current.id
  OBVIOUS
<1> HIDE DEF r
<1> QED BY <1>1, <1>2, <1>3

\* A run that has not started has called nothing.
LEMMA Initially == Init => IInv
<1> SUFFICES ASSUME Init PROVE IInv
  OBVIOUS
<1>0. steps \in Seq(Step)
  BY PlaybookAssumption DEF Init
<1>1. ASSUME NEW i \in DOMAIN steps PROVE steps[i].retry_max \in Nat
  <2>1. steps[i] \in Step
    BY <1>0
  <2> QED BY <2>1 DEF Step
<1>2. TypeOK
  BY DEF Init, TypeOK
<1>3. CallsBounded
  BY <1>1 DEF Init, CallsBounded
<1>4. VisitedFirst /\ Underway
  BY DEF Init, VisitedFirst, Underway
<1> QED BY <1>2, <1>3, <1>4 DEF IInv

-----------------------------------------------------------------------------
\* Two results of one id are one result.
ResultsUnique ==
    \A m, n \in DOMAIN results : results[m].id = results[n].id => m = n

CallsLimited ==
    \A i \in DOMAIN steps :
        calls[i] <= IF dry_run THEN 0 ELSE steps[i].retry_max + 1

\* Recording a step that has no result yet, and is visited, is harmless.
LEMMA RecordIsFresh ==
    ASSUME TypeOK, idx <= Len(steps), ResultsUnique, VisitedFirst,
           NEW status \in {"skipped", "success", "failed"}, Record(status),
           \A n \in DOMAIN results : results[n].id # Current.id,
           visited \subseteq visited', Current.id \in visited'
    PROVE  /\ ResultsUnique'
           /\ \A n \in DOMAIN results' : results'[n].id \in visited'
<1>1. /\ DOMAIN results' = DOMAIN results \cup {Len(results) + 1}
      /\ \A n \in DOMAIN results : results'[n] = results[n]
      /\ results'[Len(results) + 1].id = Current.id
  BY Recorded
<1>2. ResultsUnique'
  BY <1>1 DEF ResultsUnique
<1>3. \A n \in DOMAIN results' : results'[n].id \in visited'
  BY <1>1 DEF VisitedFirst
<1> QED BY <1>2, <1>3

\* A call of the step under way is one of its attempts, and no other's.
LEMMA CallIsAttempt ==
    ASSUME IInv, pc = "attempt", Call
    PROVE  /\ calls' \in [DOMAIN steps -> Nat]
           /\ \A i \in DOMAIN steps : i # idx => calls'[i] = calls[i]
           /\ calls'[idx] <= IF dry_run THEN 0 ELSE attempt + 1
<1>1. /\ idx \in DOMAIN steps /\ attempt \in Nat
      /\ calls \in [DOMAIN steps -> Nat]
      /\ calls[idx] <= IF dry_run THEN 0 ELSE attempt
  BY DEF IInv, TypeOK, Underway
<1>2. CASE Called
  BY <1>1, <1>2 DEF Call, Called
<1>3. CASE ~Called
  BY <1>1, <1>3 DEF Call
<1> QED BY <1>2, <1>3

\* Entering a step visits it, and nothing was called or recorded under its
\* name before.
LEMMA EntersFresh ==
    ASSUME IInv, NEW pass, Enter(pass)
    PROVE  /\ pc = "loop" /\ idx <= Len(steps)
           /\ visited' \subseteq Ids
           /\ visited \subseteq visited' /\ Current.id \in visited'
           /\ idx \in DOMAIN steps /\ calls[idx] = 0
           /\ \A n \in DOMAIN results : results[n].id # Current.id
<1>1. pc = "loop" /\ idx <= Len(steps) /\ Current.id \notin visited
         /\ visited' = visited \cup {Current.id}
  BY DEF Enter, AtStep
<1>2. idx \in DOMAIN steps /\ Current.id \in Ids
  BY <1>1, CurrentIsStep DEF IInv
<1>3. calls[idx] = 0
  BY <1>1, <1>2 DEF IInv, TypeOK, VisitedFirst, Current
<1> QED BY <1>1, <1>2, <1>3 DEF IInv, TypeOK, VisitedFirst

-----------------------------------------------------------------------------
\* Every step of the engine keeps the invariant.
LEMMA Inductive == IInv /\ [Next]_vars => IInv'
<1> SUFFICES ASSUME IInv, [Next]_vars PROVE IInv'
  OBVIOUS
<1>0. TypeOK /\ ResultsUnique /\ CallsLimited /\ VisitedFirst /\ Underway
  BY DEF IInv, CallsBounded, ResultsUnique, CallsLimited
\* The invariant in the parts the steps are proved by.
<1>a. TypeOK' /\ ResultsUnique' /\ CallsLimited' /\ VisitedFirst' /\ Underway'
         => IInv'
  BY DEF IInv, CallsBounded, ResultsUnique, CallsLimited
\* Steps that neither enter, call nor record anything.
<1>b. ASSUME UNCHANGED <<steps, dry_run, visited, results, calls>>, TypeOK',
             pc' # "attempt"
      PROVE  IInv'
  BY <1>0, <1>a, <1>b
     DEF ResultsUnique, CallsLimited, VisitedFirst, Underway
<1>1. CASE Start \/ Cycle \/ Finish \/ Store \/ Restart
  <2>1. TypeOK'
    <3>1. /\ UNCHANGED <<steps, dry_run, idx, visited, attempt, results, calls>>
          /\ pc' \in {"loop", "finished", "stored", "lost"}
          /\ verdict' \in {verdict, "running", "failed", "completed"}
      BY <1>1 DEF Start, Cycle, Finish, Store, Restart
    <3>2. CASE UNCHANGED shown
      BY <1>0, <3>1, <3>2 DEF TypeOK
    <3>3. CASE Store
      BY <1>0, <3>1, <3>3 DEF Store, TypeOK
    <3>4. CASE Restart
      BY <1>0, <3>1, <3>4 DEF Restart, TypeOK
    <3> QED BY <1>1, <3>2, <3>3, <3>4 DEF Start, Cycle, Finish
  <2> QED BY <1>1, <1>b, <2>1 DEF Start, Cycle, Finish, Store, Restart
<1>2. ASSUME NEW pass, NEW status \in {"skipped", "success"}, NEW name,
             Enter(pass), Record(status), idx' = Goto(name),
             UNCHANGED <<steps, dry_run, pc, attempt, verdict, shown, calls>>
      PROVE  IInv'
  <2>1. /\ pc = "loop" /\ idx <= Len(steps) /\ visited' \subseteq Ids
        /\ visited \subseteq visited' /\ Current.id \in visited'
        /\ \A n \in DOMAIN results : results[n].id # Current.id
    BY <1>2, EntersFresh
  <2>2. results' \in Seq(Result)
    BY <1>0, <1>2, <2>1, Recorded
  <2>3. idx' \in Nat \ {0}
    BY <1>0, <1>2, GotoIsPosition
  <2>4. TypeOK'
    BY <1>0, <1>2, <2>1, <2>2, <2>3 DEF TypeOK
  <2>5. ResultsUnique' /\ \A n \in DOMAIN results' : results'[n].id \in visited'
    BY <1>0, <1>2, <2>1, RecordIsFresh
  <2>6. CallsLimited' /\ VisitedFirst' /\ Underway'
    BY <1>0, <1>2, <2>1, <2>5 DEF CallsLimited, VisitedFirst, Underway
  <2> QED BY <1>a, <2>4, <2>5, <2>6
<1>3. CASE Skip
  BY <1>2, <1>3 DEF Skip
<1>4. CASE Branch
  BY <1>2, <1>4 DEF Branch
<1>5. CASE Begin
  <2>1. /\ idx <= Len(steps) /\ visited' \subseteq Ids
        /\ visited \subseteq visited' /\ Current.id \in visited'
        /\ idx \in DOMAIN steps /\ calls[idx] = 0
        /\ \A n \in DOMAIN results : results[n].id # Current.id
    BY <1>5, EntersFresh DEF Begin
  <2>2. TypeOK'
    BY <1>0, <1>5, <2>1 DEF Begin, TypeOK
  <2>3. ResultsUnique' /\ CallsLimited' /\ VisitedFirst'
    BY <1>0, <1>5, <2>1 DEF Begin, ResultsUnique, CallsLimited, VisitedFirst
  <2>4. Current.retry_max \in Nat /\ Current' = Current
    BY <1>0, <1>5, <2>1, CurrentIsStep DEF Begin, Current
  <2>5. Underway'
    BY <1>5, <2>1, <2>4 DEF Begin, Underway
  <2> QED BY <1>a, <2>2, <2>3, <2>5
\* Steps that make an attempt.
<1>6. ASSUME pc = "attempt", Call, attempt' = attempt + 1,
             UNCHANGED <<steps, dry_run, visited, shown>>
      PROVE  /\ calls' \in [DOMAIN steps -> Nat]
             /\ idx <= Len(steps) /\ attempt' \in Nat
             /\ CallsLimited'
             /\ \A i \in DOMAIN steps : calls'[i] > 0 => steps[i].id \in visited
             /\ calls'[idx] <= IF dry_run THEN 0 ELSE attempt'
             /\ idx \in DOMAIN steps /\ Current.id \in visited
             /\ \A n \in DOMAIN results : results[n].id # Current.id
  <2>1. /\ idx \in DOMAIN steps /\ Current.id \in visited
        /\ \A n \in DOMAIN results : results[n].id # Current.id
        /\ attempt <= Current.retry_max /\ attempt \in Nat
    BY <1>0, <1>6 DEF Underway, TypeOK
  <2>2. /\ calls' \in [DOMAIN steps -> Nat]
        /\ \A i \in DOMAIN steps : i # idx => calls'[i] = calls[i]
        /\ calls'[idx] <= IF dry_run THEN 0 ELSE attempt + 1
    BY <1>6, CallIsAttempt
  <2>3. steps \in Seq(Step) /\ idx <= Len(steps)
    BY <1>0, <2>1, PlaybookAssumption DEF TypeOK
  <2>4. Current.retry_max \in Nat /\ Current = steps[idx]
    BY <1>0, <2>3, CurrentIsStep DEF Current
  <2>5. CallsLimited'
    <3> SUFFICES ASSUME NEW i \in DOMAIN steps
                 PROVE  calls'[i] <= IF dry_run THEN 0 ELSE steps[i].retry_max + 1
      BY <1>6 DEF CallsLimited
    <3>1. CASE i # idx
      BY <1>0, <2>2, <3>1 DEF CallsLimited
    <3>2. CASE i = idx
      BY <2>1, <2>2, <2>4, <3>2
    <3> QED BY <3>1, <3>2
  <2>6. \A i \in DOMAIN steps : calls'[i] > 0 => steps[i].id \in visited
    BY <1>0, <2>1, <2>2, <2>4 DEF VisitedFirst
  <2> QED BY <1>6, <2>1, <2>2, <2>3, <2>5, <2>6
<1>7. CASE Retry
  <2>1. /\ calls' \in [DOMAIN steps -> Nat] /\ attempt' \in Nat
        /\ CallsLimited'
        /\ \A i \in DOMAIN steps : calls'[i] > 0 => steps[i].id \in visited
        /\ calls'[idx] <= IF dry_run THEN 0 ELSE attempt'
        /\ idx \in DOMAIN steps /\ Current.id \in visited
        /\ \A n \in DOMAIN results : results[n].id # Current.id
    BY <1>6, <1>7 DEF Retry
  <2>2. TypeOK'
    BY <1>0, <1>7, <2>1 DEF Retry, TypeOK
  <2>3. ResultsUnique' /\ VisitedFirst'
    BY <1>0, <1>7, <2>1 DEF Retry, ResultsUnique, VisitedFirst
  <2>4. Current' = Current
    BY <1>7 DEF Retry, Current
  <2>5. Underway'
    BY <1>7, <2>1, <2>4 DEF Retry, MayRetry, Underway
  <2> QED BY <1>a, <2>1, <2>2, <2>3, <2>5
\* Steps that end one.
<1>8. ASSUME pc = "attempt", Call, attempt' = attempt + 1, pc' # "attempt",
             NEW status \in {"success", "failed"}, Record(status),
             pc' \in {"loop", "finished"}, idx' \in Nat \ {0},
             verdict' \in {"pending", "running", "failed", "completed"},
             UNCHANGED <<steps, dry_run, visited, shown>>
      PROVE  IInv'
  <2>1. /\ calls' \in [DOMAIN steps -> Nat]
        /\ idx <= Len(steps) /\ attempt' \in Nat
        /\ CallsLimited'
        /\ \A i \in DOMAIN steps : calls'[i] > 0 => steps[i].id \in visited
        /\ Current.id \in visited
        /\ \A n \in DOMAIN results : results[n].id # Current.id
    BY <1>6, <1>8
  <2>2. results' \in Seq(Result)
    BY <1>0, <1>8, <2>1, Recorded
  <2>3. TypeOK'
    BY <1>0, <1>8, <2>1, <2>2 DEF TypeOK
  <2>4. ResultsUnique' /\ \A n \in DOMAIN results' : results'[n].id \in visited'
    BY <1>0, <1>8, <2>1, RecordIsFresh
  <2>5. VisitedFirst' /\ Underway'
    BY <1>8, <2>1, <2>4 DEF VisitedFirst, Underway
  <2> QED BY <1>a, <2>1, <2>3, <2>4, <2>5
<1>9. CASE Succeed
  <2>1. idx' \in Nat \ {0}
    BY <1>0, <1>9, GotoIsPosition DEF Succeed
  <2>2. verdict' \in {"pending", "running", "failed", "completed"}
    BY <1>0, <1>9 DEF Succeed, TypeOK
  <2> QED BY <1>8, <1>9, <2>1, <2>2 DEF Succeed
<1>10. CASE Fail
  <2>1. /\ idx' \in Nat \ {0} /\ pc' \in {"loop", "finished"}
        /\ verdict' \in {"pending", "running", "failed", "completed"}
    BY <1>0, <1>10 DEF Fail, TypeOK
  <2> QED BY <1>8, <1>10, <2>1 DEF Fail
<1>11. CASE UNCHANGED vars
  <2>1. Current' = Current
    BY <1>11 DEF vars, engine, Current
  <2> QED BY <1>0, <1>a, <1>11, <2>1 DEF vars, engine, TypeOK, ResultsUnique,
             CallsLimited, VisitedFirst, Underway
<1> QED
  BY <1>1, <1>3, <1>4, <1>5, <1>7, <1>9, <1>10, <1>11 DEF Next, Engine

\* Whatever playbook a run is started with, and wherever its jumps lead, no
\* step is taken twice, no handler is called more than retry_max + 1 times,
\* and none in a dry run: the loop visits an id once and counts attempts.
THEOREM RunIsBounded == Spec => []CallsBounded
<1>1. IInv => CallsBounded
  BY DEF IInv
<1> QED BY Initially, Inductive, <1>1, PTL DEF Spec

=============================================================================
