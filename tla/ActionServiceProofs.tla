------------------------ MODULE ActionServiceProofs ------------------------
(***************************************************************************)
(* Theorems about the action service, for any set of ids, handlers and     *)
(* action types and any bounds.                                            *)
(***************************************************************************)
EXTENDS ActionService, TLAPS

\* The statuses the handlers store are statuses of the enumeration, so every
\* record they build is a Record.
LEMMA RecordTypes ==
    /\ Absent \in Record
    /\ \A s \in ActionStatus : NewRecord(s) \in Record
    /\ \A t \in ActionType : SimulatedStatus(t) \in ActionStatus
    /\ {"awaiting_approval", "approved", "rejected", "running",
        "completed", "failed"} \subseteq ActionStatus
BY ActionAssumption
   DEF Absent, Record, NewRecord, SimulatedStatus, ActionStatus

\* A handler that is not idle is about an action of the table; only one that
\* posts a reply carries a choice.
LEMMA TaskTypes ==
    ASSUME NEW k \in Task
    PROVE  /\ k.pc # "idle" => k.id \in Ids
           /\ k.pc = "posting" => k.choice \in Choices
           /\ k.pc = "executing" => [k EXCEPT !.pc = "acted"] \in Task
BY DEF Task, Idle

LEMMA IdleIsTask == Idle \in Task
BY DEF Task

\* Every submission gives the new action a record and a type, and leaves the
\* other actions' alone.
LEMMA RegisterType ==
    ASSUME TypeOK, NEW i \in Ids, NEW t \in Types, NEW cred \in BOOLEAN,
           Register(i, t, cred)
    PROVE  /\ type' \in [Ids -> Types \cup {"none"}]
           /\ credentialed' \subseteq Ids
BY DEF TypeOK, Register

\* Appending a response keeps the timelines sequences of choices.
LEMMA WriteType ==
    ASSUME timeline \in [Ids -> Seq(Choices)],
           NEW i \in Ids, NEW c \in Choices, Write(i, c)
    PROVE  timeline' \in [Ids -> Seq(Choices)]
<1>1. Append(timeline[i], c) \in Seq(Choices)
  OBVIOUS
<1>2. timeline' = [timeline EXCEPT ![i] = Append(timeline[i], c)]
  BY DEF Write
<1> QED BY <1>1, <1>2

\* The state of the service keeps its types: every status is one of the
\* enumeration, every waiting handler is about an action, every counter is a
\* number.
THEOREM TypeCorrect == Spec => []TypeOK
<1>1. Init => TypeOK
  BY RecordTypes, IdleIsTask DEF Init, TypeOK
<1>2. TypeOK /\ [Next]_vars => TypeOK'
  <2> SUFFICES ASSUME TypeOK, [Next]_vars PROVE TypeOK'
    OBVIOUS
  <2> USE RecordTypes, IdleIsTask DEF TypeOK
  <2>1. CASE Submit
    <3> PICK i \in Ids, t \in Types, cred \in BOOLEAN :
            \/ SubmitGated(i, t, cred)
            \/ SubmitUnsupported(i, t, cred)
            \/ SubmitSimulated(i, t, cred)
            \/ \E h \in Handlers : SubmitLive(h, i, t, cred)
      BY <2>1 DEF Submit
    <3>0. t \in ActionType
      BY ActionAssumption
    <3>1. CASE SubmitGated(i, t, cred)
      BY <3>1, RegisterType DEF SubmitGated, world
    <3>2. CASE SubmitUnsupported(i, t, cred)
      BY <3>2, RegisterType DEF SubmitUnsupported, world
    <3>3. CASE SubmitSimulated(i, t, cred)
      BY <3>0, <3>3, RegisterType DEF SubmitSimulated, world
    <3>4. ASSUME NEW h \in Handlers, SubmitLive(h, i, t, cred)
          PROVE  TypeOK'
      BY <3>4, RegisterType DEF SubmitLive, world, Task
    <3> QED BY <3>1, <3>2, <3>3, <3>4
  <2>2. ASSUME NEW i \in Ids, Approve(i) PROVE TypeOK'
    <3>1. type[i] # "none" => SimulatedStatus(type[i]) \in ActionStatus
      BY ActionAssumption
    <3>2. SimulatedStatus("none") \in ActionStatus
      BY DEF SimulatedStatus, ActionStatus
    <3>3. SimulatedStatus(type[i]) \in ActionStatus
      BY <3>1, <3>2
    <3> QED BY <2>2, <3>3 DEF Approve, world
  <2>3. ASSUME NEW i \in Ids, Reject(i) PROVE TypeOK'
    BY <2>3 DEF Reject, history, world, Record
  <2>4. ASSUME NEW i \in Ids, Expire(i) PROVE TypeOK'
    BY <2>4 DEF Expire, memory, history
  <2>5. ASSUME NEW h \in Handlers, VendorActs(h) PROVE TypeOK'
    <3>1. tasks[h] \in Task /\ tasks[h].pc = "executing"
      BY <2>5 DEF VendorActs, Waiting
    <3>2. tasks[h].id \in Ids
      BY <3>1, TaskTypes
    <3>3. tasks' \in [Handlers -> Task]
      BY <2>5, <3>1, TaskTypes DEF VendorActs
    <3>4. effects' \in [Ids -> Nat]
      BY <2>5, <3>2 DEF VendorActs
    <3> QED BY <2>5, <3>3, <3>4 DEF VendorActs, history
  <2>6. ASSUME NEW h \in Handlers, HandlerStep(h) PROVE TypeOK'
    <3>1. tasks[h] \in Task /\ tasks[h].pc # "idle"
      BY <2>6 DEF HandlerStep, ExecutorCompletes, ExecutorFails,
                  ExecutorRaises, ClickRecorded, ClickErrors, Waiting
    <3>2. tasks[h].id \in Ids
      BY <3>1, TaskTypes
    <3>3. tasks' \in [Handlers -> Task]
      BY <2>6 DEF HandlerStep, ExecutorCompletes, ExecutorFails,
                  ExecutorRaises, ClickRecorded, ClickErrors, Finish
    <3>4. CASE ExecutorCompletes(h)
      <4>1. \A w \in BOOLEAN, s \in ActionStatus :
               [status |-> s, choice |-> NoChoice, warn |-> w] \in Record
        BY DEF Record
      <4>2. PICK w \in BOOLEAN, s \in ActionStatus :
               actions' = [actions EXCEPT ![tasks[h].id] =
                  [status |-> s, choice |-> NoChoice, warn |-> w]]
        BY <3>4 DEF ExecutorCompletes
      <4>3. actions' \in [Ids -> Record]
        BY <3>2, <4>1, <4>2
      <4> QED BY <3>3, <3>4, <4>3 DEF ExecutorCompletes, history, world
    <3>5. CASE ExecutorFails(h)
      BY <3>2, <3>3, <3>5 DEF ExecutorFails, history, world
    <3>6. CASE ExecutorRaises(h)
      BY <3>2, <3>3, <3>6 DEF ExecutorRaises, history, world, Record
    <3>7. ASSUME NEW b \in BOOLEAN, ClickRecorded(h, b) PROVE TypeOK'
      <4>1. tasks[h].choice \in Choices
        BY <3>1, <3>7, TaskTypes DEF ClickRecorded, Waiting
      <4>2. timeline' \in [Ids -> Seq(Choices)]
        BY <3>2, <3>7, <4>1, WriteType DEF ClickRecorded
      <4>3. actions' \in [Ids -> Record]
        BY <3>2, <3>7, <4>1 DEF ClickRecorded, Record
      <4> QED BY <3>2, <3>3, <3>7, <4>2, <4>3 DEF ClickRecorded, history
    <3>8. ASSUME NEW b \in BOOLEAN, ClickErrors(h, b) PROVE TypeOK'
      <4>1. tasks[h].choice \in Choices
        BY <3>1, <3>8, TaskTypes DEF ClickErrors, Waiting
      <4>2. timeline' \in [Ids -> Seq(Choices)]
        BY <3>2, <3>8, <4>1, WriteType DEF ClickErrors
      <4> QED BY <3>3, <3>8, <4>2 DEF ClickErrors, history
    <3> QED BY <2>6, <3>4, <3>5, <3>6, <3>7, <3>8 DEF HandlerStep
  <2>7. ASSUME NEW h \in Handlers, NEW i \in Ids, NEW c \in Choices,
               Click(h, i, c)
        PROVE  TypeOK'
    BY <2>7 DEF Click, history, world, Task
  <2>8. CASE Restart
    BY <2>8 DEF Restart, history, world
  <2>9. CASE UNCHANGED vars
    BY <2>9 DEF vars, memory, history, world
  <2> QED
    BY <2>1, <2>2, <2>3, <2>4, <2>5, <2>6, <2>7, <2>8, <2>9 DEF Next
<1> QED BY <1>1, <1>2, PTL DEF Spec

-----------------------------------------------------------------------------
\* A type the policy lists is never let through by the gate.
LEMMA RequiredIsGated ==
    \A t \in ApprovalRequired : Evaluate(t) = "awaiting_approval"
BY DEF Evaluate

\* The initial state satisfies the inductive invariant, and every step keeps
\* it: only a submission of an unused id or an approval of a parked action
\* starts an execution.
LEMMA OneRunInductive ==
    ASSUME TypeOK, TypeOK', OneRunInv, [Next]_vars
    PROVE  OneRunInv'
<1> USE DEF TypeOK
<1>0. \A h \in Handlers :
         /\ tasks[h] \in Task
         /\ tasks[h].pc # "idle" => tasks[h].id \in Ids
         /\ tasks[h].pc # "idle" <=> tasks[h] # Idle
  BY TaskTypes DEF Task, Idle
<1>1. CASE Submit
  <2> PICK i \in Ids, t \in Types, cred \in BOOLEAN :
          \/ SubmitGated(i, t, cred)
          \/ SubmitUnsupported(i, t, cred)
          \/ SubmitSimulated(i, t, cred)
          \/ \E h \in Handlers : SubmitLive(h, i, t, cred)
    BY <1>1 DEF Submit
  <2>1. t # "none"
    BY ActionAssumption DEF ActionType
  <2>2. \A h \in Handlers : tasks[h] # Idle => tasks[h].id # i
    BY DEF OneRunInv, SubmitGated, SubmitUnsupported, SubmitSimulated,
           SubmitLive, Register, Fresh
  <2>3. /\ type' = [type EXCEPT ![i] = t]
        /\ type[i] = "none"
    BY DEF SubmitGated, SubmitUnsupported, SubmitSimulated, SubmitLive,
           Register, Fresh
  <2>4. CASE SubmitGated(i, t, cred)
    BY <1>0, <2>1, <2>2, <2>3, <2>4
       DEF SubmitGated, OneRunInv, NewRecord, world
  <2>5. CASE SubmitUnsupported(i, t, cred)
    BY <1>0, <2>1, <2>2, <2>3, <2>5, RequiredIsGated
       DEF SubmitUnsupported, OneRunInv, NewRecord, world
  <2>6. CASE SubmitSimulated(i, t, cred)
    BY <1>0, <2>1, <2>2, <2>3, <2>6, RequiredIsGated
       DEF SubmitSimulated, OneRunInv, NewRecord, SimulatedStatus, world
  <2>7. ASSUME NEW h \in Handlers, SubmitLive(h, i, t, cred)
        PROVE  OneRunInv'
    BY <1>0, <2>1, <2>2, <2>3, <2>7, RequiredIsGated
       DEF SubmitLive, OneRunInv, NewRecord, Idle, world
  <2> QED BY <2>4, <2>5, <2>6, <2>7
<1>2. ASSUME NEW i \in Ids, Approve(i) PROVE OneRunInv'
  BY <1>0, <1>2 DEF Approve, OneRunInv, NewRecord, SimulatedStatus, world
<1>3. ASSUME NEW i \in Ids, Reject(i) PROVE OneRunInv'
  BY <1>3 DEF Reject, OneRunInv, Present, Record, history, world
<1>4. ASSUME NEW i \in Ids, Expire(i) PROVE OneRunInv'
  BY <1>4 DEF Expire, OneRunInv, memory, history
<1>5. ASSUME NEW h \in Handlers, VendorActs(h) PROVE OneRunInv'
  BY <1>0, <1>5 DEF VendorActs, Waiting, OneRunInv, Task, Idle, history
<1>6. ASSUME NEW h \in Handlers, HandlerStep(h) PROVE OneRunInv'
  <2>1. /\ tasks[h] # Idle /\ tasks[h].id \in Ids
        /\ tasks' = [tasks EXCEPT ![h] = Idle]
        /\ UNCHANGED <<history, effects>>
    BY <1>0, <1>6 DEF HandlerStep, ExecutorCompletes, ExecutorFails,
       ExecutorRaises, ClickRecorded, ClickErrors, Waiting, Finish, world, Idle
  <2> DEFINE settled == actions'[tasks[h].id].status
                           \in {"running", "completed", "failed"}
             others  == \A i \in Ids \ {tasks[h].id} : actions'[i] = actions[i]
  <2>2. others /\ (settled \/ actions' = actions)
    <3>1. CASE ExecutorCompletes(h)
      BY <2>1, <3>1 DEF ExecutorCompletes
    <3>2. CASE ExecutorFails(h)
      BY <2>1, <3>2 DEF ExecutorFails, NewRecord
    <3>3. CASE ExecutorRaises(h)
      BY <2>1, <3>3 DEF ExecutorRaises, Record
    <3>4. ASSUME NEW b \in BOOLEAN, ClickRecorded(h, b)
          PROVE  others /\ (settled \/ actions' = actions)
      BY <2>1, <3>4 DEF ClickRecorded
    <3>5. ASSUME NEW b \in BOOLEAN, ClickErrors(h, b)
          PROVE  actions' = actions
      BY <3>5 DEF ClickErrors
    <3> QED BY <1>6, <3>1, <3>2, <3>3, <3>4, <3>5 DEF HandlerStep
  <2>3. \A i \in Ids : \/ actions'[i].status = actions[i].status
                       \/ i = tasks[h].id /\ settled
    BY <2>2
  <2>4. type[tasks[h].id] # "none"
    BY <2>1 DEF OneRunInv
  <2>5. \A k \in Handlers : tasks'[k] = IF k = h THEN Idle ELSE tasks[k]
    BY <2>1
  <2> HIDE DEF settled, others
  <2>6. \A i \in Ids :
           /\ type'[i] = "none" =>
                 /\ actions'[i].status = "absent"
                 /\ runs'[i] = 0 /\ approvals'[i] = 0 /\ effects'[i] = 0
           /\ actions'[i].status = "awaiting_approval" => runs'[i] = 0
           /\ type'[i] \in ApprovalRequired => runs'[i] = approvals'[i]
           /\ runs'[i] <= 1
           /\ effects'[i] <= runs'[i]
    BY <2>1, <2>3, <2>4 DEF OneRunInv, history, settled
  <2>7. \A k \in Handlers :
           /\ tasks'[k] # Idle => type'[tasks'[k].id] # "none"
           /\ tasks'[k].pc = "executing" =>
                 runs'[tasks'[k].id] = 1 /\ effects'[tasks'[k].id] = 0
    BY <2>1, <2>5 DEF OneRunInv, history, Idle
  <2>8. \A j, k \in Handlers :
           /\ tasks'[j].pc \in {"executing", "acted"}
           /\ tasks'[k].pc \in {"executing", "acted"}
           /\ tasks'[j].id = tasks'[k].id
           => j = k
    <3> SUFFICES ASSUME NEW j \in Handlers, NEW k \in Handlers,
                        tasks'[j].pc \in {"executing", "acted"},
                        tasks'[k].pc \in {"executing", "acted"},
                        tasks'[j].id = tasks'[k].id
                 PROVE  j = k
      OBVIOUS
    <3>1. tasks'[j] = tasks[j] /\ tasks'[k] = tasks[k]
      BY <2>5 DEF Idle
    <3> HIDE DEF TypeOK
    <3> QED BY <3>1 DEF OneRunInv
  <2> QED BY <2>6, <2>7, <2>8 DEF OneRunInv
<1>7. ASSUME NEW h \in Handlers, NEW i \in Ids, NEW c \in Choices,
             Click(h, i, c)
      PROVE  OneRunInv'
  BY <1>0, <1>7 DEF Click, OneRunInv, Idle, history, world
<1>8. CASE Restart
  BY <1>8 DEF Restart, OneRunInv, Absent, Idle, history, world
<1>9. CASE UNCHANGED vars
  BY <1>9 DEF vars, memory, history, world, OneRunInv
<1> QED
  BY <1>1, <1>2, <1>3, <1>4, <1>5, <1>6, <1>7, <1>8, <1>9 DEF Next

THEOREM OneRun == Spec => []OneRunInv
<1>1. Init => OneRunInv
  BY DEF Init, OneRunInv, Absent, Idle
<1>2. TypeOK /\ TypeOK' /\ OneRunInv /\ [Next]_vars => OneRunInv'
  BY OneRunInductive
<1> QED BY <1>1, <1>2, TypeCorrect, PTL DEF Spec

\* For every instance: no executor is called twice for one action, and the
\* types that need a human run exactly as often as a human approved them.
THEOREM NoSecondRun ==
    Spec => [](AtMostOneRun /\ GatedNeedsApproval /\ EffectsAreRuns)
<1>1. OneRunInv => AtMostOneRun /\ GatedNeedsApproval /\ EffectsAreRuns
  BY DEF OneRunInv, AtMostOneRun, GatedNeedsApproval, EffectsAreRuns
<1> QED BY <1>1, OneRun, PTL

-----------------------------------------------------------------------------
(***************************************************************************)
(* The service implements the ApprovalDesk.                                *)
(***************************************************************************)

\* A waiting handler is never about a parked action: submit_action does not
\* reach the executor of one, approve_action does not wait, and a ChatOps
\* prompt is not parked.
TasksUngated ==
    \A h \in Handlers : tasks[h] # Idle => ~Gated(type[tasks[h].id])

LEMMA UnusedIsUngated == ~Gated("none") /\ ~Gated("chatops_verify")
BY DEF Gated, Evaluate, ApprovalRequired, RadiusOf, RadiusOrder,
       AutoExecuteLimit

LEMMA TasksUngatedInductive ==
    ASSUME TypeOK, OneRunInv, TasksUngated, [Next]_vars
    PROVE  TasksUngated'
<1> USE DEF TypeOK
<1>0. \A h \in Handlers :
         /\ tasks[h] \in Task
         /\ tasks[h].pc # "idle" => tasks[h].id \in Ids
         /\ tasks[h].pc # "idle" <=> tasks[h] # Idle
  BY TaskTypes DEF Task, Idle
<1>1. CASE Submit
  <2> PICK i \in Ids, t \in Types, cred \in BOOLEAN :
          \/ SubmitGated(i, t, cred)
          \/ SubmitUnsupported(i, t, cred)
          \/ SubmitSimulated(i, t, cred)
          \/ \E h \in Handlers : SubmitLive(h, i, t, cred)
    BY <1>1 DEF Submit
  <2>1. /\ type' = [type EXCEPT ![i] = t]
        /\ type[i] = "none"
    BY DEF SubmitGated, SubmitUnsupported, SubmitSimulated, SubmitLive,
           Register, Fresh
  <2>2. \A h \in Handlers :
           tasks[h] # Idle => tasks[h].id # i /\ tasks[h].id \in Ids
    BY <2>1, <1>0, TaskTypes DEF OneRunInv
  <2>3. CASE tasks' = tasks
    BY <2>1, <2>2, <2>3 DEF TasksUngated
  <2>4. ASSUME NEW h \in Handlers, SubmitLive(h, i, t, cred)
        PROVE  TasksUngated'
    <3>1. ~Gated(t) /\ type'[i] = t
      BY <2>1, <2>4 DEF SubmitLive, Gated
    <3>2. tasks' = [tasks EXCEPT ![h] =
                       [pc |-> "executing", id |-> i, choice |-> NoChoice]]
      BY <2>4 DEF SubmitLive
    <3>3. \A k \in Handlers : tasks'[k] # Idle =>
             \/ tasks'[k].id = i
             \/ k # h /\ tasks'[k] = tasks[k]
      BY <3>2
    <3> QED BY <2>1, <2>2, <3>1, <3>3 DEF TasksUngated
  <2> QED
    BY <2>3, <2>4 DEF SubmitGated, SubmitUnsupported, SubmitSimulated
<1>2. ASSUME UNCHANGED <<tasks, type>> PROVE TasksUngated'
  BY <1>2 DEF TasksUngated
<1>3. ASSUME NEW h \in Handlers, VendorActs(h) PROVE TasksUngated'
  BY <1>0, <1>3 DEF VendorActs, Waiting, TasksUngated, history, Task, Idle
<1>4. ASSUME NEW h \in Handlers, HandlerStep(h) PROVE TasksUngated'
  <2>1. tasks' = [tasks EXCEPT ![h] = Idle] /\ type' = type
    BY <1>4 DEF HandlerStep, ExecutorCompletes, ExecutorFails,
       ExecutorRaises, ClickRecorded, ClickErrors, Finish, history
  <2> QED BY <2>1 DEF TasksUngated
<1>5. ASSUME NEW h \in Handlers, NEW i \in Ids, NEW c \in Choices,
             Click(h, i, c)
      PROVE  TasksUngated'
  BY <1>5, UnusedIsUngated DEF Click, TasksUngated, history
<1>6. CASE Restart
  BY <1>6 DEF Restart, TasksUngated
<1> QED
  BY <1>1, <1>2, <1>3, <1>4, <1>5, <1>6
     DEF Next, Approve, Reject, Expire, vars, memory, history

\* deskOf has a value for each id, and depends on nothing but the record and
\* the type of that id.
LEMMA DeskOfDomain ==
    /\ deskOf = [i \in Ids |-> deskOf[i]]
    /\ deskOf' = [i \in Ids |-> deskOf'[i]]
    /\ \A i \in Ids :
          /\ actions'[i] = actions[i] /\ type'[i] = type[i]
                => deskOf'[i] = deskOf[i]
          /\ ~Gated(type[i]) => deskOf[i] = "absent"
          /\ ~Gated(type'[i]) => deskOf'[i] = "absent"
BY DEF deskOf, Present

\* A step that leaves the records and types of the parked actions alone is a
\* stutter of the desk.
LEMMA SameDesk ==
    ASSUME \A i \in Ids :
              \/ actions'[i] = actions[i] /\ type'[i] = type[i]
              \/ ~Gated(type[i]) /\ ~Gated(type'[i])
    PROVE  deskOf' = deskOf
BY DeskOfDomain

\* A step that changes the record of one action only.
LEMMA OneDesk ==
    ASSUME NEW i \in Ids,
           \A k \in Ids \ {i} : actions'[k] = actions[k] /\ type'[k] = type[k]
    PROVE  deskOf' = [deskOf EXCEPT ![i] = deskOf'[i]]
BY DeskOfDomain

LEMMA DeskStep ==
    ASSUME TypeOK, OneRunInv, TasksUngated, [Next]_vars
    PROVE  [Desk!DeskNext]_deskOf
<1> USE DEF TypeOK
<1>0. \A h \in Handlers :
         /\ tasks[h] \in Task
         /\ tasks[h].pc # "idle" => tasks[h].id \in Ids
         /\ tasks[h].pc # "idle" <=> tasks[h] # Idle
  BY TaskTypes DEF Task, Idle
<1>1. CASE Submit
  <2> PICK i \in Ids, t \in Types, cred \in BOOLEAN :
          \/ SubmitGated(i, t, cred)
          \/ SubmitUnsupported(i, t, cred)
          \/ SubmitSimulated(i, t, cred)
          \/ \E h \in Handlers : SubmitLive(h, i, t, cred)
    BY <1>1 DEF Submit
  <2>1. /\ type' = [type EXCEPT ![i] = t]
        /\ type[i] = "none"
        /\ \A k \in Ids \ {i} : actions'[k] = actions[k]
    BY DEF SubmitGated, SubmitUnsupported, SubmitSimulated, SubmitLive,
           Register, Fresh
  <2>2. ~Gated(type[i]) /\ deskOf[i] = "absent" /\ type'[i] = t
    BY <2>1, UnusedIsUngated, DeskOfDomain
  <2>3. CASE SubmitGated(i, t, cred)
    <3>1. Gated(t) /\ actions'[i].status = "awaiting_approval"
      BY <2>3 DEF SubmitGated, Gated, NewRecord
    <3>2. deskOf'[i] = "awaiting"
      BY <2>2, <3>1 DEF deskOf, Present
    <3>3. deskOf' = [deskOf EXCEPT ![i] = "awaiting"]
      BY <2>1, <3>2, OneDesk
    <3> QED BY <2>2, <3>3 DEF Desk!DeskNext, Desk!Park
  <2>4. CASE ~Gated(t)
    <3>1. deskOf' = deskOf
      BY <2>1, <2>2, <2>4, SameDesk
    <3> QED BY <3>1
  <2> QED
    BY <2>3, <2>4 DEF SubmitUnsupported, SubmitSimulated, SubmitLive, Gated
<1>2. ASSUME NEW i \in Ids, Approve(i) PROVE [Desk!DeskNext]_deskOf
  <2>1. /\ actions[i].status = "awaiting_approval"
        /\ actions'[i].status \in {"failed", "completed"}
        /\ \A k \in Ids \ {i} : actions'[k] = actions[k]
        /\ type' = type
    BY <1>2 DEF Approve, NewRecord, SimulatedStatus
  <2>2. CASE ~Gated(type[i])
    <3>1. deskOf' = deskOf
      BY <2>1, <2>2, SameDesk
    <3> QED BY <3>1
  <2>3. CASE Gated(type[i])
    <3>1. deskOf[i] = "awaiting" /\ deskOf'[i] = "executed"
      BY <2>1, <2>3 DEF deskOf, Present
    <3>2. deskOf' = [deskOf EXCEPT ![i] = "executed"]
      BY <2>1, <3>1, OneDesk
    <3>3. Desk!Decide(i, "approve")
      BY <3>1, <3>2 DEF Desk!Decide, Desk!Grants, Desk!Outcome
    <3> QED BY <3>3 DEF Desk!DeskNext
  <2> QED BY <2>2, <2>3
<1>3. ASSUME NEW i \in Ids, Reject(i) PROVE [Desk!DeskNext]_deskOf
  <2>1. /\ actions[i].status # "absent"
        /\ actions'[i].status = "rejected"
        /\ \A k \in Ids \ {i} : actions'[k] = actions[k]
        /\ type' = type
    BY <1>3 DEF Reject, Present, history, Record
  <2>2. CASE ~Gated(type[i])
    <3>1. deskOf' = deskOf
      BY <2>1, <2>2, SameDesk
    <3> QED BY <3>1
  <2>3. CASE Gated(type[i])
    <3>1. deskOf[i] # "absent" /\ deskOf'[i] = "rejected"
      BY <2>1, <2>3 DEF deskOf, Present
    <3>2. deskOf' = [deskOf EXCEPT ![i] = "rejected"]
      BY <2>1, <3>1, OneDesk
    <3>3. Desk!Decide(i, "reject")
      BY <3>1, <3>2 DEF Desk!Decide, Desk!Grants, Desk!Outcome
    <3> QED BY <3>3 DEF Desk!DeskNext
  <2> QED BY <2>2, <2>3
<1>4. ASSUME NEW h \in Handlers, HandlerStep(h) PROVE deskOf' = deskOf
  <2>1. /\ tasks[h].id \in Ids /\ ~Gated(type[tasks[h].id])
        /\ type' = type
        /\ \A k \in Ids \ {tasks[h].id} : actions'[k] = actions[k]
    BY <1>0, <1>4 DEF HandlerStep, ExecutorCompletes, ExecutorFails,
       ExecutorRaises, ClickRecorded, ClickErrors, Waiting, history,
       TasksUngated
  <2> QED BY <2>1, SameDesk
<1>5. ASSUME UNCHANGED <<actions, type>> PROVE deskOf' = deskOf
  BY <1>5, SameDesk
<1>6. CASE Restart
  <2>1. type' = type /\ \A i \in Ids : actions'[i].status = "absent"
    BY <1>6 DEF Restart, history, Absent
  <2>2. \A i \in Ids : deskOf'[i] = "absent"
    BY <2>1 DEF deskOf, Present
  <2>3. deskOf' = [i \in Ids |-> "absent"]
    BY <2>2, DeskOfDomain
  <2> QED BY <2>3 DEF Desk!DeskNext, Desk!Forget
<1> QED
  BY <1>1, <1>2, <1>3, <1>4, <1>5, <1>6
     DEF Next, VendorActs, Click, Expire, vars, memory, history

\* For every instance, the parked actions behave as the desk promises.
THEOREM DeskImplemented == Spec => ImplementsDesk
<1>1. Init => TasksUngated
  BY DEF Init, TasksUngated
<1>2. TypeOK /\ OneRunInv /\ TasksUngated /\ [Next]_vars => TasksUngated'
  BY TasksUngatedInductive
<1>3. Init => Desk!DeskInit
  BY DEF Init, Desk!DeskInit, deskOf, Present, Absent
<1>4. TypeOK /\ OneRunInv /\ TasksUngated /\ [Next]_vars
         => [Desk!DeskNext]_deskOf
  BY DeskStep
<1> QED
  BY <1>1, <1>2, <1>3, <1>4, TypeCorrect, OneRun, PTL
     DEF Spec, ImplementsDesk, Desk!DeskSpec

-----------------------------------------------------------------------------
(***************************************************************************)
(* What a record reports happened.                                         *)
(***************************************************************************)

\* Why a completed record tells the truth: the parameters that make an
\* execution live arrive with the submission, a handler that has an answer to
\* record (the vendor's, or the prompted user's) waits on behalf of an effect
\* that took place, and what a human approves is gated.
EffectInv ==
    /\ \A i \in Ids :
          /\ type[i] = "none" => i \notin credentialed
          /\ actions[i].status = "awaiting_approval" => Gated(type[i])
    /\ \A h \in Handlers :
          tasks[h].pc \in {"acted", "posting"} => effects[tasks[h].id] > 0
    /\ CompletedTookEffect

\* The invariant about one action, and about one handler.
ReportsEffect(i) ==
    /\ type[i] = "none" => i \notin credentialed
    /\ actions[i].status = "awaiting_approval" => Gated(type[i])
    /\ /\ actions[i].status = "completed"
       /\ ~Gated(type[i])
       /\ type[i] \notin Unconfirmed
       /\ GoesLive(type[i], i \in credentialed)
       => effects[i] > 0

AnswersEffect(h) ==
    tasks[h].pc \in {"acted", "posting"} => effects[tasks[h].id] > 0

LEMMA EffectParts ==
    /\ EffectInv <=> /\ \A i \in Ids : ReportsEffect(i)
                     /\ \A h \in Handlers : AnswersEffect(h)
    /\ EffectInv' <=> /\ \A i \in Ids : ReportsEffect(i)'
                      /\ \A h \in Handlers : AnswersEffect(h)'
BY DEF EffectInv, CompletedTookEffect, ReportsEffect, AnswersEffect

\* An action whose record is untouched stays truthful as long as no effect
\* is forgotten.
LEMMA EffectKept ==
    ASSUME NEW i \in Ids, TypeOK, TypeOK', ReportsEffect(i),
           actions'[i] = actions[i], type'[i] = type[i],
           i \in credentialed' <=> i \in credentialed,
           effects'[i] >= effects[i]
    PROVE  ReportsEffect(i)'
<1>1. effects[i] \in Nat /\ effects'[i] \in Nat
  BY DEF TypeOK
<1>2. effects[i] > 0 => effects'[i] > 0
  BY <1>1
<1>3. GoesLive(type'[i], i \in credentialed')
         => GoesLive(type[i], i \in credentialed)
  BY DEF GoesLive
<1> QED BY <1>2, <1>3 DEF ReportsEffect

\* A handler that has not moved still waits on behalf of its effect.
LEMMA AnswerKept ==
    ASSUME TypeOK, TypeOK', NEW h \in Handlers, AnswersEffect(h),
           tasks'[h] = tasks[h] \/ tasks'[h].pc \in {"idle", "executing"},
           \A i \in Ids : effects'[i] >= effects[i]
    PROVE  AnswersEffect(h)'
<1>1. CASE tasks'[h] = tasks[h] /\ tasks[h].pc \in {"acted", "posting"}
  <2>1. tasks[h].id \in Ids
    BY <1>1, TaskTypes DEF TypeOK
  <2>2. effects[tasks[h].id] > 0
    BY <1>1 DEF AnswersEffect
  <2>3. /\ effects[tasks[h].id] \in Nat /\ effects'[tasks[h].id] \in Nat
        /\ effects'[tasks[h].id] >= effects[tasks[h].id]
    BY <2>1 DEF TypeOK
  <2> QED BY <1>1, <2>2, <2>3 DEF AnswersEffect
<1> QED BY <1>1 DEF AnswersEffect

\* A submission: the new record reports an execution only if it was one
\* without vendor parameters.
LEMMA SubmitReports ==
    ASSUME TypeOK, TypeOK', OneRunInv, EffectInv, Submit
    PROVE  EffectInv'
<1> PICK i \in Ids, t \in Types, cred \in BOOLEAN :
        \/ SubmitGated(i, t, cred)
        \/ SubmitUnsupported(i, t, cred)
        \/ SubmitSimulated(i, t, cred)
        \/ \E h \in Handlers : SubmitLive(h, i, t, cred)
  BY DEF Submit
<1>0. /\ \A k \in Ids : ReportsEffect(k)
      /\ \A h \in Handlers : AnswersEffect(h)
  BY EffectParts
<1>1. Register(i, t, cred) /\ effects' = effects
  BY DEF SubmitGated, SubmitUnsupported, SubmitSimulated, SubmitLive, world
<1>2. /\ type[i] = "none" /\ type'[i] = t /\ t # "none"
      /\ \A k \in Ids \ {i} : type'[k] = type[k]
  BY <1>1, ActionAssumption DEF Register, Fresh, TypeOK, ActionType
<1>3. /\ i \in credentialed' <=> cred
      /\ \A k \in Ids \ {i} : k \in credentialed' <=> k \in credentialed
  BY <1>0, <1>1, <1>2 DEF Register, ReportsEffect
<1>4. \A k \in Ids \ {i} : actions'[k] = actions[k]
  BY DEF TypeOK, SubmitGated, SubmitUnsupported, SubmitSimulated, SubmitLive
<1>5. \A k \in Ids : effects[k] \in Nat /\ effects'[k] >= effects[k]
  BY <1>1 DEF TypeOK
<1>6. \A k \in Ids \ {i} : ReportsEffect(k)'
  BY <1>0, <1>2, <1>3, <1>4, <1>5, EffectKept
<1>7. ReportsEffect(i)'
  <2>1. /\ actions'[i].status = "awaiting_approval" => Gated(t)
        /\ actions'[i].status = "completed" => ~GoesLive(t, cred)
    BY DEF TypeOK, SubmitGated, SubmitUnsupported, SubmitSimulated,
           SubmitLive, NewRecord, SimulatedStatus, Gated
  <2>2. GoesLive(t, i \in credentialed') => GoesLive(t, cred)
    BY <1>3 DEF GoesLive
  <2> QED BY <1>2, <2>1, <2>2 DEF ReportsEffect
<1>8. \A h \in Handlers :
         tasks'[h] = tasks[h] \/ tasks'[h].pc \in {"idle", "executing"}
  BY DEF TypeOK, SubmitGated, SubmitUnsupported, SubmitSimulated, SubmitLive
<1>9. \A h \in Handlers : AnswersEffect(h)'
  BY <1>0, <1>5, <1>8, AnswerKept
<1> QED BY <1>6, <1>7, <1>9, EffectParts

\* A waiting handler records the answer it waited for: a success only after
\* the vendor acted or for a type whose client may return without acting, a
\* reply only to a prompt that was delivered.
LEMMA AnswerReports ==
    ASSUME TypeOK, TypeOK', EffectInv, NEW h \in Handlers, HandlerStep(h)
    PROVE  EffectInv'
<1>0. /\ \A k \in Ids : ReportsEffect(k)
      /\ \A k \in Handlers : AnswersEffect(k)
  BY EffectParts
<1>1. /\ tasks[h].pc # "idle"
      /\ tasks' = [tasks EXCEPT ![h] = Idle]
      /\ UNCHANGED <<history, effects>>
  BY DEF HandlerStep, ExecutorCompletes, ExecutorFails,
     ExecutorRaises, ClickRecorded, ClickErrors, Waiting, Finish, world
<1>2. PICK i \in Ids : i = tasks[h].id
  BY <1>1, TaskTypes DEF TypeOK
<1> DEFINE
       others  == \A k \in Ids \ {i} : actions'[k] = actions[k]
       settled == \/ actions'[i] = actions[i]
                  \/ actions'[i].status \in {"failed", "running"}
                  \/ /\ tasks[h].pc \in {"acted", "posting"}
                     /\ actions'[i].status = "completed"
                  \/ type[i] \in Unconfirmed /\ actions'[i].status = "completed"
<1>3. others /\ settled
  <2>1. CASE ExecutorCompletes(h)
    BY <1>2, <2>1 DEF ExecutorCompletes, Waiting, TypeOK
  <2>2. CASE ExecutorFails(h)
    BY <1>2, <2>2 DEF ExecutorFails, NewRecord, TypeOK
  <2>3. CASE ExecutorRaises(h)
    BY <1>2, <2>3 DEF ExecutorRaises, Record, TypeOK
  <2>4. ASSUME NEW b \in BOOLEAN, ClickRecorded(h, b) PROVE others /\ settled
    BY <1>2, <2>4 DEF ClickRecorded, Waiting, TypeOK
  <2>5. ASSUME NEW b \in BOOLEAN, ClickErrors(h, b) PROVE others /\ settled
    BY <2>5 DEF ClickErrors
  <2> QED BY <2>1, <2>2, <2>3, <2>4, <2>5 DEF HandlerStep
<1>4. /\ \A k \in Ids : effects[k] \in Nat /\ effects'[k] >= effects[k]
      /\ effects' = effects /\ type' = type /\ credentialed' = credentialed
  BY <1>1 DEF TypeOK, history
<1>5. \A k \in Ids \ {i} : ReportsEffect(k)'
  BY <1>0, <1>3, <1>4, EffectKept
<1>6. ReportsEffect(i)'
  <2>1. CASE actions'[i] = actions[i]
    BY <1>0, <1>2, <1>4, <2>1, EffectKept
  <2>2. CASE actions'[i].status \in {"failed", "running"}
    BY <1>0, <1>2, <1>4, <2>2 DEF ReportsEffect
  <2>3. CASE /\ tasks[h].pc \in {"acted", "posting"}
             /\ actions'[i].status = "completed"
    <3>1. effects[i] > 0
      BY <1>0, <1>2, <2>3 DEF AnswersEffect
    <3> QED BY <1>0, <1>2, <1>4, <2>3, <3>1 DEF ReportsEffect
  <2>4. CASE type[i] \in Unconfirmed /\ actions'[i].status = "completed"
    BY <1>0, <1>2, <1>4, <2>4 DEF ReportsEffect
  <2> QED BY <1>3, <2>1, <2>2, <2>3, <2>4
<1>7. \A k \in Handlers : tasks'[k] = tasks[k] \/ tasks'[k].pc = "idle"
  BY <1>1 DEF TypeOK, Idle
<1>8. \A k \in Handlers : AnswersEffect(k)'
  BY <1>0, <1>4, <1>7, AnswerKept
<1> QED BY <1>5, <1>6, <1>8, EffectParts

LEMMA EffectInductive ==
    ASSUME TypeOK, TypeOK', OneRunInv, EffectInv, [Next]_vars
    PROVE  EffectInv'
<1>0. /\ \A i \in Ids : ReportsEffect(i)
      /\ \A h \in Handlers : AnswersEffect(h)
      /\ \A i \in Ids : effects[i] \in Nat
  BY EffectParts DEF TypeOK
<1>1. ASSUME NEW i \in Ids, Approve(i) PROVE EffectInv'
  <2>1. /\ UNCHANGED <<tasks, type, credentialed, effects>>
        /\ \A k \in Ids \ {i} : actions'[k] = actions[k]
        /\ actions'[i].status # "awaiting_approval"
    BY <1>1 DEF Approve, world, TypeOK, NewRecord, SimulatedStatus
  <2>2. Gated(type[i])
    BY <1>0, <1>1 DEF Approve, ReportsEffect
  <2>3. \A k \in Ids \ {i} : ReportsEffect(k)'
    BY <1>0, <2>1, EffectKept
  <2>4. ReportsEffect(i)'
    BY <1>0, <2>1, <2>2 DEF ReportsEffect
  <2>5. \A h \in Handlers : AnswersEffect(h)'
    BY <1>0, <2>1 DEF AnswersEffect
  <2> QED BY <2>3, <2>4, <2>5, EffectParts
<1>2. ASSUME NEW i \in Ids, Reject(i) PROVE EffectInv'
  <2>1. /\ UNCHANGED <<tasks, type, credentialed, effects>>
        /\ \A k \in Ids \ {i} : actions'[k] = actions[k]
        /\ actions'[i].status = "rejected"
    BY <1>2 DEF Reject, history, world, TypeOK, Record
  <2>2. \A k \in Ids : ReportsEffect(k)'
    BY <1>0, <2>1 DEF ReportsEffect
  <2>3. \A h \in Handlers : AnswersEffect(h)'
    BY <1>0, <2>1 DEF AnswersEffect
  <2> QED BY <2>2, <2>3, EffectParts
<1>3. ASSUME UNCHANGED <<actions, tasks, type, credentialed, effects>>
      PROVE  EffectInv'
  BY <1>3 DEF EffectInv, CompletedTookEffect
<1>4. ASSUME NEW h \in Handlers, VendorActs(h) PROVE EffectInv'
  <2>1. tasks[h].id \in Ids
    BY <1>4, TaskTypes DEF VendorActs, Waiting, TypeOK
  <2>2. /\ effects' = [effects EXCEPT ![tasks[h].id] = @ + 1]
        /\ tasks' = [tasks EXCEPT ![h].pc = "acted"]
        /\ UNCHANGED <<actions, type, credentialed>>
    BY <1>4 DEF VendorActs, history
  <2>3. \A k \in Ids : effects'[k] >= effects[k]
    BY <1>0, <2>1, <2>2 DEF TypeOK
  <2>4. \A k \in Ids : ReportsEffect(k)'
    BY <1>0, <2>2, <2>3, EffectKept
  <2>5. \A k \in Handlers \ {h} : AnswersEffect(k)'
    <3>1. \A k \in Handlers \ {h} : tasks'[k] = tasks[k]
      BY <2>2 DEF TypeOK
    <3> QED BY <1>0, <2>3, <3>1, AnswerKept
  <2>6. AnswersEffect(h)'
    <3>1. tasks[h] \in [pc : {"executing"}, id : Ids, choice : {NoChoice}]
      BY <1>4 DEF VendorActs, Waiting, TypeOK, Task, Idle
    <3>2. tasks'[h].id = tasks[h].id
      BY <2>2, <3>1 DEF TypeOK
    <3>3. effects'[tasks[h].id] > 0
      BY <1>0, <2>1, <2>2 DEF TypeOK
    <3> QED BY <3>2, <3>3 DEF AnswersEffect
  <2> QED BY <2>4, <2>5, <2>6, EffectParts
<1>5. ASSUME NEW h \in Handlers, NEW i \in Ids, NEW c \in Choices,
             Click(h, i, c)
      PROVE  EffectInv'
  <2>1. /\ UNCHANGED <<actions, type, credentialed, effects>>
        /\ tasks' = [tasks EXCEPT ![h] =
                        [pc |-> "posting", id |-> i, choice |-> c]]
        /\ effects[i] > 0
    BY <1>5 DEF Click, history, world
  <2>2. \A k \in Ids : ReportsEffect(k)'
    BY <1>0, <2>1 DEF ReportsEffect
  <2>3. \A k \in Handlers : AnswersEffect(k)'
    BY <1>0, <2>1 DEF AnswersEffect, TypeOK
  <2> QED BY <2>2, <2>3, EffectParts
<1>6. CASE Restart
  <2>1. /\ UNCHANGED <<type, credentialed, effects>>
        /\ \A i \in Ids : actions'[i].status = "absent"
        /\ \A h \in Handlers : tasks'[h].pc = "idle"
    BY <1>6 DEF Restart, history, world, Absent, Idle
  <2>2. \A k \in Ids : ReportsEffect(k)'
    BY <1>0, <2>1 DEF ReportsEffect
  <2>3. \A k \in Handlers : AnswersEffect(k)'
    BY <2>1 DEF AnswersEffect
  <2> QED BY <2>2, <2>3, EffectParts
<1> QED
  BY <1>1, <1>2, <1>3, <1>4, <1>5, <1>6, SubmitReports, AnswerReports
     DEF Next, Expire, vars, memory, history, world

\* For every instance: an ungated action with vendor parameters, of a type
\* whose client raises when it did not act, did take effect at the vendor when
\* it is reported completed (submit_action and the chat callback write a
\* success only on behalf of an effect).
THEOREM CompletedIsReal == Spec => []CompletedTookEffect
<1>1. Init => EffectInv
  BY DEF Init, EffectInv, CompletedTookEffect, Absent, Idle
<1>2. TypeOK /\ TypeOK' /\ OneRunInv /\ EffectInv /\ [Next]_vars
         => EffectInv'
  BY EffectInductive
<1>3. EffectInv => CompletedTookEffect
  BY DEF EffectInv
<1> QED BY <1>1, <1>2, <1>3, TypeCorrect, OneRun, PTL DEF Spec

-----------------------------------------------------------------------------
\* The timeline only grows: a response it holds stays on it.
OnTimeline(i, c) == \E k \in DOMAIN timeline[i] : timeline[i][k] = c

LEMMA AppendHolds ==
    ASSUME NEW s \in Seq(Choices), NEW c \in Choices
    PROVE  /\ \E k \in DOMAIN Append(s, c) : Append(s, c)[k] = c
           /\ \A d : (\E k \in DOMAIN s : s[k] = d)
                     => \E k \in DOMAIN Append(s, c) : Append(s, c)[k] = d
<1>1. Len(s) \in Nat /\ DOMAIN s = 1..Len(s)
  OBVIOUS
<1>2. /\ DOMAIN Append(s, c) = 1..(Len(s) + 1)
      /\ \A k \in 1..Len(s) : Append(s, c)[k] = s[k]
      /\ Append(s, c)[Len(s) + 1] = c
  BY <1>1
<1>3. Len(s) + 1 \in DOMAIN Append(s, c)
  BY <1>1, <1>2
<1>4. DOMAIN s \subseteq DOMAIN Append(s, c)
  BY <1>1, <1>2
<1>5. \A k \in DOMAIN s : Append(s, c)[k] = s[k]
  BY <1>1, <1>2
<1> QED BY <1>2, <1>3, <1>4, <1>5

LEMMA WriteHolds ==
    ASSUME TypeOK, NEW i \in Ids, NEW c \in Choices, Write(i, c)
    PROVE  /\ OnTimeline(i, c)'
           /\ \A k \in Ids, d \in Choices : OnTimeline(k, d) => OnTimeline(k, d)'
<1>1. /\ timeline[i] \in Seq(Choices)
      /\ timeline'[i] = Append(timeline[i], c)
      /\ \A k \in Ids \ {i} : timeline'[k] = timeline[k]
  BY DEF TypeOK, Write
<1>2. OnTimeline(i, c)'
  BY <1>1, AppendHolds DEF OnTimeline
<1>3. \A d \in Choices : OnTimeline(i, d) => OnTimeline(i, d)'
  BY <1>1, AppendHolds DEF OnTimeline
<1>4. \A k \in Ids \ {i}, d \in Choices : OnTimeline(k, d) => OnTimeline(k, d)'
  BY <1>1 DEF OnTimeline
<1> QED BY <1>2, <1>3, <1>4

\* What one record shows of the reply is on the timeline.
ReplyShown(i) ==
    actions[i].choice # NoChoice /\ ~actions[i].warn
        => OnTimeline(i, actions[i].choice)

\* A step that leaves the choice and the warning of a record alone, or shows
\* no choice, keeps it in agreement with a timeline that only grew.
LEMMA ShownKept ==
    ASSUME TypeOK, NEW i \in Ids, ReplyShown(i),
           \/ actions'[i].choice = NoChoice
           \/ /\ actions'[i].choice = actions[i].choice
              /\ actions'[i].warn = actions[i].warn,
           \A d \in Choices : OnTimeline(i, d) => OnTimeline(i, d)'
    PROVE  ReplyShown(i)'
<1>1. actions[i].choice \in Choices \cup {NoChoice}
  BY DEF TypeOK, Record
<1> QED BY <1>1 DEF ReplyShown

\* A reply is recorded together with the write that put it on the timeline,
\* or with the warning that the write failed.
LEMMA RecordedIsShown ==
    ASSUME TypeOK, TypeOK', \A i \in Ids : ReplyShown(i),
           NEW h \in Handlers, NEW b \in BOOLEAN, ClickRecorded(h, b)
    PROVE  \A i \in Ids : ReplyShown(i)'
<1>1. PICK i \in Ids, c \in Choices : i = tasks[h].id /\ c = tasks[h].choice
  BY TaskTypes DEF ClickRecorded, Waiting, TypeOK
<1>2. b => Write(i, c)
  BY <1>1 DEF ClickRecorded
<1>3. ~b => timeline' = timeline
  BY DEF ClickRecorded
<1>4. \A k \in Ids, d \in Choices : OnTimeline(k, d) => OnTimeline(k, d)'
  BY <1>1, <1>2, <1>3, WriteHolds DEF OnTimeline
<1>5. \A k \in Ids \ {i} : actions'[k] = actions[k]
  BY <1>1 DEF ClickRecorded, TypeOK
<1>6. \A k \in Ids \ {i} : ReplyShown(k)'
  BY <1>4, <1>5, ShownKept
<1>7. ReplyShown(i)'
  <2>1. CASE ~Present(i)
    <3>1. actions'[i] = actions[i]
      BY <2>1 DEF ClickRecorded
    <3> QED BY <1>1, <1>4, <3>1, ShownKept
  <2>2. CASE Present(i) /\ b
    <3>1. actions'[i].choice = c
      BY <1>1, <2>2 DEF ClickRecorded, TypeOK
    <3>2. OnTimeline(i, c)'
      BY <1>1, <1>2, <2>2, WriteHolds
    <3> QED BY <3>1, <3>2 DEF ReplyShown, OnTimeline
  <2>3. CASE Present(i) /\ ~b
    <3>1. actions'[i].warn = (actions[i].warn \/ ~b)
      BY <1>1, <2>3 DEF ClickRecorded, TypeOK
    <3>2. actions'[i].warn
      BY <2>3, <3>1
    <3> QED BY <3>2 DEF ReplyShown
  <2> QED BY <2>1, <2>2, <2>3
<1> QED BY <1>6, <1>7

LEMMA ShownInductive ==
    ASSUME TypeOK, TypeOK', \A i \in Ids : ReplyShown(i), [Next]_vars
    PROVE  \A i \in Ids : ReplyShown(i)'
<1>1. ASSUME timeline' = timeline,
             \A i \in Ids :
                \/ actions'[i].choice = NoChoice
                \/ /\ actions'[i].choice = actions[i].choice
                   /\ actions'[i].warn = actions[i].warn
      PROVE  \A i \in Ids : ReplyShown(i)'
  <2>1. \A i \in Ids, d \in Choices : OnTimeline(i, d) => OnTimeline(i, d)'
    BY <1>1 DEF OnTimeline
  <2> QED BY <1>1, <2>1, ShownKept
<1>2. CASE Submit
  <2>1. /\ timeline' = timeline
        /\ \A i \in Ids : \/ actions'[i].choice = NoChoice
                          \/ actions'[i] = actions[i]
    BY <1>2 DEF Submit, SubmitGated, SubmitUnsupported, SubmitSimulated,
       SubmitLive, NewRecord, world, TypeOK
  <2> QED BY <1>1, <2>1
<1>3. ASSUME NEW i \in Ids, Approve(i) PROVE \A k \in Ids : ReplyShown(k)'
  <2>1. /\ timeline' = timeline
        /\ \A k \in Ids : \/ actions'[k].choice = NoChoice
                          \/ actions'[k] = actions[k]
    BY <1>3 DEF Approve, NewRecord, world, TypeOK
  <2> QED BY <1>1, <2>1
<1>4. ASSUME NEW i \in Ids, Reject(i) PROVE \A k \in Ids : ReplyShown(k)'
  <2>1. /\ timeline' = timeline
        /\ \A k \in Ids : /\ actions'[k].choice = actions[k].choice
                          /\ actions'[k].warn = actions[k].warn
    BY <1>4 DEF Reject, world, TypeOK, Record
  <2> QED BY <1>1, <2>1
<1>5. ASSUME UNCHANGED <<actions, timeline>>
      PROVE  \A k \in Ids : ReplyShown(k)'
  BY <1>1, <1>5
<1>6. ASSUME NEW h \in Handlers, HandlerStep(h)
      PROVE  \A k \in Ids : ReplyShown(k)'
  <2>1. tasks[h].id \in Ids
    BY <1>6, TaskTypes DEF HandlerStep, ExecutorCompletes, ExecutorFails,
       ExecutorRaises, ClickRecorded, ClickErrors, Waiting, TypeOK
  <2>2. CASE ExecutorCompletes(h)
    <3>1. /\ timeline' = timeline
          /\ \A k \in Ids : \/ actions'[k].choice = NoChoice
                            \/ actions'[k] = actions[k]
      BY <2>1, <2>2 DEF ExecutorCompletes, world, TypeOK
    <3> QED BY <1>1, <3>1
  <2>3. CASE ExecutorFails(h)
    <3>1. /\ timeline' = timeline
          /\ \A k \in Ids : \/ actions'[k].choice = NoChoice
                            \/ actions'[k] = actions[k]
      BY <2>1, <2>3 DEF ExecutorFails, NewRecord, world, TypeOK
    <3> QED BY <1>1, <3>1
  <2>4. CASE ExecutorRaises(h)
    <3>1. /\ timeline' = timeline
          /\ \A k \in Ids : /\ actions'[k].choice = actions[k].choice
                            /\ actions'[k].warn = actions[k].warn
      BY <2>1, <2>4 DEF ExecutorRaises, world, TypeOK, Record
    <3> QED BY <1>1, <3>1
  <2>5. ASSUME NEW b \in BOOLEAN, ClickRecorded(h, b)
        PROVE  \A k \in Ids : ReplyShown(k)'
    BY <2>5, RecordedIsShown
  <2>6. ASSUME NEW b \in BOOLEAN, ClickErrors(h, b)
        PROVE  \A k \in Ids : ReplyShown(k)'
    <3>1. tasks[h].choice \in Choices
      BY <2>6, TaskTypes DEF ClickErrors, Waiting, TypeOK
    <3>2. b => Write(tasks[h].id, tasks[h].choice)
      BY <2>6 DEF ClickErrors
    <3>3. ~b => timeline' = timeline
      BY <2>6 DEF ClickErrors
    <3>4. \A k \in Ids, d \in Choices : OnTimeline(k, d) => OnTimeline(k, d)'
      BY <2>1, <3>1, <3>2, <3>3, WriteHolds DEF OnTimeline
    <3>5. actions' = actions
      BY <2>6 DEF ClickErrors
    <3> QED BY <3>4, <3>5, ShownKept
  <2> QED BY <1>6, <2>2, <2>3, <2>4, <2>5, <2>6 DEF HandlerStep
<1>7. CASE Restart
  <2>1. timeline' = timeline /\ \A k \in Ids : actions'[k].choice = NoChoice
    BY <1>7 DEF Restart, world, Absent
  <2> QED BY <1>1, <2>1
<1> QED
  BY <1>2, <1>3, <1>4, <1>5, <1>6, <1>7
     DEF Next, VendorActs, Click, Expire, vars, memory, history, world

\* For every instance: the choice a record shows is on the case timeline, or
\* the record carries the warning that the write failed.
THEOREM RepliesAreOnTimeline == Spec => []ChoiceOnTimeline
<1> DEFINE Shown == \A i \in Ids : ReplyShown(i)
<1>1. Init => Shown
  BY DEF Init, Absent, ReplyShown
<1>2. TypeOK /\ TypeOK' /\ Shown /\ [Next]_vars => Shown'
  BY ShownInductive
<1>3. Shown => ChoiceOnTimeline
  BY DEF ReplyShown, OnTimeline, ChoiceOnTimeline
<1> HIDE DEF Shown
<1> QED BY <1>1, <1>2, <1>3, TypeCorrect, PTL DEF Spec

-----------------------------------------------------------------------------
(***************************************************************************)
(* A settled reply stays                                                   *)
(***************************************************************************)
\* A record that shows a reply is of an action whose tokens are used up, and
\* is none that waits for an approval.
RepliedOnce ==
    \A i \in Ids :
        actions[i].choice # NoChoice =>
            i \in replied /\ actions[i].status \notin {"absent", "awaiting_approval"}

\* What a record that shows a reply becomes in one step.
StaysReplied(i) ==
    \/ actions'[i].choice = NoChoice
    \/ /\ i \in replied'
       /\ actions'[i].status \notin {"absent", "awaiting_approval"}

LEMMA HandlerReplies ==
    ASSUME TypeOK, RepliedOnce, NEW h \in Handlers, HandlerStep(h)
    PROVE  /\ \A i \in Ids : StaysReplied(i)
           /\ \A i \in Ids : i # tasks[h].id => actions'[i] = actions[i]
           /\ tasks[h].id \in Ids /\ tasks' = [tasks EXCEPT ![h] = Idle]
<1>1. /\ tasks[h].pc # "idle" /\ tasks' = [tasks EXCEPT ![h] = Idle]
      /\ tasks[h].pc = "posting" => tasks[h].choice \in Choices
  BY TaskTypes DEF HandlerStep, ExecutorCompletes, ExecutorFails,
     ExecutorRaises, ClickRecorded, ClickErrors, Waiting, Finish, TypeOK
<1>2. PICK j \in Ids : j = tasks[h].id
  BY <1>1, TaskTypes DEF TypeOK
<1>3. ASSUME NEW i \in Ids \ {j}, actions'[i] = actions[i], replied \subseteq replied'
      PROVE  StaysReplied(i)
  BY <1>3 DEF RepliedOnce, StaysReplied
<1>4. /\ replied \subseteq replied'
      /\ \A i \in Ids \ {j} : actions'[i] = actions[i]
      /\ StaysReplied(j)
  <2>1. CASE ExecutorCompletes(h)
    BY <1>2, <2>1 DEF ExecutorCompletes, TypeOK, StaysReplied
  <2>2. CASE ExecutorFails(h)
    BY <1>2, <2>2 DEF ExecutorFails, NewRecord, TypeOK, StaysReplied
  <2>3. CASE ExecutorRaises(h)
    BY <1>2, <2>3 DEF ExecutorRaises, Record, TypeOK, RepliedOnce, StaysReplied
  <2>4. ASSUME NEW b \in BOOLEAN, ClickRecorded(h, b)
        PROVE  /\ replied \subseteq replied'
               /\ \A i \in Ids \ {j} : actions'[i] = actions[i]
               /\ StaysReplied(j)
    BY <1>2, <2>4 DEF ClickRecorded, Present, TypeOK, RepliedOnce, StaysReplied
  <2>5. ASSUME NEW b \in BOOLEAN, ClickErrors(h, b)
        PROVE  /\ replied \subseteq replied'
               /\ \A i \in Ids \ {j} : actions'[i] = actions[i]
               /\ StaysReplied(j)
    BY <2>5 DEF ClickErrors, RepliedOnce, StaysReplied
  <2> QED BY <2>1, <2>2, <2>3, <2>4, <2>5 DEF HandlerStep
<1> QED BY <1>1, <1>2, <1>3, <1>4

\* A submission takes an unused id and gives it a record without a reply.
LEMMA SubmitReplies ==
    ASSUME TypeOK, OneRunInv, RepliedOnce, Submit
    PROVE  /\ \A i \in Ids : StaysReplied(i)
           /\ \A i \in Ids : actions[i].choice # NoChoice => actions'[i] = actions[i]
           /\ \A h \in Handlers : tasks'[h] = tasks[h]
                 \/ (tasks'[h].pc = "executing" /\ actions[tasks'[h].id].choice = NoChoice)
<1> PICK i \in Ids, t \in Types, cred \in BOOLEAN :
        \/ SubmitGated(i, t, cred)
        \/ SubmitUnsupported(i, t, cred)
        \/ SubmitSimulated(i, t, cred)
        \/ \E h \in Handlers : SubmitLive(h, i, t, cred)
  BY DEF Submit
<1>1. type[i] = "none" /\ actions'[i].choice = NoChoice /\ replied' = replied
      /\ \A k \in Ids \ {i} : actions'[k] = actions[k]
  BY DEF SubmitGated, SubmitUnsupported, SubmitSimulated, SubmitLive, Register, Fresh,
     NewRecord, TypeOK
<1>2. actions[i].choice = NoChoice
  BY <1>1 DEF OneRunInv, RepliedOnce
<1>3. \A h \in Handlers : tasks'[h] = tasks[h]
         \/ (tasks'[h].pc = "executing" /\ tasks'[h].id = i)
  <2>1. \/ tasks' = tasks
        \/ \E h \in Handlers :
              tasks' = [tasks EXCEPT ![h] =
                           [pc |-> "executing", id |-> i, choice |-> NoChoice]]
    BY DEF SubmitGated, SubmitUnsupported, SubmitSimulated, SubmitLive
  <2> QED BY <2>1 DEF TypeOK
<1> QED BY <1>1, <1>2, <1>3 DEF RepliedOnce, StaysReplied

LEMMA RepliedInductive ==
    ASSUME TypeOK, OneRunInv, RepliedOnce, [Next]_vars PROVE RepliedOnce'
<1> SUFFICES \A i \in Ids : StaysReplied(i)
  BY DEF RepliedOnce, StaysReplied
<1>1. CASE Submit
  BY <1>1, SubmitReplies
<1>2. ASSUME NEW i \in Ids, Approve(i) PROVE \A k \in Ids : StaysReplied(k)
  BY <1>2 DEF Approve, NewRecord, TypeOK, RepliedOnce, StaysReplied
<1>3. ASSUME NEW i \in Ids, Reject(i) PROVE \A k \in Ids : StaysReplied(k)
  BY <1>3 DEF Reject, TypeOK, Record, RepliedOnce, StaysReplied
<1>4. ASSUME NEW h \in Handlers, HandlerStep(h) PROVE \A k \in Ids : StaysReplied(k)
  BY <1>4, HandlerReplies
<1>5. ASSUME UNCHANGED <<actions, replied>> PROVE \A k \in Ids : StaysReplied(k)
  BY <1>5 DEF RepliedOnce, StaysReplied
<1>6. CASE Restart
  BY <1>6 DEF Restart, Absent, StaysReplied
<1> QED
  BY <1>1, <1>2, <1>3, <1>4, <1>5, <1>6
     DEF Next, VendorActs, Click, Expire, vars, memory, history, world

LEMMA SettledStep ==
    ASSUME TypeOK, OneRunInv, RepliedOnce, [Next]_vars,
           NEW i \in Ids, Settled(i), Present(i)'
    PROVE  Settled(i)' /\ actions'[i].choice = actions[i].choice
<1>0. /\ actions[i].choice # NoChoice /\ i \in replied
      /\ actions[i].status # "awaiting_approval"
      /\ \A h \in Handlers : tasks[h].id # i
  BY DEF Settled, RepliedOnce
<1>1. NoId # i
  BY ActionAssumption
<1>2. CASE Submit
  BY <1>0, <1>2, SubmitReplies DEF Settled
<1>3. ASSUME NEW k \in Ids, Approve(k) PROVE Settled(i)' /\ actions'[i].choice = actions[i].choice
  BY <1>0, <1>3 DEF Approve, TypeOK, Settled
<1>4. ASSUME NEW k \in Ids, Reject(k) PROVE Settled(i)' /\ actions'[i].choice = actions[i].choice
  BY <1>0, <1>4 DEF Reject, TypeOK, Record, Settled
<1>5. ASSUME NEW h \in Handlers, HandlerStep(h)
      PROVE  Settled(i)' /\ actions'[i].choice = actions[i].choice
  <2>1. /\ actions'[i] = actions[i] /\ tasks' = [tasks EXCEPT ![h] = Idle]
    BY <1>0, <1>5, HandlerReplies
  <2>2. \A k \in Handlers : tasks'[k] = tasks[k] \/ tasks'[k].id = NoId
    BY <2>1 DEF TypeOK, Idle
  <2> QED BY <1>0, <1>1, <2>1, <2>2 DEF Settled
<1>6. ASSUME NEW h \in Handlers, VendorActs(h)
      PROVE  Settled(i)' /\ actions'[i].choice = actions[i].choice
  <2>1. tasks[h] \in [pc : {"executing"}, id : Ids, choice : {NoChoice}]
    BY <1>6 DEF VendorActs, Waiting, TypeOK, Task, Idle
  <2>2. \A k \in Handlers : tasks'[k].id = tasks[k].id
    BY <1>6, <2>1 DEF VendorActs, TypeOK
  <2> QED BY <1>0, <1>6, <2>2 DEF VendorActs, Settled
<1>7. ASSUME NEW h \in Handlers, NEW k \in Ids, NEW c \in Choices, Click(h, k, c)
      PROVE  Settled(i)' /\ actions'[i].choice = actions[i].choice
  <2>1. k # i
    BY <1>0, <1>7 DEF Click
  <2> QED BY <1>0, <1>7, <2>1 DEF Click, TypeOK, Settled
<1>8. ASSUME UNCHANGED <<actions, tasks>>
      PROVE  Settled(i)' /\ actions'[i].choice = actions[i].choice
  BY <1>0, <1>8 DEF Settled
<1>9. CASE Restart
  BY <1>9 DEF Restart, Absent, Present
<1> QED
  BY <1>2, <1>3, <1>4, <1>5, <1>6, <1>7, <1>8, <1>9
     DEF Next, Expire, vars, memory, history, world

\* For every instance: once the prompting request and the clicks under way
\* have ended, the reply a record shows is final until the process restarts.
THEOREM SettledReplyIsFinal == Spec => SettledReplyStays
<1>1. Init => RepliedOnce
  BY DEF Init, Absent, RepliedOnce
<1>2. TypeOK /\ OneRunInv /\ RepliedOnce /\ [Next]_vars => RepliedOnce'
  BY RepliedInductive
<1>3. TypeOK /\ OneRunInv /\ RepliedOnce /\ [Next]_vars
        => [\A i \in Ids : Settled(i) /\ Present(i)' =>
               Settled(i)' /\ actions'[i].choice = actions[i].choice]_vars
  BY SettledStep
<1> QED BY <1>1, <1>2, <1>3, TypeCorrect, OneRun, PTL DEF Spec, SettledReplyStays

=============================================================================
