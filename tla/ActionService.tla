--------------------------- MODULE ActionService ---------------------------
(***************************************************************************)
(* The action-execution service (services/actions, app/api/router.py): an  *)
(* in-memory table of actions, a blast-radius gate that lets an action run *)
(* or parks it for a human, and the ChatOps callback a prompted user       *)
(* answers.                                                                *)
(*                                                                         *)
(* The service is one asyncio process, so a request handler is atomic up   *)
(* to its next await.  A handler that is waiting (for the vendor, for the  *)
(* chat transport, for the case timeline) occupies a member of Handlers;   *)
(* everything else happens in one step.  A restart loses every in-memory   *)
(* structure and every waiting handler, and nothing of the outside world.  *)
(***************************************************************************)
EXTENDS ActionCatalog, Sequences

CONSTANTS
    Ids,            \* action ids; each is used by one request (uuid4 default)
    Handlers,       \* concurrently waiting request handlers
    Types,          \* the action types submitted
    Choices,        \* acknowledge / deny / escalate
    NoId, NoChoice, \* null values
    MaxResponses,   \* bound: timeline responses per action
    MaxRestarts     \* bound: restarts of the process

ASSUME ActionAssumption ==
    /\ Types \subseteq ActionType
    /\ NoId \notin Ids
    /\ NoChoice \notin Choices
    /\ MaxResponses \in Nat
    /\ MaxRestarts \in Nat

VARIABLES
    actions,    \* _actions: the record of each action
    replied,    \* _chatops_replied
    tasks,      \* handlers waiting at an await
    type,       \* history: the type each id was submitted with
    credentialed, \* history: ids whose request carried vendor parameters
    runs,       \* history: calls of executor.execute per action
    approvals,  \* history: approve calls that passed the status check
    effects,    \* outside world: live vendor effects (prompts, for ChatOps)
    expired,    \* ids whose callback tokens are past their expiry
    timeline,   \* outside world: chatops.verify.responded events per action
    restarts

memory  == <<actions, replied, tasks>>
history == <<type, credentialed, runs, approvals>>
world   == <<effects, expired, timeline>>
vars    == <<memory, history, world, restarts>>

-----------------------------------------------------------------------------
Record ==
    [ status : ActionStatus \cup {"absent"},
      choice : Choices \cup {NoChoice},   \* output.user_choice
      warn   : BOOLEAN ]                  \* output.timeline_warning present

Absent == [status |-> "absent", choice |-> NoChoice, warn |-> FALSE]

NewRecord(s) == [status |-> s, choice |-> NoChoice, warn |-> FALSE]

\* A handler waiting for an executor, or for the timeline to take a reply.
Idle == [pc |-> "idle", id |-> NoId, choice |-> NoChoice]

Task ==
    {Idle} \cup
    [pc : {"executing", "acted"}, id : Ids, choice : {NoChoice}] \cup
    [pc : {"posting"}, id : Ids, choice : Choices]

Fresh(i)   == type[i] = "none"
Present(i) == actions[i].status # "absent"

\* An executor leaves the process only when the request carries vendor
\* parameters; without them it returns without awaiting anything.
GoesLive(t, cred) == cred /\ t \notin SimulationOnly

\* What an executor answers synchronously: a ChatOps action without a
\* webhook fails, every other executor reports a simulated success.
SimulatedStatus(t) == IF t = "chatops_verify" THEN "failed" ELSE "completed"

TypeOK ==
    /\ actions \in [Ids -> Record]
    /\ replied \subseteq Ids
    /\ tasks \in [Handlers -> Task]
    /\ type \in [Ids -> Types \cup {"none"}]
    /\ credentialed \subseteq Ids
    /\ runs \in [Ids -> Nat]
    /\ approvals \in [Ids -> Nat]
    /\ effects \in [Ids -> Nat]
    /\ expired \subseteq Ids
    /\ timeline \in [Ids -> Seq(Choices)]
    /\ restarts \in Nat

Init ==
    /\ actions = [i \in Ids |-> Absent]
    /\ replied = {}
    /\ tasks = [h \in Handlers |-> Idle]
    /\ type = [i \in Ids |-> "none"]
    /\ credentialed = {}
    /\ runs = [i \in Ids |-> 0]
    /\ approvals = [i \in Ids |-> 0]
    /\ effects = [i \in Ids |-> 0]
    /\ expired = {}
    /\ timeline = [i \in Ids |-> << >>]
    /\ restarts = 0

-----------------------------------------------------------------------------
(***************************************************************************)
(* POST /actions                                                           *)
(***************************************************************************)
Register(i, t, cred) ==
    /\ Fresh(i)
    /\ type' = [type EXCEPT ![i] = t]
    /\ credentialed' = IF cred THEN credentialed \cup {i} ELSE credentialed

\* The gate parks the action; the parameters are not kept in the record.
SubmitGated(i, t, cred) ==
    /\ Evaluate(t) = "awaiting_approval"
    /\ Register(i, t, cred)
    /\ actions' = [actions EXCEPT ![i] = NewRecord("awaiting_approval")]
    /\ UNCHANGED <<replied, tasks, runs, approvals, world, restarts>>

\* Approved by the gate but no executor is registered for the type.
SubmitUnsupported(i, t, cred) ==
    /\ Evaluate(t) = "approved"
    /\ t \notin ExecutorRegistry
    /\ Register(i, t, cred)
    /\ actions' = [actions EXCEPT ![i] = NewRecord("failed")]
    /\ UNCHANGED <<replied, tasks, runs, approvals, world, restarts>>

SubmitSimulated(i, t, cred) ==
    /\ Evaluate(t) = "approved"
    /\ t \in ExecutorRegistry
    /\ ~GoesLive(t, cred)
    /\ Register(i, t, cred)
    /\ actions' = [actions EXCEPT ![i] = NewRecord(SimulatedStatus(t))]
    /\ runs' = [runs EXCEPT ![i] = @ + 1]
    /\ UNCHANGED <<replied, tasks, approvals, world, restarts>>

SubmitLive(h, i, t, cred) ==
    /\ tasks[h] = Idle
    /\ Evaluate(t) = "approved"
    /\ t \in ExecutorRegistry
    /\ GoesLive(t, cred)
    /\ Register(i, t, cred)
    /\ actions' = [actions EXCEPT ![i] = NewRecord("approved")]
    /\ runs' = [runs EXCEPT ![i] = @ + 1]
    /\ tasks' = [tasks EXCEPT ![h] =
                    [pc |-> "executing", id |-> i, choice |-> NoChoice]]
    /\ UNCHANGED <<replied, approvals, world, restarts>>

Submit ==
    \E i \in Ids, t \in Types, cred \in BOOLEAN :
        \/ SubmitGated(i, t, cred)
        \/ SubmitUnsupported(i, t, cred)
        \/ SubmitSimulated(i, t, cred)
        \/ \E h \in Handlers : SubmitLive(h, i, t, cred)

-----------------------------------------------------------------------------
(***************************************************************************)
(* A live executor: the vendor acts (or the chat prompt is delivered), and *)
(* only later does the answer reach the waiting handler.                   *)
(***************************************************************************)
Waiting(h, pcs) == tasks[h].pc \in pcs

VendorActs(h) ==
    /\ Waiting(h, {"executing"})
    /\ tasks' = [tasks EXCEPT ![h].pc = "acted"]
    /\ effects' = [effects EXCEPT ![tasks[h].id] = @ + 1]
    /\ UNCHANGED <<actions, replied, history, expired, timeline, restarts>>

Finish(h) == tasks' = [tasks EXCEPT ![h] = Idle]

\* Mutant: success is reported as soon as the call is queued.
ExecutorCompletes_Early(h) ==
    /\ Waiting(h, {"executing", "acted"})
    /\ actions' = [actions EXCEPT ![tasks[h].id] = NewRecord("completed")]
    /\ Finish(h)
    /\ UNCHANGED <<replied, history, world, restarts>>

\* The client returned: it acted, or it is one that may return without having
\* acted and whose executor does not look at what it says.  status and output
\* of the result replace those of the record.  A ChatOps prompt is RUNNING
\* until the user answers, with a warning when the timeline refused the
\* prompt event.
ExecutorCompletes(h) ==
    /\ \/ Waiting(h, {"acted"})
       \/ Waiting(h, {"executing"}) /\ type[tasks[h].id] \in Unconfirmed
    /\ LET i == tasks[h].id
           chat == type[i] = "chatops_verify"
       IN \E w \in IF chat THEN BOOLEAN ELSE {FALSE} :
             actions' = [actions EXCEPT ![i] =
                 [ status |-> IF chat THEN "running" ELSE "completed",
                   choice |-> NoChoice,
                   warn   |-> w ]]
    /\ Finish(h)
    /\ UNCHANGED <<replied, history, world, restarts>>

\* The executor reports a failure: refused before acting, or (a vendor call
\* whose answer was lost) after it.  A failed result has an empty output.
ExecutorFails(h) ==
    /\ \/ Waiting(h, {"executing"})
       \/ Waiting(h, {"acted"}) /\ type[tasks[h].id] # "chatops_verify"
    /\ actions' = [actions EXCEPT ![tasks[h].id] = NewRecord("failed")]
    /\ Finish(h)
    /\ UNCHANGED <<replied, history, world, restarts>>

\* A transport error other than the two the ChatOps executor catches
\* escapes it; submit_action then marks the record failed and leaves its
\* output alone.
ExecutorRaises(h) ==
    /\ Waiting(h, {"executing", "acted"})
    /\ type[tasks[h].id] = "chatops_verify"
    /\ actions' = [actions EXCEPT ![tasks[h].id].status = "failed"]
    /\ Finish(h)
    /\ UNCHANGED <<replied, history, world, restarts>>

-----------------------------------------------------------------------------
(***************************************************************************)
(* POST /actions/{id}/approve and /reject.  approve_action rebuilds the    *)
(* request without its parameters, so the executor simulates, never waits, *)
(* and the whole handler is one step.                                      *)
(***************************************************************************)
\* Mutants: no status check; a check that only refuses executed actions.
Approve_Unchecked(i) ==
    /\ Present(i)
    /\ runs[i] < 2
    /\ actions' = [actions EXCEPT ![i] = NewRecord(SimulatedStatus(type[i]))]
    /\ runs' = [runs EXCEPT ![i] = @ + 1]
    /\ approvals' = [approvals EXCEPT ![i] = @ + 1]
    /\ UNCHANGED <<replied, tasks, type, credentialed, world, restarts>>

Approve_NotYetRun(i) ==
    /\ actions[i].status \in {"awaiting_approval", "rejected"}
    /\ runs[i] = 0
    /\ actions' = [actions EXCEPT ![i] = NewRecord(SimulatedStatus(type[i]))]
    /\ runs' = [runs EXCEPT ![i] = @ + 1]
    /\ approvals' = [approvals EXCEPT ![i] = @ + 1]
    /\ UNCHANGED <<replied, tasks, type, credentialed, world, restarts>>

Approve(i) ==
    /\ actions[i].status = "awaiting_approval"
    /\ actions' = [actions EXCEPT ![i] = NewRecord(SimulatedStatus(type[i]))]
    /\ runs' = [runs EXCEPT ![i] = @ + 1]
    /\ approvals' = [approvals EXCEPT ![i] = @ + 1]
    /\ UNCHANGED <<replied, tasks, type, credentialed, world, restarts>>

\* No condition on the status: whatever it was, it becomes REJECTED.
Reject(i) ==
    /\ Present(i)
    /\ actions' = [actions EXCEPT ![i].status = "rejected"]
    /\ UNCHANGED <<replied, tasks, history, world, restarts>>

-----------------------------------------------------------------------------
(***************************************************************************)
(* GET /chatops/callback: check, await the timeline write, then record.    *)
(***************************************************************************)
\* Mutant: the replay set is not consulted.
Click_Replayed(h, i, c) ==
    /\ tasks[h] = Idle
    /\ type[i] = "chatops_verify"
    /\ effects[i] > 0
    /\ i \notin expired
    /\ tasks' = [tasks EXCEPT ![h] =
                    [pc |-> "posting", id |-> i, choice |-> c]]
    /\ UNCHANGED <<actions, replied, history, world, restarts>>

Click(h, i, c) ==
    /\ tasks[h] = Idle
    /\ type[i] = "chatops_verify"
    /\ effects[i] > 0              \* the prompt carries the signed tokens
    /\ i \notin expired
    /\ i \notin replied
    /\ tasks' = [tasks EXCEPT ![h] =
                    [pc |-> "posting", id |-> i, choice |-> c]]
    /\ UNCHANGED <<actions, replied, history, world, restarts>>

Write(i, c) ==
    /\ Len(timeline[i]) < MaxResponses
    /\ timeline' = [timeline EXCEPT ![i] = Append(@, c)]

\* Mutant: the failed write leaves no warning on the record.
ClickRecorded_NoWarning(h, ok) ==
    LET i == tasks[h].id
        c == tasks[h].choice
    IN /\ Waiting(h, {"posting"})
       /\ IF ok THEN Write(i, c) ELSE UNCHANGED timeline
       /\ replied' = replied \cup {i}
       /\ actions' = IF Present(i)
                     THEN [actions EXCEPT ![i].status = "completed",
                                          ![i].choice = c]
                     ELSE actions
       /\ Finish(h)
       /\ UNCHANGED <<history, effects, expired, restarts>>

\* The write succeeded, or failed with a TimelineClientError: either way the
\* reply is consumed and the record, if this process has one, updated.
ClickRecorded(h, ok) ==
    LET i == tasks[h].id
        c == tasks[h].choice
    IN /\ Waiting(h, {"posting"})
       /\ IF ok THEN Write(i, c) ELSE UNCHANGED timeline
       /\ replied' = replied \cup {i}
       /\ actions' = IF Present(i)
                     THEN [actions EXCEPT ![i] =
                             [ status |-> "completed",
                               choice |-> c,
                               warn   |-> @.warn \/ ~ok ]]
                     ELSE actions
       /\ Finish(h)
       /\ UNCHANGED <<history, effects, expired, restarts>>

\* A transport error is not a TimelineClientError: the request ends in a 500
\* with nothing recorded here, whether or not the timeline got the event.
ClickErrors(h, written) ==
    /\ Waiting(h, {"posting"})
    /\ IF written THEN Write(tasks[h].id, tasks[h].choice)
                  ELSE UNCHANGED timeline
    /\ Finish(h)
    /\ UNCHANGED <<actions, replied, history, effects, expired, restarts>>

Expire(i) ==
    /\ type[i] = "chatops_verify"
    /\ i \notin expired
    /\ expired' = expired \cup {i}
    /\ UNCHANGED <<memory, history, effects, timeline, restarts>>

Restart ==
    /\ restarts < MaxRestarts
    /\ restarts' = restarts + 1
    /\ actions' = [i \in Ids |-> Absent]
    /\ replied' = {}
    /\ tasks' = [h \in Handlers |-> Idle]
    /\ UNCHANGED <<history, world>>

-----------------------------------------------------------------------------
HandlerStep(h) ==
    \/ ExecutorCompletes(h)
    \/ ExecutorFails(h)
    \/ ExecutorRaises(h)
    \/ \E b \in BOOLEAN : ClickRecorded(h, b) \/ ClickErrors(h, b)

Next ==
    \/ Submit
    \/ \E i \in Ids : Approve(i) \/ Reject(i) \/ Expire(i)
    \/ \E h \in Handlers : VendorActs(h) \/ HandlerStep(h)
    \/ \E h \in Handlers, i \in Ids, c \in Choices : Click(h, i, c)
    \/ Restart

Spec == Init /\ [][Next]_vars
-----------------------------------------------------------------------------
(***************************************************************************)
(* Properties                                                              *)
(***************************************************************************)

\* No action's executor is called twice, however approvals, rejections and
\* late answers interleave (router.py has no idempotency key: the status
\* check of approve_action is all there is).
AtMostOneRun == \A i \in Ids : runs[i] <= 1

\* An action of a type that always needs a human is executed exactly as often
\* as one approved it: its executor is never reached from submit_action.
GatedNeedsApproval ==
    \A i \in Ids : type[i] \in ApprovalRequired => runs[i] = approvals[i]

\* Why no action runs twice, as an inductive invariant: an unused id has left
\* no trace, a parked action has not run, and the one execution of an action
\* is followed by at most one waiting handler, which acts at most once.
OneRunInv ==
    /\ \A i \in Ids :
          /\ type[i] = "none" =>
                /\ actions[i].status = "absent"
                /\ runs[i] = 0 /\ approvals[i] = 0 /\ effects[i] = 0
          /\ actions[i].status = "awaiting_approval" => runs[i] = 0
          /\ type[i] \in ApprovalRequired => runs[i] = approvals[i]
          /\ runs[i] <= 1
          /\ effects[i] <= runs[i]
    /\ \A h \in Handlers :
          /\ tasks[h] # Idle => type[tasks[h].id] # "none"
          /\ tasks[h].pc = "executing" =>
                runs[tasks[h].id] = 1 /\ effects[tasks[h].id] = 0
    /\ \A h, k \in Handlers :
          /\ tasks[h].pc \in {"executing", "acted"}
          /\ tasks[k].pc \in {"executing", "acted"}
          /\ tasks[h].id = tasks[k].id
          => h = k

\* Nothing happens at the vendor that this service did not ask for, and
\* nothing happens twice for one execution.
EffectsAreRuns == \A i \in Ids : effects[i] <= runs[i]

\* An ungated action with vendor parameters that is reported completed did
\* take effect at the vendor, where the client raises when it did not: the
\* executor's answer is written to the record of the action that was executed,
\* after the vendor acted, and a reply completes only a prompt that went out.
CompletedTookEffect ==
    \A i \in Ids :
        /\ actions[i].status = "completed"
        /\ ~Gated(type[i])
        /\ type[i] \notin Unconfirmed
        /\ GoesLive(type[i], i \in credentialed)
        => effects[i] > 0

\* The choice a record shows is on the case timeline, unless the record
\* carries the warning that the write failed: the durable store and the
\* in-memory one never silently disagree about what the user answered.
ChoiceOnTimeline ==
    \A i \in Ids :
        actions[i].choice # NoChoice /\ ~actions[i].warn
            => \E k \in DOMAIN timeline[i] : timeline[i][k] = actions[i].choice

\* A record shows a reply, and no request about its action is under way.
Settled(i) ==
    /\ actions[i].choice # NoChoice
    /\ \A h \in Handlers : tasks[h].id # i

\* The request that sent the prompt and clicks that overlap write to the same
\* record, in whatever order their awaits end; once they have ended, the reply
\* the record shows is final for the life of the process: no approval,
\* rejection or further click replaces it or starts to.
SettledReplyStays ==
    [][\A i \in Ids :
          Settled(i) /\ Present(i)' =>
              Settled(i)' /\ actions'[i].choice = actions[i].choice]_vars

\* What the callers of /approve and /reject see of the actions the gate has
\* parked, and the promise made to them: see ApprovalDesk.
deskOf ==
    [i \in Ids |->
        IF ~Gated(type[i]) \/ ~Present(i) THEN "absent"
        ELSE CASE actions[i].status = "awaiting_approval" -> "awaiting"
               [] actions[i].status = "rejected"          -> "rejected"
               [] OTHER                                   -> "executed"]

Desk == INSTANCE ApprovalDesk WITH Parked <- Ids, desk <- deskOf

\* No submission, late answer, callback or restart moves a parked action in
\* any way but the desk's: from waiting to executed once, to rejected, or to
\* forgotten.
ImplementsDesk == Desk!DeskSpec

(***************************************************************************)
(* Statements of the repository that the code does not keep.               *)
(***************************************************************************)

\* "Single-use enforcement is layered on top of HMAC + expiry": once a
\* response to a prompt is recorded, no other response reaches the timeline.
SingleUse == [][\A i \in replied : timeline'[i] = timeline[i]]_vars

\* The callback updates the record "so GET /actions/{id} reflects the final
\* status": once the reply is in and no handler is waiting, the record still
\* shows the user's choice.
ReplyKept ==
    \A i \in replied :
        Present(i) /\ (\A h \in Handlers : tasks[h].id # i)
            => actions[i].choice # NoChoice

\* "Falls back to simulation mode if credentials are absent": an action that
\* came with credentials and is reported completed was executed for real.
LiveWhenCredentialed ==
    \A i \in Ids :
        actions[i].status = "completed" /\ GoesLive(type[i], i \in credentialed)
            => effects[i] > 0

\* "... so ... the executor can fall back to simulation mode": an ungated
\* action that came with credentials is not reported completed when its
\* client did nothing.
UngatedCompletedIsLive ==
    \A i \in Ids :
        /\ actions[i].status = "completed"
        /\ ~Gated(type[i])
        /\ GoesLive(type[i], i \in credentialed)
        => effects[i] > 0

\* "Reject a pending action": only an action awaiting approval is rejected.
RejectOnlyPending ==
    [][\A i \in Ids :
          actions[i].status # "rejected" /\ actions'[i].status = "rejected"
              => actions[i].status = "awaiting_approval"]_vars

\* "`isolate` and `block` always require explicit human approval": what the
\* chat commands submit does not run before somebody approved it.
ChatCommandsGated ==
    \A i \in Ids :
        type[i] \in {"isolate_host", "block_ip"} => runs[i] <= approvals[i]

\* "keep the action RUNNING because the prompt was already delivered": a
\* prompt that reached the user never leaves its action FAILED.
PromptedNotFailed ==
    \A i \in Ids :
        type[i] = "chatops_verify" /\ effects[i] > 0
            => actions[i].status # "failed"

=============================================================================
