--------------------------- MODULE PlaybookEngine --------------------------
(***************************************************************************)
(* One run of a playbook by the agents service                             *)
(* (services/agents/app/playbook/engine.py, started by                     *)
(* app/api/playbooks.py).                                                  *)
(*                                                                         *)
(* A playbook is a sequence of steps.  A step may wait for a condition,    *)
(* retries its handler, and may name the step to go to next; the names are *)
(* the author's, so a name can be missing, used twice, or lead back.  What *)
(* a condition on the data says and how a handler ends are left open: an   *)
(* attempt that raises may have had its effect before.                     *)
(***************************************************************************)
EXTENDS Integers, Sequences, FiniteSets

CONSTANTS
    Ids,        \* step ids
    Nowhere,    \* no next_true, no next_false
    Playbooks   \* the playbooks a run may be started with

\* "work" is a type with a handler; "other" one without, that is every type
\* of StepType outside _HANDLERS but the approval, which has none either.
Step == [id: Ids,
         type: {"work", "condition", "approval", "other"},
         condition: {"none", "data", "outcome"},
         on_failure: {"abort", "continue", "retry"},
         retry_max: Nat,
         next_true: Ids \cup {Nowhere},
         next_false: Ids \cup {Nowhere}]

ASSUME PlaybookAssumption == Nowhere \notin Ids /\ Playbooks \subseteq Seq(Step)

VARIABLES
    steps,      \* playbook.steps
    dry_run,
    pc,         \* where the background task is
    idx,        \* current_idx
    visited,    \* ids of the steps the loop has entered
    attempt,    \* attempts of the current step so far
    results,    \* step_results: position in steps, id, status
    verdict,    \* status of the engine's own record
    shown,      \* status a poll of the returned run id reads
    calls       \* outside world: handler calls made per position

engine == <<pc, idx, visited, attempt, results, verdict>>
vars   == <<steps, dry_run, engine, shown, calls>>

-----------------------------------------------------------------------------
Result == [at: Nat, id: Ids, status: {"skipped", "success", "failed"}]

TypeOK ==
    /\ steps \in Playbooks /\ dry_run \in BOOLEAN
    /\ pc \in {"posted", "loop", "attempt", "finished", "stored", "lost"}
    /\ idx \in Nat \ {0} /\ visited \subseteq Ids /\ attempt \in Nat
    /\ results \in Seq(Result)
    /\ verdict \in {"pending", "running", "failed", "completed"}
    /\ shown \in {"pending", "running", "failed", "completed", "gone"}
    /\ calls \in [DOMAIN steps -> Nat]

\* run_playbook: a placeholder is stored, the task is yet to start.
Init ==
    /\ steps \in Playbooks /\ dry_run \in BOOLEAN
    /\ pc = "posted"
    /\ idx = 1 /\ visited = {} /\ attempt = 0
    /\ results = << >>
    /\ verdict = "pending" /\ shown = "pending"
    /\ calls = [i \in DOMAIN steps |-> 0]

Current == steps[idx]

\* step_index: of two steps with one id, the later.
Places(name) == {i \in DOMAIN steps : steps[i].id = name}
Goto(name) ==
    IF Places(name) = {} THEN idx + 1
    ELSE CHOOSE i \in Places(name) : \A j \in Places(name) : j <= i

Record(status) ==
    results' = Append(results, [at |-> idx, id |-> Current.id, status |-> status])

-----------------------------------------------------------------------------
Start ==
    /\ pc = "posted"
    /\ pc' = "loop" /\ verdict' = "running"
    /\ UNCHANGED <<steps, dry_run, idx, visited, attempt, results, shown, calls>>

AtStep == pc = "loop" /\ idx <= Len(steps)

\* Mutant: the cycle is reported, and the loop is not left.
Cycle_NoBreak ==
    /\ AtStep /\ Current.id \in visited
    /\ verdict' = "failed"
    /\ UNCHANGED <<steps, dry_run, pc, idx, visited, attempt, results, shown,
                   calls>>

Cycle ==
    /\ AtStep /\ Current.id \in visited
    /\ pc' = "finished" /\ verdict' = "failed"
    /\ UNCHANGED <<steps, dry_run, idx, visited, attempt, results, shown, calls>>

\* An outcome is looked for under "steps", a key no step writes: the engine
\* keeps the result of a step under "_step_<id>".
Holds(pass) ==
    CASE Current.condition = "none"    -> pass
      [] Current.condition = "data"    -> TRUE
      [] Current.condition = "outcome" -> ~pass

\* The condition of a step entered for the first time is pass.
Enter(pass) ==
    /\ AtStep /\ Current.id \notin visited
    /\ Holds(pass)
    /\ visited' = visited \cup {Current.id}

Skip ==
    /\ Enter(FALSE)
    /\ Record("skipped")
    /\ idx' = Goto(Current.next_false)
    /\ UNCHANGED <<steps, dry_run, pc, attempt, verdict, shown, calls>>

Branch ==
    /\ Enter(TRUE)
    /\ Current.type = "condition"
    /\ Record("success")
    /\ idx' = Goto(Current.next_true)
    /\ UNCHANGED <<steps, dry_run, pc, attempt, verdict, shown, calls>>

Begin ==
    /\ Enter(TRUE)
    /\ Current.type # "condition"
    /\ attempt' = 0 /\ pc' = "attempt"
    /\ UNCHANGED <<steps, dry_run, idx, results, verdict, shown, calls>>

-----------------------------------------------------------------------------
\* The handler is called unless the run is dry; a type without one, the
\* approval among them, ends at once as a success.
Called == ~dry_run /\ Current.type = "work"
Call   == calls' = IF Called THEN [calls EXCEPT ![idx] = @ + 1] ELSE calls

Succeed ==
    /\ pc = "attempt"
    /\ Call
    /\ attempt' = attempt + 1
    /\ Record("success")
    /\ idx' = Goto(Current.next_true)
    /\ pc' = "loop"
    /\ UNCHANGED <<steps, dry_run, visited, verdict, shown>>

\* Mutant: one retry too many.
MayRetry_Inclusive == attempt <= Current.retry_max
MayRetry == attempt + 1 <= Current.retry_max

Retry ==
    /\ pc = "attempt"
    /\ Called /\ MayRetry
    /\ Call
    /\ attempt' = attempt + 1
    /\ UNCHANGED <<steps, dry_run, pc, idx, visited, results, verdict, shown>>

\* "retry" is the same as "continue".
Aborts == Current.on_failure = "abort"

Fail ==
    /\ pc = "attempt"
    /\ Called /\ ~MayRetry
    /\ Call
    /\ attempt' = attempt + 1
    /\ Record("failed")
    /\ IF Aborts
       THEN pc' = "finished" /\ verdict' = "failed" /\ UNCHANGED idx
       ELSE pc' = "loop" /\ idx' = idx + 1 /\ UNCHANGED verdict
    /\ UNCHANGED <<steps, dry_run, visited, shown>>

Finish ==
    /\ pc = "loop" /\ idx > Len(steps)
    /\ pc' = "finished" /\ verdict' = "completed"
    /\ UNCHANGED <<steps, dry_run, idx, visited, attempt, results, shown, calls>>

\* _execute_and_update: the finished record replaces the placeholder.
Store ==
    /\ pc = "finished"
    /\ pc' = "stored" /\ shown' = verdict
    /\ UNCHANGED <<steps, dry_run, idx, visited, attempt, results, verdict, calls>>

\* The run and its placeholder are in memory only.
Restart ==
    /\ pc # "lost"
    /\ pc' = "lost" /\ shown' = "gone"
    /\ UNCHANGED <<steps, dry_run, idx, visited, attempt, results, verdict, calls>>

Engine ==
    \/ Start \/ Cycle \/ Skip \/ Branch \/ Begin
    \/ Succeed \/ Retry \/ Fail \/ Finish \/ Store

Next == Engine \/ Restart

\* A handler returns or raises by its timeout, so the task goes on.
Spec     == Init /\ [][Next]_vars
FairSpec == Spec /\ WF_vars(Engine)
-----------------------------------------------------------------------------
(***************************************************************************)
(* Properties                                                              *)
(***************************************************************************)
\* "basic retries", "Cycle detected": whatever way the author's jumps take
\* the loop, no step is taken twice and its handler is called no more than
\* retry_max + 1 times, and not at all in a dry run.
CallsBounded ==
    /\ \A m, n \in DOMAIN results : results[m].id = results[n].id => m = n
    /\ \A i \in DOMAIN steps :
          calls[i] <= IF dry_run THEN 0 ELSE steps[i].retry_max + 1

\* A caller that polls the run id it was given sees the run end, however the
\* jumps lead, unless the process is restarted.
PollEnds == shown = "pending" ~> shown # "pending"

(***************************************************************************)
(* Statements of the repository that the code does not keep.               *)
(***************************************************************************)
\* "Require analyst approval before proceeding" (models.py).  Nothing asks
\* an analyst: a handler called after an approval step was never approved.
ApprovalGates ==
    \A n \in DOMAIN results :
        results[n].status # "skipped" /\ steps[results[n].at].type = "work" =>
            \A m \in 1 .. n - 1 : steps[results[m].at].type # "approval"

=============================================================================
