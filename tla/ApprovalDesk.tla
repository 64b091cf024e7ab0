---------------------------- MODULE ApprovalDesk ----------------------------
(***************************************************************************)
(* What services/actions promises the callers of /approve and /reject      *)
(* about the actions it has parked for a human (app/api/router.py): an     *)
(* action is approved at most once and only while it waits, a rejection is *)
(* always taken, and a restart forgets everything.  ActionService          *)
(* implements this module; SlackApproval is built on it.                   *)
(***************************************************************************)
CONSTANT Parked     \* actions of a type the gate parks

VARIABLE desk

DeskStates == {"absent", "awaiting", "executed", "rejected"}

DeskTypeOK == desk \in [Parked -> DeskStates]

DeskInit == desk = [a \in Parked |-> "absent"]

Park(a) ==
    /\ desk[a] = "absent"
    /\ desk' = [desk EXCEPT ![a] = "awaiting"]

\* Mutant: approve does not look at the status either.
Grants_Present(a, verb) == desk[a] # "absent"

\* 404 for an unknown action; approve also answers 400 to one that does not
\* wait, reject does not look.
Grants(a, verb) ==
    CASE verb = "approve" -> desk[a] = "awaiting"
      [] verb = "reject"  -> desk[a] # "absent"

Outcome(verb) == IF verb = "approve" THEN "executed" ELSE "rejected"

Decide(a, verb) ==
    /\ Grants(a, verb)
    /\ desk' = [desk EXCEPT ![a] = Outcome(verb)]

Forget == desk' = [a \in Parked |-> "absent"]

DeskNext ==
    \/ \E a \in Parked : Park(a) \/ \E v \in {"approve", "reject"} : Decide(a, v)
    \/ Forget

DeskSpec == DeskInit /\ [][DeskNext]_desk

=============================================================================
