--------------------------- MODULE AgentApprovals --------------------------
(***************************************************************************)
(* One row of agent_approvals: an agent files it, analysts decide it       *)
(* (services/api/app/api/v1/endpoints/approvals.py).                       *)
(*                                                                         *)
(* A decision is a request of its own on some replica of the API: it reads *)
(* the row, commits an UPDATE by primary key (READ COMMITTED), reads the   *)
(* row again and announces what it read.  Rows do not depend on each       *)
(* other.  No code sets the status "expired", and expires_at is not read.  *)
(***************************************************************************)
EXTENDS Naturals, Sequences, SequencesExt

CONSTANTS
    Deciders,   \* analysts, each with one answer they may send repeatedly
    Nobody,     \* no decided_by, no decision_comment
    MaxAsks     \* bound: requests per analyst

ASSUME ApprovalsAssumption == MaxAsks \in Nat

VARIABLES
    row,        \* the row: status, by, comment
    wants,      \* per analyst: the decision, and whether it has a comment
    pc,         \* per analyst: where the request is
    copy,       \* per analyst: the row as read again after the commit
    asks,       \* per analyst: requests sent so far
    commits,    \* history: decisions committed, in order
    racing,     \* history: who had read the row when it was first decided
    announced   \* outside world: rows announced, in order of arrival

asking  == <<wants, pc, copy, asks>>
vars    == <<row, asking, commits, racing, announced>>

Decided == {"approved", "denied"}
Row == [status: Decided \cup {"unfiled", "pending"},
        by: Deciders \cup {Nobody}, comment: Deciders \cup {Nobody}]

TypeOK ==
    /\ row \in Row
    /\ wants \in [Deciders -> [status: Decided, comment: BOOLEAN]]
    /\ pc \in [Deciders -> {"away", "asked", "read", "committed", "refreshed"}]
    /\ copy \in [Deciders -> Row]
    /\ asks \in [Deciders -> 0 .. MaxAsks]
    /\ commits \in Seq([status: Decided, by: Deciders])
    /\ racing \subseteq Deciders
    /\ announced \in Seq(Row)

Unfiled == [status |-> "unfiled", by |-> Nobody, comment |-> Nobody]

Init ==
    /\ row = Unfiled
    /\ wants \in [Deciders -> [status: Decided, comment: BOOLEAN]]
    /\ pc = [d \in Deciders |-> "away"]
    /\ copy = [d \in Deciders |-> Unfiled]
    /\ asks = [d \in Deciders |-> 0]
    /\ commits = << >> /\ racing = {} /\ announced = << >>

At(d, from, to) == pc[d] = from /\ pc' = [pc EXCEPT ![d] = to]

-----------------------------------------------------------------------------
\* create_approval
File ==
    /\ row.status = "unfiled"
    /\ row' = [row EXCEPT !.status = "pending"]
    /\ UNCHANGED <<asking, commits, racing, announced>>

\* The first request, or another after an answer, an error or no answer.
Ask(d) ==
    /\ row.status # "unfiled"
    /\ asks[d] < MaxAsks
    /\ At(d, "away", "asked")
    /\ asks' = [asks EXCEPT ![d] = @ + 1]
    /\ UNCHANGED <<row, wants, copy, commits, racing, announced>>

\* Mutant: only the opposite of the decision asked for is looked at.
Undecided_Forgiving(d) == row.status # wants[d].status
Undecided(d) == row.status = "pending"

\* The same decision again returns the row; the other one is a 409.
Read(d) ==
    /\ At(d, "asked", IF Undecided(d) THEN "read" ELSE "away")
    /\ UNCHANGED <<row, wants, copy, asks, commits, racing, announced>>

\* Only columns that differ from what was loaded are written: no comment
\* leaves the column as it is by now.
Decide(d) ==
    row' = [status |-> wants[d].status, by |-> d,
            comment |-> IF wants[d].comment THEN d ELSE row.comment]

Commit(d) ==
    /\ At(d, "read", "committed")
    /\ Decide(d)
    /\ commits' = Append(commits, [status |-> wants[d].status, by |-> d])
    /\ racing' = IF commits = << >> THEN {e \in Deciders : pc[e] = "read"}
                 ELSE racing
    /\ UNCHANGED <<wants, copy, asks, announced>>

CommitFails(d) ==
    /\ At(d, "read", "away")
    /\ UNCHANGED <<row, wants, copy, asks, commits, racing, announced>>

Refresh(d) ==
    /\ At(d, "committed", "refreshed")
    /\ copy' = [copy EXCEPT ![d] = row]
    /\ UNCHANGED <<row, wants, asks, commits, racing, announced>>

\* _notify_realtime: one attempt, heard or not.
Notify(d, heard) ==
    /\ At(d, "refreshed", "away")
    /\ announced' = IF heard THEN Append(announced, copy[d]) ELSE announced
    /\ UNCHANGED <<row, wants, copy, asks, commits, racing>>

\* The replica stops in the middle of the request.
Crash(d) ==
    /\ \E at \in {"asked", "read", "committed", "refreshed"} : At(d, at, "away")
    /\ UNCHANGED <<row, wants, copy, asks, commits, racing, announced>>

Next ==
    \/ File
    \/ \E d \in Deciders :
          \/ Ask(d) \/ Read(d) \/ Commit(d) \/ CommitFails(d) \/ Refresh(d)
          \/ Notify(d, TRUE) \/ Notify(d, FALSE) \/ Crash(d)

Spec == Init /\ [][Next]_vars
-----------------------------------------------------------------------------
(***************************************************************************)
(* Properties                                                              *)
(***************************************************************************)
\* However requests overlap, the row holds one analyst's decision whole: who
\* is named as the decider committed the status it shows, and last.
DecisionIsWhole ==
    IF commits = << >> THEN row.status \notin Decided /\ row.by = Nobody
    ELSE [status |-> row.status, by |-> row.by] = Last(commits)

\* "Fan out an agent event": what listeners hear was committed, although it
\* is announced after the transaction and may be another analyst's.
AnnouncedWasCommitted ==
    \A n \in DOMAIN announced :
        [status |-> announced[n].status, by |-> announced[n].by]
            \in ToSet(commits)

\* "Idempotent only on the same decision": a decision is replaced at most by
\* analysts whose requests had read the row before it was first decided,
\* however often the others repeat theirs.
OnlyRacersReplace ==
    \A n \in 2 .. Len(commits) : commits[n].by \in racing

\* A decision stands: the row holds one analyst's whole, listeners hear of
\* committed ones only, and none but racers replace it.
DecisionStands == DecisionIsWhole /\ AnnouncedWasCommitted /\ OnlyRacersReplace

(***************************************************************************)
(* Statements of the repository that the code does not keep.               *)
(***************************************************************************)
\* "trying to flip an approved row to denied (or vice versa) is a 409".
NoFlip == [][row.status \in Decided => row'.status = row.status]_vars

\* "so the run can resume": with every announcement heard and no request
\* under way, the last one heard is what the row says.
LastHeardIsTrue ==
    announced # << >> /\ Len(announced) = Len(commits)
        => Last(announced).status = row.status

=============================================================================
