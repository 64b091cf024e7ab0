------------------------------- MODULE MCRows -------------------------------
(***************************************************************************)
(* Shared rows and keys under concurrent requests: three tables of the API, *)
(* the Redis keys of entity risk in fusion and those of push subscriptions *)
(* in the realtime gateway.  No code path leads from one to another, so a  *)
(* behaviour runs one of them ("part") and leaves the others as they were. *)
(***************************************************************************)
EXTENDS AgentApprovals, PushSubscriptions, OAuthRefresh, EntityRisk, AuditChain, TLC

CONSTANTS d1, d2, w1, w2

VARIABLE part

all == <<part, vars, oauth_vars, audit_vars, risk_vars, push_vars>>

\* a1 is an alert on a user, a2 on that user and a host.
MCTouches == ("a1" :> <<"user">>) @@ ("a2" :> <<"user", "host">>)
MCPoints  == ("a1" :> 8) @@ ("a2" :> 16)

\* The parts that do not run start in one of their initial states.
RowsInit ==
    /\ part \in {"approvals", "oauth", "audit", "risk", "push"}
    /\ Init /\ OAuthInit /\ AuditInit /\ RiskInit /\ PushInit
    /\ \/ part = "approvals"
       \/ wants = [d \in Deciders |-> [status |-> "approved", comment |-> FALSE]]
    /\ part = "oauth" \/ ~rotates
    /\ part = "audit" \/ kind = [r \in Rows |-> "chained"]

Decisions == part = "approvals" /\ Next /\ UNCHANGED <<part, oauth_vars, audit_vars, risk_vars, push_vars>>
InOAuth   == part = "oauth" /\ UNCHANGED <<part, vars, audit_vars, risk_vars, push_vars>>
Refreshes == OAuthNext /\ InOAuth
Entries   == part = "audit" /\ AuditNext /\ UNCHANGED <<part, vars, oauth_vars, risk_vars, push_vars>>
Signals   == part = "risk" /\ RiskNext /\ UNCHANGED <<part, vars, oauth_vars, audit_vars, push_vars>>
Pushes    == part = "push" /\ PushNext /\ UNCHANGED <<part, vars, oauth_vars, audit_vars, risk_vars>>

RowsNext == Decisions \/ Refreshes \/ Entries \/ Signals \/ Pushes

RowsSpec ==
    /\ RowsInit /\ [][RowsNext]_all
    /\ WF_all(AccessExpires /\ InOAuth)
    /\ \A w \in Workers : WF_all(Sweep(w) /\ InOAuth)

=============================================================================
