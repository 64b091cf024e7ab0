---------------------------- MODULE OAuthRefresh ---------------------------
(***************************************************************************)
(* The OAuth refresh worker of the API, one per replica, on one connector  *)
(* row (services/api/app/workers/oauth_refresh.py), against the provider   *)
(* that issues the tokens, the operator who consents again                 *)
(* (api/v1/endpoints/oauth.py) and the poller that keeps the row's health  *)
(* (services/connectors, connector_repo.py).                               *)
(*                                                                         *)
(* A sweep loads the row once and works from that copy until it writes.    *)
(* Refresh tokens are numbers; the provider knows which it would accept.   *)
(***************************************************************************)
EXTENDS Naturals

CONSTANTS
    Workers,    \* replicas of the API
    AlarmThreshold, \* OAUTH_REFRESH_ALARM_THRESHOLD
    MaxTokens,  \* bound: refresh tokens the provider issues
    MaxStops    \* bound: restarts of a worker

ASSUME OAuthAssumption ==
    /\ AlarmThreshold \in Nat \ {0} /\ MaxTokens \in Nat \ {0}
    /\ MaxStops \in Nat

VARIABLES
    rotates,    \* the provider replaces the refresh token on every use
    valid,      \* refresh tokens the provider accepts
    issued,     \* refresh tokens issued so far
    connector,  \* the row: token, failures, health; due: expires_at is near or absent
    sweeper,    \* per worker: where its sweep is
    loaded,     \* per worker: token and failures as loaded
    answer,     \* per worker: the refresh token to keep
    stops,
    broken      \* history: the grant was revoked, or an answer was lost

provider   == <<rotates, valid, issued>>
sweep      == <<sweeper, loaded, answer>>
oauth_vars == <<provider, connector, sweep, stops, broken>>

-----------------------------------------------------------------------------
\* "healthy" stands for "configuring" as well: no one here tells them apart.
Health == {"healthy", "unhealthy"}
ConnectorRow == [token: 1 .. MaxTokens, failures: 0 .. AlarmThreshold,
                 health: Health, due: BOOLEAN]
Loaded == [token: 1 .. MaxTokens, failures: 0 .. AlarmThreshold]

OAuthTypeOK ==
    /\ rotates \in BOOLEAN
    /\ issued \in 1 .. MaxTokens /\ valid \subseteq 1 .. issued
    /\ connector \in ConnectorRow
    /\ sweeper \in [Workers -> {"idle", "exchange", "write", "fail"}]
    /\ loaded \in [Workers -> Loaded]
    /\ answer \in [Workers -> 1 .. MaxTokens]
    /\ stops \in 0 .. MaxStops
    /\ broken \in BOOLEAN

\* A connector that has just been consented to.
Consented == [token |-> 1, failures |-> 0, health |-> "healthy",
              due |-> FALSE]

\* What a sweep uses of its copy of the row; the health it found matters
\* only when it is neither of the two above.
Copy(r) == [token |-> r.token, failures |-> r.failures]

OAuthInit ==
    /\ rotates \in BOOLEAN
    /\ valid = {1} /\ issued = 1
    /\ connector = Consented
    /\ sweeper = [w \in Workers |-> "idle"]
    /\ loaded = [w \in Workers |-> Copy(Consented)]
    /\ answer = [w \in Workers |-> 1]
    /\ stops = 0
    /\ broken = FALSE

Goes(w, from, to) == sweeper[w] = from /\ sweeper' = [sweeper EXCEPT ![w] = to]

\* Counts stop at the threshold: nothing tells larger ones apart.
OneMore(n) == IF n < AlarmThreshold THEN n + 1 ELSE n

\* The copy goes with the sweep.
Forget(w) ==
    /\ loaded' = [loaded EXCEPT ![w] = Copy(Consented)]
    /\ answer' = [answer EXCEPT ![w] = 1]

-----------------------------------------------------------------------------
(***************************************************************************)
(* A sweep                                                                 *)
(***************************************************************************)
Select(w) ==
    /\ connector.due
    /\ Goes(w, "idle", "exchange")
    /\ loaded' = [loaded EXCEPT ![w] = Copy(connector)]
    /\ UNCHANGED <<provider, connector, answer, stops, broken>>

\* Mutant: the rotated refresh token is not kept.
Keep_Old(w, token) == answer' = [answer EXCEPT ![w] = loaded[w].token]
Keep(w, token) == answer' = [answer EXCEPT ![w] = token]

\* The provider accepts; the answer arrives, or it does not and the sweep
\* takes the call for a failure.
Exchange(w, arrives) ==
    /\ Goes(w, "exchange", IF arrives THEN "write" ELSE "fail")
    /\ loaded[w].token \in valid
    /\ IF rotates
       THEN /\ issued < MaxTokens
            /\ issued' = issued + 1
            /\ valid' = (valid \ {loaded[w].token}) \cup {issued'}
            /\ Keep(w, issued')
       ELSE UNCHANGED <<issued, valid>> /\ Keep(w, loaded[w].token)
    /\ broken' = (broken \/ (rotates /\ ~arrives))
    /\ UNCHANGED <<rotates, connector, loaded, stops>>

\* invalid_grant, an error of the network, or something missing on our side:
\* nothing happened at the provider.
ExchangeFails(w) ==
    /\ Goes(w, "exchange", "fail")
    /\ UNCHANGED <<provider, connector, loaded, answer, stops, broken>>

\* An unhealthy row turns healthy, a healthy copy is written back.  A
\* provider that does not say how long the token lives leaves the row due.
Write(w, lifetime) ==
    /\ Goes(w, "write", "idle")
    /\ connector' = [token |-> answer[w], failures |-> 0, due |-> ~lifetime,
                     health |-> "healthy"]
    /\ Forget(w)
    /\ UNCHANGED <<provider, stops, broken>>

\* Mutant: the alarm is for the failure after the threshold, and the count
\* is never that large.
Alarm_Exclusive(count) == count > AlarmThreshold
Alarm(count) == count >= AlarmThreshold

\* _record_failure: the count is that of the copy, plus one.
Record(w) ==
    /\ Goes(w, "fail", "idle")
    /\ LET count == OneMore(loaded[w].failures)
       IN connector' = [connector EXCEPT !.failures = count,
                                         !.health = IF Alarm(count) THEN "unhealthy" ELSE @]
    /\ Forget(w)
    /\ UNCHANGED <<provider, stops, broken>>

\* The replica restarts in the middle of its sweep.
Stop(w) ==
    /\ sweeper[w] # "idle" /\ stops < MaxStops
    /\ sweeper' = [sweeper EXCEPT ![w] = "idle"]
    /\ stops' = stops + 1
    /\ broken' = (broken \/ (sweeper[w] = "write" /\ rotates))
    /\ Forget(w)
    /\ UNCHANGED <<provider, connector>>

Sweep(w) ==
    \/ Select(w) \/ ExchangeFails(w) \/ Record(w)
    \/ \E b \in BOOLEAN : Exchange(w, b) \/ Write(w, b)

-----------------------------------------------------------------------------
(***************************************************************************)
(* The others who write the row, and the provider                          *)
(***************************************************************************)
\* Time passes and the access token nears its end.
AccessExpires ==
    /\ ~connector.due
    /\ connector' = [connector EXCEPT !.due = TRUE]
    /\ UNCHANGED <<provider, sweep, stops, broken>>

\* oauth_callback on an existing connector: the count of failures is not
\* among the columns it writes.
Reconsent ==
    /\ issued < MaxTokens
    /\ issued' = issued + 1
    /\ valid' = valid \cup {issued'}
    /\ connector' = [connector EXCEPT !.token = issued', !.health = "healthy",
                                      !.due = FALSE]
    /\ UNCHANGED <<rotates, sweep, stops, broken>>

\* record_poll_success, record_poll_failure.
Poll(verdict) ==
    /\ connector' = [connector EXCEPT !.health = verdict]
    /\ UNCHANGED <<provider, sweep, stops, broken>>

\* The user, or the provider, takes the grant back.
Revoke ==
    /\ valid # {}
    /\ valid' = {}
    /\ broken' = TRUE
    /\ UNCHANGED <<rotates, issued, connector, sweep, stops>>

OAuthNext ==
    \/ \E w \in Workers : Sweep(w) \/ Stop(w)
    \/ AccessExpires \/ Reconsent \/ Revoke
    \/ \E verdict \in Health : Poll(verdict)

OAuthSpec == OAuthInit /\ [][OAuthNext]_oauth_vars

\* run_forever survives every exception of a sweep, and a call to the
\* provider ends by its timeout.
\* Access tokens expire.
OAuthFairSpec ==
    OAuthSpec /\ WF_oauth_vars(AccessExpires) /\ \A w \in Workers : WF_oauth_vars(Sweep(w))

-----------------------------------------------------------------------------
(***************************************************************************)
(* Properties                                                              *)
(***************************************************************************)
\* "providers tolerate concurrent refresh attempts": with several replicas
\* sweeping at once and operators consenting in between, the row never keeps
\* a refresh token the provider would refuse while a good one is lost, short
\* of a revoked grant or an answer that did not arrive.
TokenUsable ==
    \/ broken
    \/ connector.token \in valid
    \/ \E w \in Workers : sweeper[w] = "write" /\ answer[w] \in valid

\* "at alarm_threshold consecutive failures we flip health_status": a row
\* whose grant is gone does not stay quiet.  It is marked or consented to
\* again, although every sweep counts from its own copy.
DeadGrantAlarms ==
    connector.due /\ connector.token \notin valid ~>
        connector.health = "unhealthy" \/ connector.token \in valid

(***************************************************************************)
(* Statements of the repository that the code does not keep.               *)
(***************************************************************************)
\* "Restore healthy status only if we were the ones who flipped it": the
\* mark of a failed poll survives a refresh.
PollMarkKept ==
    [][\A w \in Workers : sweeper[w] = "write" /\ sweeper'[w] = "idle" /\ stops' = stops
               /\ connector.failures < AlarmThreshold /\ connector.health = "unhealthy"
           => connector'.health = "unhealthy"]_oauth_vars

\* "at alarm_threshold consecutive failures": a new token starts a new count.
CountStartsAnew == [][connector'.token # connector.token => connector'.failures = 0]_oauth_vars

\* Consent given while a sweep is under way stays in the row.
ConsentKept == [][connector'.token >= connector.token]_oauth_vars

=============================================================================
