--------------------------- MODULE SlackApproval ---------------------------
(***************************************************************************)
(* Approvals through the Slack bot (services/slack-bot): the approval card *)
(* (app/commands.py), the button clicks (app/interactions.py), and the     *)
(* timeout scheduler that answers for a human who does not                 *)
(* (app/services/approval_timeout.py).  The actions service is the         *)
(* ApprovalDesk.                                                           *)
(*                                                                         *)
(* A caller of the desk is a click handler or a timer task.  Its HTTP call *)
(* is a request on the wire, handled by the desk in one step, whose answer *)
(* may be lost; a request can be handled after its caller gave up or was   *)
(* cancelled.  An audit row is written without waiting.                    *)
(***************************************************************************)
EXTENDS ApprovalDesk, Naturals, FiniteSets

CONSTANTS
    Clicks,         \* button clicks; each happens at most once
    Timers,         \* timer tasks; each is created at most once
    None,
    MaxCrashes,     \* bound: crashes of the bot
    MaxForgets      \* bound: restarts of the actions service

ASSUME SlackAssumption ==
    /\ Clicks \cap Timers = {}
    /\ None \notin Timers \cup Parked
    /\ MaxCrashes \in Nat /\ MaxForgets \in Nat

VARIABLES
    card,       \* per action: the approval card in the channel
    caller,     \* per click and timer: where its coroutine is
    timers,     \* _timers: action -> the task last scheduled for it
    audit,      \* rows the sink has recorded
    granted,    \* history: callers whose request the desk granted
    crashes, forgets

vars == <<desk, card, caller, timers, audit, granted, crashes, forgets>>

-----------------------------------------------------------------------------
Callers == Clicks \cup Timers
Verbs   == {"approve", "reject"}

Caller ==
    [ pc     : {"new", "sleeping", "calling", "done", "cancelled"},
      act    : Parked \cup {None},
      verb   : Verbs \cup {"none"},         \* what it asks of the desk
      default : Verbs \cup {"none"},        \* safe_default of a timer
      onwire : BOOLEAN,                     \* its request is not yet handled
      reply  : {"none", "ok", "refused"} ]

New == [pc |-> "new", act |-> None, verb |-> "none", default |-> "none",
        onwire |-> FALSE, reply |-> "none"]

Row == [by : Callers, act : Parked, decision : Verbs \cup {"need_info"},
        error : BOOLEAN]

TypeOK ==
    /\ DeskTypeOK
    /\ card \in [Parked -> {"none", "lost", "open", "replaced"}]
    /\ caller \in [Callers -> Caller]
    /\ timers \in [Parked -> Timers \cup {None}]
    /\ audit \subseteq Row
    /\ granted \subseteq Callers
    /\ crashes \in Nat /\ forgets \in Nat
    \* only a caller that has sent its request can have been answered
    /\ \A p \in Callers :
          /\ caller[p].onwire => caller[p].reply = "none"
          /\ caller[p].pc = "sleeping" => ~caller[p].onwire
          /\ (p \in granted) <=> caller[p].reply = "ok"

Init ==
    /\ DeskInit
    /\ card = [a \in Parked |-> "none"]
    /\ caller = [p \in Callers |-> New]
    /\ timers = [a \in Parked |-> None]
    /\ audit = {}
    /\ granted = {}
    /\ crashes = 0 /\ forgets = 0

-----------------------------------------------------------------------------
(***************************************************************************)
(* The card, and the actions service                                       *)
(***************************************************************************)
\* /aisoc isolate: the action is parked; the card is posted unless the
\* answer is lost.
Submit(a, answered) ==
    /\ Park(a)
    /\ card[a] = "none"
    /\ card' = [card EXCEPT ![a] = IF answered THEN "open" ELSE "lost"]
    /\ UNCHANGED <<caller, timers, audit, granted, crashes, forgets>>

\* The desk handles a request, whether or not its caller still waits.
Serve(p) ==
    LET a == caller[p].act
        v == caller[p].verb
    IN /\ caller[p].onwire
       /\ \/ /\ Decide(a, v)
             /\ granted' = granted \cup {p}
             /\ caller' = [caller EXCEPT ![p].onwire = FALSE,
                                         ![p].reply = "ok"]
          \/ /\ ~Grants(a, v)
             /\ caller' = [caller EXCEPT ![p].onwire = FALSE,
                                         ![p].reply = "refused"]
             /\ UNCHANGED <<desk, granted>>
       /\ UNCHANGED <<card, timers, audit, crashes, forgets>>

ServiceRestart ==
    /\ forgets < MaxForgets
    /\ forgets' = forgets + 1
    /\ Forget
    /\ UNCHANGED <<card, caller, timers, audit, granted, crashes>>

-----------------------------------------------------------------------------
(***************************************************************************)
(* Clicks: handle_action_decision                                          *)
(***************************************************************************)
Send(p, a, v) ==
    caller' = [caller EXCEPT ![p] =
        [@ EXCEPT !.pc = "calling", !.act = a, !.verb = v, !.onwire = TRUE]]

Click(c, a, v) ==
    /\ card[a] = "open"
    /\ caller[c] = New
    /\ Send(c, a, v)
    /\ UNCHANGED <<desk, card, timers, audit, granted, crashes, forgets>>

\* Need-info calls nobody and leaves the card as it is.
NeedInfo(c, a) ==
    /\ card[a] = "open"
    /\ caller[c] = New
    /\ caller' = [caller EXCEPT ![c].pc = "done"]
    /\ audit' = audit \cup
          {[by |-> c, act |-> a, decision |-> "need_info", error |-> FALSE]}
    /\ UNCHANGED <<desk, card, timers, granted, crashes, forgets>>

Write(p, failed) ==
    audit' = audit \cup {[by |-> p, act |-> caller[p].act,
                          decision |-> caller[p].verb, error |-> failed]}

\* Mutant: the row is written when the call is made, not when it is answered.
Answer_Early(p, shown) ==
    /\ caller[p].pc = "calling"
    /\ Write(p, caller[p].reply = "refused")
    /\ caller' = [caller EXCEPT ![p].pc = "done"]
    /\ card' = IF shown /\ p \in Clicks /\ caller[p].reply = "ok"
               THEN [card EXCEPT ![caller[p].act] = "replaced"]
               ELSE card
    /\ UNCHANGED <<desk, timers, granted, crashes, forgets>>

\* The answer arrives.  A granted click replaces the card, if Slack takes
\* the response.
Answer(p, shown) ==
    /\ caller[p].pc = "calling"
    /\ caller[p].reply # "none"
    /\ Write(p, caller[p].reply = "refused")
    /\ caller' = [caller EXCEPT ![p].pc = "done"]
    /\ card' = IF shown /\ p \in Clicks /\ caller[p].reply = "ok"
               THEN [card EXCEPT ![caller[p].act] = "replaced"]
               ELSE card
    /\ UNCHANGED <<desk, timers, granted, crashes, forgets>>

\* Mutant: a transport error ends the handler without a row.
TimeOut_Silent(p) ==
    /\ caller[p].pc = "calling"
    /\ caller' = [caller EXCEPT ![p].pc = "done"]
    /\ UNCHANGED <<desk, card, timers, audit, granted, crashes, forgets>>

\* The call times out or its answer is lost.
TimeOut(p) ==
    /\ caller[p].pc = "calling"
    /\ Write(p, TRUE)
    /\ caller' = [caller EXCEPT ![p].pc = "done"]
    /\ UNCHANGED <<desk, card, timers, granted, crashes, forgets>>

-----------------------------------------------------------------------------
(***************************************************************************)
(* ApprovalTimeoutScheduler.  schedule and cancel may be called for any    *)
(* action at any time; the bot itself only ever calls aclose.              *)
(***************************************************************************)
Live(t) == caller[t].pc \in {"sleeping", "calling"}

\* The callers after the tasks in S have been cancelled.
Cancelled(S) ==
    [p \in Callers |-> IF p \in S /\ caller[p].pc \in {"sleeping", "calling"}
                       THEN [caller[p] EXCEPT !.pc = "cancelled"]
                       ELSE caller[p]]

\* Mutant: the timer armed before is left running.
Schedule_Keep(a, t, v) ==
    /\ caller[t] = New
    /\ caller' = [caller EXCEPT ![t] =
          [New EXCEPT !.pc = "sleeping", !.act = a, !.default = v]]
    /\ timers' = [timers EXCEPT ![a] = t]
    /\ UNCHANGED <<desk, card, audit, granted, crashes, forgets>>

Schedule(a, t, v) ==
    /\ caller[t] = New
    /\ caller' = [Cancelled({timers[a]}) EXCEPT ![t] =
          [New EXCEPT !.pc = "sleeping", !.act = a, !.default = v]]
    /\ timers' = [timers EXCEPT ![a] = t]
    /\ UNCHANGED <<desk, card, audit, granted, crashes, forgets>>

Cancel(a) ==
    /\ timers[a] # None
    /\ caller' = Cancelled({timers[a]})
    /\ timers' = [timers EXCEPT ![a] = None]
    /\ UNCHANGED <<desk, card, audit, granted, crashes, forgets>>

\* The timeout has passed: the safe default is sent.
Wake(t) ==
    /\ caller[t].pc = "sleeping"
    /\ Send(t, caller[t].act, caller[t].default)
    /\ UNCHANGED <<desk, card, timers, audit, granted, crashes, forgets>>

AClose ==
    /\ \E t \in Timers : Live(t)
    /\ caller' = Cancelled(Timers)
    /\ timers' = [a \in Parked |-> None]
    /\ UNCHANGED <<desk, card, audit, granted, crashes, forgets>>

\* Timers and handlers die with the process; what is on the wire does not.
Crash ==
    /\ crashes < MaxCrashes
    /\ crashes' = crashes + 1
    /\ caller' = Cancelled(Callers)
    /\ timers' = [a \in Parked |-> None]
    /\ UNCHANGED <<desk, card, audit, granted, forgets>>

-----------------------------------------------------------------------------
Finish(p) == TimeOut(p) \/ \E shown \in BOOLEAN : Answer(p, shown)

\* What the bot does as it is wired: no timer is ever scheduled.
BotNext ==
    \/ \E a \in Parked : \E answered \in BOOLEAN : Submit(a, answered)
    \/ \E c \in Clicks, a \in Parked :
          NeedInfo(c, a) \/ \E v \in Verbs : Click(c, a, v)
    \/ \E p \in Callers : Serve(p) \/ Finish(p)
    \/ \E t \in Timers : Wake(t)
    \/ AClose \/ Crash \/ ServiceRestart

Next ==
    \/ BotNext
    \/ \E a \in Parked :
          Cancel(a) \/ \E t \in Timers, v \in Verbs : Schedule(a, t, v)

\* Timers run out, and a call ends: httpx has a timeout.
Fairness ==
    /\ \A p \in Callers : WF_vars(Finish(p))
    /\ \A t \in Timers : WF_vars(Wake(t))

Spec        == Init /\ [][Next]_vars
FairSpec    == Spec /\ Fairness
FairBotSpec == Init /\ [][BotNext]_vars /\ Fairness
-----------------------------------------------------------------------------
(***************************************************************************)
(* Properties                                                              *)
(***************************************************************************)
\* However often a card is posted again and timers are cancelled, an action
\* has at most one running timer, and it is the one cancel() would reach.
OneLiveTimer ==
    \A t \in Timers : Live(t) => timers[caller[t].act] = t

\* A row without an error tells the truth: the desk granted that decision.
AuditIsTrue ==
    \A r \in audit :
        ~r.error /\ r.decision # "need_info" => r.by \in granted

\* "so a forgotten approval can never accidentally execute": an action that
\* was executed was approved by a click, or by a timer armed to approve.
NoAccidentalRun ==
    \A a \in Parked :
        desk[a] = "executed" =>
            \E p \in granted :
                /\ caller[p].act = a /\ caller[p].verb = "approve"
                /\ p \in Clicks \/ caller[p].default = "approve"

\* However two analysts click, timers fall back, answers get lost and the
\* service restarts: an action is approved for one caller only, so that no
\* second approval can run it again.
ApprovedForOne ==
    \A p, q \in granted :
        /\ caller[p].act = caller[q].act
        /\ caller[p].verb = "approve" /\ caller[q].verb = "approve"
        => p = q

\* What runs, runs for the one caller who was granted its approval.
RunsForOne == NoAccidentalRun /\ ApprovedForOne

\* A click leaves a row, whatever happens to its call ("Always written"); so
\* does a timer nobody cancels.
CallsAreAudited ==
    \A p \in Callers :
        caller[p].pc \in {"sleeping", "calling"}
            ~> \/ \E r \in audit : r.by = p
               \/ caller[p].pc = "cancelled"

(***************************************************************************)
(* Statements of the repository that the code does not keep.               *)
(***************************************************************************)
\* "the buttons can't be clicked twice": one card gets one decision.
OneTerminalDecision ==
    \A r, s \in audit :
        /\ r.act = s.act /\ r.by \in Clicks /\ s.by \in Clicks
        /\ ~r.error /\ ~s.error
        /\ r.decision \in Verbs /\ s.decision \in Verbs
        => r.by = s.by

\* "Always written - every ... click and every timeout fallback": a fallback
\* the desk has granted has a row, or is about to write it.
FallbackAudited ==
    \A t \in Timers \cap granted :
        caller[t].pc = "calling" \/ \E r \in audit : r.by = t

\* "a forgotten Approve/Deny can't leave the action in awaiting_approval
\* forever".
ForgottenSettles ==
    \A a \in Parked : desk[a] = "awaiting" ~> desk[a] # "awaiting"

=============================================================================
