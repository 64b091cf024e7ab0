------------------------ MODULE SlackApprovalProofs -------------------------
(***************************************************************************)
(* Approvals through the Slack bot for any number of actions, clicks and   *)
(* timers, crashes of the bot and restarts of the service: one running     *)
(* timer per action, audit rows that tell the truth, and nothing executed  *)
(* that neither a click nor a timer armed for it approved.                 *)
(***************************************************************************)
EXTENDS SlackApproval, TLAPS

\* What a caller asks, and when it has asked.
CallerInv(p, c) ==
    /\ c.pc \in {"sleeping", "calling"} \/ c.onwire \/ c.reply # "none"
          => c.act \in Parked
    /\ c.pc = "calling" \/ c.onwire \/ c.reply # "none" => c.verb \in Verbs
    /\ c.pc \in {"new", "sleeping"} => ~c.onwire /\ c.reply = "none"
    /\ p \in Timers /\ (c.onwire \/ c.reply # "none") => c.verb = c.default
    /\ p \in Timers /\ c.pc = "sleeping" => c.default \in Verbs

CallersInv == \A p \in Callers : CallerInv(p, caller[p])

IInv == TypeOK /\ CallersInv /\ OneLiveTimer /\ AuditIsTrue /\ NoAccidentalRun

-----------------------------------------------------------------------------
(***************************************************************************)
(* Lemmas                                                                  *)
(***************************************************************************)
\* Cancelling tasks changes nothing but where they are.
LEMMA CancelledTasks ==
    ASSUME TypeOK, NEW S
    PROVE  /\ Cancelled(S) \in [Callers -> Caller]
           /\ \A p \in Callers :
                /\ Cancelled(S)[p].act = caller[p].act
                /\ Cancelled(S)[p].verb = caller[p].verb
                /\ Cancelled(S)[p].default = caller[p].default
                /\ Cancelled(S)[p].onwire = caller[p].onwire
                /\ Cancelled(S)[p].reply = caller[p].reply
                /\ Cancelled(S)[p].pc =
                     IF p \in S /\ caller[p].pc \in {"sleeping", "calling"}
                     THEN "cancelled" ELSE caller[p].pc
<1>1. \A p \in Callers : caller[p] \in Caller
  BY DEF TypeOK
<1>2. ASSUME NEW p \in Callers, NEW c, c = Cancelled(S)[p]
      PROVE  /\ c \in Caller
             /\ c.act = caller[p].act /\ c.verb = caller[p].verb
             /\ c.default = caller[p].default /\ c.onwire = caller[p].onwire
             /\ c.reply = caller[p].reply
             /\ c.pc = IF p \in S /\ caller[p].pc \in {"sleeping", "calling"}
                       THEN "cancelled" ELSE caller[p].pc
  <2>1. c = IF p \in S /\ caller[p].pc \in {"sleeping", "calling"}
            THEN [caller[p] EXCEPT !.pc = "cancelled"] ELSE caller[p]
    BY <1>2 DEF Cancelled
  <2> QED
    BY <2>1, <1>1 DEF Caller
<1>3. Cancelled(S) \in [Callers -> Caller]
  BY <1>2 DEF Cancelled
<1> QED
  BY <1>2, <1>3

\* One caller changes, the others do not.
LEMMA OneChanges ==
    ASSUME TypeOK, NEW p \in Callers, NEW c \in Caller,
           caller' = [caller EXCEPT ![p] = c]
    PROVE  /\ caller' \in [Callers -> Caller] /\ caller'[p] = c
           /\ \A q \in Callers : q # p => caller'[q] = caller[q]
BY DEF TypeOK

\* What was granted stays evidence for what was executed, as long as the
\* requests of those who were granted stay as they are.
LEMMA EvidenceStays ==
    ASSUME NoAccidentalRun, granted \subseteq granted', granted \subseteq Callers,
           \A a \in Parked : desk'[a] = "executed" => desk[a] = "executed",
           \A p \in granted : /\ caller'[p].act = caller[p].act
                              /\ caller'[p].verb = caller[p].verb
                              /\ caller'[p].default = caller[p].default
    PROVE  NoAccidentalRun'
BY DEF NoAccidentalRun

-----------------------------------------------------------------------------
(***************************************************************************)
(* Steps of a caller                                                       *)
(***************************************************************************)
\* A click, or a timer that wakes, sends its request.
LEMMA SendStep ==
    ASSUME IInv, NEW p \in Callers, NEW a \in Parked, NEW v \in Verbs,
           caller[p].pc \in {"new", "sleeping"}, Send(p, a, v),
           p \in Timers => Live(p) /\ a = caller[p].act /\ v = caller[p].default,
           UNCHANGED <<desk, card, timers, audit, granted, crashes, forgets>>
    PROVE  IInv'
<1> DEFINE c == [caller[p] EXCEPT !.pc = "calling", !.act = a, !.verb = v, !.onwire = TRUE]
<1>0. TypeOK /\ caller[p] \in Caller /\ ~caller[p].onwire /\ caller[p].reply = "none"
      /\ p \notin granted
  BY DEF IInv, TypeOK, CallersInv, CallerInv
<1>1. /\ c \in Caller /\ c.pc = "calling" /\ c.act = a /\ c.verb = v /\ c.onwire
      /\ c.reply = "none" /\ c.default = caller[p].default
  BY <1>0 DEF Caller
<1>2. caller' = [caller EXCEPT ![p] = c]
  BY DEF Send
<1>3. /\ caller' \in [Callers -> Caller] /\ caller'[p] = c
      /\ \A q \in Callers : q # p => caller'[q] = caller[q]
  BY <1>0, <1>1, <1>2, OneChanges
<1> HIDE DEF c
<1>4. TypeOK'
  BY <1>0, <1>1, <1>3 DEF TypeOK, DeskTypeOK
<1>5. CallersInv'
  BY <1>1, <1>3 DEF IInv, CallersInv, CallerInv
<1>6. OneLiveTimer'
  BY <1>1, <1>3 DEF IInv, OneLiveTimer, Live, Callers
<1>7. AuditIsTrue'
  BY DEF IInv, AuditIsTrue
<1>8. NoAccidentalRun'
  BY <1>0, <1>3, EvidenceStays DEF IInv, TypeOK
<1> QED
  BY <1>4, <1>5, <1>6, <1>7, <1>8 DEF IInv

\* The desk handles a request.
LEMMA ServeStep ==
    ASSUME IInv, NEW p \in Callers, Serve(p)
    PROVE  IInv'
<1> DEFINE a == caller[p].act
           v == caller[p].verb
           c(reply) == [caller[p] EXCEPT !.onwire = FALSE, !.reply = reply]
<1>0. TypeOK /\ caller[p] \in Caller /\ caller[p].onwire /\ caller[p].reply = "none"
      /\ p \notin granted /\ caller[p].pc \notin {"new", "sleeping"}
      /\ a \in Parked /\ v \in Verbs /\ (p \in Timers => v = caller[p].default)
  BY DEF IInv, TypeOK, CallersInv, CallerInv, Serve
<1>1. \A reply \in {"ok", "refused"} :
         /\ c(reply) \in Caller /\ c(reply).pc = caller[p].pc /\ c(reply).act = a
         /\ c(reply).verb = v /\ c(reply).default = caller[p].default
         /\ ~c(reply).onwire /\ c(reply).reply = reply
  BY <1>0 DEF Caller
<1>a. UNCHANGED <<card, timers, audit, crashes, forgets>>
  BY DEF Serve
<1>2. PICK reply \in {"ok", "refused"} :
         /\ caller' = [caller EXCEPT ![p] = c(reply)]
         /\ IF reply = "ok" THEN Decide(a, v) /\ granted' = granted \cup {p}
                           ELSE UNCHANGED <<desk, granted>>
  BY <1>0 DEF Serve
<1> DEFINE d == c(reply)
<1>3. /\ d \in Caller /\ d.pc = caller[p].pc /\ d.act = a /\ d.verb = v
      /\ d.default = caller[p].default /\ ~d.onwire /\ d.reply = reply
  BY <1>1
<1>4. /\ caller' \in [Callers -> Caller] /\ caller'[p] = d
      /\ \A q \in Callers : q # p => caller'[q] = caller[q]
  BY <1>0, <1>2, <1>3, OneChanges
<1> HIDE DEF d, c
<1>5. TypeOK'
  <2>1. DeskTypeOK'
    BY <1>0, <1>2 DEF TypeOK, DeskTypeOK, Decide, Outcome, DeskStates
  <2>2. granted' \subseteq Callers
    BY <1>0, <1>2 DEF TypeOK
  <2>3. \A q \in Callers : q \in granted' <=> caller'[q].reply = "ok"
    BY <1>0, <1>2, <1>3, <1>4 DEF TypeOK
  <2> QED
    BY <2>1, <2>2, <2>3, <1>0, <1>3, <1>4, <1>a DEF TypeOK
<1>6. CallersInv'
  BY <1>0, <1>3, <1>4 DEF IInv, CallersInv, CallerInv
<1>7. OneLiveTimer'
  BY <1>3, <1>4, <1>a DEF IInv, OneLiveTimer, Live, Callers
<1>8. AuditIsTrue'
  BY <1>2, <1>a DEF IInv, AuditIsTrue
<1>9. NoAccidentalRun'
  <2>1. \A q \in granted : /\ q # p /\ caller'[q] = caller[q]
    BY <1>0, <1>4 DEF TypeOK
  <2>2. CASE reply = "refused"
    BY <1>2, <2>1, <2>2, <1>0, EvidenceStays DEF IInv, TypeOK
  <2>3. CASE reply = "ok"
    <3> SUFFICES ASSUME NEW b \in Parked, desk'[b] = "executed"
                 PROVE  \E q \in granted' :
                          /\ caller'[q].act = b /\ caller'[q].verb = "approve"
                          /\ q \in Clicks \/ caller'[q].default = "approve"
      BY DEF NoAccidentalRun
    <3>1. CASE b = a
      <4>1. v = "approve"
        BY <1>0, <1>2, <2>3, <3>1 DEF Decide, Outcome, TypeOK, DeskTypeOK
      <4>2. p \in granted' /\ (p \in Clicks \/ p \in Timers)
        BY <1>2, <2>3 DEF Callers
      <4> QED
        BY <4>1, <4>2, <3>1, <1>0, <1>3, <1>4
    <3>2. CASE b # a
      <4>1. desk[b] = "executed"
        BY <1>0, <1>2, <2>3, <3>2 DEF Decide, TypeOK, DeskTypeOK
      <4> QED
        BY <4>1, <1>2, <2>1, <2>3 DEF IInv, NoAccidentalRun
    <3> QED
      BY <3>1, <3>2
  <2> QED
    BY <2>2, <2>3
<1> QED
  BY <1>5, <1>6, <1>7, <1>8, <1>9 DEF IInv

\* The call of p ends, with a row that tells how.
LEMMA FinishStep ==
    ASSUME IInv, NEW p \in Callers, Finish(p)
    PROVE  IInv'
<1> DEFINE c == [caller[p] EXCEPT !.pc = "done"]
<1>0. TypeOK /\ caller[p] \in Caller /\ caller[p].pc = "calling"
      /\ caller[p].act \in Parked /\ caller[p].verb \in Verbs
  BY DEF IInv, TypeOK, CallersInv, CallerInv, Finish, Answer, TimeOut
<1>1. /\ c \in Caller /\ c.pc = "done" /\ c.act = caller[p].act
      /\ c.verb = caller[p].verb /\ c.onwire = caller[p].onwire
      /\ c.reply = caller[p].reply /\ c.default = caller[p].default
  BY <1>0 DEF Caller
<1>2. caller' = [caller EXCEPT ![p] = c]
  BY DEF Finish, Answer, TimeOut
<1>3. /\ caller' \in [Callers -> Caller] /\ caller'[p] = c
      /\ \A q \in Callers : q # p => caller'[q] = caller[q]
  BY <1>0, <1>1, <1>2, OneChanges
<1> HIDE DEF c
<1>4. PICK failed \in BOOLEAN :
         /\ Write(p, failed) /\ (~failed => caller[p].reply = "ok")
         /\ UNCHANGED <<desk, timers, granted, crashes, forgets>>
         /\ card' \in [Parked -> {"none", "lost", "open", "replaced"}]
  BY <1>0 DEF Finish, Answer, TimeOut, TypeOK, Caller
<1> DEFINE written == [by |-> p, act |-> caller[p].act, decision |-> caller[p].verb,
                       error |-> failed]
<1>5. audit' = audit \cup {written} /\ written \in Row /\ written.by = p
      /\ written.error = failed
  BY <1>0, <1>4 DEF Write, Row
<1> HIDE DEF written
<1>6. TypeOK'
  <2>1. audit' \subseteq Row
    BY <1>0, <1>5 DEF TypeOK
  <2> QED
    BY <2>1, <1>0, <1>1, <1>3, <1>4 DEF TypeOK, DeskTypeOK
<1>7. CallersInv'
  BY <1>1, <1>3, <1>0 DEF IInv, CallersInv, CallerInv
<1>8. OneLiveTimer'
  BY <1>1, <1>3, <1>4 DEF IInv, OneLiveTimer, Live, Callers
<1>9. AuditIsTrue'
  BY <1>0, <1>4, <1>5 DEF IInv, AuditIsTrue, TypeOK
<1>10. NoAccidentalRun'
  BY <1>0, <1>1, <1>3, <1>4, EvidenceStays DEF IInv, TypeOK
<1> QED
  BY <1>6, <1>7, <1>8, <1>9, <1>10 DEF IInv

LEMMA NeedInfoStep ==
    ASSUME IInv, NEW p \in Clicks, NEW a \in Parked, NeedInfo(p, a)
    PROVE  IInv'
<1> DEFINE c == [caller[p] EXCEPT !.pc = "done"]
<1>0. TypeOK /\ p \in Callers /\ caller[p] \in Caller /\ caller[p] = New
  BY DEF IInv, TypeOK, Callers, NeedInfo
<1>1. /\ c \in Caller /\ c.pc = "done" /\ ~c.onwire /\ c.reply = "none"
      /\ c.act = caller[p].act /\ c.verb = caller[p].verb
      /\ c.default = caller[p].default /\ caller[p].reply = "none"
  <2>1. ~caller[p].onwire /\ caller[p].reply = "none"
    BY <1>0 DEF New
  <2> QED
    BY <1>0, <2>1 DEF Caller
<1>2. caller' = [caller EXCEPT ![p] = c]
  BY DEF NeedInfo
<1>3. /\ caller' \in [Callers -> Caller] /\ caller'[p] = c
      /\ \A q \in Callers : q # p => caller'[q] = caller[q]
  BY <1>0, <1>1, <1>2, OneChanges
<1> HIDE DEF c
<1> DEFINE written == [by |-> p, act |-> a, decision |-> "need_info", error |-> FALSE]
<1>4. audit' = audit \cup {written} /\ written \in Row
      /\ written.decision = "need_info"
      /\ UNCHANGED <<desk, card, timers, granted, crashes, forgets>>
  BY <1>0 DEF NeedInfo, Row
<1> HIDE DEF written
<1>5. TypeOK'
  <2>1. audit' \subseteq Row
    BY <1>0, <1>4 DEF TypeOK
  <2> QED
    BY <2>1, <1>0, <1>1, <1>3, <1>4 DEF TypeOK, DeskTypeOK
<1>6. CallersInv'
  BY <1>1, <1>3 DEF IInv, CallersInv, CallerInv
<1>7. OneLiveTimer'
  BY <1>1, <1>3, <1>4 DEF IInv, OneLiveTimer, Live, Callers
<1>8. AuditIsTrue'
  BY <1>4 DEF IInv, AuditIsTrue
<1>9. NoAccidentalRun'
  BY <1>0, <1>1, <1>3, <1>4, EvidenceStays DEF IInv, TypeOK
<1> QED
  BY <1>5, <1>6, <1>7, <1>8, <1>9 DEF IInv

-----------------------------------------------------------------------------
(***************************************************************************)
(* Steps of the desk and of the scheduler                                  *)
(***************************************************************************)
\* The card is posted or lost; the service forgets.
LEMMA DeskStep ==
    ASSUME IInv,
           \/ \E a \in Parked, answered \in BOOLEAN : Submit(a, answered)
           \/ ServiceRestart
    PROVE  IInv'
<1>0. /\ TypeOK /\ UNCHANGED <<caller, timers, audit, granted, crashes>>
      /\ forgets' \in Nat /\ card' \in [Parked -> {"none", "lost", "open", "replaced"}]
  BY DEF IInv, TypeOK, Submit, ServiceRestart
<1>1. desk' \in [Parked -> DeskStates]
      /\ \A b \in Parked : desk'[b] = "executed" => desk[b] = "executed"
  BY DEF IInv, TypeOK, DeskTypeOK, Submit, Park, ServiceRestart, Forget, DeskStates
<1>2. TypeOK'
  BY <1>0, <1>1 DEF TypeOK, DeskTypeOK
<1>3. NoAccidentalRun'
  BY <1>0, <1>1, EvidenceStays DEF IInv, TypeOK
<1>4. CallersInv' /\ OneLiveTimer' /\ AuditIsTrue'
  BY <1>0 DEF IInv, CallersInv, OneLiveTimer, Live, AuditIsTrue
<1> QED
  BY <1>2, <1>3, <1>4 DEF IInv

\* Tasks are cancelled, at least those that their actions no longer know.
LEMMA CancelStep ==
    ASSUME IInv, NEW S, caller' = Cancelled(S),
           timers' \in [Parked -> Timers \cup {None}], crashes' \in Nat,
           \A a \in Parked : timers[a] \in Timers /\ timers'[a] # timers[a]
                              => timers[a] \in S,
           UNCHANGED <<desk, card, audit, granted, forgets>>
    PROVE  IInv'
<1>0. TypeOK
  BY DEF IInv
<1>1. /\ caller' \in [Callers -> Caller]
      /\ \A p \in Callers :
            /\ caller'[p].act = caller[p].act /\ caller'[p].verb = caller[p].verb
            /\ caller'[p].default = caller[p].default
            /\ caller'[p].onwire = caller[p].onwire
            /\ caller'[p].reply = caller[p].reply
            /\ caller'[p].pc = IF p \in S /\ caller[p].pc \in {"sleeping", "calling"}
                               THEN "cancelled" ELSE caller[p].pc
  BY <1>0, CancelledTasks
<1>2. TypeOK'
  BY <1>0, <1>1 DEF TypeOK, DeskTypeOK
<1>3. CallersInv'
  BY <1>1 DEF IInv, CallersInv, CallerInv
<1>4. OneLiveTimer'
  <2> SUFFICES ASSUME NEW t \in Timers, caller'[t].pc \in {"sleeping", "calling"}
               PROVE  timers'[caller'[t].act] = t
    BY DEF OneLiveTimer, Live
  <2>1. t \in Callers /\ t \notin S /\ Live(t) /\ caller'[t].act = caller[t].act
    BY <1>1 DEF Callers, Live
  <2>2. caller[t].act \in Parked /\ timers[caller[t].act] = t
    BY <2>1 DEF IInv, CallersInv, CallerInv, OneLiveTimer, Live
  <2> QED
    BY <2>1, <2>2
<1>5. AuditIsTrue'
  BY DEF IInv, AuditIsTrue
<1>6. NoAccidentalRun'
  BY <1>0, <1>1, EvidenceStays DEF IInv, TypeOK
<1> QED
  BY <1>2, <1>3, <1>4, <1>5, <1>6 DEF IInv

\* A timer is armed in place of the one its action had.
LEMMA ScheduleStep ==
    ASSUME SlackAssumption, IInv, NEW a \in Parked, NEW t \in Timers,
           NEW v \in Verbs, Schedule(a, t, v)
    PROVE  IInv'
<1> DEFINE c == [New EXCEPT !.pc = "sleeping", !.act = a, !.default = v]
           cancelled == Cancelled({timers[a]})
<1>0. TypeOK /\ t \in Callers /\ caller[t] = New /\ t # None
  BY DEF IInv, Callers, Schedule, SlackAssumption
<1>1. /\ c \in Caller /\ c.pc = "sleeping" /\ c.act = a /\ c.default = v
      /\ ~c.onwire /\ c.reply = "none"
  BY DEF Caller, New
<1>2. /\ cancelled \in [Callers -> Caller]
      /\ \A p \in Callers :
            /\ cancelled[p].act = caller[p].act /\ cancelled[p].verb = caller[p].verb
            /\ cancelled[p].default = caller[p].default
            /\ cancelled[p].onwire = caller[p].onwire
            /\ cancelled[p].reply = caller[p].reply
            /\ cancelled[p].pc =
                  IF p \in {timers[a]} /\ caller[p].pc \in {"sleeping", "calling"}
                  THEN "cancelled" ELSE caller[p].pc
  BY <1>0, CancelledTasks
<1>3. caller' = [cancelled EXCEPT ![t] = c]
  BY DEF Schedule
<1> HIDE DEF c, cancelled
<1>4. /\ caller' \in [Callers -> Caller] /\ caller'[t] = c
      /\ \A p \in Callers : p # t => caller'[p] = cancelled[p]
  BY <1>0, <1>1, <1>2, <1>3
<1>5. /\ timers' \in [Parked -> Timers \cup {None}] /\ timers'[a] = t
      /\ \A b \in Parked : b # a => timers'[b] = timers[b]
      /\ UNCHANGED <<desk, card, audit, granted, crashes, forgets>>
  BY <1>0 DEF TypeOK, Schedule
<1>6. caller[t].reply = "none" /\ t \notin granted
  BY <1>0 DEF New, TypeOK
<1>7. TypeOK'
  BY <1>0, <1>1, <1>2, <1>4, <1>5, <1>6 DEF TypeOK, DeskTypeOK
<1>8. CallersInv'
  BY <1>1, <1>2, <1>4 DEF IInv, CallersInv, CallerInv
<1>9. OneLiveTimer'
  <2> SUFFICES ASSUME NEW s \in Timers, caller'[s].pc \in {"sleeping", "calling"}
               PROVE  timers'[caller'[s].act] = s
    BY DEF OneLiveTimer, Live
  <2>1. CASE s = t
    BY <2>1, <1>1, <1>4, <1>5
  <2>2. CASE s # t
    <3>1. s \in Callers /\ s # timers[a] /\ Live(s) /\ caller'[s].act = caller[s].act
      BY <2>2, <1>2, <1>4 DEF Callers, Live
    <3>2. caller[s].act \in Parked /\ timers[caller[s].act] = s
      BY <3>1 DEF IInv, CallersInv, CallerInv, OneLiveTimer, Live
    <3> QED
      BY <3>1, <3>2, <1>5
  <2> QED
    BY <2>1, <2>2
<1>10. AuditIsTrue'
  BY <1>5 DEF IInv, AuditIsTrue
<1>11. NoAccidentalRun'
  <2>1. \A p \in granted : p \in Callers /\ p # t
    BY <1>0, <1>6 DEF TypeOK
  <2> QED
    BY <2>1, <1>0, <1>2, <1>4, <1>5, EvidenceStays DEF IInv, TypeOK
<1> QED
  BY <1>7, <1>8, <1>9, <1>10, <1>11 DEF IInv

LEMMA Inductive == Spec => []IInv
<1>1. Init => IInv
  BY DEF Init, DeskInit, IInv, TypeOK, DeskTypeOK, DeskStates, Caller, New, CallersInv,
         CallerInv, OneLiveTimer, Live, AuditIsTrue, NoAccidentalRun, Callers
<1>2. IInv /\ [Next]_vars => IInv'
  <2> SUFFICES ASSUME IInv, [Next]_vars PROVE IInv'
    OBVIOUS
  <2>t. TypeOK
    BY DEF IInv
  <2>1. CASE \E a \in Parked, answered \in BOOLEAN : Submit(a, answered)
    BY <2>1, DeskStep
  <2>2. CASE ServiceRestart
    BY <2>2, DeskStep
  <2>3. ASSUME NEW c \in Clicks, NEW a \in Parked, NeedInfo(c, a) PROVE IInv'
    BY <2>3, NeedInfoStep
  <2>4. ASSUME NEW c \in Clicks, NEW a \in Parked, NEW v \in Verbs, Click(c, a, v)
        PROVE  IInv'
    <3>1. c \in Callers /\ caller[c].pc = "new" /\ c \notin Timers
      BY <2>4, SlackAssumption DEF Click, Callers, New
    <3> QED
      BY <2>4, <3>1, SendStep DEF Click
  <2>5. ASSUME NEW p \in Callers, Serve(p) PROVE IInv'
    BY <2>5, ServeStep
  <2>6. ASSUME NEW p \in Callers, Finish(p) PROVE IInv'
    BY <2>6, FinishStep
  <2>7. ASSUME NEW t \in Timers, Wake(t) PROVE IInv'
    <3>1. t \in Callers /\ caller[t].pc = "sleeping"
      BY <2>7 DEF Wake, Callers
    <3>2. caller[t].act \in Parked /\ caller[t].default \in Verbs
      BY <3>1 DEF IInv, CallersInv, CallerInv
    <3> QED
      BY <2>7, <3>1, <3>2, SendStep DEF Wake, Live
  <2>8. CASE AClose
    <3>1. [a \in Parked |-> None] \in [Parked -> Timers \cup {None}]
      OBVIOUS
    <3> QED
      BY <2>8, <3>1, <2>t, CancelStep DEF AClose, TypeOK
  <2>9. CASE Crash
    <3>1. [a \in Parked |-> None] \in [Parked -> Timers \cup {None}] /\ crashes + 1 \in Nat
      BY <2>t DEF TypeOK
    <3> QED
      BY <2>9, <3>1, <2>t, CancelStep DEF Crash, TypeOK, Callers
  <2>10. ASSUME NEW a \in Parked, Cancel(a) PROVE IInv'
    <3>1. [timers EXCEPT ![a] = None] \in [Parked -> Timers \cup {None}]
      BY <2>t DEF TypeOK
    <3>2. \A b \in Parked : timers'[b] # timers[b] => timers[b] \in {timers[a]}
      BY <2>10, <2>t DEF Cancel, TypeOK
    <3> QED
      BY <2>10, <3>1, <3>2, <2>t, CancelStep DEF Cancel, TypeOK
  <2>11. ASSUME NEW a \in Parked, NEW t \in Timers, NEW v \in Verbs, Schedule(a, t, v)
         PROVE  IInv'
    BY <2>11, ScheduleStep, SlackAssumption
  <2>12. CASE UNCHANGED vars
    BY <2>12 DEF vars, IInv, TypeOK, DeskTypeOK, CallersInv, OneLiveTimer, Live,
                 AuditIsTrue, NoAccidentalRun
  <2> QED
    BY <2>1, <2>2, <2>3, <2>4, <2>5, <2>6, <2>7, <2>8, <2>9, <2>10, <2>11, <2>12
       DEF Next, BotNext
<1> QED
  BY <1>1, <1>2, PTL DEF Spec

-----------------------------------------------------------------------------
(***************************************************************************)
(* Theorems                                                                *)
(***************************************************************************)
\* However cards are posted, timers armed anew and cancelled, and the bot
\* crashes: an action has one running timer at most, the one cancel() knows.
THEOREM OneTimer == Spec => []OneLiveTimer
<1>1. IInv => OneLiveTimer
  BY DEF IInv
<1> QED
  BY <1>1, Inductive, PTL

\* A row of the audit without an error names a decision the service granted.
THEOREM RowsAreTrue == Spec => []AuditIsTrue
<1>1. IInv => AuditIsTrue
  BY DEF IInv
<1> QED
  BY <1>1, Inductive, PTL

\* "so a forgotten approval can never accidentally execute": an executed
\* action was approved by a click, or by a timer armed to approve it.
THEOREM NothingRunsByAccident == Spec => []NoAccidentalRun
<1>1. IInv => NoAccidentalRun
  BY DEF IInv
<1> QED
  BY <1>1, Inductive, PTL

-----------------------------------------------------------------------------
(***************************************************************************)
(* The desk as the bot uses it                                             *)
(***************************************************************************)
\* An id is parked once, with its card, and an approval that was granted
\* moved its action on for good.
OnceInv ==
    /\ \A a \in Parked : desk[a] # "absent" => card[a] # "none"
    /\ \A p \in granted :
          caller[p].verb = "approve" =>
              card[caller[p].act] # "none" /\ desk[caller[p].act] # "awaiting"
    /\ ApprovedForOne

\* Who was granted what, after a step in which the desk was not asked.
LEMMA GrantsStay ==
    ASSUME IInv, IInv', OnceInv, granted' = granted,
           \A a \in Parked : card[a] # "none" =>
                                card'[a] # "none" /\ (desk'[a] = "awaiting" => desk[a] = "awaiting"),
           \A a \in Parked : desk'[a] # "absent" => card'[a] # "none",
           \A p \in granted : /\ caller'[p].act = caller[p].act
                              /\ caller'[p].verb = caller[p].verb
    PROVE  OnceInv'
<1>1. \A p \in granted : caller[p].act \in Parked
  BY DEF IInv, TypeOK, CallersInv, CallerInv
<1> QED
  BY <1>1 DEF OnceInv, ApprovedForOne

\* A step of the bot leaves the requests that were granted alone.
LEMMA GrantedKeep ==
    ASSUME IInv, [Next]_vars, NEW p \in granted
    PROVE  caller'[p].act = caller[p].act /\ caller'[p].verb = caller[p].verb
<1>0. /\ TypeOK /\ p \in Callers /\ caller[p].reply = "ok" /\ ~caller[p].onwire
      /\ caller[p].pc \notin {"new", "sleeping"} /\ caller[p] # New
      /\ \A q \in Callers : caller[q] \in Caller
  BY DEF IInv, TypeOK, CallersInv, CallerInv, New
<1>1. ASSUME caller'[p] = caller[p]
      PROVE  caller'[p].act = caller[p].act /\ caller'[p].verb = caller[p].verb
  BY <1>1
<1>2. ASSUME NEW S, caller' = Cancelled(S)
      PROVE  caller'[p].act = caller[p].act /\ caller'[p].verb = caller[p].verb
  BY <1>0, <1>2, CancelledTasks
<1>3. ASSUME NEW q \in Callers, NEW a, NEW v, Send(q, a, v),
             caller[q].pc \in {"new", "sleeping"}
      PROVE  caller'[p] = caller[p]
  BY <1>0, <1>3 DEF Send, TypeOK
<1>4. ASSUME NEW c \in Clicks, NEW a \in Parked, NEW v \in Verbs, Click(c, a, v)
      PROVE  caller'[p] = caller[p]
  <2>1. c \in Callers /\ caller[c].pc = "new"
    BY <1>4 DEF Click, New, Callers
  <2> QED
    BY <1>3, <1>4, <2>1 DEF Click
<1>5. ASSUME NEW c \in Clicks, NEW a \in Parked, NeedInfo(c, a)
      PROVE  caller'[p] = caller[p]
  BY <1>0, <1>5 DEF NeedInfo, TypeOK
<1>6. ASSUME NEW q \in Callers, Serve(q) PROVE caller'[p] = caller[p]
  BY <1>0, <1>6 DEF Serve, TypeOK
<1>7. ASSUME NEW q \in Callers, Finish(q)
      PROVE  caller'[p].act = caller[p].act /\ caller'[p].verb = caller[p].verb
  <2>1. caller' = [caller EXCEPT ![q].pc = "done"]
    BY <1>7 DEF Finish, Answer, TimeOut
  <2>2. [caller[q] EXCEPT !.pc = "done"].act = caller[q].act
        /\ [caller[q] EXCEPT !.pc = "done"].verb = caller[q].verb
    BY <1>0 DEF Caller
  <2> QED
    BY <1>0, <2>1, <2>2 DEF TypeOK
<1>8. ASSUME NEW t \in Timers, Wake(t) PROVE caller'[p] = caller[p]
  <2>1. t \in Callers
    BY DEF Callers
  <2> QED
    BY <1>3, <1>8, <2>1 DEF Wake
<1>9. ASSUME NEW a \in Parked, NEW t \in Timers, NEW v \in Verbs, Schedule(a, t, v)
      PROVE  caller'[p].act = caller[p].act /\ caller'[p].verb = caller[p].verb
  <2>1. p # t
    BY <1>0, <1>9 DEF Schedule
  <2>2. caller'[p] = Cancelled({timers[a]})[p]
    BY <1>0, <1>9, <2>1, CancelledTasks DEF Schedule
  <2> QED
    BY <1>0, <2>2, CancelledTasks
<1>10. ASSUME \/ \E a \in Parked : Cancel(a) \/ \E answered \in BOOLEAN : Submit(a, answered)
              \/ AClose \/ Crash \/ ServiceRestart \/ UNCHANGED vars
       PROVE  caller'[p].act = caller[p].act /\ caller'[p].verb = caller[p].verb
  BY <1>1, <1>2, <1>10 DEF Cancel, Submit, AClose, Crash, ServiceRestart, vars
<1> QED
  BY <1>1, <1>4, <1>5, <1>6, <1>7, <1>8, <1>9, <1>10 DEF Next, BotNext

\* The desk moves by its own rules, and only when it serves a request, parks
\* an action or restarts.
LEMMA DeskMoves ==
    ASSUME IInv, [Next]_vars
    PROVE  \/ \E a \in Parked, answered \in BOOLEAN : Submit(a, answered)
           \/ \E p \in Callers : Serve(p)
           \/ ServiceRestart
           \/ /\ desk' = desk /\ granted' = granted
              /\ \A a \in Parked : card[a] # "none" => card'[a] # "none"
<1>1. ASSUME NEW p \in Callers, Finish(p)
      PROVE  /\ desk' = desk /\ granted' = granted
             /\ \A a \in Parked : card[a] # "none" => card'[a] # "none"
  BY <1>1 DEF Finish, Answer, TimeOut, IInv, TypeOK
<1> QED
  BY <1>1 DEF Next, BotNext, NeedInfo, Click, Wake, AClose, Crash, Cancel, Schedule, vars

LEMMA OnceInductive == IInv /\ IInv' /\ OnceInv /\ [Next]_vars => OnceInv'
<1> SUFFICES ASSUME IInv, IInv', OnceInv, [Next]_vars PROVE OnceInv'
  OBVIOUS
<1>0. /\ \A p \in granted : /\ caller'[p].act = caller[p].act
                            /\ caller'[p].verb = caller[p].verb
      /\ TypeOK /\ desk \in [Parked -> DeskStates]
  BY GrantedKeep DEF IInv, TypeOK, DeskTypeOK
<1>1. ASSUME NEW a \in Parked, NEW answered \in BOOLEAN, Submit(a, answered)
      PROVE  OnceInv'
  <2>1. /\ card[a] = "none" /\ card'[a] # "none" /\ granted' = granted
        /\ \A b \in Parked \ {a} : card'[b] = card[b] /\ desk'[b] = desk[b]
    BY <1>0, <1>1 DEF Submit, Park, TypeOK
  <2> QED
    BY <1>0, <2>1, GrantsStay DEF OnceInv
\* Only an action that waits is approved, and so for the first time.
<1>2. ASSUME NEW p \in Callers, Serve(p) PROVE OnceInv'
  <2> DEFINE a == caller[p].act
             v == caller[p].verb
  <2>1. /\ caller[p].onwire /\ p \notin granted /\ a \in Parked /\ v \in Verbs
        /\ card' = card
        /\ caller'[p].act = a /\ caller'[p].verb = v
    <3>1. /\ caller[p].onwire /\ p \notin granted /\ a \in Parked /\ v \in Verbs
          /\ card' = card /\ caller[p] \in Caller
      BY <1>0, <1>2 DEF Serve, IInv, TypeOK, CallersInv, CallerInv
    <3>2. PICK reply \in {"ok", "refused"} :
             caller' = [caller EXCEPT ![p] =
                           [caller[p] EXCEPT !.onwire = FALSE, !.reply = reply]]
      BY <1>2 DEF Serve
    <3> QED
      BY <1>0, <3>1, <3>2 DEF TypeOK, Caller
  <2>2. CASE UNCHANGED <<desk, granted>>
    BY <1>0, <2>1, <2>2, GrantsStay DEF OnceInv
  <2>3. CASE Decide(a, v) /\ granted' = granted \cup {p}
    <3>1. /\ desk[a] # "absent" /\ (v = "approve" => desk[a] = "awaiting")
          /\ desk'[a] \in {"executed", "rejected"}
          /\ \A b \in Parked \ {a} : desk'[b] = desk[b]
      BY <1>0, <2>1, <2>3 DEF Decide, Grants, Outcome, Verbs
    <3>2. \A q \in granted : caller[q].act \in Parked /\ q # p
      BY <2>1 DEF IInv, TypeOK, CallersInv, CallerInv
    <3>3. \A b \in Parked : desk'[b] # "absent" => card'[b] # "none"
      BY <2>1, <3>1 DEF OnceInv
    <3>4. \A q \in granted' : caller'[q].verb = "approve" =>
              card'[caller'[q].act] # "none" /\ desk'[caller'[q].act] # "awaiting"
      BY <1>0, <2>1, <2>3, <3>1, <3>2, <3>3 DEF OnceInv
    <3>5. \A q \in granted : v = "approve" /\ caller[q].verb = "approve" => caller[q].act # a
      BY <3>1 DEF OnceInv
    <3>6. ApprovedForOne'
      BY <1>0, <2>1, <2>3, <3>2, <3>5 DEF OnceInv, ApprovedForOne
    <3> QED
      BY <3>3, <3>4, <3>6 DEF OnceInv
  <2> QED
    BY <1>2, <2>2, <2>3 DEF Serve
<1>3. CASE ServiceRestart
  BY <1>0, <1>3, GrantsStay DEF ServiceRestart, Forget, OnceInv
<1>4. ASSUME desk' = desk, granted' = granted,
             \A a \in Parked : card[a] # "none" => card'[a] # "none"
      PROVE  OnceInv'
  BY <1>0, <1>4, GrantsStay DEF OnceInv
<1> QED
  BY <1>1, <1>2, <1>3, <1>4, DeskMoves

\* For any actions, clicks, timers, crashes and restarts: the desk approves an
\* action for one caller at most.
THEOREM OneApproval == Spec => []ApprovedForOne
<1>1. Init => OnceInv
  BY DEF Init, DeskInit, OnceInv, ApprovedForOne
<1>2. OnceInv => ApprovedForOne
  BY DEF OnceInv
<1> QED
  BY <1>1, <1>2, Inductive, OnceInductive, PTL DEF Spec

\* For any actions, clicks, timers, crashes and restarts: what runs was approved
\* by a click or by a timer armed to, and no other caller was granted it.
THEOREM EveryRunIsForOne == Spec => []RunsForOne
<1>1. NoAccidentalRun /\ ApprovedForOne => RunsForOne
  BY DEF RunsForOne
<1> QED
  BY <1>1, NothingRunsByAccident, OneApproval, PTL

\* Whatever the bot and the network do, the desk they talk to goes through a
\* history that ApprovalDesk allows - the one services/actions implements.
THEOREM DeskObeyed == Spec => DeskSpec
<1>1. Init => DeskInit
  BY DEF Init
<1>2. IInv /\ [Next]_vars => [DeskNext]_desk
  <2> SUFFICES ASSUME IInv, [Next]_vars PROVE [DeskNext]_desk
    OBVIOUS
  <2>1. ASSUME NEW p \in Callers, Serve(p) PROVE [DeskNext]_desk
    <3>1. caller[p].act \in Parked /\ caller[p].verb \in {"approve", "reject"}
      BY <2>1 DEF Serve, IInv, CallersInv, CallerInv, Verbs
    <3> QED
      BY <2>1, <3>1 DEF Serve, DeskNext
  <2> QED
    BY <2>1, DeskMoves DEF Submit, ServiceRestart, DeskNext
<1> QED
  BY <1>1, <1>2, Inductive, PTL DEF Spec, DeskSpec

=============================================================================
