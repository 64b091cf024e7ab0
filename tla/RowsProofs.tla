----------------------------- MODULE RowsProofs ----------------------------
(***************************************************************************)
(* Rows and keys under concurrent requests: an agent's approval under any  *)
(* number of analysts, the push subscriptions of a device under any number *)
(* of requests, users and topics, a connector's tokens under any number of *)
(* refresh sweeps, the risk records of entities under one replica of       *)
(* fusion, and the hash chain of a tenant's audit log.                     *)
(***************************************************************************)
EXTENDS AgentApprovals, PushSubscriptions, OAuthRefresh, EntityRisk, AuditChain,
        FiniteSetTheorems, TLAPS

(***************************************************************************)
(* AgentApprovals: a decision is committed by a request that read the row  *)
(* before, so the invariants about the row need two more about requests    *)
(* under way: who may still commit once the row is decided, and that what  *)
(* a request holds to announce was committed.                              *)
(***************************************************************************)
Says(r) == [status |-> r.status, by |-> r.by]

\* Once the row is decided, a request can only be about to commit if it read
\* the row before: nobody finds it pending again.
ReadersRace ==
    commits # << >> => \A d \in Deciders : pc[d] = "read" => d \in racing

\* A request behind its commit has something committed to announce.
CopiesAreCommitted ==
    /\ \A d \in Deciders : pc[d] = "committed" => commits # << >>
    /\ \A d \in Deciders : pc[d] = "refreshed" => Says(copy[d]) \in ToSet(commits)

DecisionInv ==
    /\ TypeOK
    /\ DecisionIsWhole /\ AnnouncedWasCommitted /\ OnlyRacersReplace
    /\ ReadersRace /\ CopiesAreCommitted

-----------------------------------------------------------------------------
\* The step of a request to another place leaves every other request.
LEMMA MovesOne ==
    ASSUME NEW d \in Deciders, NEW from, NEW to, At(d, from, to),
           pc \in [Deciders -> {"away", "asked", "read", "committed", "refreshed"}],
           to \in {"away", "asked", "read", "committed", "refreshed"}
    PROVE  /\ pc' \in [Deciders -> {"away", "asked", "read", "committed", "refreshed"}]
           /\ pc[d] = from /\ pc'[d] = to
           /\ \A e \in Deciders \ {d} : pc'[e] = pc[e]
BY DEF At

\* Appending keeps what was committed, and adds the new decision last.
LEMMA Appended ==
    ASSUME NEW S, NEW s \in Seq(S), NEW e \in S
    PROVE  /\ Append(s, e) \in Seq(S) /\ Append(s, e) # << >>
           /\ Len(Append(s, e)) = Len(s) + 1
           /\ \A n \in 1 .. Len(s) : Append(s, e)[n] = s[n]
           /\ Append(s, e)[Len(s) + 1] = e
           /\ Last(Append(s, e)) = e
           /\ ToSet(s) \subseteq ToSet(Append(s, e))
BY DEF Last, ToSet

\* The last of a sequence that is not empty is one of its elements.
LEMMA LastIsIn ==
    ASSUME NEW S, NEW s \in Seq(S), s # << >>
    PROVE  Last(s) \in S /\ Last(s) \in ToSet(s)
BY DEF Last, ToSet

\* A row is decided exactly when a decision was committed.
LEMMA DecidedIfCommitted ==
    ASSUME TypeOK, DecisionIsWhole
    PROVE  /\ commits # << >> <=> row.status \in Decided
           /\ commits # << >> => Says(row) \in ToSet(commits)
<1>1. commits # << >> => Last(commits) \in [status: Decided, by: Deciders]
                            /\ Last(commits) \in ToSet(commits)
  BY LastIsIn DEF TypeOK
<1>2. commits # << >> => Says(row) = Last(commits)
  BY DEF DecisionIsWhole, Says
<1>3. commits # << >> => Says(row).status \in Decided
  BY <1>1, <1>2
<1>4. Says(row).status = row.status
  BY DEF Says
<1> QED BY <1>1, <1>2, <1>3, <1>4 DEF DecisionIsWhole

\* The row starts undecided and no request is under way.
LEMMA DecisionsInitially == Init => DecisionInv
<1> SUFFICES ASSUME Init PROVE DecisionInv
  OBVIOUS
<1>1. TypeOK
  BY ApprovalsAssumption DEF Init, TypeOK, Unfiled, Row, Decided
<1>2. DecisionIsWhole /\ AnnouncedWasCommitted /\ OnlyRacersReplace
  BY DEF Init, DecisionIsWhole, AnnouncedWasCommitted, OnlyRacersReplace,
         Unfiled, Decided
<1>3. ReadersRace /\ CopiesAreCommitted
  BY DEF Init, ReadersRace, CopiesAreCommitted
<1> QED BY <1>1, <1>2, <1>3 DEF DecisionInv

\* Every step of every request keeps the invariant.
LEMMA DecisionsInductive == DecisionInv /\ [Next]_vars => DecisionInv'
<1> SUFFICES ASSUME DecisionInv, [Next]_vars PROVE DecisionInv'
  OBVIOUS
<1> DEFINE Unchanged == UNCHANGED <<row, commits, racing, announced>>
<1>0. /\ commits # << >> <=> row.status \in Decided
      /\ commits # << >> => Says(row) \in ToSet(commits)
  BY DecidedIfCommitted DEF DecisionInv
\* A step that leaves the row and its history only moves requests.
<1>q. ASSUME Unchanged, TypeOK', ReadersRace', CopiesAreCommitted'
      PROVE  DecisionInv'
  BY <1>q DEF DecisionInv, DecisionIsWhole, AnnouncedWasCommitted, OnlyRacersReplace
<1>1. CASE File
  <2>1. row' = [row EXCEPT !.status = "pending"] /\ row'.by = row.by
           /\ row'.status = "pending" /\ row' \in Row
    BY <1>1 DEF File, DecisionInv, TypeOK, Row
  <2>2. TypeOK'
    BY <1>1, <2>1 DEF File, DecisionInv, TypeOK, asking
  <2>3. commits = << >>
    BY <1>0, <1>1 DEF File, Decided
  <2>4. DecisionIsWhole'
    BY <1>1, <2>1, <2>3 DEF File, DecisionInv, DecisionIsWhole, Decided
  <2>5. AnnouncedWasCommitted' /\ OnlyRacersReplace' /\ ReadersRace'
           /\ CopiesAreCommitted'
    BY <1>1 DEF File, asking, DecisionInv, AnnouncedWasCommitted, OnlyRacersReplace,
                ReadersRace, CopiesAreCommitted
  <2> QED BY <2>2, <2>4, <2>5 DEF DecisionInv
<1>2. ASSUME NEW d \in Deciders, Ask(d) PROVE DecisionInv'
  <2>1. pc[d] = "away" /\ pc'[d] = "asked" /\ (\A e \in Deciders \ {d} : pc'[e] = pc[e])
    BY <1>2, MovesOne DEF Ask, DecisionInv, TypeOK
  <2>2. TypeOK'
    BY <1>2, MovesOne, ApprovalsAssumption DEF Ask, DecisionInv, TypeOK
  <2>3. ReadersRace' /\ CopiesAreCommitted'
    BY <1>2, <2>1 DEF Ask, DecisionInv, ReadersRace, CopiesAreCommitted
  <2> QED BY <1>2, <1>q, <2>2, <2>3 DEF Ask
<1>3. ASSUME NEW d \in Deciders, Read(d) PROVE DecisionInv'
  <2> DEFINE to == IF Undecided(d) THEN "read" ELSE "away"
  <2>1. pc[d] = "asked" /\ pc'[d] = to /\ (\A e \in Deciders \ {d} : pc'[e] = pc[e])
    BY <1>3, MovesOne DEF Read, DecisionInv, TypeOK
  <2>2. TypeOK'
    BY <1>3, MovesOne DEF Read, DecisionInv, TypeOK
  <2>3. commits # << >> => to = "away"
    BY <1>0 DEF Undecided, Decided
  <2>4. ReadersRace' /\ CopiesAreCommitted'
    BY <1>3, <2>1, <2>3 DEF Read, DecisionInv, ReadersRace, CopiesAreCommitted
  <2> QED BY <1>3, <1>q, <2>2, <2>4 DEF Read
<1>4. ASSUME NEW d \in Deciders, Commit(d) PROVE DecisionInv'
  <2> DEFINE new == [status |-> wants[d].status, by |-> d]
             S   == [status: Decided, by: Deciders]
  <2>1. pc[d] = "read" /\ pc'[d] = "committed"
           /\ (\A e \in Deciders \ {d} : pc'[e] = pc[e])
    BY <1>4, MovesOne DEF Commit, DecisionInv, TypeOK
  <2>2. new \in S /\ commits \in Seq(S) /\ commits' = Append(commits, new)
    BY <1>4 DEF Commit, DecisionInv, TypeOK
  <2>3. row' \in Row /\ Says(row') = new
    BY <1>4 DEF Commit, Decide, Says, DecisionInv, TypeOK, Row
  <2>4. racing' = IF commits = << >> THEN {e \in Deciders : pc[e] = "read"}
                  ELSE racing
    BY <1>4 DEF Commit
  <2>5. TypeOK'
    BY <1>4, <2>2, <2>3, <2>4, MovesOne, Appended DEF Commit, DecisionInv, TypeOK
  <2>a. /\ commits' # << >> /\ Last(commits') = new
        /\ ToSet(commits) \subseteq ToSet(commits')
        /\ Len(commits') = Len(commits) + 1 /\ Len(commits) \in Nat
        /\ \A n \in 1 .. Len(commits) : commits'[n] = commits[n]
        /\ commits'[Len(commits) + 1] = new
    <3> HIDE DEF new, S
    <3> QED BY <2>2, Appended
  <2>6. DecisionIsWhole'
    BY <2>3, <2>a DEF DecisionIsWhole, Says
  <2>7. AnnouncedWasCommitted'
    BY <1>4, <2>a DEF Commit, DecisionInv, AnnouncedWasCommitted
  <2>8. \A e \in Deciders : pc[e] = "read" => e \in racing'
    BY <2>4 DEF DecisionInv, ReadersRace
  <2>9. OnlyRacersReplace'
    <3> SUFFICES ASSUME NEW n \in 2 .. Len(commits')
                 PROVE  commits'[n].by \in racing'
      BY DEF OnlyRacersReplace
    <3>1. CASE n \in 2 .. Len(commits)
      <4>1. commits # << >> /\ racing' = racing
        BY <3>1, <2>2, <2>4
      <4>2. commits'[n] = commits[n]
        BY <3>1, <2>a
      <4> QED BY <3>1, <4>1, <4>2 DEF DecisionInv, OnlyRacersReplace
    <3>2. CASE n = Len(commits) + 1
      <4>1. commits'[n] = new
        BY <3>2, <2>a
      <4> QED BY <4>1, <2>1, <2>8
    <3> QED BY <3>1, <3>2, <2>a
  <2>10. ReadersRace'
    BY <2>1, <2>8 DEF ReadersRace
  <2>11. CopiesAreCommitted'
    <3>1. copy' = copy
      BY <1>4 DEF Commit
    <3> QED BY <2>a, <3>1, <2>1 DEF DecisionInv, CopiesAreCommitted
  <2> QED BY <2>5, <2>6, <2>7, <2>9, <2>10, <2>11 DEF DecisionInv
<1>5. ASSUME NEW d \in Deciders, CommitFails(d) PROVE DecisionInv'
  <2>1. pc'[d] = "away" /\ (\A e \in Deciders \ {d} : pc'[e] = pc[e])
    BY <1>5, MovesOne DEF CommitFails, DecisionInv, TypeOK
  <2>2. TypeOK'
    BY <1>5, MovesOne DEF CommitFails, DecisionInv, TypeOK
  <2>3. ReadersRace' /\ CopiesAreCommitted'
    BY <1>5, <2>1 DEF CommitFails, DecisionInv, ReadersRace, CopiesAreCommitted
  <2> QED BY <1>5, <1>q, <2>2, <2>3 DEF CommitFails
<1>6. ASSUME NEW d \in Deciders, Refresh(d) PROVE DecisionInv'
  <2>1. pc[d] = "committed" /\ pc'[d] = "refreshed"
           /\ (\A e \in Deciders \ {d} : pc'[e] = pc[e])
    BY <1>6, MovesOne DEF Refresh, DecisionInv, TypeOK
  <2>2. TypeOK'
    BY <1>6, MovesOne DEF Refresh, DecisionInv, TypeOK
  <2>3. /\ copy'[d] = row
        /\ \A e \in Deciders \ {d} : copy'[e] = copy[e]
    BY <1>6 DEF Refresh, DecisionInv, TypeOK
  <2>4. Says(row) \in ToSet(commits)
    BY <1>0, <2>1 DEF DecisionInv, CopiesAreCommitted
  <2>5. ReadersRace'
    BY <1>6, <2>1 DEF Refresh, DecisionInv, ReadersRace
  <2>6. CopiesAreCommitted'
    BY <1>6, <2>1, <2>3, <2>4 DEF Refresh, DecisionInv, CopiesAreCommitted
  <2> QED BY <1>6, <1>q, <2>2, <2>5, <2>6 DEF Refresh
<1>7. ASSUME NEW d \in Deciders, NEW heard \in BOOLEAN, Notify(d, heard)
      PROVE  DecisionInv'
  <2>1. pc[d] = "refreshed" /\ pc'[d] = "away"
           /\ (\A e \in Deciders \ {d} : pc'[e] = pc[e])
    BY <1>7, MovesOne DEF Notify, DecisionInv, TypeOK
  <2>2. copy[d] \in Row /\ announced \in Seq(Row)
           /\ Says(copy[d]) \in ToSet(commits)
    BY <2>1 DEF DecisionInv, TypeOK, CopiesAreCommitted
  <2>3. announced' = announced \/ announced' = Append(announced, copy[d])
    BY <1>7 DEF Notify
  <2>4. TypeOK'
    BY <1>7, <2>2, <2>3, MovesOne DEF Notify, DecisionInv, TypeOK
  <2>5. AnnouncedWasCommitted'
    BY <1>7, <2>2, <2>3, Appended DEF Notify, DecisionInv, AnnouncedWasCommitted, Says
  <2>6. DecisionIsWhole' /\ OnlyRacersReplace'
    BY <1>7 DEF Notify, DecisionInv, DecisionIsWhole, OnlyRacersReplace
  <2>7. ReadersRace' /\ CopiesAreCommitted'
    BY <1>7, <2>1 DEF Notify, DecisionInv, ReadersRace, CopiesAreCommitted
  <2> QED BY <2>4, <2>5, <2>6, <2>7 DEF DecisionInv
<1>8. ASSUME NEW d \in Deciders, Crash(d) PROVE DecisionInv'
  <2>1. PICK at \in {"asked", "read", "committed", "refreshed"} : At(d, at, "away")
    BY <1>8 DEF Crash
  <2>2. pc'[d] = "away" /\ (\A e \in Deciders \ {d} : pc'[e] = pc[e])
    BY <2>1, MovesOne DEF DecisionInv, TypeOK
  <2>3. TypeOK'
    BY <1>8, <2>1, MovesOne DEF Crash, DecisionInv, TypeOK
  <2>4. ReadersRace' /\ CopiesAreCommitted'
    BY <1>8, <2>2 DEF Crash, DecisionInv, ReadersRace, CopiesAreCommitted
  <2> QED BY <1>8, <1>q, <2>3, <2>4 DEF Crash
<1>9. CASE UNCHANGED vars
  BY <1>9 DEF vars, asking, DecisionInv, TypeOK, DecisionIsWhole,
     AnnouncedWasCommitted, OnlyRacersReplace, ReadersRace, CopiesAreCommitted
<1> QED
  BY <1>1, <1>2, <1>3, <1>4, <1>5, <1>6, <1>7, <1>8, <1>9 DEF Next

\* However the requests of any number of analysts overlap, fail or crash,
\* the row holds the last committed decision whole: decide_approval writes
\* the status and the name in one UPDATE.
THEOREM RowHoldsOneDecision == Spec => []DecisionIsWhole
<1>1. DecisionInv => DecisionIsWhole
  BY DEF DecisionInv
<1> QED BY DecisionsInitially, DecisionsInductive, <1>1, PTL DEF Spec

\* What is announced was committed, although it is read again and sent after
\* the transaction, when the row may be another analyst's.
THEOREM AnnouncementsAreCommitted == Spec => []AnnouncedWasCommitted
<1>1. DecisionInv => AnnouncedWasCommitted
  BY DEF DecisionInv
<1> QED BY DecisionsInitially, DecisionsInductive, <1>1, PTL DEF Spec

\* Only an analyst whose request had read the row before it was first decided
\* can replace a decision: the guard of decide_approval holds everyone else
\* off for good.
THEOREM OnlyEarlyReadersReplace == Spec => []OnlyRacersReplace
<1>1. DecisionInv => OnlyRacersReplace
  BY DEF DecisionInv
<1> QED BY DecisionsInitially, DecisionsInductive, <1>1, PTL DEF Spec

\* For any number of analysts and requests, overlapping, failing or crashing,
\* a decision stands.
THEOREM DecisionsStand == Spec => []DecisionStands
<1>1. DecisionInv => DecisionStands
  BY DEF DecisionInv, DecisionStands
<1> QED BY DecisionsInitially, DecisionsInductive, <1>1, PTL DEF Spec

-----------------------------------------------------------------------------
(***************************************************************************)
(* PushSubscriptions: a device is found under what it last asked for,      *)
(* whatever requests overlap, and under nothing else unless they do.       *)
(***************************************************************************)

Request == [pc: {"new", "subscribe", "upsert", "remove", "delete", "send", "get",
                 "push", "touch", "done"},
            body: Subscription \cup Targets \cup {None},
            seen: Subscription \cup {None}]

Typed ==
    /\ record \in Subscription \cup {None} /\ wanted \in Subscription \cup {None}
    /\ request \in [Requests -> Request]

\* What a request works from: a subscription, and a record that was there.
WellRead ==
    \A r \in Requests :
        /\ request[r].pc \in {"subscribe", "upsert"} => request[r].body \in Subscription
        /\ request[r].pc \in {"delete", "push", "touch"} => request[r].seen # None

\* Without overlap one request is open, and what it has read still holds.
Alone ==
    ~overlapped => \A q, r \in Requests : Open(q) /\ Open(r) => q = r
Fresh ==
    ~overlapped /\ expired = {} =>
        /\ record = wanted
        /\ \A r \in Requests :
              request[r].pc \in {"upsert", "delete", "push", "touch"}
                  => request[r].seen = record

PushInv == Typed /\ WellRead /\ Alone /\ Fresh /\ WantedIsReached /\ OptOutHonoured

-----------------------------------------------------------------------------
(***************************************************************************)
(* Lemmas                                                                  *)
(***************************************************************************)
\* A step of request r that changes what it has read changes no other.
LEMMA Moved ==
    ASSUME Typed, NEW r \in Requests, NEW to, NEW seen, Moves(r, to, seen)
    PROVE  /\ request'[r] = [pc |-> to, body |-> request[r].body, seen |-> seen]
           /\ \A q \in Requests : q # r => request'[q] = request[q]
           /\ DOMAIN request' = Requests /\ request' = [q \in Requests |-> request'[q]]
<1>1. request' = [q \in Requests |-> IF q = r THEN [request[r] EXCEPT !.pc = to, !.seen = seen]
                                     ELSE request[q]]
  BY DEF Typed, Moves
<1>2. request[r] \in Request
  BY DEF Typed
<1> QED
  BY <1>1, <1>2 DEF Request

LEMMA MovedTyped ==
    ASSUME Typed, NEW r \in Requests, NEW to, NEW seen, Moves(r, to, seen),
           to \in {"upsert", "delete", "get", "push", "touch", "remove", "done"},
           seen \in Subscription \cup {None}
    PROVE  request' \in [Requests -> Request]
<1>a. request[r] \in Request
  BY DEF Typed
<1>b. request'[r] = [pc |-> to, body |-> request[r].body, seen |-> seen]
  BY Moved
<1>1. request'[r] \in Request
  BY <1>a, <1>b DEF Request
<1>2. \A q \in Requests : request'[q] \in Request
  BY <1>1, Moved DEF Typed
<1> QED
  BY <1>2, Moved

\* An open request that goes on, or ends, leaves no other open.
LEMMA StaysAlone ==
    ASSUME Typed, Alone, NEW r \in Requests, NEW to, NEW seen, Moves(r, to, seen),
           Open(r), UNCHANGED overlapped
    PROVE  Alone'
BY Moved DEF Alone, Open, Typed, Request

\* While r is the open request, no other holds what it has read.
LEMMA OthersClosed ==
    ASSUME Typed, Alone, ~overlapped, NEW r \in Requests, Open(r),
           NEW q \in Requests, q # r
    PROVE  request[q].pc \in {"new", "done"}
BY DEF Alone, Open

-----------------------------------------------------------------------------
(***************************************************************************)
(* Steps                                                                   *)
(***************************************************************************)
\* A step of an open request that changes only what the request has read.
LEMMA ReadingStep ==
    ASSUME PushInv, NEW r \in Requests, NEW to, NEW seen, Moves(r, to, seen), Open(r),
           to \in {"upsert", "delete", "get", "push", "touch", "remove", "done"},
           seen \in Subscription \cup {None},
           to = "upsert" => request[r].pc = "subscribe",
           to \in {"delete", "push", "touch"} => seen # None,
           ~overlapped /\ expired = {} /\ to \in {"upsert", "delete", "push", "touch"}
               => seen = record,
           UNCHANGED <<record, topic_sets, user_sets, wanted, overlapped, expired>>
    PROVE  PushInv'
<1> USE DEF PushInv
<1>a. /\ request'[r].pc = to /\ request'[r].body = request[r].body
      /\ request'[r].seen = seen
      /\ \A q \in Requests \ {r} : request'[q] = request[q]
  <2>1. /\ request'[r] = [pc |-> to, body |-> request[r].body, seen |-> seen]
        /\ \A q \in Requests : q # r => request'[q] = request[q]
    BY Moved
  <2> QED
    BY <2>1
<1>1. Typed'
  BY MovedTyped DEF Typed
<1>2. WellRead'
  BY <1>a DEF WellRead
<1>3. Alone'
  BY StaysAlone
<1>4. Fresh'
  BY <1>a DEF Fresh
<1>5. WantedIsReached' /\ OptOutHonoured'
  BY DEF WantedIsReached, OptOutHonoured, UserOf
<1> QED
  BY <1>1, <1>2, <1>3, <1>4, <1>5

\* What a step of r leaves behind.
Left(r, to, seen) ==
    /\ request'[r].pc = to /\ request'[r].body = request[r].body
    /\ request'[r].seen = seen
    /\ \A q \in Requests \ {r} : request'[q] = request[q]

LEMMA BeginStep ==
    ASSUME PushInv, NEW r \in Requests, NEW to, NEW body, Begin(r, to, body),
           \/ to = "subscribe" /\ body \in Subscription
           \/ to = "remove" /\ body = None
           \/ to = "send" /\ body \in Targets
    PROVE  PushInv'
<1> USE DEF PushInv
<1>0. request[r] \in Request /\ request \in [Requests -> Request]
  BY DEF Typed
<1>a. request' = [q \in Requests |-> IF q = r THEN [request[r] EXCEPT !.pc = to, !.body = body]
                                     ELSE request[q]]
  BY <1>0 DEF Begin
<1>b. request'[r] = [pc |-> to, body |-> body, seen |-> request[r].seen]
  BY <1>a, <1>0 DEF Request
<1>c. /\ request'[r] \in Request
      /\ \A q \in Requests : q # r => request'[q] = request[q]
  BY <1>a, <1>b, <1>0 DEF Request
<1>d. request'[r].pc = to /\ request'[r].body = body
  BY <1>b
<1>1. Typed'
  BY <1>a, <1>c, <1>0 DEF Typed, Begin
<1>2. WellRead'
  BY <1>c, <1>d DEF WellRead
<1>3. Alone'
  <2>1. CASE Busy
    BY <2>1 DEF Begin, Alone
  <2>2. CASE ~Busy
    BY <2>2, <1>c DEF Busy, Alone, Open
  <2> QED
    BY <2>1, <2>2
<1>4. Fresh'
  BY <1>c, <1>d DEF Fresh, Begin
<1>5. WantedIsReached' /\ OptOutHonoured'
  BY DEF WantedIsReached, OptOutHonoured, UserOf, Begin
<1> QED
  BY <1>1, <1>2, <1>3, <1>4, <1>5

LEMMA UpsertStep ==
    ASSUME None \notin Subscription, PushInv, NEW r \in Requests, Upsert(r)
    PROVE  PushInv'
<1> USE DEF PushInv
<1>0. Open(r) /\ Moves(r, "done", None) /\ request[r].pc = "upsert"
  BY DEF Upsert, Stands, Open
<1>a. Left(r, "done", None)
  <2>1. /\ request'[r] = [pc |-> "done", body |-> request[r].body, seen |-> None]
        /\ \A q \in Requests : q # r => request'[q] = request[q]
    BY <1>0, Moved
  <2> QED
    BY <2>1 DEF Left
<1>b. request[r].body \in Subscription
  BY <1>0 DEF WellRead
<1>1. Typed'
  BY <1>0, <1>b, MovedTyped DEF Typed, Upsert
<1>2. WellRead'
  BY <1>a DEF WellRead, Left
<1>3. Alone'
  BY <1>0, StaysAlone DEF Upsert
<1>4. Fresh'
  <2> SUFFICES ASSUME ~overlapped
               PROVE  Fresh'
    BY DEF Fresh, Upsert
  <2>1. \A q \in Requests : request'[q].pc \in {"new", "done"}
    BY <1>0, <1>a, OthersClosed DEF Left
  <2> QED
    BY <2>1 DEF Fresh, Upsert
<1>5. WantedIsReached'
  <2>1. request[r].body.topics \cap Dropped(request[r].seen, request[r].body) = {}
    BY DEF Dropped
  <2> QED
    BY <1>b, <2>1 DEF WantedIsReached, Upsert, UserOf
<1>6. OptOutHonoured'
  <2> SUFFICES ASSUME ~overlapped, expired = {}
               PROVE  topic_sets' = request[r].body.topics
    BY <1>b DEF OptOutHonoured, Upsert
  <2>1. request[r].seen = wanted
    BY <1>0 DEF Fresh
  <2> QED
    BY <2>1 DEF OptOutHonoured, Upsert, Dropped
<1> QED
  BY <1>1, <1>2, <1>3, <1>4, <1>5, <1>6

LEMMA DeleteStep ==
    ASSUME PushInv, NEW r \in Requests, Delete(r)
    PROVE  PushInv'
<1> USE DEF PushInv
<1>0. Open(r) /\ Moves(r, "done", None) /\ request[r].pc = "delete"
  BY DEF Delete, Stands, Open
<1>a. Left(r, "done", None)
  <2>1. /\ request'[r] = [pc |-> "done", body |-> request[r].body, seen |-> None]
        /\ \A q \in Requests : q # r => request'[q] = request[q]
    BY <1>0, Moved
  <2> QED
    BY <2>1 DEF Left
<1>1. Typed'
  BY <1>0, MovedTyped DEF Typed, Delete
<1>2. WellRead'
  BY <1>a DEF WellRead, Left
<1>3. Alone'
  BY <1>0, StaysAlone DEF Delete
<1>4. Fresh'
  <2> SUFFICES ASSUME ~overlapped
               PROVE  Fresh'
    BY DEF Fresh, Delete
  <2>1. \A q \in Requests : request'[q].pc \in {"new", "done"}
    BY <1>0, <1>a, OthersClosed DEF Left
  <2> QED
    BY <2>1 DEF Fresh, Delete
<1>5. WantedIsReached'
  BY DEF WantedIsReached, Delete
<1>6. OptOutHonoured'
  <2> SUFFICES ASSUME ~overlapped, expired = {}
               PROVE  topic_sets' = {}
    BY DEF OptOutHonoured, Delete
  <2>1. request[r].seen = wanted /\ wanted # None
    BY <1>0 DEF Fresh, WellRead
  <2> QED
    BY <2>1 DEF OptOutHonoured, Delete
<1> QED
  BY <1>1, <1>2, <1>3, <1>4, <1>5, <1>6

\* The write of a delivery puts back the record it had read.
LEMMA TouchStep ==
    ASSUME PushInv, NEW r \in Requests, Touch(r)
    PROVE  PushInv'
<1> USE DEF PushInv
<1>0. Open(r) /\ Moves(r, "done", None) /\ request[r].pc = "touch"
  BY DEF Touch, Stands, Open
<1>a. Left(r, "done", None)
  <2>1. /\ request'[r] = [pc |-> "done", body |-> request[r].body, seen |-> None]
        /\ \A q \in Requests : q # r => request'[q] = request[q]
    BY <1>0, Moved
  <2> QED
    BY <2>1 DEF Left
<1>b. request[r].seen \in Subscription \cup {None} /\ request[r].seen # None
  BY <1>0 DEF Typed, Request, WellRead
<1>1. Typed'
  BY <1>0, <1>b, MovedTyped DEF Typed, Touch
<1>2. WellRead'
  BY <1>a DEF WellRead, Left
<1>3. Alone'
  BY <1>0, StaysAlone DEF Touch
<1>4. Fresh'
  <2> SUFFICES ASSUME ~overlapped, expired = {}
               PROVE  Fresh'
    BY DEF Fresh, Touch
  <2>1. \A q \in Requests : request'[q].pc \in {"new", "done"}
    BY <1>0, <1>a, OthersClosed DEF Left
  <2>2. record' = wanted'
    BY <1>0 DEF Fresh, Touch
  <2> QED
    BY <2>1, <2>2 DEF Fresh
<1>5. WantedIsReached' /\ OptOutHonoured'
  BY <1>b DEF WantedIsReached, OptOutHonoured, UserOf, Touch
<1> QED
  BY <1>1, <1>2, <1>3, <1>4, <1>5

LEMMA ExpireStep ==
    ASSUME PushInv, Expire
    PROVE  PushInv'
<1>1. expired' # {} /\ UNCHANGED <<request, wanted, overlapped>>
  BY DEF Expire
<1>2. record' \in {record, None}
  BY DEF Expire
<1> QED
  BY <1>1, <1>2 DEF PushInv, Typed, WellRead, Alone, Open, Fresh, WantedIsReached,
                    OptOutHonoured

LEMMA PushInductive ==
    ASSUME None \notin Subscription
    PROVE  PushSpec => []PushInv
<1>1. PushInit => PushInv
  BY DEF PushInit, PushInv, Typed, Request, Nothing, WellRead, Alone, Open, Fresh,
         WantedIsReached, OptOutHonoured, Subscription, UserOf
<1>2. PushInv /\ [PushNext]_push_vars => PushInv'
  <2> SUFFICES ASSUME PushInv, [PushNext]_push_vars PROVE PushInv'
    OBVIOUS
  <2>a. \A r \in Requests : request[r] \in Request
    BY DEF PushInv, Typed
  <2>1. ASSUME NEW r \in Requests, Subscribe(r) PROVE PushInv'
    BY <2>1, BeginStep DEF Subscribe
  <2>2. ASSUME NEW r \in Requests, Unsubscribe(r) PROVE PushInv'
    BY <2>2, BeginStep DEF Unsubscribe
  <2>3. ASSUME NEW r \in Requests, Send(r) PROVE PushInv'
    BY <2>3, BeginStep DEF Send
  <2>4. ASSUME NEW r \in Requests, ReadExisting(r) PROVE PushInv'
    BY <2>4, ReadingStep DEF ReadExisting, Stands, Open, PushInv, Typed
  <2>5. ASSUME NEW r \in Requests, Upsert(r) PROVE PushInv'
    BY <2>5, UpsertStep
  <2>6. ASSUME NEW r \in Requests, ReadRemoved(r) PROVE PushInv'
    <3>1. Open(r) /\ record \in Subscription \cup {None}
      BY <2>6 DEF ReadRemoved, Stands, Open, PushInv, Typed
    <3>2. CASE record = None
      BY <2>6, <3>1, <3>2, ReadingStep DEF ReadRemoved
    <3>3. CASE record # None
      BY <2>6, <3>1, <3>3, ReadingStep DEF ReadRemoved
    <3> QED
      BY <3>2, <3>3
  <2>7. ASSUME NEW r \in Requests, Delete(r) PROVE PushInv'
    BY <2>7, DeleteStep
  <2>8. ASSUME NEW r \in Requests, List(r) PROVE PushInv'
    <3>1. Open(r)
      BY <2>8 DEF List, Stands, Open
    <3>2. CASE Lists(request[r].body)
      BY <2>8, <3>1, <3>2, ReadingStep DEF List
    <3>3. CASE ~Lists(request[r].body)
      BY <2>8, <3>1, <3>3, ReadingStep DEF List
    <3> QED
      BY <3>2, <3>3
  <2>9. ASSUME NEW r \in Requests, Get(r) PROVE PushInv'
    <3>1. Open(r) /\ record \in Subscription \cup {None}
      BY <2>9 DEF Get, Stands, Open, PushInv, Typed
    <3>2. CASE record = None
      BY <2>9, <3>1, <3>2, ReadingStep DEF Get
    <3>3. CASE record # None
      BY <2>9, <3>1, <3>3, ReadingStep DEF Get
    <3> QED
      BY <3>2, <3>3
  <2>10. ASSUME NEW r \in Requests, Delivered(r) PROVE PushInv'
    <3>1. Open(r) /\ request[r].pc = "push"
      BY <2>10 DEF Delivered, Stands, Open
    <3>2. /\ request[r].seen \in Subscription \cup {None} /\ request[r].seen # None
          /\ ~overlapped /\ expired = {} => request[r].seen = record
      BY <3>1, <2>a DEF Request, PushInv, WellRead, Fresh
    <3> QED
      BY <2>10, <3>1, <3>2, ReadingStep DEF Delivered
  <2>11. ASSUME NEW r \in Requests, Undelivered(r) PROVE PushInv'
    <3>1. Open(r)
      BY <2>11 DEF Undelivered, Stands, Open
    <3>2. PICK to \in {"remove", "done"} : Moves(r, to, None)
      BY <2>11 DEF Undelivered
    <3> QED
      BY <2>11, <3>1, <3>2, ReadingStep DEF Undelivered
  <2>12. ASSUME NEW r \in Requests, Touch(r) PROVE PushInv'
    BY <2>12, TouchStep
  <2>13. CASE Expire
    BY <2>13, ExpireStep
  <2>14. CASE UNCHANGED push_vars
    BY <2>14 DEF push_vars, PushInv, Typed, WellRead, Alone, Open, Fresh, WantedIsReached,
                 OptOutHonoured
  <2> QED
    BY <2>1, <2>2, <2>3, <2>4, <2>5, <2>6, <2>7, <2>8, <2>9, <2>10, <2>11, <2>12,
       <2>13, <2>14 DEF PushNext
<1> QED
  BY <1>1, <1>2, PTL DEF PushSpec

-----------------------------------------------------------------------------
(***************************************************************************)
(* Theorems                                                                *)
(***************************************************************************)
\* "target everyone subscribed to a topic": whatever subscribes, removals
\* and deliveries overlap, a device whose last request to take effect was a
\* subscription has its record and is in every set it asked for.
THEOREM SubscribersAreReached ==
    ASSUME None \notin Subscription
    PROVE  PushSpec => []WantedIsReached
<1>1. PushInv => WantedIsReached
  BY DEF PushInv
<1> QED
  BY <1>1, PushInductive, PTL

\* "prune the subscription from old topic sets": as long as the requests of
\* a device come one after the other it is in the sets of no other topics.
THEOREM OptOutsAreHonoured ==
    ASSUME None \notin Subscription
    PROVE  PushSpec => []OptOutHonoured
<1>1. PushInv => OptOutHonoured
  BY DEF PushInv
<1> QED
  BY <1>1, PushInductive, PTL

-----------------------------------------------------------------------------
(***************************************************************************)
(* OAuthRefresh: a sweep writes the answer to an exchange that it made     *)
(* with a token it had read before, so the invariant must say which        *)
(* tokens the provider still accepts: with a provider that does not        *)
(* rotate all that anyone holds, with one that rotates what a sweep is     *)
(* about to write, which no other sweep can have used up.                  *)
(***************************************************************************)
\* The provider has issued every token that is in the row, in a sweep's copy
\* or in an answer: one it issues next is none of them.
TokensIssued ==
    /\ OAuthTypeOK
    /\ connector.token <= issued
    /\ \A w \in Workers : loaded[w].token <= issued /\ answer[w] <= issued

\* A provider that does not rotate accepts what the row, the sweeps and the
\* answers hold.
StaysGood ==
    ~broken /\ ~rotates =>
        /\ connector.token \in valid
        /\ \A w \in Workers :
              /\ sweeper[w] = "exchange" => loaded[w].token \in valid
              /\ sweeper[w] = "write" => answer[w] \in valid

\* One that rotates gave the token of a sweep that is about to write to that
\* sweep alone: nobody else can use it up.
OwnAnswer(w) ==
    sweeper[w] = "write" =>
        /\ answer[w] \in valid /\ answer[w] # connector.token
        /\ \A v \in Workers :
              /\ sweeper[v] = "exchange" => loaded[v].token # answer[w]
              /\ v # w /\ sweeper[v] = "write" => answer[v] # answer[w]

AnswersAreOwn == ~broken /\ rotates => \A w \in Workers : OwnAnswer(w)

OAuthInv == TokensIssued /\ StaysGood /\ AnswersAreOwn /\ TokenUsable

\* What the types say of the tokens.
LEMMA OAuthFacts ==
    ASSUME TokensIssued
    PROVE  /\ issued \in Nat \ {0} /\ issued <= MaxTokens /\ MaxTokens \in Nat
           /\ valid \subseteq 1 .. issued
           /\ connector.token \in 1 .. issued
           /\ \A w \in Workers :
                 loaded[w].token \in 1 .. issued /\ answer[w] \in 1 .. issued
BY OAuthAssumption
   DEF TokensIssued, OAuthTypeOK, ConnectorRow, Loaded

LEMMA OAuthInitially == OAuthInit => OAuthInv
<1> SUFFICES ASSUME OAuthInit PROVE OAuthInv
  OBVIOUS
<1>1. /\ 1 \in 1 .. MaxTokens /\ 0 \in 0 .. AlarmThreshold /\ 0 \in 0 .. MaxStops
      /\ 1 \in 1 .. 1 /\ 1 <= 1
  BY OAuthAssumption
<1>2. Consented \in ConnectorRow /\ Copy(Consented) \in Loaded
  BY <1>1 DEF Consented, Copy, ConnectorRow, Loaded, Health
<1>3. Consented.token = 1 /\ Copy(Consented).token = 1
  BY DEF Consented, Copy
<1>4. OAuthTypeOK
  BY <1>1, <1>2 DEF OAuthInit, OAuthTypeOK
<1>5. TokensIssued
  BY <1>1, <1>3, <1>4 DEF OAuthInit, TokensIssued
<1>6. StaysGood /\ AnswersAreOwn /\ TokenUsable
  BY <1>3 DEF OAuthInit, StaysGood, AnswersAreOwn, OwnAnswer, TokenUsable
<1> QED BY <1>5, <1>6 DEF OAuthInv

\* Steps that leave tokens and sweeps alone.
LEMMA TokensKept ==
    ASSUME OAuthInv, OAuthTypeOK',
           UNCHANGED <<provider, sweep>>,
           connector'.token = connector.token,
           ~broken' => ~broken
    PROVE  OAuthInv'
<1>1. UNCHANGED <<rotates, valid, issued, sweeper, loaded, answer>>
  BY DEF provider, sweep
<1>2. TokensIssued'
  BY <1>1 DEF OAuthInv, TokensIssued
<1>3. StaysGood'
  BY <1>1 DEF OAuthInv, StaysGood
<1>4. AnswersAreOwn'
  BY <1>1 DEF OAuthInv, AnswersAreOwn, OwnAnswer
<1>5. TokenUsable'
  BY <1>1 DEF OAuthInv, TokenUsable
<1> QED BY <1>2, <1>3, <1>4, <1>5 DEF OAuthInv

LEMMA SelectKeeps ==
    ASSUME OAuthInv, NEW w \in Workers, Select(w)
    PROVE  OAuthInv'
<1>1. /\ sweeper[w] = "idle" /\ sweeper' = [sweeper EXCEPT ![w] = "exchange"]
      /\ loaded' = [loaded EXCEPT ![w] = Copy(connector)]
      /\ UNCHANGED <<rotates, valid, issued, connector, answer, stops, broken>>
  BY DEF Select, Goes, provider
<1>2. Copy(connector) \in Loaded /\ Copy(connector).token = connector.token
  BY DEF OAuthInv, TokensIssued, OAuthTypeOK, ConnectorRow, Loaded, Copy
<1>3. OAuthTypeOK /\ TokensIssued
  BY DEF OAuthInv, TokensIssued
<1>4. OAuthTypeOK'
  BY <1>1, <1>2, <1>3 DEF OAuthTypeOK
<1>5. \A v \in Workers :
         /\ v # w => loaded'[v] = loaded[v] /\ sweeper'[v] = sweeper[v]
         /\ v = w => loaded'[v].token = connector.token /\ sweeper'[v] = "exchange"
  BY <1>1, <1>2, <1>3 DEF OAuthTypeOK
<1>6. TokensIssued'
  BY <1>1, <1>3, <1>4, <1>5 DEF TokensIssued
<1>7. StaysGood'
  BY <1>1, <1>5 DEF OAuthInv, StaysGood
<1>8. AnswersAreOwn'
  BY <1>1, <1>5 DEF OAuthInv, AnswersAreOwn, OwnAnswer
<1>9. TokenUsable'
  <2>1. \A v \in Workers : sweeper[v] = "write" => sweeper'[v] = "write"
    BY <1>1, <1>5
  <2> QED BY <1>1, <2>1 DEF OAuthInv, TokenUsable
<1> QED BY <1>6, <1>7, <1>8, <1>9 DEF OAuthInv

LEMMA ExchangeKeeps ==
    ASSUME OAuthInv, NEW w \in Workers, NEW arrives \in BOOLEAN,
           Exchange(w, arrives)
    PROVE  OAuthInv'
<1>0. OAuthTypeOK /\ TokensIssued
  BY DEF OAuthInv, TokensIssued
<1> DEFINE to == IF arrives THEN "write" ELSE "fail"
<1>1. /\ sweeper[w] = "exchange" /\ sweeper' = [sweeper EXCEPT ![w] = to]
      /\ loaded[w].token \in valid
      /\ broken' = (broken \/ (rotates /\ ~arrives))
      /\ UNCHANGED <<rotates, connector, loaded, stops>>
  BY DEF Exchange, Goes
<1>2. /\ sweeper' \in [Workers -> {"idle", "exchange", "write", "fail"}]
      /\ \A v \in Workers : v # w => sweeper'[v] = sweeper[v]
      /\ sweeper'[w] = to
  BY <1>0, <1>1 DEF OAuthTypeOK
<1>3. broken' \in BOOLEAN
  <2>1. broken \in BOOLEAN /\ rotates \in BOOLEAN /\ (~arrives) \in BOOLEAN
    BY <1>0 DEF OAuthTypeOK
  <2> QED BY <1>1, <2>1, Zenon
<1>4. ~broken' => ~broken /\ (~rotates \/ to = "write")
  BY <1>1
<1> HIDE DEF to
<1>5. CASE rotates
  <2> DEFINE new == issued + 1
  <2>1. /\ issued < MaxTokens /\ issued' = new
        /\ valid' = (valid \ {loaded[w].token}) \cup {new}
        /\ answer' = [answer EXCEPT ![w] = new]
    BY <1>5 DEF Exchange, Keep
  <2>2. /\ new \in 1 .. MaxTokens /\ issued \in Nat /\ issued <= new
        /\ 1 .. issued \subseteq 1 .. new /\ new \in 1 .. new
        /\ \A t \in 1 .. issued : t # new /\ t <= new
    BY <1>0, <2>1, OAuthFacts
  <2> HIDE DEF new
  <2>3. /\ answer' \in [Workers -> 1 .. MaxTokens] /\ answer'[w] = new
        /\ \A v \in Workers : v # w => answer'[v] = answer[v]
    BY <1>0, <2>1, <2>2 DEF OAuthTypeOK
  <2>4. OAuthTypeOK'
    <3>1. valid' \subseteq 1 .. issued'
      BY <1>0, <2>1, <2>2, OAuthFacts
    <3> QED BY <1>0, <1>1, <1>2, <1>3, <2>1, <2>2, <2>3, <3>1 DEF OAuthTypeOK
  <2>5. TokensIssued'
    <3>1. connector'.token <= issued'
      BY <1>0, <1>1, <2>1, <2>2, OAuthFacts
    <3>2. \A v \in Workers : loaded'[v].token <= issued'
      BY <1>0, <1>1, <2>1, <2>2, OAuthFacts
    <3>3. \A v \in Workers : answer'[v] <= issued'
      BY <1>0, <2>1, <2>2, <2>3, OAuthFacts
    <3> QED BY <2>4, <3>1, <3>2, <3>3 DEF TokensIssued
  <2>6. StaysGood'
    BY <1>1, <1>5 DEF StaysGood
  <2>7. ASSUME ~broken', NEW u \in Workers PROVE OwnAnswer(u)'
    <3>1. \A v \in Workers : OwnAnswer(v)
      BY <1>4, <1>5, <2>7 DEF OAuthInv, AnswersAreOwn
    <3>2. to = "write"
      BY <1>4, <1>5, <2>7
    <3>3. \A v \in Workers :
             /\ loaded'[v] = loaded[v] /\ loaded[v].token \in 1 .. issued
             /\ answer[v] \in 1 .. issued
             /\ sweeper'[v] = "exchange" => sweeper[v] = "exchange"
      BY <1>0, <1>1, <1>2, <3>2, OAuthFacts
    <3>4. connector'.token = connector.token /\ connector.token \in 1 .. issued
      BY <1>0, <1>1, OAuthFacts
    <3>5. CASE u = w
      <4>1. answer'[u] = new /\ new \in valid'
        BY <2>1, <2>3, <3>5
      <4>2. \A v \in Workers : v # u => answer'[v] \in 1 .. issued
        BY <2>3, <3>3, <3>5
      <4> QED BY <2>2, <3>3, <3>4, <4>1, <4>2 DEF OwnAnswer
    <3>6. CASE u # w /\ sweeper'[u] = "write"
      <4>1. sweeper[u] = "write" /\ answer'[u] = answer[u]
        BY <1>2, <2>3, <3>6
      <4>2. answer[u] \in valid /\ answer[u] # loaded[w].token
        BY <1>1, <3>1, <4>1 DEF OwnAnswer
      <4>3. answer'[u] \in valid'
        BY <2>1, <4>1, <4>2
      <4>4. \A v \in Workers : v # u /\ sweeper'[v] = "write" => answer'[v] # answer[u]
        BY <1>2, <2>2, <2>3, <3>1, <3>3, <4>1 DEF OwnAnswer
      <4> QED BY <3>1, <3>3, <3>4, <4>1, <4>3, <4>4 DEF OwnAnswer
    <3> QED BY <3>5, <3>6 DEF OwnAnswer
  <2>8. AnswersAreOwn'
    BY <2>7 DEF AnswersAreOwn
  <2>9. TokenUsable'
    <3>1. ~broken' => sweeper'[w] = "write" /\ answer'[w] \in valid'
      BY <1>2, <1>4, <1>5, <2>1, <2>3
    <3> QED BY <3>1 DEF TokenUsable
  <2> QED BY <2>5, <2>6, <2>8, <2>9 DEF OAuthInv
<1>6. CASE ~rotates
  <2>1. /\ UNCHANGED <<issued, valid>>
        /\ answer' = [answer EXCEPT ![w] = loaded[w].token]
    BY <1>6 DEF Exchange, Keep
  <2>2. /\ loaded[w].token \in 1 .. MaxTokens /\ loaded[w].token <= issued
    BY <1>0 DEF TokensIssued, OAuthTypeOK, Loaded
  <2>3. /\ answer' \in [Workers -> 1 .. MaxTokens]
        /\ answer'[w] = loaded[w].token
        /\ \A v \in Workers : v # w => answer'[v] = answer[v]
    BY <1>0, <2>1, <2>2 DEF OAuthTypeOK
  <2>4. OAuthTypeOK'
    BY <1>0, <1>1, <1>2, <1>3, <2>1, <2>3 DEF OAuthTypeOK
  <2>5. TokensIssued'
    BY <1>0, <1>1, <2>1, <2>2, <2>3, <2>4 DEF TokensIssued
  <2>6. StaysGood'
    <3>1. ASSUME ~broken'
          PROVE  /\ connector'.token \in valid'
                 /\ \A v \in Workers :
                       /\ sweeper'[v] = "exchange" => loaded'[v].token \in valid'
                       /\ sweeper'[v] = "write" => answer'[v] \in valid'
      <4>1. /\ connector.token \in valid
            /\ \A v \in Workers :
                  /\ sweeper[v] = "exchange" => loaded[v].token \in valid
                  /\ sweeper[v] = "write" => answer[v] \in valid
        BY <1>4, <1>6, <3>1 DEF OAuthInv, StaysGood
      <4> QED BY <1>1, <1>2, <2>1, <2>3, <4>1
    <3> QED BY <3>1 DEF StaysGood
  <2>7. AnswersAreOwn'
    BY <1>1, <1>6 DEF AnswersAreOwn
  <2>8. TokenUsable'
    BY <1>1, <1>6, <2>6 DEF StaysGood, TokenUsable
  <2> QED BY <2>5, <2>6, <2>7, <2>8 DEF OAuthInv
<1> QED BY <1>5, <1>6

\* The sweep ends without having touched the row's token: the answer it may
\* have held is forgotten, which is a loss only where it was to be written.
LEMMA SweepEnds ==
    ASSUME OAuthInv, OAuthTypeOK', NEW w \in Workers,
           sweeper' = [sweeper EXCEPT ![w] = "idle"], Forget(w),
           UNCHANGED provider, connector'.token = connector.token,
           ~broken' => ~broken /\ (~rotates \/ sweeper[w] # "write")
    PROVE  OAuthInv'
<1>0. OAuthTypeOK /\ TokensIssued
  BY DEF OAuthInv, TokensIssued
<1>1. /\ UNCHANGED <<rotates, valid, issued>>
      /\ loaded' = [loaded EXCEPT ![w] = Copy(Consented)]
      /\ answer' = [answer EXCEPT ![w] = 1]
  BY DEF Forget, provider
<1>2. Copy(Consented).token = 1 /\ 1 <= issued
  BY <1>0, OAuthFacts DEF Copy, Consented
<1>3. /\ \A v \in Workers : v # w => /\ loaded'[v] = loaded[v]
                                     /\ answer'[v] = answer[v]
                                     /\ sweeper'[v] = sweeper[v]
      /\ loaded'[w].token = 1 /\ answer'[w] = 1 /\ sweeper'[w] = "idle"
  BY <1>0, <1>1, <1>2 DEF OAuthTypeOK
<1>4. TokensIssued'
  BY <1>0, <1>1, <1>2, <1>3 DEF TokensIssued
<1>5. StaysGood'
  BY <1>1, <1>3 DEF OAuthInv, StaysGood
<1>6. AnswersAreOwn'
  BY <1>1, <1>3 DEF OAuthInv, AnswersAreOwn, OwnAnswer
<1>7. TokenUsable'
  <2>1. CASE broken'
    BY <2>1 DEF TokenUsable
  <2>2. CASE ~broken' /\ ~rotates
    BY <1>1, <2>2, <1>5 DEF StaysGood, TokenUsable
  <2>3. CASE ~broken' /\ rotates
    <3>1. sweeper[w] # "write" /\ ~broken
      BY <2>3
    <3> QED BY <1>1, <1>3, <3>1 DEF OAuthInv, TokenUsable
  <2> QED BY <2>1, <2>2, <2>3
<1> QED BY <1>4, <1>5, <1>6, <1>7 DEF OAuthInv

LEMMA WriteKeeps ==
    ASSUME OAuthInv, NEW w \in Workers, NEW lifetime \in BOOLEAN,
           Write(w, lifetime)
    PROVE  OAuthInv'
<1>0. OAuthTypeOK /\ TokensIssued
  BY DEF OAuthInv, TokensIssued
<1>1. /\ sweeper[w] = "write" /\ sweeper' = [sweeper EXCEPT ![w] = "idle"]
      /\ connector' = [token |-> answer[w], failures |-> 0, due |-> ~lifetime,
                       health |-> "healthy"]
      /\ loaded' = [loaded EXCEPT ![w] = Copy(Consented)]
      /\ answer' = [answer EXCEPT ![w] = 1]
      /\ UNCHANGED <<rotates, valid, issued, stops, broken>>
  BY DEF Write, Goes, Forget, provider
<1>2. /\ Copy(Consented).token = 1 /\ 1 <= issued /\ 1 \in 1 .. MaxTokens
      /\ 0 \in 0 .. AlarmThreshold /\ Copy(Consented) \in Loaded
  BY <1>0, OAuthFacts, OAuthAssumption DEF Copy, Consented, Loaded
<1>3. /\ \A v \in Workers : v # w => /\ loaded'[v] = loaded[v]
                                     /\ answer'[v] = answer[v]
                                     /\ sweeper'[v] = sweeper[v]
      /\ loaded'[w].token = 1 /\ answer'[w] = 1 /\ sweeper'[w] = "idle"
  BY <1>0, <1>1, <1>2 DEF OAuthTypeOK
<1>4. connector' \in ConnectorRow /\ connector'.token = answer[w]
  <2>1. (~lifetime) \in BOOLEAN /\ answer[w] \in 1 .. MaxTokens
    BY <1>0 DEF OAuthTypeOK
  <2> QED BY <1>1, <1>2, <2>1 DEF ConnectorRow, Health
<1>5. OAuthTypeOK'
  BY <1>0, <1>1, <1>2, <1>4 DEF OAuthTypeOK
<1>6. TokensIssued'
  BY <1>0, <1>1, <1>2, <1>3, <1>4, <1>5 DEF TokensIssued
<1>7. ~broken => answer[w] \in valid
  <2>1. CASE rotates
    BY <1>1, <2>1 DEF OAuthInv, AnswersAreOwn, OwnAnswer
  <2>2. CASE ~rotates
    BY <1>1, <2>2 DEF OAuthInv, StaysGood
  <2> QED BY <2>1, <2>2
<1>8. StaysGood'
  BY <1>1, <1>3, <1>4, <1>7 DEF OAuthInv, StaysGood
<1>9. ASSUME ~broken, rotates, NEW u \in Workers PROVE OwnAnswer(u)'
  <2>1. \A v \in Workers : OwnAnswer(v)
    BY <1>9 DEF OAuthInv, AnswersAreOwn
  <2>2. CASE u = w
    BY <1>3, <2>2 DEF OwnAnswer
  <2>3. CASE u # w
    BY <1>1, <1>3, <1>4, <2>1, <2>3 DEF OwnAnswer
  <2> QED BY <2>2, <2>3
<1>10. AnswersAreOwn'
  BY <1>1, <1>9 DEF AnswersAreOwn
<1>11. TokenUsable'
  BY <1>1, <1>4, <1>7 DEF TokenUsable
<1> QED BY <1>6, <1>8, <1>10, <1>11 DEF OAuthInv

LEMMA ReconsentKeeps ==
    ASSUME OAuthInv, Reconsent
    PROVE  OAuthInv'
<1>0. OAuthTypeOK /\ TokensIssued
  BY DEF OAuthInv, TokensIssued
<1> DEFINE new == issued + 1
<1>1. /\ issued < MaxTokens /\ issued' = new /\ valid' = valid \cup {new}
      /\ connector' = [connector EXCEPT !.token = new, !.health = "healthy",
                                        !.due = FALSE]
      /\ UNCHANGED <<rotates, sweeper, loaded, answer, stops, broken>>
  BY DEF Reconsent, sweep
<1>2. /\ new \in 1 .. MaxTokens /\ issued \in Nat /\ issued <= new
      /\ 1 .. issued \subseteq 1 .. new /\ new \in 1 .. new
      /\ \A t \in 1 .. issued : t # new /\ t <= new
  BY <1>0, <1>1, OAuthFacts
<1> HIDE DEF new
<1>3. connector' \in ConnectorRow /\ connector'.token = new
  BY <1>0, <1>1, <1>2 DEF OAuthTypeOK, ConnectorRow, Health
<1>4. OAuthTypeOK'
  <2>1. valid' \subseteq 1 .. issued'
    BY <1>0, <1>1, <1>2, OAuthFacts
  <2> QED BY <1>0, <1>1, <1>2, <1>3, <2>1 DEF OAuthTypeOK
<1>5. TokensIssued'
  <2>1. \A v \in Workers : loaded'[v].token <= issued' /\ answer'[v] <= issued'
    BY <1>0, <1>1, <1>2, OAuthFacts
  <2>2. connector'.token <= issued'
    BY <1>1, <1>2, <1>3
  <2> QED BY <1>4, <2>1, <2>2 DEF TokensIssued
<1>6. StaysGood'
  BY <1>1, <1>3 DEF OAuthInv, StaysGood
<1>7. AnswersAreOwn'
  <2>1. \A v \in Workers : answer[v] # new
    BY <1>0, <1>2, OAuthFacts
  <2> QED BY <1>1, <1>3, <2>1 DEF OAuthInv, AnswersAreOwn, OwnAnswer
<1>8. TokenUsable'
  BY <1>1, <1>3 DEF TokenUsable
<1> QED BY <1>5, <1>6, <1>7, <1>8 DEF OAuthInv

LEMMA OAuthInductive == OAuthInv /\ [OAuthNext]_oauth_vars => OAuthInv'
<1> SUFFICES ASSUME OAuthInv, [OAuthNext]_oauth_vars PROVE OAuthInv'
  OBVIOUS
<1>0. OAuthTypeOK
  BY DEF OAuthInv, TokensIssued
<1>1. ASSUME NEW w \in Workers, ExchangeFails(w) PROVE OAuthInv'
  <2>1. /\ sweeper[w] = "exchange" /\ sweeper' = [sweeper EXCEPT ![w] = "fail"]
        /\ UNCHANGED <<rotates, valid, issued, connector, loaded, answer, stops, broken>>
    BY <1>1 DEF ExchangeFails, Goes, provider
  <2>2. \A v \in Workers : /\ v # w => sweeper'[v] = sweeper[v]
                           /\ v = w => sweeper'[v] = "fail"
    BY <1>0, <2>1 DEF OAuthTypeOK
  <2>3. OAuthTypeOK'
    BY <1>0, <2>1 DEF OAuthTypeOK
  <2>4. TokensIssued'
    BY <2>1, <2>3 DEF OAuthInv, TokensIssued
  <2>5. StaysGood'
    BY <2>1, <2>2 DEF OAuthInv, StaysGood
  <2>6. AnswersAreOwn'
    BY <2>1, <2>2 DEF OAuthInv, AnswersAreOwn, OwnAnswer
  <2>7. TokenUsable'
    BY <2>1, <2>2 DEF OAuthInv, TokenUsable
  <2> QED BY <2>4, <2>5, <2>6, <2>7 DEF OAuthInv
<1>2. ASSUME NEW w \in Workers, Record(w) PROVE OAuthInv'
  <2> DEFINE count == OneMore(loaded[w].failures)
             health == IF Alarm(count) THEN "unhealthy" ELSE connector.health
  <2>1. /\ sweeper[w] = "fail" /\ sweeper' = [sweeper EXCEPT ![w] = "idle"]
        /\ connector' = [connector EXCEPT !.failures = count, !.health = health]
        /\ Forget(w) /\ UNCHANGED <<provider, stops, broken>>
    BY <1>2 DEF Record, Goes
  <2>2. count \in 0 .. AlarmThreshold
    BY <1>0, OAuthAssumption DEF OneMore, OAuthTypeOK, Loaded
  <2>3. health \in Health
    BY <1>0 DEF OAuthTypeOK, ConnectorRow, Health
  <2> HIDE DEF count, health
  <2>4. connector' \in ConnectorRow /\ connector'.token = connector.token
    BY <1>0, <2>1, <2>2, <2>3 DEF OAuthTypeOK, ConnectorRow
  <2>5. Copy(Consented) \in Loaded /\ 1 \in 1 .. MaxTokens
    BY OAuthAssumption DEF Copy, Consented, Loaded
  <2>6. OAuthTypeOK'
    BY <1>0, <2>1, <2>4, <2>5 DEF OAuthTypeOK, Forget, provider
  <2> QED BY <2>1, <2>4, <2>6, SweepEnds
<1>3. ASSUME NEW w \in Workers, Stop(w) PROVE OAuthInv'
  <2>1. /\ sweeper' = [sweeper EXCEPT ![w] = "idle"] /\ stops' = stops + 1
        /\ stops < MaxStops
        /\ broken' = (broken \/ (sweeper[w] = "write" /\ rotates))
        /\ Forget(w) /\ UNCHANGED <<provider, connector>>
    BY <1>3 DEF Stop
  <2>2. Copy(Consented) \in Loaded /\ 1 \in 1 .. MaxTokens
    BY OAuthAssumption DEF Copy, Consented, Loaded
  <2>3. stops' \in 0 .. MaxStops
    BY <1>0, <2>1, OAuthAssumption DEF OAuthTypeOK
  <2>4. broken' \in BOOLEAN
    <3>1. /\ broken \in BOOLEAN /\ rotates \in BOOLEAN
          /\ (sweeper[w] = "write") \in BOOLEAN
      BY <1>0 DEF OAuthTypeOK
    <3> QED BY <2>1, <3>1, Zenon
  <2>5. OAuthTypeOK'
    BY <1>0, <2>1, <2>2, <2>3, <2>4 DEF OAuthTypeOK, Forget, provider
  <2>6. ~broken' => ~broken /\ (~rotates \/ sweeper[w] # "write")
    BY <2>1
  <2> QED BY <2>1, <2>5, <2>6, SweepEnds
<1>4. ASSUME NEW w \in Workers, Sweep(w) PROVE OAuthInv'
  BY <1>1, <1>2, <1>4, SelectKeeps, ExchangeKeeps, WriteKeeps DEF Sweep
<1>5. CASE AccessExpires
  <2>1. /\ connector' = [connector EXCEPT !.due = TRUE]
        /\ UNCHANGED <<provider, sweep, stops, broken>>
    BY <1>5 DEF AccessExpires
  <2>2. connector' \in ConnectorRow /\ connector'.token = connector.token
    BY <1>0, <2>1 DEF OAuthTypeOK, ConnectorRow
  <2>3. OAuthTypeOK'
    BY <1>0, <2>1, <2>2 DEF OAuthTypeOK, provider, sweep
  <2> QED BY <2>1, <2>2, <2>3, TokensKept
<1>6. ASSUME NEW verdict \in Health, Poll(verdict) PROVE OAuthInv'
  <2>1. /\ connector' = [connector EXCEPT !.health = verdict]
        /\ UNCHANGED <<provider, sweep, stops, broken>>
    BY <1>6 DEF Poll
  <2>2. connector' \in ConnectorRow /\ connector'.token = connector.token
    BY <1>0, <2>1 DEF OAuthTypeOK, ConnectorRow
  <2>3. OAuthTypeOK'
    BY <1>0, <2>1, <2>2 DEF OAuthTypeOK, provider, sweep
  <2> QED BY <2>1, <2>2, <2>3, TokensKept
<1>7. CASE Revoke
  <2>1. /\ valid' = {} /\ broken' = TRUE
        /\ UNCHANGED <<rotates, issued, connector, sweeper, loaded, answer, stops>>
    BY <1>7 DEF Revoke, sweep
  <2>2. TokensIssued'
    BY <1>0, <2>1 DEF OAuthInv, TokensIssued, OAuthTypeOK
  <2>3. StaysGood' /\ AnswersAreOwn' /\ TokenUsable'
    BY <2>1 DEF StaysGood, AnswersAreOwn, TokenUsable
  <2> QED BY <2>2, <2>3 DEF OAuthInv
<1>8. CASE UNCHANGED oauth_vars
  <2>1. UNCHANGED <<provider, connector, sweep, stops, broken>>
    BY <1>8 DEF oauth_vars
  <2>2. OAuthTypeOK'
    BY <1>0, <2>1 DEF OAuthTypeOK, provider, sweep
  <2> QED BY <2>1, <2>2, TokensKept
<1> QED
  BY <1>3, <1>4, <1>5, <1>6, <1>7, <1>8, ReconsentKeeps DEF OAuthNext

\* For any number of replicas and tokens: a refresh token is lost only with
\* a revoked grant or an answer that never arrived.
THEOREM TokenStaysUsable == OAuthSpec => []TokenUsable
<1>1. OAuthInv => TokenUsable
  BY DEF OAuthInv
<1> QED BY OAuthInitially, OAuthInductive, <1>1, PTL DEF OAuthSpec

-----------------------------------------------------------------------------
(***************************************************************************)
(* EntityRisk: an observation loads, changes and saves a record in         *)
(* separate calls and returns its promotions at the end, so the invariant  *)
(* follows the copy it works on and what it is about to return: the copy   *)
(* agrees with Redis on the promotion, and an entity above the threshold   *)
(* that is not promoted was cut off or is the one being followed up.       *)
(***************************************************************************)
\* Where an observation is; from "ttl" on, the entity's record in Redis is
\* being followed up: it may have crossed the threshold and not be promoted.
FollowUp == {"ttl", "rank", "promoted", "promoted_ttl", "promoted_rank"}

RiskRecord == [score : Nat, seen : Nat, promoted : Nat \cup {Nil}]

Observation ==
    [pc : {"idle", "load", "hash"} \cup FollowUp, points : Nat,
     todo : Seq(Entities), record : RiskRecord, promotions : SUBSET Entities]

RiskTypes ==
    /\ clock \in Nat
    /\ hashes \in [Entities -> RiskRecord \cup {Nil}]
    /\ \A e \in Entities : hashes[e] # Nil => hashes[e].seen <= clock
    /\ replica \in [Replicas -> Observation]
    /\ \A w \in Replicas :
          /\ replica[w].record.seen <= clock
          /\ IF replica[w].pc = "idle" THEN replica[w] = Idle
             ELSE replica[w].todo # << >>
    /\ reports \in [Entities -> Nat]

HasPromotion(e) == hashes[e] # Nil /\ hashes[e].promoted # Nil

\* What observe has returned, and what it is about to return, is promoted:
\* the latter was not returned before.
Returned ==
    \A e \in Entities : reports[e] <= 1 /\ (reports[e] = 1 => HasPromotion(e))

Returning(w) ==
    \A e \in replica[w].promotions : reports[e] = 0 /\ HasPromotion(e)

\* The copy of the entity's record agrees with Redis but for what the next
\* save changes.
InStep(w) ==
    LET o == replica[w]
        e == Subject(w)
    IN /\ o.pc = "hash" /\ hashes[e] # Nil => o.record.promoted = hashes[e].promoted
       /\ o.pc \in FollowUp \ {"promoted"} => hashes[e] = o.record
       /\ o.pc = "promoted" => hashes[e] # Nil
       /\ o.pc \in {"promoted", "promoted_ttl", "promoted_rank"} =>
             o.record.promoted # Nil /\ reports[e] = 0

\* An entity above the threshold is promoted, unless its last observation
\* was cut off or is under way.
Above(e) == hashes[e] # Nil /\ hashes[e].score >= PromotionThreshold

NotMissed(w) ==
    \A e \in Entities \ cut :
        Above(e) =>
            \/ HasPromotion(e)
            \/ replica[w].pc \in FollowUp /\ e = Subject(w)

RiskInv(w) ==
    RiskTypes /\ Returned /\ Returning(w) /\ InStep(w) /\ NotMissed(w)

-----------------------------------------------------------------------------
\* A power of two is the number of subsets of a set.
LEMMA PowersOfTwo == \A n \in Nat : 2 ^ n \in Nat \ {0}
<1> SUFFICES ASSUME NEW n \in Nat PROVE 2 ^ n \in Nat \ {0}
  OBVIOUS
<1> DEFINE S == 1 .. n
<1>1. IsFiniteSet(S) /\ Cardinality(S) = n
  BY FS_Interval
<1> HIDE DEF S
<1>2. IsFiniteSet(SUBSET S) /\ Cardinality(SUBSET S) = 2 ^ n
  BY <1>1, FS_SUBSET
<1>3. Cardinality(SUBSET S) \in Nat /\ Cardinality(SUBSET S) # 0
  <2>1. SUBSET S # {}
    OBVIOUS
  <2> QED BY <1>2, <2>1, FS_CardinalityType, FS_EmptySet
<1> QED BY <1>2, <1>3

\* What decays stays a number.
LEMMA DecayType == \A p, n \in Nat : Decay(p, n) \in Nat
<1>1. \A p \in Nat, k \in Nat \ {0} : p \div k \in Nat
  OBVIOUS
<1> QED BY <1>1, PowersOfTwo DEF Decay

\* An observation under way is about an entity, and its copy has its types.
LEMMA ObservationFacts ==
    ASSUME RiskTypes, NEW w \in Replicas
    PROVE  /\ replica[w] \in Observation /\ replica[w].record \in RiskRecord
           /\ replica[w].pc # "idle" => Subject(w) \in Entities
           /\ replica[w].pc = "idle" => replica[w].todo = << >>
<1>1. replica[w] \in Observation
  BY DEF RiskTypes
<1>2. ASSUME replica[w].pc # "idle" PROVE Subject(w) \in Entities
  <2>1. replica[w].todo \in Seq(Entities) /\ replica[w].todo # << >>
    BY <1>1, <1>2 DEF RiskTypes, Observation
  <2> QED BY <2>1 DEF Subject
<1>3. replica[w].pc = "idle" => replica[w].todo = << >>
  BY DEF RiskTypes, Idle
<1> QED BY <1>1, <1>2, <1>3 DEF Observation

LEMMA IdleTypes ==
    /\ Idle \in Observation /\ Idle.pc = "idle" /\ Idle.promotions = {}
    /\ Idle.record.seen = 0 /\ NoRecord \in RiskRecord
<1>1. NoRecord \in RiskRecord
  BY DEF NoRecord, RiskRecord
<1>2. << >> \in Seq(Entities) /\ {} \in SUBSET Entities
  OBVIOUS
<1> QED BY <1>1, <1>2 DEF Idle, Observation, NoRecord

\* The record loaded, or a new one, with the signal's points.
LEMMA AppliedType ==
    ASSUME RiskTypes, NEW r \in RiskRecord, r.seen <= clock, NEW p \in Nat
    PROVE  /\ Applied(r, p) \in RiskRecord
           /\ Applied(r, p).seen = clock
           /\ Applied(r, p).promoted = r.promoted
<1>1. /\ r.score \in Nat /\ r.seen \in Nat /\ clock \in Nat
      /\ r.promoted \in Nat \cup {Nil}
  BY DEF RiskTypes, RiskRecord
<1>2. Decay(r.score, clock - r.seen) \in Nat
  <2>1. clock - r.seen \in Nat
    BY <1>1
  <2> QED BY <1>1, <2>1, DecayType
<1> QED BY <1>1, <1>2 DEF Applied, RiskRecord

LEMMA RiskInitially ==
    ASSUME NEW w \in Replicas, RiskInit PROVE RiskInv(w)
<1>1. RiskTypes
  BY IdleTypes DEF RiskInit, RiskTypes
<1>2. replica[w] = Idle /\ \A e \in Entities : hashes[e] = Nil /\ reports[e] = 0
  BY DEF RiskInit
<1> QED
  BY <1>1, <1>2, IdleTypes
     DEF RiskInv, Returned, Returning, InStep, NotMissed, Above, FollowUp

-----------------------------------------------------------------------------
(***************************************************************************)
(* The steps of the only replica                                           *)
(***************************************************************************)
LEMMA ObserveStep ==
    ASSUME NEW w, Replicas = {w}, RiskInv(w), NEW a \in Alerts, Observe(w, a)
    PROVE  RiskInv(w)'
<1>1. /\ replica[w] = Idle
      /\ replica' = [replica EXCEPT ![w] =
            [Idle EXCEPT !.pc = "load", !.points = Points[a], !.todo = Touches[a]]]
      /\ UNCHANGED <<clock, hashes, cut, reports>>
  BY DEF Observe
<1> DEFINE o == [Idle EXCEPT !.pc = "load", !.points = Points[a], !.todo = Touches[a]]
<1>2. Touches[a] \in Seq(Entities) /\ Touches[a] # << >> /\ Points[a] \in Nat
  BY RiskAssumption
<1>3. /\ o \in Observation /\ o.pc = "load" /\ o.todo # << >>
      /\ o.record.seen = 0 /\ o.promotions = {}
  BY <1>2, IdleTypes DEF Idle, Observation, NoRecord
<1> HIDE DEF o
<1>4. replica' \in [Replicas -> Observation] /\ replica'[w] = o
  BY <1>1, <1>3 DEF RiskInv, RiskTypes, o
<1>5. RiskTypes'
  <2>1. UNCHANGED <<clock, hashes, cut, reports>> /\ RiskTypes
    BY <1>1 DEF RiskInv
  <2>2. replica'[w].record.seen <= clock'
    BY <1>3, <1>4, <2>1 DEF RiskTypes
  <2> QED BY <1>3, <1>4, <2>1, <2>2 DEF RiskTypes
<1>6. Returned' /\ Returning(w)' /\ InStep(w)'
  BY <1>1, <1>3, <1>4
     DEF RiskInv, Returned, Returning, InStep, HasPromotion, FollowUp
<1>7. NotMissed(w)'
  BY <1>1, IdleTypes DEF RiskInv, NotMissed, Above, HasPromotion, FollowUp
<1> QED BY <1>5, <1>6, <1>7 DEF RiskInv

LEMMA LoadStep ==
    ASSUME NEW w, Replicas = {w}, RiskInv(w), Load(w)
    PROVE  RiskInv(w)'
<1>0. RiskTypes /\ Returned /\ Returning(w) /\ InStep(w) /\ NotMissed(w)
  BY DEF RiskInv
<1> DEFINE e == Subject(w)
           found == IF hashes[e] = Nil THEN [NoRecord EXCEPT !.seen = clock]
                    ELSE hashes[e]
           r == Applied(found, replica[w].points)
<1>1. /\ replica[w].pc = "load"
      /\ replica' = [replica EXCEPT ![w].pc = "hash", ![w].record = r]
      /\ UNCHANGED <<clock, hashes, cut, reports>>
  BY DEF Load, Doing
<1>2. /\ replica[w] \in Observation /\ e \in Entities /\ replica[w].todo # << >>
      /\ replica[w].points \in Nat
  BY <1>0, <1>1, ObservationFacts DEF RiskTypes, Observation
<1>3. found \in RiskRecord /\ found.seen <= clock
  <2>1. hashes[e] \in RiskRecord \cup {Nil} /\ clock \in Nat
    BY <1>0, <1>2 DEF RiskTypes
  <2>2. CASE hashes[e] = Nil
    BY <2>1, <2>2 DEF NoRecord, RiskRecord
  <2>3. CASE hashes[e] # Nil
    BY <1>0, <1>2, <2>1, <2>3 DEF RiskTypes
  <2> QED BY <2>2, <2>3
<1>4. r \in RiskRecord /\ r.seen = clock /\ r.promoted = found.promoted
  BY <1>0, <1>2, <1>3, AppliedType
<1>5. hashes[e] # Nil => r.promoted = hashes[e].promoted
  BY <1>4
<1> HIDE DEF r, found
<1>6. /\ replica' \in [Replicas -> Observation]
      /\ replica'[w].pc = "hash" /\ replica'[w].record = r
      /\ replica'[w].todo = replica[w].todo
      /\ replica'[w].promotions = replica[w].promotions
  BY <1>0, <1>1, <1>2, <1>4 DEF RiskTypes, Observation
<1>7. Subject(w)' = e
  BY <1>6 DEF Subject
<1> HIDE DEF e
<1>8. RiskTypes'
  BY <1>0, <1>1, <1>2, <1>4, <1>6 DEF RiskTypes
<1>9. Returned' /\ Returning(w)'
  BY <1>0, <1>1, <1>6 DEF Returned, Returning, HasPromotion
<1>10. InStep(w)'
  BY <1>1, <1>5, <1>6, <1>7 DEF InStep, FollowUp
<1>11. NotMissed(w)'
  BY <1>0, <1>1, <1>6 DEF NotMissed, Above, HasPromotion, FollowUp
<1> QED BY <1>8, <1>9, <1>10, <1>11 DEF RiskInv

LEMMA SaveStep ==
    ASSUME NEW w, Replicas = {w}, RiskInv(w), Save(w)
    PROVE  RiskInv(w)'
<1>0. RiskTypes /\ Returned /\ Returning(w) /\ InStep(w) /\ NotMissed(w)
  BY DEF RiskInv
<1> DEFINE r == replica[w].record
           to == IF Promoting(w) THEN "promoted_ttl" ELSE "ttl"
<1>1. /\ replica[w].pc \in {"hash", "promoted"}
      /\ hashes' = [hashes EXCEPT ![Subject(w)] = r]
      /\ cut' = cut \ {Subject(w)}
      /\ replica' = [replica EXCEPT ![w].pc = to]
      /\ UNCHANGED <<clock, reports>>
  BY DEF Save
<1>2. PICK e \in Entities : e = Subject(w)
  BY <1>0, <1>1, ObservationFacts
<1>3. /\ replica[w] \in Observation /\ r \in RiskRecord /\ r # Nil
      /\ replica[w].todo # << >> /\ r.seen <= clock
  <2>1. replica[w] \in Observation /\ r \in RiskRecord
    BY <1>0, ObservationFacts
  <2>2. r # Nil
    BY <2>1, RiskAssumption DEF RiskRecord
  <2> QED BY <1>0, <1>1, <2>1, <2>2 DEF RiskTypes
<1>4. /\ replica'[w].pc = to /\ replica'[w].record = r
      /\ replica'[w].todo = replica[w].todo
      /\ replica'[w].promotions = replica[w].promotions
      /\ replica' \in [Replicas -> Observation]
  BY <1>0, <1>1, <1>3 DEF RiskTypes, Observation, FollowUp
<1>5. Subject(w)' = e
  BY <1>2, <1>4 DEF Subject
<1>6. /\ hashes'[e] = r
      /\ \A f \in Entities : f # e => hashes'[f] = hashes[f]
      /\ hashes' \in [Entities -> RiskRecord \cup {Nil}]
  BY <1>0, <1>1, <1>2, <1>3 DEF RiskTypes
<1>7. /\ HasPromotion(e) => r.promoted # Nil
      /\ to = "promoted_ttl" => r.promoted # Nil /\ reports[e] = 0
  <2>1. CASE replica[w].pc = "hash"
    BY <1>0, <1>2, <2>1 DEF InStep, HasPromotion, Promoting
  <2>2. CASE replica[w].pc = "promoted"
    BY <1>0, <1>2, <2>2 DEF InStep
  <2> QED BY <1>1, <2>1, <2>2
<1>8. \A f \in Entities : HasPromotion(f) => HasPromotion(f)'
  BY <1>3, <1>6, <1>7 DEF HasPromotion
<1>a. to \in {"ttl", "promoted_ttl"}
  OBVIOUS
<1> HIDE DEF r, to
<1>9. RiskTypes'
  BY <1>0, <1>1, <1>3, <1>4, <1>6, <1>a DEF RiskTypes
<1>10. Returned' /\ Returning(w)'
  <2>1. replica[w].promotions \subseteq Entities
    BY <1>3 DEF Observation
  <2> QED BY <1>0, <1>1, <1>4, <1>8, <2>1 DEF Returned, Returning
<1>11. InStep(w)'
  BY <1>1, <1>4, <1>5, <1>6, <1>7, <1>a DEF InStep, FollowUp
<1>12. NotMissed(w)'
  <2>1. replica'[w].pc \in FollowUp
    BY <1>4, <1>a DEF FollowUp
  <2>2. ASSUME NEW f \in Entities \ cut', Above(f)', f # e PROVE HasPromotion(f)'
    <3>1. f \notin cut /\ Above(f)
      BY <1>1, <1>2, <1>6, <2>2 DEF Above
    <3>2. HasPromotion(f)
      BY <1>0, <1>2, <2>2, <3>1 DEF NotMissed
    <3> QED BY <1>8, <3>2
  <2> QED BY <1>5, <2>1, <2>2 DEF NotMissed
<1> QED BY <1>9, <1>10, <1>11, <1>12 DEF RiskInv

LEMMA SetExpiryStep ==
    ASSUME NEW w, Replicas = {w}, RiskInv(w), SetExpiry(w)
    PROVE  RiskInv(w)'
<1>0. RiskTypes /\ Returned /\ Returning(w) /\ InStep(w) /\ NotMissed(w)
  BY DEF RiskInv
<1> DEFINE to == IF Doing(w, "ttl") THEN "rank" ELSE "promoted_rank"
<1>1. /\ replica[w].pc \in {"ttl", "promoted_ttl"}
      /\ replica' = [replica EXCEPT ![w].pc = to]
      /\ UNCHANGED <<clock, hashes, cut, reports>>
  BY DEF SetExpiry
<1>2. replica[w] \in Observation /\ replica[w].todo # << >>
  BY <1>0, <1>1, ObservationFacts DEF RiskTypes
<1>3. /\ replica'[w].pc = to /\ replica'[w].record = replica[w].record
      /\ replica'[w].todo = replica[w].todo
      /\ replica'[w].promotions = replica[w].promotions
      /\ replica' \in [Replicas -> Observation]
  BY <1>0, <1>1, <1>2 DEF RiskTypes, Observation, FollowUp
<1>4. /\ to \in {"rank", "promoted_rank"}
      /\ to = "promoted_rank" => replica[w].pc = "promoted_ttl"
  BY <1>1 DEF Doing
<1> HIDE DEF to
<1>5. Subject(w)' = Subject(w)
  BY <1>3 DEF Subject
<1>6. RiskTypes'
  BY <1>0, <1>1, <1>2, <1>3, <1>4 DEF RiskTypes
<1>7. Returned' /\ Returning(w)'
  BY <1>0, <1>1, <1>3 DEF Returned, Returning, HasPromotion
<1>8. InStep(w)'
  BY <1>0, <1>1, <1>3, <1>4, <1>5 DEF InStep, FollowUp
<1>9. NotMissed(w)'
  BY <1>0, <1>1, <1>3, <1>4, <1>5 DEF NotMissed, Above, HasPromotion, FollowUp
<1> QED BY <1>6, <1>7, <1>8, <1>9 DEF RiskInv

\* The queue is settled and the entity is above the threshold for the first
\* time: it is marked, and saved again.
LEMMA CrossStep ==
    ASSUME NEW w, Replicas = {w}, RiskInv(w), Rank(w),
           Doing(w, "rank") /\ Crosses(replica[w].record)
    PROVE  RiskInv(w)'
<1>0. RiskTypes /\ Returned /\ Returning(w) /\ InStep(w) /\ NotMissed(w)
  BY DEF RiskInv
<1>1. /\ replica[w].pc = "rank" /\ replica[w].record.promoted = Nil
      /\ replica' = [replica EXCEPT ![w].pc = "promoted", ![w].record.promoted = clock]
      /\ UNCHANGED <<clock, hashes, cut, reports>>
  BY DEF Rank, Doing, Crosses
<1>2. /\ replica[w] \in Observation /\ replica[w].record \in RiskRecord
      /\ replica[w].todo # << >> /\ clock \in Nat /\ clock # Nil
  BY <1>0, <1>1, ObservationFacts, RiskAssumption DEF RiskTypes
<1>3. PICK e \in Entities : e = Subject(w)
  BY <1>0, <1>1, ObservationFacts
<1>4. /\ replica'[w].pc = "promoted" /\ replica'[w].record.promoted = clock
      /\ replica'[w].record.seen = replica[w].record.seen
      /\ replica'[w].todo = replica[w].todo
      /\ replica'[w].promotions = replica[w].promotions
      /\ replica' \in [Replicas -> Observation]
  BY <1>0, <1>1, <1>2 DEF RiskTypes, Observation, RiskRecord, FollowUp
<1>5. Subject(w)' = e
  BY <1>3, <1>4 DEF Subject
<1>6. hashes[e] = replica[w].record /\ hashes[e] # Nil /\ reports[e] = 0
  <2>1. hashes[e] = replica[w].record
    BY <1>0, <1>1, <1>3 DEF InStep, FollowUp
  <2>2. hashes[e] # Nil
    BY <1>2, <2>1, RiskAssumption DEF RiskRecord
  <2>3. reports[e] \in Nat /\ reports[e] <= 1 /\ reports[e] # 1
    BY <1>0, <1>1, <2>1 DEF RiskTypes, Returned, HasPromotion
  <2> QED BY <2>1, <2>2, <2>3
<1>7. RiskTypes'
  BY <1>0, <1>1, <1>2, <1>4 DEF RiskTypes
<1>8. Returned' /\ Returning(w)'
  BY <1>0, <1>1, <1>4 DEF Returned, Returning, HasPromotion
<1>9. InStep(w)'
  BY <1>1, <1>2, <1>4, <1>5, <1>6 DEF InStep, FollowUp
<1>10. NotMissed(w)'
  BY <1>0, <1>1, <1>3, <1>4, <1>5 DEF NotMissed, Above, HasPromotion, FollowUp
<1> QED BY <1>7, <1>8, <1>9, <1>10 DEF RiskInv

\* The entity is done with: promoted, or not to be.
LEMMA AdvanceStep ==
    ASSUME NEW w, Replicas = {w}, RiskInv(w), Rank(w),
           ~(Doing(w, "rank") /\ Crosses(replica[w].record))
    PROVE  RiskInv(w)'
<1>0. RiskTypes /\ Returned /\ Returning(w) /\ InStep(w) /\ NotMissed(w)
  BY DEF RiskInv
<1> DEFINE o == replica[w]
<1>1. PICK e \in Entities : e = Subject(w)
  BY <1>0, ObservationFacts DEF Rank
<1>2. PICK promotions \in SUBSET Entities :
         promotions = o.promotions \cup (IF Doing(w, "promoted_rank") THEN {e} ELSE {})
  BY <1>0, <1>1, ObservationFacts DEF Observation
<1>3. /\ o.pc \in {"rank", "promoted_rank"} /\ Advanced(w, promotions)
      /\ UNCHANGED <<clock, hashes, cut>>
  BY <1>1, <1>2 DEF Rank
<1>4. /\ o \in Observation /\ o.record \in RiskRecord /\ o.todo \in Seq(Entities)
      /\ o.todo # << >> /\ hashes[e] = o.record /\ hashes[e] # Nil
  <2>1. o \in Observation /\ o.record \in RiskRecord /\ o.todo # << >>
    BY <1>0, <1>3, ObservationFacts DEF RiskTypes
  <2>2. hashes[e] = o.record
    BY <1>0, <1>1, <1>3 DEF InStep, FollowUp
  <2>3. hashes[e] # Nil
    BY <2>1, <2>2, RiskAssumption DEF RiskRecord
  <2> QED BY <2>1, <2>2, <2>3 DEF Observation
<1>5. Above(e) => HasPromotion(e)
  <2>1. CASE o.pc = "rank"
    BY <1>4, <2>1 DEF Doing, Crosses, Above, HasPromotion
  <2>2. CASE o.pc = "promoted_rank"
    BY <1>0, <1>1, <1>4, <2>2 DEF InStep, HasPromotion
  <2> QED BY <1>3, <2>1, <2>2
<1>6. \A f \in promotions : reports[f] = 0 /\ HasPromotion(f)
  <2>1. o.pc = "promoted_rank" => reports[e] = 0 /\ HasPromotion(e)
    BY <1>0, <1>1, <1>4 DEF InStep, HasPromotion
  <2> QED BY <1>0, <1>2, <2>1 DEF Returning, Doing
<1>7. \A f \in Entities \ cut : Above(f) => HasPromotion(f)
  BY <1>0, <1>1, <1>5 DEF NotMissed
<1>8. CASE Len(o.todo) = 1
  <2>1. /\ replica' = [replica EXCEPT ![w] = Idle]
        /\ reports' = [f \in Entities |-> reports[f] + (IF f \in promotions THEN 1 ELSE 0)]
    BY <1>3, <1>8 DEF Advanced
  <2>2. replica'[w] = Idle /\ replica' \in [Replicas -> Observation]
    BY <1>0, <2>1, IdleTypes DEF RiskTypes
  <2>3. /\ reports' \in [Entities -> Nat]
        /\ \A f \in Entities :
              /\ f \in promotions => reports'[f] = 1
              /\ f \notin promotions => reports'[f] = reports[f]
    BY <1>0, <1>6, <2>1 DEF RiskTypes
  <2>4. RiskTypes'
    BY <1>0, <1>3, <2>2, <2>3, IdleTypes DEF RiskTypes
  <2>5. \A f \in Entities : HasPromotion(f)' <=> HasPromotion(f)
    BY <1>3 DEF HasPromotion
  <2>6. Returned'
    BY <1>0, <1>6, <2>3, <2>5 DEF Returned
  <2>7. Returning(w)' /\ InStep(w)'
    BY <2>2, IdleTypes DEF Returning, InStep, FollowUp
  <2>8. NotMissed(w)'
    BY <1>3, <1>7, <2>5 DEF NotMissed, Above
  <2> QED BY <2>4, <2>6, <2>7, <2>8 DEF RiskInv
<1>9. CASE Len(o.todo) # 1
  <2>1. /\ replica' = [replica EXCEPT ![w].pc = "load", ![w].todo = Tail(o.todo),
                                      ![w].promotions = promotions]
        /\ reports' = reports
    BY <1>0, <1>3, <1>9 DEF Advanced, RiskTypes
  <2>2. Tail(o.todo) \in Seq(Entities) /\ Tail(o.todo) # << >>
    <3>1. Len(o.todo) \in Nat /\ Len(o.todo) # 0
      BY <1>4
    <3>2. Tail(o.todo) \in Seq(Entities) /\ Len(Tail(o.todo)) = Len(o.todo) - 1
      BY <1>4
    <3>3. Len(Tail(o.todo)) # 0
      BY <1>9, <3>1, <3>2
    <3>4. \A q : q = << >> => Len(q) = 0
      OBVIOUS
    <3> QED BY <3>2, <3>3, <3>4, Zenon
  <2>3. /\ replica'[w].pc = "load" /\ replica'[w].todo = Tail(o.todo)
        /\ replica'[w].promotions = promotions /\ replica'[w].record = o.record
        /\ replica' \in [Replicas -> Observation]
    BY <1>0, <1>4, <2>1, <2>2 DEF RiskTypes, Observation, FollowUp
  <2>4. RiskTypes'
    BY <1>0, <1>3, <2>1, <2>2, <2>3 DEF RiskTypes
  <2>5. \A f \in Entities : HasPromotion(f)' <=> HasPromotion(f)
    BY <1>3 DEF HasPromotion
  <2>6. Returned' /\ Returning(w)'
    BY <1>0, <1>6, <2>1, <2>3, <2>5 DEF Returned, Returning
  <2>7. InStep(w)'
    BY <2>3 DEF InStep, FollowUp
  <2>8. NotMissed(w)'
    BY <1>3, <1>7, <2>5 DEF NotMissed, Above
  <2> QED BY <2>4, <2>6, <2>7, <2>8 DEF RiskInv
<1> QED BY <1>8, <1>9

LEMMA FailStep ==
    ASSUME NEW w, Replicas = {w}, RiskInv(w), Fail(w)
    PROVE  RiskInv(w)'
<1>0. RiskTypes /\ Returned /\ Returning(w) /\ InStep(w) /\ NotMissed(w)
  BY DEF RiskInv
<1>1. /\ replica' = [replica EXCEPT ![w] = Idle]
      /\ cut' = IF replica[w].pc \in {"load", "hash"} THEN cut ELSE cut \cup {Subject(w)}
      /\ UNCHANGED <<clock, hashes, reports>>
  BY DEF Fail
<1>2. replica'[w] = Idle /\ replica' \in [Replicas -> Observation]
  BY <1>0, <1>1, IdleTypes DEF RiskTypes
<1>3. RiskTypes'
  BY <1>0, <1>1, <1>2, IdleTypes DEF RiskTypes
<1>4. Returned' /\ Returning(w)' /\ InStep(w)'
  BY <1>0, <1>1, <1>2, IdleTypes DEF Returned, Returning, InStep, HasPromotion, FollowUp
<1>5. NotMissed(w)'
  <2>1. \A f \in Entities \ cut' : Above(f) => HasPromotion(f)
    BY <1>0, <1>1 DEF NotMissed, FollowUp
  <2> QED BY <1>1, <2>1 DEF NotMissed, Above, HasPromotion
<1> QED BY <1>3, <1>4, <1>5 DEF RiskInv

LEMMA TickStep ==
    ASSUME NEW w, Replicas = {w}, RiskInv(w), Tick
    PROVE  RiskInv(w)'
<1>0. RiskTypes /\ Returned /\ Returning(w) /\ InStep(w) /\ NotMissed(w)
  BY DEF RiskInv
<1> DEFINE due == {e \in Entities : Due(deadline[e])}
<1>1. /\ replica[w] = Idle /\ replica' = replica /\ clock' = clock + 1
      /\ hashes' = [e \in Entities |-> IF e \in due THEN Nil ELSE hashes[e]]
      /\ reports' = [e \in Entities |-> IF e \in due THEN 0 ELSE reports[e]]
      /\ cut' = cut \ due
  BY DEF Tick, Expired
<1> HIDE DEF due
<1>2. /\ hashes' \in [Entities -> RiskRecord \cup {Nil}]
      /\ reports' \in [Entities -> Nat] /\ clock' \in Nat /\ clock <= clock'
  BY <1>0, <1>1 DEF RiskTypes
<1>3. \A e \in Entities : hashes'[e] # Nil => hashes'[e] = hashes[e]
  BY <1>1
<1>4. \A e \in Entities : hashes'[e] # Nil => hashes'[e].seen <= clock'
  <2> SUFFICES ASSUME NEW e \in Entities, hashes'[e] # Nil
               PROVE  hashes'[e].seen <= clock'
    OBVIOUS
  <2>1. hashes'[e] = hashes[e] /\ hashes[e] \in RiskRecord /\ hashes[e].seen <= clock
    BY <1>0, <1>3 DEF RiskTypes
  <2>2. hashes[e].seen \in Nat /\ clock \in Nat
    BY <1>0, <2>1 DEF RiskRecord, RiskTypes
  <2> QED BY <1>2, <2>1, <2>2
<1>5. RiskTypes'
  BY <1>0, <1>1, <1>2, <1>4, IdleTypes DEF RiskTypes
<1>6. \A e \in Entities \ due :
         /\ HasPromotion(e)' <=> HasPromotion(e)
         /\ Above(e)' <=> Above(e)
         /\ reports'[e] = reports[e]
  BY <1>1 DEF HasPromotion, Above
<1>7. \A e \in due : e \in Entities => hashes'[e] = Nil /\ reports'[e] = 0
  BY <1>1
<1>8. Returned'
  BY <1>0, <1>6, <1>7 DEF Returned
<1>9. Returning(w)' /\ InStep(w)'
  BY <1>1, IdleTypes DEF Returning, InStep, FollowUp
<1>10. NotMissed(w)'
  <2>1. \A e \in Entities \ cut : Above(e) => HasPromotion(e)
    BY <1>0, <1>1, IdleTypes DEF NotMissed, FollowUp
  <2>2. \A e \in due : e \in Entities => ~Above(e)'
    BY <1>7 DEF Above
  <2> QED BY <1>1, <1>6, <2>1, <2>2 DEF NotMissed
<1> QED BY <1>5, <1>8, <1>9, <1>10 DEF RiskInv

LEMMA RiskInductive ==
    ASSUME NEW w, Replicas = {w}, RiskInv(w), [RiskNext]_risk_vars
    PROVE  RiskInv(w)'
<1>1. ASSUME Rank(w) PROVE RiskInv(w)'
  BY <1>1, CrossStep, AdvanceStep
<1>2. CASE UNCHANGED risk_vars
  <2>1. UNCHANGED <<clock, hashes, replica, reports, cut>>
    BY <1>2 DEF risk_vars
  <2> QED
    BY <2>1 DEF RiskInv, RiskTypes, Returned, Returning, InStep, NotMissed,
                HasPromotion, Above, Subject
<1> QED
  BY <1>1, <1>2, ObserveStep, LoadStep, SaveStep, SetExpiryStep, FailStep,
     TickStep DEF RiskNext

\* With one replica of fusion, as docker-compose.yml runs it, for any alerts
\* and entities: an entity that settled above the threshold is promoted, and
\* its promotion is returned at most once, whatever calls are cut off.
THEOREM PromotedIsOnce ==
    ASSUME NEW w, Replicas = {w} PROVE RiskSpec => []PromotedOnce
<1>1. RiskInit => RiskInv(w)
  BY RiskInitially
<1>2. RiskInv(w) /\ [RiskNext]_risk_vars => RiskInv(w)'
  BY RiskInductive
<1>3. RiskInv(w) => PromotedOnce
  <2> SUFFICES ASSUME RiskInv(w), NEW e \in Entities, Settled(e), Above(e)
               PROVE  HasPromotion(e)
    BY DEF RiskInv, Returned, PromotedOnce, Above, HasPromotion
  <2>1. e \notin cut /\ ~Contains(replica[w].todo, e)
    BY DEF Settled
  <2>2. ~(replica[w].pc \in FollowUp /\ e = Subject(w))
    <3>1. ASSUME replica[w].pc \in FollowUp, e = Subject(w) PROVE FALSE
      <4>1. replica[w].todo \in Seq(Entities) /\ replica[w].todo # << >>
        BY <3>1 DEF RiskInv, RiskTypes, Observation, FollowUp
      <4>2. 1 \in 1 .. Len(replica[w].todo) /\ replica[w].todo[1] = e
        BY <3>1, <4>1 DEF Subject
      <4> QED BY <2>1, <4>2 DEF Contains
    <3> QED BY <3>1
  <2> QED BY <2>1, <2>2 DEF RiskInv, NotMissed
<1> QED BY <1>1, <1>2, <1>3, PTL DEF RiskSpec

-----------------------------------------------------------------------------
(***************************************************************************)
(* The score is a sum over the signals of an entity.  Facts about sums of  *)
(* any length are proved by induction over the natural numbers, powers of  *)
(* two by counting subsets.                                                *)
(***************************************************************************)
\* Induction, as a fact about sets: below a number outside S the numbers
\* outside S would be mapped, one to one, to fewer numbers.
LEMMA NaturalInduction ==
    ASSUME NEW S, 0 \in S, \A n \in Nat : n \in S => n + 1 \in S
    PROVE  Nat \subseteq S
<1>1. SUFFICES ASSUME NEW n \in Nat, n \notin S PROVE FALSE
  OBVIOUS
<1> DEFINE T == {x \in 0 .. n : x \notin S}
           f == [x \in T |-> x - 1]
<1>2. IsFiniteSet(T)
  <2>1. IsFiniteSet(0 .. n)
    BY FS_Interval
  <2> QED BY <2>1, FS_Subset
<1>3. Cardinality(T) \in Nat /\ IsFiniteSet(T \ {n})
      /\ Cardinality(T \ {n}) = Cardinality(T) - 1
  <2>1. n \in T
    BY <1>1
  <2>2. Cardinality(T) \in Nat
    BY <1>2, FS_CardinalityType
  <2> HIDE DEF T
  <2> QED BY <1>2, <2>1, <2>2, FS_RemoveElement
<1>4. f \in Injection(T, T \ {n})
  <2>1. ASSUME NEW x \in T PROVE x - 1 \in T \ {n}
    <3>1. x # 0
      OBVIOUS
    <3>2. x - 1 \in Nat /\ x - 1 + 1 = x
      BY <3>1
    <3> QED BY <3>2
  <2> QED BY <2>1 DEF Injection, IsInjective
<1>5. Cardinality(T) <= Cardinality(T \ {n})
  BY <1>3, <1>4, FS_Injection
<1> QED BY <1>3, <1>5

\* A set with one element more has twice the subsets.
LEMMA PowerStep == 2 ^ 0 = 1 /\ \A n \in Nat : 2 ^ (n + 1) = 2 * 2 ^ n
<1>1. 2 ^ 0 = 1
  OBVIOUS
<1> SUFFICES ASSUME NEW n \in Nat PROVE 2 ^ (n + 1) = 2 * 2 ^ n
  BY <1>1
<1> DEFINE S == 1 .. n
           x == n + 1
           U == S \cup {x}
           With == {T \cup {x} : T \in SUBSET S}
<1>2. IsFiniteSet(S) /\ Cardinality(S) = n /\ x \notin S
  BY FS_Interval
<1> HIDE DEF S, x
<1>3. IsFiniteSet(SUBSET S) /\ Cardinality(SUBSET S) = 2 ^ n
  BY <1>2, FS_SUBSET
<1>4. IsFiniteSet(U) /\ Cardinality(U) = n + 1
  BY <1>2, FS_AddElement
<1>5. Cardinality(SUBSET U) = 2 ^ (n + 1)
  BY <1>4, FS_SUBSET
<1>6. IsFiniteSet(With) /\ Cardinality(With) = 2 ^ n
  <2> DEFINE f == [T \in SUBSET S |-> T \cup {x}]
  <2>1. ASSUME NEW T \in SUBSET S, NEW V \in SUBSET S, T \cup {x} = V \cup {x}
        PROVE  T = V
    BY <1>2, <2>1
  <2>2. f \in Bijection(SUBSET S, With)
    <3>1. f \in [SUBSET S -> With] /\ \A T \in SUBSET S : f[T] = T \cup {x}
      OBVIOUS
    <3>2. \A W \in With : \E T \in SUBSET S : f[T] = W
      OBVIOUS
    <3>3. \A T, V \in SUBSET S : f[T] = f[V] => T = V
      BY <2>1, <3>1
    <3> HIDE DEF f, With
    <3> QED BY <3>1, <3>2, <3>3 DEF Bijection, Injection, IsInjective, Surjection
  <2>3. ExistsBijection(SUBSET S, With)
    BY <2>2 DEF ExistsBijection
  <2> HIDE DEF With
  <2> QED BY <1>3, <2>3, FS_Bijection
<1>7. SUBSET U = (SUBSET S) \cup With
  <2>1. ASSUME NEW T \in SUBSET U, x \in T PROVE T \in With
    <3>1. T = (T \ {x}) \cup {x} /\ T \ {x} \in SUBSET S
      BY <2>1
    <3> QED BY <3>1
  <2>2. ASSUME NEW T \in SUBSET U, x \notin T PROVE T \in SUBSET S
    BY <2>2
  <2>3. ASSUME NEW T \in SUBSET S PROVE T \in SUBSET U /\ T \cup {x} \in SUBSET U
    OBVIOUS
  <2>4. \A T \in With : T \in SUBSET U
    BY <2>3
  <2> HIDE DEF U, With
  <2> QED BY <2>1, <2>2, <2>3, <2>4
<1>8. (SUBSET S) \cap With = {}
  <2>1. ASSUME NEW T \in SUBSET S PROVE T \cup {x} \notin SUBSET S
    BY <1>2
  <2> QED BY <2>1
<1> HIDE DEF With, U
<1>9. Cardinality(SUBSET U) = 2 ^ n + 2 ^ n - 0
  BY <1>3, <1>6, <1>7, <1>8, FS_Union, FS_EmptySet
<1> QED BY <1>5, <1>9, PowersOfTwo

LEMMA PowersAdd == \A m, n \in Nat : 2 ^ (m + n) = 2 ^ m * 2 ^ n
<1> SUFFICES ASSUME NEW m \in Nat PROVE \A n \in Nat : 2 ^ (m + n) = 2 ^ m * 2 ^ n
  OBVIOUS
<1> DEFINE S == {n \in Nat : 2 ^ (m + n) = 2 ^ m * 2 ^ n}
<1>1. 0 \in S
  <2>1. m + 0 = m /\ 2 ^ m \in Nat
    BY PowersOfTwo
  <2> QED BY <2>1, PowerStep
<1>2. ASSUME NEW n \in S PROVE n + 1 \in S
  <2>1. m + (n + 1) = (m + n) + 1 /\ m + n \in Nat /\ n \in Nat
    OBVIOUS
  <2>2. 2 ^ (m + (n + 1)) = 2 * 2 ^ (m + n) /\ 2 ^ (n + 1) = 2 * 2 ^ n
    BY <2>1, PowerStep
  <2>3. 2 ^ (m + n) = 2 ^ m * 2 ^ n
    OBVIOUS
  <2>4. 2 ^ m \in Nat /\ 2 ^ n \in Nat
    BY <2>1, PowersOfTwo
  <2>5. \A a, b \in Nat : 2 * (a * b) = a * (2 * b)
    OBVIOUS
  <2>6. 2 ^ (m + (n + 1)) = 2 ^ m * 2 ^ (n + 1)
    BY <2>2, <2>3, <2>4, <2>5
  <2> QED BY <2>1, <2>6
<1>3. Nat \subseteq S
  BY <1>1, <1>2, NaturalInduction
<1> QED BY <1>3

LEMMA PartialSums ==
    ASSUME NEW h, NEW N \in Nat
    PROVE  \E f : f = [n \in 0 .. N |-> IF n = 0 THEN 0 ELSE f[n - 1] + h[n]]
<1> DEFINE Sums(f, M) == f = [n \in 0 .. M |-> IF n = 0 THEN 0 ELSE f[n - 1] + h[n]]
           S == {M \in Nat : \E f : Sums(f, M)}
<1>1. 0 \in S
  <2>1. Sums([n \in 0 .. 0 |-> 0], 0)
    OBVIOUS
  <2> QED BY <2>1
<1>2. ASSUME NEW M \in S PROVE M + 1 \in S
  <2>1. PICK f : Sums(f, M)
    OBVIOUS
  <2> DEFINE g == [n \in 0 .. M + 1 |-> IF n = M + 1 THEN f[M] + h[M + 1] ELSE f[n]]
  <2>2. ASSUME NEW n \in 0 .. M + 1
        PROVE  g[n] = IF n = 0 THEN 0 ELSE g[n - 1] + h[n]
    <3>1. CASE n = 0
      BY <2>1, <3>1
    <3>2. CASE n = M + 1
      BY <2>1, <3>2
    <3>3. CASE n # 0 /\ n # M + 1
      <4>1. n \in 0 .. M /\ n - 1 \in 0 .. M /\ n - 1 # M + 1 /\ n # M + 1 /\ n - 1 \in 0 .. M + 1
        BY <3>3
      <4>2. g[n] = f[n] /\ g[n - 1] = f[n - 1]
        BY <4>1
      <4>3. f[n] = f[n - 1] + h[n]
        BY <2>1, <3>3, <4>1
      <4> QED BY <3>3, <4>2, <4>3
    <3> QED BY <3>1, <3>2, <3>3
  <2>3. Sums(g, M + 1)
    BY <2>2
  <2> HIDE DEF g, Sums
  <2>4. M + 1 \in Nat
    OBVIOUS
  <2> QED BY <2>3, <2>4
<1>3. N \in S
  <2> HIDE DEF S
  <2> QED BY <1>1, <1>2, NaturalInduction
<1> QED BY <1>3

Signal == [points : Nat, at : Nat]

\* Signals an entity had until t.
SignalsUntil(q, t) ==
    /\ q \in Seq(Signal)
    /\ \A i \in 1 .. Len(q) : q[i].points % 2 ^ MaxTime = 0 /\ q[i].at <= t

LEMMA DecaysInSteps ==
    ASSUME NEW p \in Nat, p % 2 ^ MaxTime = 0,
           NEW a \in Nat, NEW d \in Nat, a + d <= MaxTime
    PROVE  Decay(p, a) = 2 ^ d * Decay(p, a + d)
<1> DEFINE b == MaxTime - (a + d)
           k == p \div 2 ^ MaxTime
<1>1. /\ b \in Nat /\ MaxTime \in Nat /\ a + d \in Nat /\ d + b \in Nat
      /\ MaxTime = (a + d) + b /\ MaxTime = a + (d + b)
  <2> HIDE DEF k
  <2>1. MaxTime \in Nat
    BY RiskAssumption
  <2>2. \A m, n \in Nat : n <= m =>
           /\ m - n \in Nat /\ m = n + (m - n)
           /\ \A i, j \in Nat : n = i + j =>
                 j + (m - n) \in Nat /\ m = i + (j + (m - n))
    OBVIOUS
  <2>3. a + d \in Nat
    OBVIOUS
  <2> QED BY <2>1, <2>2, <2>3
<1> HIDE DEF b
<1>2. 2 ^ a \in Nat \ {0} /\ 2 ^ d \in Nat \ {0} /\ 2 ^ b \in Nat \ {0}
      /\ 2 ^ (a + d) \in Nat \ {0} /\ 2 ^ MaxTime \in Nat \ {0}
  BY <1>1, PowersOfTwo
<1>3. /\ 2 ^ MaxTime = 2 ^ (a + d) * 2 ^ b
      /\ 2 ^ MaxTime = 2 ^ a * 2 ^ (d + b)
      /\ 2 ^ (d + b) = 2 ^ d * 2 ^ b
  BY <1>1, PowersAdd
<1>4. \A m, n \in Nat : n # 0 /\ m % n = 0 => m = (m \div n) * n /\ m \div n \in Nat
  OBVIOUS
<1>5. p = k * 2 ^ MaxTime /\ k \in Nat
  BY <1>2, <1>4
<1> HIDE DEF k
<1>6. \A m, n \in Nat : n # 0 => (n * m) \div n = m
  OBVIOUS
<1>7. \A x, y, z \in Nat : x * (y * z) = y * (x * z)
  OBVIOUS
<1>8. k * 2 ^ b \in Nat /\ 2 ^ d * 2 ^ b \in Nat /\ k * (2 ^ d * 2 ^ b) \in Nat
  BY <1>2, <1>5
<1>9. p = 2 ^ (a + d) * (k * 2 ^ b) /\ p = 2 ^ a * (k * (2 ^ d * 2 ^ b))
  BY <1>2, <1>3, <1>5, <1>7, <1>8
<1>10. p \div 2 ^ (a + d) = k * 2 ^ b /\ p \div 2 ^ a = k * (2 ^ d * 2 ^ b)
  BY <1>2, <1>6, <1>8, <1>9
<1>11. k * (2 ^ d * 2 ^ b) = 2 ^ d * (k * 2 ^ b)
  BY <1>2, <1>5, <1>7
<1> QED BY <1>10, <1>11 DEF Decay

LEMMA SumIsPartial ==
    ASSUME NEW q, NEW t, Len(q) \in Nat
    PROVE  \E f : /\ f = [n \in 0 .. Len(q) |->
                            IF n = 0 THEN 0
                            ELSE f[n - 1] + Decay(q[n].points, t - q[n].at)]
                  /\ DecayedSum(q, t) = f[Len(q)]
<1> DEFINE Sums(f) ==
              f = [n \in 0 .. Len(q) |->
                     IF n = 0 THEN 0 ELSE f[n - 1] + Decay(q[n].points, t - q[n].at)]
           h == [n \in 1 .. Len(q) |-> Decay(q[n].points, t - q[n].at)]
<1>1. \E f : Sums(f)
  <2>1. PICK f : f = [n \in 0 .. Len(q) |-> IF n = 0 THEN 0 ELSE f[n - 1] + h[n]]
    BY PartialSums
  <2>2. \A n \in 0 .. Len(q) : n # 0 => h[n] = Decay(q[n].points, t - q[n].at)
    OBVIOUS
  <2> HIDE DEF h
  <2>3. Sums(f)
    BY <2>1, <2>2
  <2> QED BY <2>3
<1>2. Sums(CHOOSE f : Sums(f))
  BY <1>1
<1>3. DecayedSum(q, t) = (CHOOSE f : Sums(f))[Len(q)]
  BY DEF DecayedSum
<1> QED BY <1>2, <1>3

LEMMA SumStep ==
    ASSUME NEW t \in Nat, NEW d \in Nat, NEW u \in Nat, u = t + d, u <= MaxTime,
           NEW q, SignalsUntil(q, t), NEW x \in Signal
    PROVE  /\ DecayedSum(q, t) \in Nat
           /\ DecayedSum(Append(q, x), u) =
                 Decay(DecayedSum(q, t), d) + Decay(x.points, u - x.at)
<1> DEFINE N == Len(q)
           r == Append(q, x)
           p(n) == Decay(q[n].points, t - q[n].at)
           s(n) == Decay(r[n].points, u - r[n].at)
<1>1. /\ N \in Nat /\ Len(r) = N + 1 /\ r[N + 1] = x /\ q \in Seq(Signal)
      /\ \A n \in 1 .. N : r[n] = q[n] /\ q[n] \in Signal
  BY DEF SignalsUntil
<1>2. PICK f : /\ f = [n \in 0 .. N |-> IF n = 0 THEN 0 ELSE f[n - 1] + p(n)]
               /\ DecayedSum(q, t) = f[N]
  BY <1>1, SumIsPartial
<1>3. PICK g : /\ g = [n \in 0 .. Len(r) |-> IF n = 0 THEN 0 ELSE g[n - 1] + s(n)]
               /\ DecayedSum(r, u) = g[Len(r)]
  <2>1. Len(r) \in Nat
    BY <1>1
  <2> HIDE DEF r, N, p
  <2>2. \A v : \E g :
            /\ g = [n \in 0 .. Len(r) |->
                      IF n = 0 THEN 0 ELSE g[n - 1] + Decay(r[n].points, v - r[n].at)]
            /\ DecayedSum(r, v) = g[Len(r)]
    BY <2>1, SumIsPartial
  <2> QED BY <2>2, Zenon
<1>4. ASSUME NEW n \in 1 .. N PROVE p(n) = 2 ^ d * s(n) /\ s(n) \in Nat
  <2>1. /\ q[n].points \in Nat /\ q[n].at \in Nat /\ q[n].at <= t
        /\ q[n].points % 2 ^ MaxTime = 0 /\ r[n] = q[n]
    BY <1>1 DEF SignalsUntil, Signal
  <2>2. /\ t - q[n].at \in Nat /\ (t - q[n].at) + d = u - q[n].at
        /\ (t - q[n].at) + d <= MaxTime /\ u - q[n].at \in Nat
    <3> HIDE DEF N, r, p, s
    <3> QED BY <2>1, RiskAssumption
  <2>3. p(n) = 2 ^ d * Decay(q[n].points, (t - q[n].at) + d)
    BY <2>1, <2>2, DecaysInSteps
  <2> QED BY <2>1, <2>2, <2>3, DecayType
<1> HIDE DEF r, p, s, N
<1>5. 2 ^ d \in Nat \ {0}
  BY PowersOfTwo
<1> DEFINE S == {n \in Nat : n <= N => g[n] \in Nat /\ f[n] = 2 ^ d * g[n]}
<1>6. 0 \in S
  <2>1. f[0] = 0 /\ g[0] = 0
    BY <1>1, <1>2, <1>3
  <2> QED BY <1>5, <2>1
<1>7. ASSUME NEW n \in S PROVE n + 1 \in S
  <2> SUFFICES ASSUME n + 1 <= N
               PROVE  g[n + 1] \in Nat /\ f[n + 1] = 2 ^ d * g[n + 1]
    OBVIOUS
  <2>1. g[n] \in Nat /\ f[n] = 2 ^ d * g[n] /\ n \in Nat
    BY <1>1
  <2>2. n + 1 \in 1 .. N /\ n + 1 \in 0 .. N /\ n + 1 \in 0 .. N + 1 /\ n + 1 # 0 /\ (n + 1) - 1 = n
    BY <1>1, <2>1
  <2>3. f[n + 1] = f[n] + p(n + 1) /\ g[n + 1] = g[n] + s(n + 1)
    BY <1>1, <1>2, <1>3, <2>2
  <2>4. p(n + 1) = 2 ^ d * s(n + 1) /\ s(n + 1) \in Nat
    BY <1>4, <2>2
  <2>5. \A a, b, c \in Nat : a * b + a * c = a * (b + c)
    OBVIOUS
  <2> QED BY <1>5, <2>1, <2>3, <2>4, <2>5
<1>8. N \in S
  <2> HIDE DEF S
  <2> QED BY <1>1, <1>6, <1>7, NaturalInduction
<1>9. g[N] \in Nat /\ f[N] = 2 ^ d * g[N]
  BY <1>1, <1>8
<1>10. f[N] \div 2 ^ d = g[N] /\ f[N] \in Nat
  <2>1. \A m, n \in Nat : n # 0 => (n * m) \div n = m /\ n * m \in Nat
    OBVIOUS
  <2> QED BY <1>5, <1>9, <2>1
<1>11. g[N + 1] = g[N] + s(N + 1)
  <2>1. N + 1 \in 0 .. N + 1 /\ N + 1 # 0 /\ (N + 1) - 1 = N
    BY <1>1
  <2> QED BY <1>1, <1>3, <2>1
<1>12. s(N + 1) = Decay(x.points, u - x.at)
  BY <1>1 DEF s
<1>13. DecayedSum(r, u) = g[N] + Decay(x.points, u - x.at)
  BY <1>1, <1>3, <1>11, <1>12
<1>14. Decay(DecayedSum(q, t), d) = g[N] /\ DecayedSum(q, t) \in Nat
  BY <1>2, <1>10 DEF Decay
<1> QED BY <1>13, <1>14 DEF r

LEMMA SumOfNone == ASSUME NEW t PROVE DecayedSum(<< >>, t) = 0
<1>1. Len(<< >>) = 0
  OBVIOUS
<1>2. PICK f : /\ f = [n \in 0 .. 0 |->
                         IF n = 0 THEN 0
                         ELSE f[n - 1] + Decay(<< >>[n].points, t - << >>[n].at)]
               /\ DecayedSum(<< >>, t) = f[0]
  BY <1>1, SumIsPartial
<1> QED BY <1>2

-----------------------------------------------------------------------------
\* The score of a record is the sum; so is that of the copy about to be saved.
ScoresAreSums ==
    \A e \in Entities :
        IF hashes[e] = Nil THEN counted[e] = << >>
        ELSE /\ SignalsUntil(counted[e], hashes[e].seen)
             /\ hashes[e].score = DecayedSum(counted[e], hashes[e].seen)

AddedSignal(w) == [points |-> replica[w].points, at |-> clock]

CopyIsSum(w) ==
    LET r == replica[w].record
        e == Subject(w)
    IN /\ replica[w].points % 2 ^ MaxTime = 0
       /\ replica[w].pc = "hash" =>
             /\ SignalsUntil(counted[e], clock) /\ r.seen = clock
             /\ r.score = DecayedSum(Append(counted[e], AddedSignal(w)), clock)
       /\ replica[w].pc = "promoted" =>
             r.seen = hashes[e].seen /\ r.score = hashes[e].score

\* The queue is behind the record of the entity that is followed up only.
QueueAgrees(w) ==
    \A e \in Entities \ cut :
        hashes[e] # Nil /\ rank[e] # Nil =>
            \/ rank[e] = hashes[e].score
            \/ replica[w].pc \in FollowUp /\ e = Subject(w)

SumInv(w) ==
    /\ clock <= MaxTime
    /\ DOMAIN counted = Entities /\ DOMAIN rank = Entities
    /\ counted = [e \in Entities |-> counted[e]]
    /\ rank = [e \in Entities |-> rank[e]]
    /\ ScoresAreSums /\ CopyIsSum(w) /\ QueueAgrees(w)

LEMMA NoPoints == 0 % 2 ^ MaxTime = 0
<1>1. 2 ^ MaxTime \in Nat \ {0}
  BY PowersOfTwo, RiskAssumption
<1> QED BY <1>1

LEMMA SumInitially ==
    ASSUME NEW w, Replicas = {w}, RiskInit PROVE SumInv(w)
<1>1. replica[w] = Idle /\ clock = 0
      /\ \A e \in Entities : hashes[e] = Nil /\ counted[e] = << >>
  BY DEF RiskInit
<1>2. 0 <= MaxTime /\ Idle.points = 0 /\ Idle.pc = "idle"
  BY RiskAssumption DEF Idle
<1> QED
  BY <1>1, <1>2, NoPoints
     DEF SumInv, RiskInit, ScoresAreSums, CopyIsSum, QueueAgrees, FollowUp

LEMMA SumObserve ==
    ASSUME NEW w, Replicas = {w}, RiskInv(w), SumInv(w),
           NEW a \in Alerts, Observe(w, a)
    PROVE  SumInv(w)'
<1>1. /\ replica' = [replica EXCEPT ![w] =
            [Idle EXCEPT !.pc = "load", !.points = Points[a], !.todo = Touches[a]]]
      /\ UNCHANGED <<clock, hashes, rank, counted, cut>> /\ replica[w] = Idle
  BY DEF Observe
<1>2. w \in DOMAIN replica
  BY DEF RiskInv, RiskTypes
<1>3. replica'[w].pc = "load" /\ replica'[w].points = Points[a]
  BY <1>1, <1>2 DEF Idle
<1>4. replica'[w].points % 2 ^ MaxTime = 0
  BY <1>3, RiskAssumption
<1>5. CopyIsSum(w)'
  BY <1>3, <1>4 DEF CopyIsSum
<1>6. QueueAgrees(w)'
  BY <1>1, IdleTypes DEF SumInv, QueueAgrees, FollowUp
<1> QED BY <1>1, <1>5, <1>6 DEF SumInv, ScoresAreSums

LEMMA SumLoad ==
    ASSUME NEW w, Replicas = {w}, RiskInv(w), SumInv(w), Load(w)
    PROVE  SumInv(w)'
<1> DEFINE e == Subject(w)
           found == IF hashes[e] = Nil THEN [NoRecord EXCEPT !.seen = clock]
                    ELSE hashes[e]
           r == Applied(found, replica[w].points)
           x == AddedSignal(w)
<1>0. RiskTypes
  BY DEF RiskInv
<1>1. /\ replica[w].pc = "load"
      /\ replica' = [replica EXCEPT ![w].pc = "hash", ![w].record = r]
      /\ UNCHANGED <<clock, hashes, rank, counted, cut>>
  BY DEF Load, Doing
<1>2. /\ e \in Entities /\ replica[w] \in Observation
      /\ replica[w].points \in Nat /\ clock \in Nat /\ clock <= MaxTime
  BY <1>0, <1>1, ObservationFacts DEF RiskTypes, Observation, SumInv
<1>3. x \in Signal /\ x.points = replica[w].points /\ x.at = clock
  BY <1>2 DEF AddedSignal, Signal
<1>4. /\ found.seen \in Nat /\ found.seen <= clock
      /\ SignalsUntil(counted[e], found.seen)
      /\ found.score = DecayedSum(counted[e], found.seen)
  <2>1. CASE hashes[e] = Nil
    <3>1. found.seen = clock /\ found.score = 0
      BY <2>1 DEF NoRecord
    <3>2. counted[e] = << >>
      BY <1>2, <2>1 DEF SumInv, ScoresAreSums
    <3>3. SignalsUntil(<< >>, clock)
      BY DEF SignalsUntil
    <3> HIDE DEF found, e
    <3> QED BY <1>2, <3>1, <3>2, <3>3, SumOfNone
  <2>2. CASE hashes[e] # Nil
    <3>1. hashes[e] \in RiskRecord /\ hashes[e].seen <= clock
      BY <1>0, <1>2, <2>2 DEF RiskTypes
    <3> QED BY <1>2, <2>2, <3>1 DEF SumInv, ScoresAreSums, RiskRecord
  <2> QED BY <2>1, <2>2
<1>5. r.seen = clock /\ r.score = Decay(found.score, clock - found.seen) + x.points
  BY <1>3 DEF Applied
<1>6. Decay(x.points, 0) = x.points
  <2>1. \A n \in Nat : n \div 1 = n
    OBVIOUS
  <2> QED BY <1>2, <1>3, <2>1, PowerStep DEF Decay
<1> HIDE DEF found, r
<1>7. r.score = DecayedSum(Append(counted[e], x), clock)
  <2>1. PICK d \in Nat : clock = found.seen + d /\ d = clock - found.seen
    BY <1>2, <1>4
  <2>2. DecayedSum(Append(counted[e], x), clock) =
           Decay(DecayedSum(counted[e], found.seen), d) + Decay(x.points, clock - x.at)
    BY <1>2, <1>3, <1>4, <2>1, SumStep
  <2>3. clock - x.at = 0
    BY <1>2, <1>3
  <2> QED BY <1>4, <1>5, <1>6, <2>1, <2>2, <2>3
<1>8. SignalsUntil(counted[e], clock)
  <2>1. counted[e] \in Seq(Signal)
    BY <1>4 DEF SignalsUntil
  <2>2. ASSUME NEW i \in 1 .. Len(counted[e])
        PROVE  counted[e][i].at <= clock /\ counted[e][i].points % 2 ^ MaxTime = 0
    <3>1. counted[e][i] \in Signal /\ counted[e][i].at <= found.seen
          /\ counted[e][i].points % 2 ^ MaxTime = 0
      BY <1>4, <2>1 DEF SignalsUntil
    <3> QED BY <1>2, <1>4, <3>1 DEF Signal
  <2> QED BY <2>1, <2>2 DEF SignalsUntil
<1>9. /\ replica'[w].pc = "hash" /\ replica'[w].record = r
      /\ replica'[w].todo = replica[w].todo
      /\ replica'[w].points = replica[w].points
  BY <1>0, <1>1, <1>2 DEF RiskTypes, Observation
<1>10. Subject(w)' = e /\ AddedSignal(w)' = x
  BY <1>1, <1>9 DEF Subject, AddedSignal
<1> HIDE DEF e, x
<1>11. CopyIsSum(w)'
  <2>1. r.seen = clock
    BY <1>5
  <2>2. replica'[w].points % 2 ^ MaxTime = 0
    BY <1>9 DEF SumInv, CopyIsSum
  <2> QED BY <1>1, <1>7, <1>8, <1>9, <1>10, <2>1, <2>2 DEF CopyIsSum
<1>12. QueueAgrees(w)'
  BY <1>1, <1>9 DEF SumInv, QueueAgrees, FollowUp
<1> QED BY <1>1, <1>11, <1>12 DEF SumInv, ScoresAreSums

LEMMA SumSave ==
    ASSUME NEW w, Replicas = {w}, RiskInv(w), SumInv(w), Save(w)
    PROVE  SumInv(w)'
<1> DEFINE e == Subject(w)
           r == replica[w].record
           x == AddedSignal(w)
           to == IF Promoting(w) THEN "promoted_ttl" ELSE "ttl"
<1>0. RiskTypes /\ InStep(w) /\ CopyIsSum(w)
  BY DEF RiskInv, SumInv
<1>1. /\ replica[w].pc \in {"hash", "promoted"}
      /\ hashes' = [hashes EXCEPT ![e] = r]
      /\ counted' = [counted EXCEPT ![e] = IF Promoting(w) THEN @ ELSE Append(@, x)]
      /\ cut' = cut \ {e}
      /\ replica' = [replica EXCEPT ![w].pc = to]
      /\ UNCHANGED <<clock, rank>>
  BY DEF Save, AddedSignal
<1>2. /\ e \in Entities /\ replica[w] \in Observation /\ r \in RiskRecord
      /\ r # Nil /\ clock \in Nat
  BY <1>0, <1>1, ObservationFacts, RiskAssumption DEF RiskTypes, RiskRecord
<1>3. x \in Signal /\ x.points % 2 ^ MaxTime = 0 /\ x.at = clock
  BY <1>0, <1>2 DEF AddedSignal, Signal, Observation, CopyIsSum
<1>4. /\ replica'[w].pc = to /\ replica'[w].todo = replica[w].todo
      /\ replica'[w].points = replica[w].points
  BY <1>0, <1>1, <1>2 DEF RiskTypes, Observation
<1>5. Subject(w)' = e /\ to \in FollowUp /\ to \notin {"hash", "promoted"}
  BY <1>4 DEF Subject, FollowUp
<1>6. /\ hashes'[e] = r /\ counted'[e] = IF Promoting(w) THEN counted[e]
                                          ELSE Append(counted[e], x)
      /\ \A f \in Entities : f # e => hashes'[f] = hashes[f] /\ counted'[f] = counted[f]
  BY <1>0, <1>1, <1>2 DEF RiskTypes, SumInv
<1>7. /\ SignalsUntil(counted'[e], r.seen)
      /\ r.score = DecayedSum(counted'[e], r.seen)
  <2>1. CASE replica[w].pc = "hash"
    <3>1. counted'[e] = Append(counted[e], x) /\ r.seen = clock
          /\ SignalsUntil(counted[e], clock)
          /\ r.score = DecayedSum(Append(counted[e], x), clock)
      BY <1>0, <1>6, <2>1 DEF CopyIsSum, Promoting
    <3>2. SignalsUntil(Append(counted[e], x), clock)
      <4>1. counted[e] \in Seq(Signal)
        BY <3>1 DEF SignalsUntil
      <4> DEFINE q == counted[e]
      <4>2. Append(q, x) \in Seq(Signal) /\ Len(Append(q, x)) = Len(q) + 1
            /\ Append(q, x)[Len(q) + 1] = x
            /\ \A i \in 1 .. Len(q) : Append(q, x)[i] = q[i]
        BY <1>3, <4>1
      <4>3. \A i \in 1 .. Len(q) + 1 : i \in 1 .. Len(q) \/ i = Len(q) + 1
        BY <4>1
      <4>4. \A i \in 1 .. Len(q) : q[i].points % 2 ^ MaxTime = 0 /\ q[i].at <= clock
        BY <3>1 DEF SignalsUntil
      <4> HIDE DEF q, x
      <4> QED BY <1>2, <1>3, <4>2, <4>3, <4>4 DEF SignalsUntil, q
    <3> QED BY <3>1, <3>2
  <2>2. CASE replica[w].pc = "promoted"
    <3>1. counted'[e] = counted[e] /\ hashes[e] # Nil
          /\ r.seen = hashes[e].seen /\ r.score = hashes[e].score
      BY <1>0, <1>6, <2>2 DEF CopyIsSum, InStep, Promoting
    <3> QED BY <1>2, <3>1 DEF SumInv, ScoresAreSums
  <2> QED BY <1>1, <2>1, <2>2
<1> HIDE DEF e, r, x, to
<1>8. ScoresAreSums'
  BY <1>2, <1>6, <1>7 DEF SumInv, ScoresAreSums
<1>9. CopyIsSum(w)'
  BY <1>0, <1>4, <1>5 DEF CopyIsSum
<1>10. QueueAgrees(w)'
  <2>1. ASSUME NEW f \in Entities \ cut', f # e, hashes'[f] # Nil, rank'[f] # Nil
        PROVE  rank'[f] = hashes'[f].score
    BY <1>1, <1>6, <2>1 DEF SumInv, QueueAgrees, e
  <2> QED BY <1>4, <1>5, <2>1 DEF QueueAgrees
<1>11. counted' = [f \in Entities |-> counted'[f]] /\ DOMAIN counted' = Entities
  BY <1>1 DEF SumInv
<1> QED BY <1>1, <1>8, <1>9, <1>10, <1>11 DEF SumInv

LEMMA SumExpiry ==
    ASSUME NEW w, Replicas = {w}, RiskInv(w), SumInv(w), SetExpiry(w)
    PROVE  SumInv(w)'
<1> DEFINE to == IF Doing(w, "ttl") THEN "rank" ELSE "promoted_rank"
<1>1. /\ replica[w].pc \in {"ttl", "promoted_ttl"}
      /\ replica' = [replica EXCEPT ![w].pc = to]
      /\ UNCHANGED <<clock, hashes, rank, counted, cut>>
  BY DEF SetExpiry
<1>2. replica[w] \in Observation /\ w \in DOMAIN replica
  BY DEF RiskInv, RiskTypes
<1>3. /\ replica'[w].pc = to /\ replica'[w].todo = replica[w].todo
      /\ replica'[w].points = replica[w].points
  BY <1>1, <1>2 DEF Observation
<1>4. Subject(w)' = Subject(w) /\ to \in FollowUp \ {"promoted"} /\ to # "hash"
  BY <1>3 DEF Subject, FollowUp
<1> HIDE DEF to
<1>5. CopyIsSum(w)'
  BY <1>3, <1>4 DEF SumInv, CopyIsSum
<1>6. QueueAgrees(w)'
  BY <1>1, <1>3, <1>4 DEF SumInv, QueueAgrees
<1> QED BY <1>1, <1>5, <1>6 DEF SumInv, ScoresAreSums

LEMMA SumRank ==
    ASSUME NEW w, Replicas = {w}, RiskInv(w), SumInv(w), Rank(w)
    PROVE  SumInv(w)'
<1> DEFINE e == Subject(w)
           r == replica[w].record
<1>0. RiskTypes /\ InStep(w) /\ w \in DOMAIN replica
  BY DEF RiskInv, RiskTypes
<1>1. /\ replica[w].pc \in {"rank", "promoted_rank"}
      /\ UNCHANGED <<clock, hashes, counted, cut>>
  BY DEF Rank
<1>2. /\ replica[w] \in Observation /\ r \in RiskRecord /\ e \in Entities
      /\ hashes[e] = r /\ r # Nil
  BY <1>0, <1>1, ObservationFacts, RiskAssumption DEF InStep, FollowUp, RiskRecord
<1>3. PICK top : rank' = Trimmed(Ranked(w), top)
  BY DEF Rank
<1>4. /\ rank' = [f \in Entities |-> rank'[f]] /\ DOMAIN rank' = Entities
      /\ \A f \in Entities :
            rank'[f] # Nil => rank'[f] = IF f = e THEN r.score ELSE rank[f]
  BY <1>2, <1>3 DEF Trimmed, Ranked, SumInv
<1>5. QueueAgrees(w)'
  <2> SUFFICES ASSUME NEW f \in Entities \ cut, hashes[f] # Nil, rank'[f] # Nil
               PROVE  rank'[f] = hashes[f].score
    BY <1>1 DEF QueueAgrees
  <2>1. CASE f = e
    BY <1>2, <1>4, <2>1
  <2>2. CASE f # e
    BY <1>4, <2>2 DEF SumInv, QueueAgrees
  <2> QED BY <2>1, <2>2
<1>6. CopyIsSum(w)'
  <2>1. CASE Doing(w, "rank") /\ Crosses(r)
    <3>1. replica' = [replica EXCEPT ![w].pc = "promoted", ![w].record.promoted = clock]
      BY <2>1 DEF Rank
    <3>2. /\ replica'[w].pc = "promoted" /\ replica'[w].points = replica[w].points
          /\ replica'[w].record.seen = r.seen /\ replica'[w].record.score = r.score
          /\ replica'[w].todo = replica[w].todo
      BY <1>0, <1>2, <3>1 DEF Observation, RiskRecord
    <3>3. Subject(w)' = e
      BY <3>2 DEF Subject
    <3> QED BY <1>1, <1>2, <3>2, <3>3 DEF SumInv, CopyIsSum
  <2>2. CASE ~(Doing(w, "rank") /\ Crosses(r))
    <3>1. \/ replica'[w] = Idle
          \/ replica'[w].pc = "load" /\ replica'[w].points = replica[w].points
      <4>1. PICK promotions : Advanced(w, promotions)
        BY <2>2 DEF Rank
      <4> QED BY <1>0, <1>2, <4>1 DEF Advanced, Observation
    <3> QED BY <3>1, NoPoints, IdleTypes DEF SumInv, CopyIsSum, Idle
  <2> QED BY <2>1, <2>2
<1> QED BY <1>1, <1>4, <1>5, <1>6 DEF SumInv, ScoresAreSums

LEMMA SumFail ==
    ASSUME NEW w, Replicas = {w}, RiskInv(w), SumInv(w), Fail(w)
    PROVE  SumInv(w)'
<1>1. /\ replica' = [replica EXCEPT ![w] = Idle]
      /\ cut' = IF replica[w].pc \in {"load", "hash"} THEN cut ELSE cut \cup {Subject(w)}
      /\ UNCHANGED <<clock, hashes, rank, counted>>
  BY DEF Fail
<1>2. replica'[w] = Idle
  BY <1>1 DEF RiskInv, RiskTypes
<1>3. CopyIsSum(w)'
  BY <1>2, NoPoints DEF CopyIsSum, Idle
<1>4. QueueAgrees(w)'
  BY <1>1 DEF SumInv, QueueAgrees, FollowUp
<1> QED BY <1>1, <1>3, <1>4 DEF SumInv, ScoresAreSums

LEMMA SumTick ==
    ASSUME NEW w, Replicas = {w}, RiskInv(w), SumInv(w), Tick
    PROVE  SumInv(w)'
<1> DEFINE due == {e \in Entities : Due(deadline[e])}
           late == IF Due(queue_deadline) THEN Entities ELSE {}
<1>1. /\ replica[w] = Idle /\ replica' = replica /\ clock' = clock + 1 /\ clock < MaxTime
      /\ hashes' = [e \in Entities |-> IF e \in due THEN Nil ELSE hashes[e]]
      /\ counted' = [e \in Entities |-> IF e \in due THEN << >> ELSE counted[e]]
      /\ rank' = [e \in Entities |-> IF e \in late THEN Nil ELSE rank[e]]
      /\ cut' = cut \ due
  BY DEF Tick, Expired
<1> HIDE DEF due, late
<1>2. clock' <= MaxTime
  BY <1>1, RiskAssumption DEF RiskInv, RiskTypes
<1>3. ScoresAreSums'
  BY <1>1 DEF SumInv, ScoresAreSums
<1>4. CopyIsSum(w)'
  BY <1>1, NoPoints DEF CopyIsSum, Idle
<1>5. QueueAgrees(w)'
  BY <1>1, IdleTypes DEF SumInv, QueueAgrees, FollowUp
<1>6. /\ DOMAIN counted' = Entities /\ DOMAIN rank' = Entities
      /\ counted' = [e \in Entities |-> counted'[e]]
      /\ rank' = [e \in Entities |-> rank'[e]]
  BY <1>1
<1> QED BY <1>2, <1>3, <1>4, <1>5, <1>6 DEF SumInv

\* With one replica, for any alerts, weights and times: decayed step by step,
\* saved after every signal and expired, the score of a record is the sum of
\* its signals, each decayed for its own age, and the queue agrees with it.
THEOREM ScoreIsTheSum ==
    ASSUME NEW w, Replicas = {w} PROVE RiskSpec => []ScoreIsDecayedSum
<1>1. RiskInit => RiskInv(w) /\ SumInv(w)
  BY RiskInitially, SumInitially
<1>2. RiskInv(w) /\ SumInv(w) /\ [RiskNext]_risk_vars => RiskInv(w)' /\ SumInv(w)'
  <2> SUFFICES ASSUME RiskInv(w), SumInv(w), [RiskNext]_risk_vars PROVE SumInv(w)'
    BY RiskInductive
  <2>1. CASE UNCHANGED risk_vars
    <3>1. UNCHANGED <<clock, hashes, rank, replica, counted, cut>>
      BY <2>1 DEF risk_vars
    <3> QED BY <3>1 DEF SumInv, ScoresAreSums, CopyIsSum, QueueAgrees, Subject, AddedSignal
  <2> QED BY <2>1, SumObserve, SumLoad, SumSave, SumExpiry, SumRank, SumFail,
             SumTick DEF RiskNext
<1>3. RiskInv(w) /\ SumInv(w) => ScoreIsDecayedSum
  <2> SUFFICES ASSUME RiskInv(w), SumInv(w), NEW e \in Entities, hashes[e] # Nil
               PROVE  /\ hashes[e].score = DecayedSum(counted[e], hashes[e].seen)
                      /\ Settled(e) /\ rank[e] # Nil => rank[e] = hashes[e].score
    BY DEF ScoreIsDecayedSum
  <2>1. hashes[e].score = DecayedSum(counted[e], hashes[e].seen)
    BY DEF SumInv, ScoresAreSums
  <2>2. ASSUME Settled(e), rank[e] # Nil PROVE rank[e] = hashes[e].score
    <3>1. e \notin cut /\ ~Contains(replica[w].todo, e)
      BY <2>2 DEF Settled
    <3>2. ASSUME replica[w].pc \in FollowUp, e = Subject(w) PROVE FALSE
      <4>1. replica[w].todo \in Seq(Entities) /\ replica[w].todo # << >>
        BY <3>2 DEF RiskInv, RiskTypes, Observation, FollowUp
      <4>2. 1 \in 1 .. Len(replica[w].todo) /\ replica[w].todo[1] = e
        BY <3>2, <4>1 DEF Subject
      <4> QED BY <3>1, <4>2 DEF Contains
    <3> QED BY <2>2, <3>1, <3>2 DEF SumInv, QueueAgrees
  <2> QED BY <2>1, <2>2
<1> QED BY <1>1, <1>2, <1>3, PTL DEF RiskSpec

-----------------------------------------------------------------------------
(***************************************************************************)
(* AuditChain: what a row is chained onto is read before it is committed,  *)
(* so the invariant says that with one request at a time this is still     *)
(* the latest row when it commits, and that the row then comes after all   *)
(* others.                                                                 *)
(***************************************************************************)
\* Requests that do not overlap: one is under way at a time.
OneInFlight == ~abreast => \A r, s \in InFlight : r = s

\* The clock is no earlier than a stamp, and with one request at a time its
\* row is no earlier than those committed.
Stamped ==
    /\ \A r \in Rows : stamp[r] <= instant
    /\ \A r \in Rows : writer[r] \in {"new", "stamped"} => hash[r] = NoHash
    /\ ~abreast => \A r \in InFlight, s \in Committed : stamp[s] <= stamp[r]

\* Committed rows with a hash have a latest one.
HasLatest == Hashed # {} => Latest(Hashed) # {}

\* The hash a row is about to be committed with leads to the latest one: no
\* other was committed since it was read.
LinkHolds ==
    ~abreast => \A r \in Rows :
        writer[r] = "linked" /\ hash[r] # NoHash =>
            IF Hashed = {} THEN prev[r] = NoHash ELSE prev[r] \in Latest(Hashed)

AuditInv ==
    /\ AuditTypeOK /\ OneInFlight /\ Stamped /\ HasLatest /\ LinkHolds
    /\ SerialVerifies

-----------------------------------------------------------------------------
\* The order of the log is a strict total order.
LEMMA BeforeIsTotal ==
    ASSUME AuditTypeOK, NEW r \in Rows, NEW s \in Rows, NEW t \in Rows
    PROVE  /\ ~Before(r, r)
           /\ r # s => Before(r, s) \/ Before(s, r)
           /\ Before(r, s) /\ Before(s, t) => Before(r, t)
           /\ ~(Before(r, s) /\ Before(s, r))
<1>1. r \in Nat /\ s \in Nat /\ t \in Nat
  BY AuditAssumption
<1>2. stamp[r] \in Nat /\ stamp[s] \in Nat /\ stamp[t] \in Nat
  BY AuditAssumption DEF AuditTypeOK
<1> QED BY <1>1, <1>2 DEF Before

\* A set with one more row has a latest one, the old or the new.
LEMMA LatestOfMore ==
    ASSUME AuditTypeOK, NEW S \in SUBSET Rows, NEW r \in Rows,
           S # {} => Latest(S) # {}
    PROVE  Latest(S \cup {r}) # {}
<1>1. CASE S = {}
  <2>1. r \in Latest(S \cup {r})
    BY <1>1 DEF Latest
  <2> QED BY <2>1
<1>2. CASE S # {}
  <2>1. PICK m \in S : \A s \in S \ {m} : Before(s, m)
    BY <1>2 DEF Latest
  <2>2. CASE r = m \/ Before(r, m)
    <3>1. m \in Latest(S \cup {r})
      BY <2>1, <2>2 DEF Latest
    <3> QED BY <3>1
  <2>3. CASE Before(m, r)
    <3>1. \A s \in S \ {r} : Before(s, r)
      BY <2>1, <2>3, BeforeIsTotal
    <3>2. r \in Latest(S \cup {r})
      BY <3>1 DEF Latest
    <3> QED BY <3>2
  <2> QED BY <2>1, <2>2, <2>3, BeforeIsTotal
<1> QED BY <1>1, <1>2

\* There is one latest row.
LEMMA LatestIsOne ==
    ASSUME AuditTypeOK, NEW S \in SUBSET Rows, NEW r \in Latest(S), NEW s \in Latest(S)
    PROVE  r = s
BY BeforeIsTotal DEF Latest

LEMMA AuditInitially == AuditInit => AuditInv
<1> SUFFICES ASSUME AuditInit PROVE AuditInv
  OBVIOUS
<1>1. AuditTypeOK
  <2>1. 0 \in 0 .. MaxInstants
    BY AuditAssumption
  <2> QED BY <2>1 DEF AuditInit, AuditTypeOK
<1>2. InFlight = {} /\ Committed = {} /\ Hashed = {}
  BY DEF AuditInit, InFlight, Committed, Hashed
<1>3. Stamped
  BY <1>2, AuditAssumption DEF AuditInit, Stamped
<1> QED
  BY <1>1, <1>2, <1>3
     DEF AuditInv, OneInFlight, HasLatest, LinkHolds, SerialVerifies, Replay, AuditInit

\* A step that commits no row and leaves what the committed ones hold leaves
\* the log, and how it verifies, as it was.
LEMMA LogKept ==
    ASSUME AuditInv, AuditTypeOK', Committed' = Committed, abreast => abreast',
           \A r \in Committed : /\ stamp'[r] = stamp[r] /\ prev'[r] = prev[r]
                                /\ hash'[r] = hash[r]
    PROVE  /\ Hashed' = Hashed /\ Latest(Hashed)' = Latest(Hashed)
           /\ HasLatest' /\ SerialVerifies'
<1>1. Hashed' = Hashed
  BY DEF Hashed
<1>2. Hashed \subseteq Committed
  BY DEF Hashed
<1>3. \A r, s \in Committed : Before(r, s)' <=> Before(r, s)
  BY DEF Before
<1>4. Latest(Hashed)' = Latest(Hashed)
  BY <1>1, <1>2, <1>3 DEF Latest
<1>5. HasLatest'
  BY <1>1, <1>4 DEF AuditInv, HasLatest
<1>6. (Gapless' => Gapless) /\ (Distinct' => Distinct)
  BY <1>1, <1>2, <1>3 DEF Gapless, Distinct
<1>7. Replay => Replay'
  BY <1>1, <1>2, <1>3 DEF Replay, Follows
<1>8. SerialVerifies'
  BY <1>6, <1>7 DEF AuditInv, SerialVerifies
<1> QED BY <1>1, <1>4, <1>5, <1>8

-----------------------------------------------------------------------------
LEMMA InstantStep == ASSUME AuditInv, Instant PROVE AuditInv'
<1>1. /\ instant \in Nat /\ instant' = instant + 1 /\ instant < MaxInstants
      /\ UNCHANGED <<writer, stamp, prev, hash, kind, abreast>>
  BY AuditAssumption DEF AuditInv, AuditTypeOK, Instant, entry
<1>2. AuditTypeOK'
  <2>1. instant' \in 0 .. MaxInstants
    BY <1>1, AuditAssumption
  <2> QED BY <1>1, <2>1 DEF AuditInv, AuditTypeOK
<1>3. UNCHANGED <<Committed, Hashed, InFlight>>
  BY <1>1 DEF Committed, Hashed, InFlight
<1>4. Stamped'
  <2>1. \A r \in Rows : stamp[r] <= instant'
    <3>1. \A r \in Rows : stamp[r] \in 0 .. MaxInstants /\ stamp[r] <= instant
      BY DEF AuditInv, AuditTypeOK, Stamped
    <3>2. \A n \in 0 .. MaxInstants : n <= instant => n <= instant + 1
      BY <1>1, AuditAssumption
    <3> QED BY <1>1, <3>1, <3>2
  <2> QED BY <1>1, <1>3, <2>1 DEF AuditInv, Stamped
<1>5. HasLatest' /\ SerialVerifies' /\ Latest(Hashed)' = Latest(Hashed)
  BY <1>1, <1>2, <1>3, LogKept
<1> QED
  BY <1>1, <1>2, <1>3, <1>4, <1>5 DEF AuditInv, OneInFlight, LinkHolds

LEMMA StampStep ==
    ASSUME AuditInv, NEW r \in Rows, Stamp(r) PROVE AuditInv'
<1>1. /\ writer[r] = "new" /\ writer' = [writer EXCEPT ![r] = "stamped"]
      /\ stamp' = [stamp EXCEPT ![r] = instant]
      /\ abreast' = (abreast \/ InFlight # {})
      /\ UNCHANGED <<instant, prev, hash, kind>>
  BY DEF Stamp
<1>2. AuditTypeOK'
  <2>1. abreast' \in BOOLEAN
    <3>1. abreast \in BOOLEAN /\ (InFlight # {}) \in BOOLEAN
      BY DEF AuditInv, AuditTypeOK
    <3> QED BY <1>1, <3>1, Zenon
  <2> QED BY <1>1, <2>1 DEF AuditInv, AuditTypeOK
<1>3. /\ r \notin Committed /\ r \notin InFlight
      /\ Committed' = Committed /\ InFlight' = InFlight \cup {r}
      /\ \A s \in Committed : stamp'[s] = stamp[s]
  BY <1>1 DEF AuditInv, AuditTypeOK, Committed, InFlight
<1>4. ~abreast' => ~abreast /\ InFlight = {} /\ InFlight' = {r}
  BY <1>1, <1>3
<1>5. OneInFlight'
  BY <1>4 DEF OneInFlight
<1>6. Hashed' = Hashed /\ HasLatest' /\ SerialVerifies' /\ Latest(Hashed)' = Latest(Hashed)
  BY <1>1, <1>2, <1>3, <1>4, LogKept
<1>7. Stamped'
  <2>1. \A s \in Rows : stamp[s] <= instant
    BY DEF AuditInv, Stamped
  <2>2. instant \in Nat /\ stamp'[r] = instant
    BY <1>1, AuditAssumption DEF AuditInv, AuditTypeOK
  <2>3. \A s \in Rows : stamp'[s] <= instant'
    BY <1>1, <2>1, <2>2 DEF AuditInv, AuditTypeOK
  <2>4. ~abreast' => \A q \in InFlight', s \in Committed' : stamp'[s] <= stamp'[q]
    BY <1>1, <1>3, <1>4, <2>2, <2>3 DEF Committed
  <2>5. \A s \in Rows : writer'[s] \in {"new", "stamped"} => hash'[s] = NoHash
    BY <1>1, <1>2 DEF AuditInv, AuditTypeOK, Stamped
  <2> QED BY <2>3, <2>4, <2>5 DEF Stamped
<1>8. LinkHolds'
  BY <1>1, <1>4, <1>6 DEF AuditInv, AuditTypeOK, LinkHolds
<1> QED BY <1>2, <1>5, <1>6, <1>7, <1>8 DEF AuditInv

\* A row that is being written gets to where it will be committed from.
LEMMA LinkStep ==
    ASSUME AuditInv, NEW r \in Rows, writer[r] = "stamped",
           writer' = [writer EXCEPT ![r] = "linked"],
           UNCHANGED <<instant, stamp, kind, abreast>>,
           \/ UNCHANGED <<prev, hash>>
           \/ /\ hash' = [hash EXCEPT ![r] = r]
              /\ prev' = [prev EXCEPT ![r] =
                    IF Hashed = {} THEN NoHash ELSE CHOOSE s \in Latest(Hashed) : TRUE]
    PROVE  AuditInv'
<1>1. PICK last \in Rows \cup {NoHash} :
         /\ last = IF Hashed = {} THEN NoHash ELSE CHOOSE s \in Latest(Hashed) : TRUE
         /\ IF Hashed = {} THEN last = NoHash ELSE last \in Latest(Hashed)
  <2>1. Hashed # {} => (CHOOSE s \in Latest(Hashed) : TRUE) \in Latest(Hashed)
    BY DEF AuditInv, HasLatest
  <2>2. Latest(Hashed) \subseteq Rows
    BY DEF Latest, Hashed, Committed
  <2> QED BY <2>1, <2>2
<1>2. \/ UNCHANGED <<prev, hash>>
      \/ hash' = [hash EXCEPT ![r] = r] /\ prev' = [prev EXCEPT ![r] = last]
  BY <1>1
<1>3. AuditTypeOK'
  BY <1>2 DEF AuditInv, AuditTypeOK
<1>4. /\ r \notin Committed /\ Committed' = Committed /\ InFlight' = InFlight
      /\ \A s \in Rows \ {r} : prev'[s] = prev[s] /\ hash'[s] = hash[s]
  BY <1>2 DEF AuditInv, AuditTypeOK, Committed, InFlight
<1>5. Hashed' = Hashed /\ HasLatest' /\ SerialVerifies' /\ Latest(Hashed)' = Latest(Hashed)
  <2>1. \A s \in Committed : s \in Rows \ {r}
    BY <1>4 DEF Committed
  <2> QED BY <1>3, <1>4, <2>1, LogKept
<1>6. OneInFlight'
  BY <1>4 DEF AuditInv, OneInFlight
<1>7. Stamped'
  <2>1. \A s \in Rows : writer'[s] \in {"new", "stamped"} =>
           s # r /\ writer[s] \in {"new", "stamped"}
    BY DEF AuditInv, AuditTypeOK
  <2>2. \A s \in Rows : writer'[s] \in {"new", "stamped"} => hash'[s] = NoHash
    BY <1>4, <2>1 DEF AuditInv, Stamped
  <2> QED BY <1>4, <2>2 DEF AuditInv, Stamped
<1>8. LinkHolds'
  <2> SUFFICES ASSUME ~abreast, NEW s \in Rows, writer'[s] = "linked", hash'[s] # NoHash
               PROVE  IF Hashed = {} THEN prev'[s] = NoHash ELSE prev'[s] \in Latest(Hashed)
    BY <1>5 DEF LinkHolds
  <2>1. CASE s = r
    <3>1. hash[r] = NoHash
      BY DEF AuditInv, Stamped
    <3>2. prev'[r] = last
      BY <1>2, <2>1, <3>1 DEF AuditInv, AuditTypeOK
    <3> QED BY <1>1, <2>1, <3>2
  <2>2. CASE s # r
    <3>1. writer[s] = "linked" /\ hash[s] # NoHash /\ prev'[s] = prev[s]
      BY <1>4, <2>2 DEF AuditInv, AuditTypeOK
    <3> QED BY <3>1 DEF AuditInv, LinkHolds
  <2> QED BY <2>1, <2>2
<1> QED BY <1>3, <1>5, <1>6, <1>7, <1>8 DEF AuditInv

LEMMA UndoneStep ==
    ASSUME AuditInv, NEW r \in Rows, RequestEnds(r, FALSE) PROVE AuditInv'
<1>1. /\ writer[r] = "linked" /\ writer' = [writer EXCEPT ![r] = "undone"]
      /\ UNCHANGED <<instant, stamp, prev, hash, kind, abreast>>
  BY DEF RequestEnds, entry
<1>2. AuditTypeOK'
  BY <1>1 DEF AuditInv, AuditTypeOK
<1>3. Committed' = Committed /\ InFlight' = InFlight \ {r}
  BY <1>1 DEF AuditInv, AuditTypeOK, Committed, InFlight
<1>4. Hashed' = Hashed /\ HasLatest' /\ SerialVerifies' /\ Latest(Hashed)' = Latest(Hashed)
  BY <1>1, <1>2, <1>3, LogKept
<1>5. \A s \in Rows : writer'[s] # "undone" => writer'[s] = writer[s]
  BY <1>1 DEF AuditInv, AuditTypeOK
<1>6. Stamped' /\ OneInFlight' /\ LinkHolds'
  BY <1>1, <1>3, <1>4, <1>5 DEF AuditInv, Stamped, OneInFlight, LinkHolds
<1> QED BY <1>2, <1>4, <1>6 DEF AuditInv

\* One row more: with one request at a time and no two rows at one instant
\* it comes after all the others.
LEMMA CommitStep ==
    ASSUME AuditInv, NEW r \in Rows, RequestEnds(r, TRUE) PROVE AuditInv'
<1>1. /\ writer[r] = "linked" /\ writer' = [writer EXCEPT ![r] = "committed"]
      /\ UNCHANGED <<instant, stamp, prev, hash, kind, abreast>>
  BY DEF RequestEnds, entry
<1>2. AuditTypeOK'
  BY <1>1 DEF AuditInv, AuditTypeOK
<1>3. /\ r \notin Committed /\ r \in InFlight
      /\ Committed' = Committed \cup {r} /\ InFlight' = InFlight \ {r}
      /\ Hashed' = IF hash[r] = NoHash THEN Hashed ELSE Hashed \cup {r}
      /\ Hashed \subseteq Committed /\ Committed \subseteq Rows
  BY <1>1 DEF AuditInv, AuditTypeOK, Committed, InFlight, Hashed
<1>4. \A s, t \in Rows : Before(s, t)' <=> Before(s, t)
  BY <1>1 DEF Before
<1>5. HasLatest'
  <2>1. \A S \in SUBSET Rows : Latest(S)' = Latest(S)
    BY <1>4 DEF Latest
  <2>2. Hashed' \in SUBSET Rows /\ Hashed \in SUBSET Rows
    BY <1>3
  <2>3. Hashed \cup {r} # {} => Latest(Hashed \cup {r}) # {}
    BY <2>2, LatestOfMore DEF AuditInv, HasLatest
  <2>4. Hashed' # {} => Latest(Hashed') # {}
    BY <1>3, <2>3 DEF AuditInv, HasLatest
  <2>5. Latest(Hashed)' = Latest(Hashed')
    BY <1>4, <2>2 DEF Latest
  <2> QED BY <2>4, <2>5 DEF HasLatest
<1>6. \A s \in Rows : writer'[s] # "committed" => writer'[s] = writer[s]
  BY <1>1 DEF AuditInv, AuditTypeOK
<1>7. ~abreast => InFlight' = {}
  BY <1>3 DEF AuditInv, OneInFlight
<1>8. Stamped'
  BY <1>1, <1>6, <1>7 DEF AuditInv, Stamped
<1>9. OneInFlight' /\ LinkHolds'
  BY <1>1, <1>7 DEF OneInFlight, LinkHolds, InFlight
<1>10. SerialVerifies'
  <2> SUFFICES ASSUME ~abreast, Gapless', Distinct' PROVE Replay'
    BY <1>1 DEF SerialVerifies
  <2>1. \A s \in Committed : Before(s, r) /\ ~Before(r, s)
    <3>1. \A s \in Committed : stamp[s] <= stamp[r] /\ stamp[s] # stamp[r]
      BY <1>1, <1>3 DEF AuditInv, Stamped, Distinct
    <3>2. \A s \in Rows : stamp[s] \in Nat
      BY AuditAssumption DEF AuditInv, AuditTypeOK
    <3> QED BY <1>3, <3>1, <3>2 DEF Before
  <2>2. Replay
    <3>1. Gapless /\ Distinct
      BY <1>1, <1>3, <1>4 DEF Gapless, Distinct
    <3> QED BY <3>1 DEF AuditInv, SerialVerifies
  <2>3. CASE hash[r] = NoHash
    <3>1. Hashed = {}
      BY <1>3, <1>4, <2>1, <2>3 DEF Gapless
    <3> QED BY <1>3, <2>3, <3>1 DEF Replay
  <2>4. CASE hash[r] # NoHash
    <3>1. Hashed' = Hashed \cup {r} /\ Committed' \ Hashed' = Committed \ Hashed
      BY <1>3, <2>4
    <3>2. \A t \in Hashed', s \in Committed' \ Hashed' : Before(s, t)'
      BY DEF Gapless
    <3>3. ASSUME NEW t \in Hashed
          PROVE  IF \E s \in Hashed' : Before(s, t)' THEN prev'[t] \in Hashed' /\ Follows(t, prev[t])'
                 ELSE prev'[t] = NoHash
      <4>1. ~Before(r, t) /\ t \in Rows /\ t # r
        BY <1>3, <2>1
      <4>2. prev[t] \in Hashed => (Follows(t, prev[t])' <=> Follows(t, prev[t]))
        BY <1>1, <1>3, <1>4, <3>1, <4>1 DEF Follows
      <4> QED BY <1>1, <1>3, <1>4, <2>2, <3>1, <4>1, <4>2 DEF Replay
    <3>4. IF \E s \in Hashed' : Before(s, r)' THEN prev'[r] \in Hashed' /\ Follows(r, prev[r])'
          ELSE prev'[r] = NoHash
      <4>1. ~Before(r, r)
        BY BeforeIsTotal DEF AuditInv
      <4>2. CASE Hashed = {}
        BY <1>1, <1>4, <2>4, <3>1, <4>1, <4>2 DEF AuditInv, LinkHolds
      <4>3. CASE Hashed # {}
        <5>1. prev[r] \in Latest(Hashed)
          BY <1>1, <2>4, <4>3 DEF AuditInv, LinkHolds
        <5>2. /\ prev[r] \in Hashed /\ Before(prev[r], r)
              /\ \A s \in Hashed \ {prev[r]} : Before(s, prev[r])
          BY <1>3, <2>1, <5>1 DEF Latest
        <5>3. ~\E s \in Hashed' : Before(prev[r], s) /\ Before(s, r)
          BY <1>3, <3>1, <4>1, <5>2, BeforeIsTotal DEF AuditInv
        <5> QED BY <1>1, <1>3, <1>4, <3>1, <5>2, <5>3 DEF Follows
      <4> QED BY <4>2, <4>3
    <3> QED BY <1>1, <3>1, <3>2, <3>3, <3>4 DEF Replay
  <2> QED BY <2>3, <2>4
<1> QED BY <1>2, <1>5, <1>8, <1>9, <1>10 DEF AuditInv

LEMMA AuditInductive == AuditInv /\ [AuditNext]_audit_vars => AuditInv'
<1> SUFFICES ASSUME AuditInv, [AuditNext]_audit_vars PROVE AuditInv'
  OBVIOUS
<1>1. ASSUME NEW r \in Rows, Link(r) PROVE AuditInv'
  BY <1>1, LinkStep DEF Link, Visible
<1>2. ASSUME NEW r \in Rows, LinkNot(r) PROVE AuditInv'
  BY <1>2, LinkStep DEF LinkNot, entry
<1>3. ASSUME NEW r \in Rows, NEW ok \in BOOLEAN, RequestEnds(r, ok) PROVE AuditInv'
  <2>1. CASE ok = TRUE
    BY <1>3, <2>1, CommitStep
  <2>2. CASE ok = FALSE
    BY <1>3, <2>2, UndoneStep
  <2> QED BY <2>1, <2>2
<1>4. CASE UNCHANGED audit_vars
  <2>1. UNCHANGED <<instant, writer, stamp, prev, hash, kind, abreast>>
    BY <1>4 DEF audit_vars, entry
  <2>2. AuditTypeOK' /\ Committed' = Committed /\ InFlight' = InFlight
    BY <2>1 DEF AuditInv, AuditTypeOK, Committed, InFlight
  <2>3. Hashed' = Hashed /\ HasLatest' /\ SerialVerifies' /\ Latest(Hashed)' = Latest(Hashed)
    BY <2>1, <2>2, LogKept
  <2> QED BY <2>1, <2>2, <2>3 DEF AuditInv, OneInFlight, Stamped, LinkHolds
<1> QED
  BY <1>1, <1>2, <1>3, <1>4, InstantStep, StampStep DEF AuditNext

\* "replay the chain deterministically", for any number of rows: when the
\* requests of a tenant do not overlap, the log they leave verifies.
THEOREM SerialLogVerifies == AuditSpec => []SerialVerifies
<1>1. AuditInv => SerialVerifies
  BY DEF AuditInv
<1> QED BY AuditInitially, AuditInductive, <1>1, PTL DEF AuditSpec

=============================================================================
