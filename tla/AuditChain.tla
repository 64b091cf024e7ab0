----------------------------- MODULE AuditChain ----------------------------
(***************************************************************************)
(* The tamper-evident audit log of one tenant (services/api:               *)
(* app/services/audit.py, app/middleware/audit_middleware.py, and          *)
(* verify_chain of app/services/audit_hash.py).                            *)
(*                                                                         *)
(* A request stamps its row, looks up the hash to chain onto, and commits  *)
(* the row with its own transaction or rolls it back; one that writes two  *)
(* rows, its own and the middleware's, counts as two requests.  Replicas   *)
(* share one clock.  A hash is the name of the row it was computed for, as *)
(* sha256 over the row's random id would be.                               *)
(***************************************************************************)
EXTENDS Naturals

CONSTANTS
    Rows,       \* numbers: row ids, which break ties between stamps
    NoHash,     \* NULL
    MaxInstants \* bound: instants of the clock

ASSUME AuditAssumption ==
    Rows \subseteq Nat /\ NoHash \notin Rows /\ MaxInstants \in Nat

VARIABLES
    instant,    \* the clock
    writer,     \* per row: where the request that writes it is
    stamp,      \* per row: created_at
    prev,       \* per row: prev_hash
    hash,       \* per row: entry_hash
    kind,       \* per row: who writes it
    abreast     \* history: two requests were under way at once

entry      == <<stamp, prev, hash>>
audit_vars == <<instant, writer, entry, kind, abreast>>

-----------------------------------------------------------------------------
AuditTypeOK ==
    /\ instant \in 0 .. MaxInstants
    /\ writer \in [Rows -> {"new", "stamped", "linked", "committed", "undone"}]
    /\ stamp \in [Rows -> 0 .. MaxInstants]
    /\ prev \in [Rows -> Rows \cup {NoHash}]
    /\ hash \in [Rows -> Rows \cup {NoHash}]
    /\ kind \in [Rows -> {"chained", "plain"}]
    /\ abreast \in BOOLEAN

AuditInit ==
    /\ instant = 0
    /\ writer = [r \in Rows |-> "new"]
    /\ stamp = [r \in Rows |-> 0]
    /\ prev = [r \in Rows |-> NoHash] /\ hash = [r \in Rows |-> NoHash]
    /\ kind \in [Rows -> {"chained", "plain"}]
    /\ abreast = FALSE

InFlight  == {r \in Rows : writer[r] \in {"stamped", "linked"}}
Committed == {r \in Rows : writer[r] = "committed"}
Hashed    == {r \in Committed : hash[r] # NoHash}

\* created_at, id
Before(r, s) == stamp[r] < stamp[s] \/ (stamp[r] = stamp[s] /\ r < s)

-----------------------------------------------------------------------------
Instant ==
    /\ instant < MaxInstants
    /\ instant' = instant + 1
    /\ UNCHANGED <<writer, entry, kind, abreast>>

Stamp(r) ==
    /\ writer[r] = "new"
    /\ writer' = [writer EXCEPT ![r] = "stamped"]
    /\ stamp' = [stamp EXCEPT ![r] = instant]
    /\ abreast' = (abreast \/ InFlight # {})
    /\ UNCHANGED <<instant, prev, hash, kind>>

\* READ COMMITTED, and rows with a hash only.
Visible == Hashed

\* Mutant: the order is that of the ids alone.
Latest_ById(S) == {r \in S : \A s \in S \ {r} : s < r}
Latest(S) == {r \in S : \A s \in S \ {r} : Before(s, r)}

\* _resolve_prev_hash and compute_entry_hash.
Link(r) ==
    /\ writer[r] = "stamped" /\ kind[r] = "chained"
    /\ writer' = [writer EXCEPT ![r] = "linked"]
    /\ prev' = [prev EXCEPT ![r] =
                    IF Visible = {} THEN NoHash
                    ELSE CHOOSE s \in Latest(Visible) : TRUE]
    /\ hash' = [hash EXCEPT ![r] = r]
    /\ UNCHANGED <<instant, stamp, kind, abreast>>

\* The lookup failed, or the row is the federated search's, which is built
\* without a hash: it is written unchained.
LinkNot(r) ==
    /\ writer[r] = "stamped"
    /\ writer' = [writer EXCEPT ![r] = "linked"]
    /\ UNCHANGED <<instant, entry, kind, abreast>>

\* The transaction of the request ends.
RequestEnds(r, ok) ==
    /\ writer[r] = "linked"
    /\ writer' = [writer EXCEPT ![r] = IF ok THEN "committed" ELSE "undone"]
    /\ UNCHANGED <<instant, entry, kind, abreast>>

AuditNext ==
    \/ Instant
    \/ \E r \in Rows :
          Stamp(r) \/ Link(r) \/ LinkNot(r) \/ \E ok \in BOOLEAN : RequestEnds(r, ok)

AuditSpec == AuditInit /\ [][AuditNext]_audit_vars

-----------------------------------------------------------------------------
\* verify_chain over the committed rows, oldest to newest: those before the
\* first with a hash are skipped, and from there each must have one and carry
\* that of the row before it.
Follows(r, s) == Before(s, r) /\ ~\E t \in Hashed : Before(s, t) /\ Before(t, r)

Replay ==
    \A r \in Hashed :
        /\ \A s \in Committed \ Hashed : Before(s, r)
        /\ IF \E s \in Hashed : Before(s, r) THEN prev[r] \in Hashed /\ Follows(r, prev[r])
           ELSE prev[r] = NoHash

-----------------------------------------------------------------------------
\* "replay the chain deterministically": it verifies as long as the requests
\* of a tenant do not overlap, no two of them fall on one instant and no
\* hashed row is followed by one without, whatever was rolled back.
Gapless  == \A r \in Hashed : \A s \in Committed \ Hashed : Before(s, r)
Distinct == \A r \in Committed : \A s \in Committed \ {r} : stamp[r] # stamp[s]

SerialVerifies == ~abreast /\ Gapless /\ Distinct => Replay

\* "replay the chain deterministically and prove that no row was deleted,
\* reordered, or silently rewritten": no one touched the rows here, so the
\* replay should succeed.
ChainVerifies == Replay

\* "we tiebreak on id to keep the chain deterministic even when wall-clock
\* time does not move": ids are random, so the tie may be broken either way.
TiesVerify == ~abreast /\ Gapless => Replay

=============================================================================
