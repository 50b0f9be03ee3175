-------------------------- MODULE RecognitionMemory --------------------------
(***************************************************************************)
(* The recognition memory (crates/semantic-engine-memory-store): what its  *)
(* transactions make of the rows of its table.  An active row is           *)
(*   [row, context, target, expression, lastUsed, expires, state],         *)
(* expression being the normal form; its number stands for its memory_id.  *)
(* An expired, evicted or revoked row is only ever listed: it is closed,   *)
(* and keeps its number.                                                   *)
(***************************************************************************)
EXTENDS Integers, FiniteSets, FiniteSetsExt

CONSTANTS
  Capacity,  \* MemoryPolicy.capacity
  Ttl,       \* MemoryPolicy.ttl
  History    \* rows kept besides the active ones: four times the capacity

ASSUME MemoryPolicyAssumption ==
  Capacity \in Nat \ {0} /\ Ttl \in Nat \ {0} /\ History \in Nat

ActiveRows(rows) == {r \in rows : r.state = "active"}

Closed(r) == [row |-> r.row, state |-> "closed"]

\* Mutant: what expires at this very moment is still active.
ExpiredLate(rows, now) ==
  {IF r.state = "active" /\ r.expires < now THEN Closed(r) ELSE r
     : r \in rows}

\* expire_entries.
Expired(rows, now) ==
  {IF r.state = "active" /\ r.expires <= now THEN Closed(r) ELSE r
     : r \in rows}

\* The active row with the least (last_used_at_ms, row_id).
LeastUsed(rows) ==
  CHOOSE r \in ActiveRows(rows) : \A q \in ActiveRows(rows) \ {r} :
    r.lastUsed < q.lastUsed \/ (r.lastUsed = q.lastUsed /\ r.row < q.row)

\* Mutant: eviction begins one entry too late.
EvictedLate(rows) ==
  IF Cardinality(ActiveRows(rows)) <= Capacity THEN rows
  ELSE LET victim == LeastUsed(rows)
       IN  (rows \ {victim}) \cup {Closed(victim)}

\* evict_if_full.
Evicted(rows) ==
  IF Cardinality(ActiveRows(rows)) < Capacity THEN rows
  ELSE LET victim == LeastUsed(rows)
       IN  (rows \ {victim}) \cup {Closed(victim)}

\* trim_history.
Trimmed(rows) ==
  LET closed == rows \ ActiveRows(rows)
  IN  {r \in rows : r \in closed =>
         Cardinality({q \in closed : q.row > r.row}) < History}

\* Mutant: an entry that is known is learned once more.
KnownToNone(rows, context, target, expression) == {}

Known(rows, context, target, expression) ==
  {r \in ActiveRows(rows) :
     r.context = context /\ r.target = target /\ r.expression = expression}

\* remember, with `next' the number the new row would have.
Remembered(rows, next, context, target, expression, now) ==
  LET live == Expired(rows, now)
      new  == [row |-> next, context |-> context, target |-> target,
               expression |-> expression, lastUsed |-> now, expires |-> now + Ttl,
               state |-> "active"]
  IN  IF Known(live, context, target, expression) # {} THEN live
      ELSE Trimmed(Evicted(live) \cup {new})

\* lookup, of rows in which what is due has expired.
Matches(rows, context, expression, targets) ==
  {r \in ActiveRows(rows) :
     r.context = context /\ r.expression = expression /\ r.target \in targets}

\* mark_used.
MarkedUsed(rows, used, now) ==
  {IF r \in used THEN [r EXCEPT !.lastUsed = now] ELSE r : r \in rows}

\* revoke.
Revoked(rows, row) ==
  {IF r.row = row THEN Closed(r) ELSE r : r \in rows}
=============================================================================
