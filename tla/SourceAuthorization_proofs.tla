--------------------- MODULE SourceAuthorization_proofs ---------------------
(***************************************************************************)
(* Proofs about SourceAuthorization for any sources, adapters, calls and   *)
(* videos.                                                                 *)
(*                                                                         *)
(* A call acts on what it read some awaits ago.  What makes this safe is   *)
(* the revision: while the row is at the revision that a call has read,    *)
(* the row, its settings and its link are as it has read them, and every   *)
(* write moves the revision on.  It is what makes the workers of dropped   *)
(* calls safe as well, which write long after their call has gone.         *)
(***************************************************************************)
EXTENDS SourceAuthorization, FiniteSetTheorems, TLAPS

\* A call that keeps nothing of the row, and one that does.
PlainSteps == {"begun", "waiting", "polling", "authorized", "undoing",
               "loading", "refreshing", "identified", "checking", "checked",
               "removed", "forgetting", "late_store"}

ReadingSteps == {"identifying", "stored", "loading", "refreshing", "identified",
                 "purging", "purged"} \cup LateSteps

PlainCall == [pc : PlainSteps, source : Sources]

ReadingCall == [pc : ReadingSteps, source : Sources, revision : Nat \ {0},
                linked : BOOLEAN, video : Videos \cup {NoVideo}]

CallsTyped == calls \in [Calls -> {Idle} \cup PlainCall \cup ReadingCall]

\* A call has stored the credential of s and not yet linked or deleted it.
HeldBy(c, s) == calls[c].pc \in {"stored", "undoing", "late_link"} /\ calls[c].source = s

Held(s) == \E c \in Calls : HeldBy(c, s)

\* The row is as the call has read it.
AsRead(c) ==
  /\ calls[c].pc \in {"identifying", "stored", "late_link"} => calls[c].video = video[Src(c)]
  /\ calls[c].pc = "purging" /\ Src(c) \in linked => calls[c].linked = TRUE
  /\ calls[c].pc \in {"purged", "late_remove"} /\ Src(c) \in vault => Src(c) \in aux_stray \/ Held(Src(c))

\* What a call has read is of now, of an older revision, or of a source that
\* was deleted since.
Reads(c) ==
  calls[c] \in ReadingCall =>
    \/ Src(c) \in aux_deleted
    \/ /\ rows[Src(c)] # NoRow
       /\ \/ calls[c].revision < rows[Src(c)].revision
          \/ calls[c].revision = rows[Src(c)].revision /\ AsRead(c)

\* A source whose credential is being loaded is linked until it is deleted.
StaysLinked(c) ==
  calls[c].pc \in {"loading", "refreshing", "identified"}
    => Src(c) \in linked \cup aux_deleted

\* An identifier is used once.
GoneForGood == \A s \in aux_deleted : s \in Sources /\ rows[s] = NoRow

AuthInv ==
  /\ TypeOK
  /\ IsFiniteSet(Existing)
  /\ CallsTyped
  /\ \A c \in Calls : Reads(c) /\ StaysLinked(c)
  /\ GoneForGood
  /\ CredentialsAreLinked
  /\ SelectionKept

-----------------------------------------------------------------------------
(* Calls.                                                                  *)

LEMMA CallTypes ==
  ASSUME CallsTyped, NEW c \in Calls
  PROVE  /\ calls[c] = Idle <=> calls[c].pc = "idle"
         /\ calls[c] # Idle => Src(c) \in Sources /\ calls[c] \in PlainCall \cup ReadingCall
         /\ calls[c] \in PlainCall => calls[c].pc \in PlainSteps
         /\ calls[c] \in ReadingCall =>
              /\ calls[c].pc \in ReadingSteps /\ Src(c) \in Sources
              /\ calls[c].revision \in Nat \ {0}
              /\ calls[c].linked \in BOOLEAN
              /\ calls[c].video \in Videos \cup {NoVideo}
<1>1. calls[c] \in {Idle} \cup PlainCall \cup ReadingCall
  BY DEF CallsTyped
<1>2. CASE calls[c] = Idle
  <2>1. calls[c].pc = "idle"
    BY <1>2 DEF Idle
  <2>2. calls[c] \notin PlainCall /\ calls[c] \notin ReadingCall
    BY <2>1 DEF PlainCall, ReadingCall, PlainSteps, ReadingSteps, LateSteps
  <2> QED BY <1>2, <2>1, <2>2
<1>3. CASE calls[c] \in PlainCall
  <2>1. calls[c].pc \in PlainSteps /\ calls[c].source \in Sources
    BY <1>3 DEF PlainCall
  <2>2. calls[c].pc # "idle" /\ calls[c] # Idle
    BY <2>1 DEF PlainSteps, Idle
  <2>3. calls[c] \notin ReadingCall
    BY <1>3, SMTT(30) DEF PlainCall, ReadingCall
  <2> QED BY <1>3, <2>1, <2>2, <2>3 DEF Src
<1>4. CASE calls[c] \in ReadingCall
  <2>1. /\ calls[c].pc \in ReadingSteps /\ calls[c].source \in Sources
        /\ calls[c].revision \in Nat \ {0} /\ calls[c].linked \in BOOLEAN
        /\ calls[c].video \in Videos \cup {NoVideo}
    BY <1>4 DEF ReadingCall
  <2>2. calls[c].pc # "idle" /\ calls[c] # Idle
    BY <2>1 DEF ReadingSteps, LateSteps, Idle
  <2>3. calls[c] \notin PlainCall
    BY <1>4, SMTT(30) DEF PlainCall, ReadingCall
  <2> QED BY <1>4, <2>1, <2>2, <2>3 DEF Src
<1> QED BY <1>1, <1>2, <1>3, <1>4

\* A selection has locals, a test has none.
LEMMA SelectsReading ==
  ASSUME CallsTyped, NEW c \in Calls, calls[c] # Idle, Selects(c)
  PROVE  calls[c] \in ReadingCall
<1>1. calls[c] \in PlainCall => DOMAIN calls[c] = {"pc", "source"}
  BY DEF PlainCall
<1> QED BY <1>1, CallTypes DEF Selects

LEMMA GoesTyped ==
  ASSUME CallsTyped, NEW c \in Calls, NEW pc, Goes(c, pc),
         \/ calls[c] \in PlainCall /\ pc \in PlainSteps
         \/ calls[c] \in ReadingCall /\ pc \in ReadingSteps
  PROVE  /\ CallsTyped'
         /\ calls'[c].pc = pc /\ calls'[c].source = calls[c].source
         /\ calls[c] \in PlainCall => calls'[c] \in PlainCall
         /\ calls[c] \in ReadingCall =>
              /\ calls'[c].revision = calls[c].revision
              /\ calls'[c].linked = calls[c].linked
              /\ calls'[c].video = calls[c].video
         /\ \A d \in Calls \ {c} : calls'[d] = calls[d]
<1> DEFINE next == [calls[c] EXCEPT !.pc = pc]
<1>1. calls' = [calls EXCEPT ![c] = next]
  BY DEF Goes
<1>2. CASE calls[c] \in PlainCall /\ pc \in PlainSteps
  <2>1. next \in PlainCall /\ next.pc = pc /\ next.source = calls[c].source
    BY <1>2 DEF PlainCall
  <2>2. calls[c] \notin ReadingCall
    BY <1>2, SMTT(30) DEF PlainCall, ReadingCall
  <2> QED BY <1>1, <2>1, <2>2 DEF CallsTyped
<1>3. CASE calls[c] \in ReadingCall /\ pc \in ReadingSteps
  <2>1. /\ next \in ReadingCall /\ next.pc = pc /\ next.source = calls[c].source
        /\ next.revision = calls[c].revision /\ next.linked = calls[c].linked
        /\ next.video = calls[c].video
    BY <1>3 DEF ReadingCall
  <2>2. calls[c] \notin PlainCall
    BY <1>3, SMTT(30) DEF PlainCall, ReadingCall
  <2> QED BY <1>1, <2>1, <2>2 DEF CallsTyped
<1> QED BY <1>2, <1>3

LEMMA CallTyped ==
  ASSUME CallsTyped, NEW c \in Calls, NEW s \in Sources, NEW pc \in PlainSteps,
         Call(c, s, pc)
  PROVE  /\ CallsTyped'
         /\ calls'[c] \in PlainCall /\ calls'[c].pc = pc /\ calls'[c].source = s
         /\ \A d \in Calls \ {c} : calls'[d] = calls[d]
<1> DEFINE next == [pc |-> pc, source |-> s]
<1>1. next \in PlainCall /\ next.pc = pc /\ next.source = s
  BY DEF PlainCall
<1>2. calls' = [calls EXCEPT ![c] = next]
  BY DEF Call
<1> QED BY <1>1, <1>2 DEF CallsTyped

LEMMA CallReadingTyped ==
  ASSUME CallsTyped, NEW c \in Calls, NEW s \in Sources, NEW pc \in ReadingSteps,
         rows[s] \in SourceRow, NEW link \in BOOLEAN, NEW chosen \in Videos \cup {NoVideo},
         CallReading(c, s, pc, link, chosen)
  PROVE  /\ CallsTyped'
         /\ calls'[c].pc = pc /\ calls'[c].source = s
         /\ calls'[c].revision = rows[s].revision
         /\ calls'[c].linked = link /\ calls'[c].video = chosen
         /\ \A d \in Calls \ {c} : calls'[d] = calls[d]
<1> DEFINE next == [pc |-> pc, source |-> s, revision |-> rows[s].revision,
                    linked |-> link, video |-> chosen]
<1>1. rows[s].revision \in Nat \ {0}
  BY DEF SourceRow
<1>2. next \in ReadingCall
  BY <1>1 DEF ReadingCall
<1>3. /\ next.pc = pc /\ next.source = s /\ next.revision = rows[s].revision
      /\ next.linked = link /\ next.video = chosen
  OBVIOUS
<1>4. calls' = [calls EXCEPT ![c] = next]
  BY DEF CallReading
<1> QED BY <1>2, <1>3, <1>4 DEF CallsTyped

LEMMA ReturnsTyped ==
  ASSUME CallsTyped, lock \in [Adapters -> Calls \cup {Free}], NEW c \in Calls, Returns(c)
  PROVE  /\ CallsTyped'
         /\ calls'[c] = Idle
         /\ \A d \in Calls \ {c} : calls'[d] = calls[d]
         /\ lock' \in [Adapters -> Calls \cup {Free}]
         /\ \A a \in Adapters : lock'[a] # Free => lock'[a] = lock[a] /\ lock'[a] # c
<1>1. calls' = [calls EXCEPT ![c] = Idle]
  BY DEF Returns
<1>2. lock' = [a \in Adapters |-> IF lock[a] = c THEN Free ELSE lock[a]]
  BY DEF Returns, Released
<1>3. CallsTyped' /\ calls'[c] = Idle /\ \A d \in Calls \ {c} : calls'[d] = calls[d]
  BY <1>1 DEF CallsTyped
<1>4. /\ lock' \in [Adapters -> Calls \cup {Free}]
      /\ \A a \in Adapters : lock'[a] # Free => lock'[a] = lock[a] /\ lock'[a] # c
  BY <1>2, SourceAuthorizationAssumption
<1> QED BY <1>3, <1>4

-----------------------------------------------------------------------------
(* A step of a call that leaves the table alone.                            *)

\* The lock of an adapter is held by a call.
LocksHeld == \A a \in Adapters : lock[a] # Free => calls[lock[a]] # Idle

\* Every credential of the new vault is accounted for.
Accounted(s) ==
  \/ s \in aux_stray'
  \/ Held(s)'
  \/ s \in vault /\ ~Held(s)
  \/ s \in linked /\ \A d \in Calls : ~(calls'[d].pc \in {"purged", "late_remove"} /\ calls'[d].source = s)

\* A call that has returned has read nothing, and holds nothing.
LEMMA Returned ==
  ASSUME CallsTyped, lock \in [Adapters -> Calls \cup {Free}], LocksHeld,
         NEW c \in Calls, Returns(c)
  PROVE  /\ CallsTyped' /\ calls'[c] = Idle /\ calls'[c].pc = "idle"
         /\ \A d \in Calls \ {c} : calls'[d] = calls[d]
         /\ lock' \in [Adapters -> Calls \cup {Free}] /\ LocksHeld'
         /\ Reads(c)' /\ StaysLinked(c)'
<1>1. /\ CallsTyped' /\ calls'[c] = Idle
      /\ \A d \in Calls \ {c} : calls'[d] = calls[d]
      /\ lock' \in [Adapters -> Calls \cup {Free}]
      /\ \A a \in Adapters : lock'[a] # Free => lock'[a] = lock[a] /\ lock'[a] # c
  BY ReturnsTyped
<1>2. LocksHeld'
  <2>1. ASSUME NEW a \in Adapters, lock'[a] # Free
        PROVE  calls'[lock'[a]] # Idle
    <3>1. lock'[a] = lock[a] /\ lock[a] # c /\ lock[a] # Free /\ lock[a] \in Calls
      BY <1>1, <2>1
    <3> QED BY <1>1, <3>1 DEF LocksHeld
  <2> QED BY <2>1 DEF LocksHeld
<1>3. calls'[c].pc = "idle" /\ ~(calls'[c] \in ReadingCall)
  <2>1. Idle.pc = "idle" /\ (Idle \in ReadingCall => Idle.pc \in ReadingSteps)
    BY DEF Idle, ReadingCall
  <2> QED BY <1>1, <2>1 DEF ReadingSteps, LateSteps
<1>4. Reads(c)' /\ StaysLinked(c)'
  BY <1>3 DEF Reads, StaysLinked
<1> QED BY <1>1, <1>2, <1>3, <1>4

LEMMA LinkedIsHeld ==
  ASSUME CallsTyped
  PROVE  CredentialsAreLinked <=> \A s \in vault : s \in linked \/ s \in aux_stray \/ Held(s)
<1>1. \A c \in Calls : calls[c].pc \in {"stored", "undoing", "late_link"} => calls[c] # Idle
  BY DEF Idle
<1> QED BY <1>1 DEF CredentialsAreLinked, Held, HeldBy, At, Src

LEMMA CallStep ==
  ASSUME AuthInv, NEW c \in Calls, UNCHANGED Table,
         CallsTyped', \A d \in Calls \ {c} : calls'[d] = calls[d],
         lock' \in [Adapters -> Calls \cup {Free}], LocksHeld',
         pending' \in [Sources -> PendingStates],
         vault' \subseteq Sources, aux_stray \subseteq aux_stray',
         \A s \in vault' : Accounted(s),
         Reads(c)', StaysLinked(c)'
  PROVE  AuthInv'
<1>1. /\ rows' = rows /\ linked' = linked /\ video' = video
      /\ aux_selected' = aux_selected /\ aux_deleted' = aux_deleted
  BY DEF Table
<1>2. Existing' = Existing
  BY <1>1 DEF Existing
<1>3. TypeOK' /\ IsFiniteSet(Existing)' /\ GoneForGood' /\ SelectionKept'
  BY <1>1, <1>2 DEF AuthInv, TypeOK, GoneForGood, SelectionKept, LocksHeld, Table
<1>4. \A s \in vault' : s \in linked' \/ s \in aux_stray' \/ Held(s)'
  <2>1. \A s \in vault : s \in linked \/ s \in aux_stray \/ Held(s)
    BY LinkedIsHeld DEF AuthInv
  <2> QED BY <1>1, <2>1 DEF Accounted
<1>5. CredentialsAreLinked'
  BY <1>4 DEF CredentialsAreLinked, Held, HeldBy, At, Src, Idle
<1>6. ASSUME NEW d \in Calls \ {c}
      PROVE  Reads(d)' /\ StaysLinked(d)'
  <2>1. calls'[d] = calls[d] /\ Reads(d) /\ StaysLinked(d)
    BY DEF AuthInv
  <2>2. StaysLinked(d)'
    BY <1>1, <2>1 DEF StaysLinked, Src
  <2>3. ASSUME AsRead(d), calls[d].pc \in {"purged", "late_remove"}, Src(d) \in vault'
        PROVE  Src(d) \in aux_stray' \/ Held(Src(d))'
    <3>1. Accounted(Src(d))
      BY <2>3
    <3>2. calls'[d].pc \in {"purged", "late_remove"} /\ calls'[d].source = Src(d)
      BY <2>1, <2>3 DEF Src
    <3>3. Src(d) \in vault /\ ~Held(Src(d)) => Src(d) \in aux_stray
      BY <2>3 DEF AsRead
    <3>4. Src(d)' = Src(d)
      BY <2>1 DEF Src
    <3>5. Held(Src(d))' <=> \E e \in Calls : calls'[e].pc \in {"stored", "undoing", "late_link"} /\ calls'[e].source = Src(d)
      BY <3>4 DEF Held, HeldBy
    <3> QED BY <3>1, <3>2, <3>3, <3>5 DEF Accounted, Held, HeldBy
  <2>4. AsRead(d) => AsRead(d)'
    BY <1>1, <2>1, <2>3 DEF AsRead, Src
  <2> QED BY <1>1, <2>1, <2>2, <2>4 DEF Reads, Src
<1> QED BY <1>3, <1>5, <1>6 DEF AuthInv

\* A call that returns, having dropped nothing it is accountable for.
LEMMA ReturnStep ==
  ASSUME AuthInv, NEW c \in Calls, UNCHANGED Table, Returns(c),
         pending' \in [Sources -> PendingStates],
         vault' \subseteq vault, aux_stray \subseteq aux_stray',
         \A s \in vault' : HeldBy(c, s) => s \in aux_stray'
  PROVE  AuthInv'
<1>1. CallsTyped /\ lock \in [Adapters -> Calls \cup {Free}] /\ LocksHeld /\ vault \subseteq Sources
  BY DEF AuthInv, TypeOK, LocksHeld
<1>2. /\ CallsTyped' /\ Reads(c)' /\ StaysLinked(c)'
      /\ \A d \in Calls \ {c} : calls'[d] = calls[d]
      /\ lock' \in [Adapters -> Calls \cup {Free}] /\ LocksHeld'
  BY <1>1, Returned
<1>4. ASSUME NEW s \in vault'
      PROVE  Accounted(s)
  <2>1. ASSUME NEW d \in Calls, HeldBy(d, s), d # c
        PROVE  Held(s)'
    BY <1>2, <2>1 DEF Held, HeldBy
  <2> QED BY <2>1 DEF Accounted, Held
<1>5. vault' \subseteq Sources
  BY <1>1
<1> QED BY <1>1, <1>2, <1>4, <1>5, CallStep

\* A call that goes on, and still holds what it held.
LEMMA GoStep ==
  ASSUME AuthInv, NEW c \in Calls, UNCHANGED <<Table, vault, aux_stray>>,
         CallsTyped', \A d \in Calls \ {c} : calls'[d] = calls[d], calls'[c] # Idle,
         lock' = lock,
         pending' \in [Sources -> PendingStates],
         \A s \in vault : HeldBy(c, s) => HeldBy(c, s)',
         Reads(c)', StaysLinked(c)'
  PROVE  AuthInv'
<1>1. /\ lock \in [Adapters -> Calls \cup {Free}] /\ LocksHeld /\ vault \subseteq Sources
      /\ vault' = vault /\ aux_stray' = aux_stray /\ UNCHANGED Table
  BY DEF AuthInv, TypeOK, LocksHeld
<1>2. LocksHeld'
  BY <1>1 DEF LocksHeld
<1>3. ASSUME NEW s \in vault
      PROVE  Accounted(s)
  <2>1. ASSUME NEW d \in Calls, HeldBy(d, s)
        PROVE  Held(s)'
    <3>1. CASE d = c
      BY <2>1, <3>1 DEF Held
    <3>2. CASE d # c
      BY <2>1, <3>2 DEF Held, HeldBy
    <3> QED BY <3>1, <3>2
  <2> QED BY <2>1 DEF Accounted, Held
<1> QED BY <1>1, <1>2, <1>3, CallStep

\* A call that keeps nothing has read nothing.
LEMMA PlainReads ==
  ASSUME CallsTyped, NEW c \in Calls, calls[c] \in PlainCall
  PROVE  Reads(c)
<1>1. calls[c] \notin ReadingCall
  BY SMTT(30) DEF PlainCall, ReadingCall
<1> QED BY <1>1 DEF Reads

\* What a call reads is as it is.
LEMMA ReadsNow ==
  ASSUME NEW c \in Calls, rows[Src(c)] # NoRow, calls[c].revision = rows[Src(c)].revision,
         AsRead(c)
  PROVE  Reads(c)
BY DEF Reads

\* What a call has read stays what it was while it goes on.
LEMMA GoesReads ==
  ASSUME AuthInv, NEW c \in Calls, NEW pc, Goes(c, pc), UNCHANGED Table,
         \/ calls[c] \in PlainCall /\ pc \in PlainSteps
         \/ calls[c] \in ReadingCall /\ pc \in ReadingSteps,
         pc \in {"identifying", "stored", "late_link"} => calls[c].pc \in {"identifying", "stored", "late_link"},
         pc \in {"purged", "late_remove"} =>
           calls[c].pc = "purged" /\ UNCHANGED <<vault, aux_stray>>,
         pc # "purging"
  PROVE  Reads(c)'
<1>1. CallsTyped /\ Reads(c)
  BY DEF AuthInv
<1>2. /\ CallsTyped'
      /\ calls'[c].pc = pc /\ calls'[c].source = calls[c].source
      /\ calls[c] \in PlainCall => calls'[c] \in PlainCall
      /\ calls[c] \in ReadingCall =>
           /\ calls'[c].revision = calls[c].revision
           /\ calls'[c].video = calls[c].video
      /\ \A d \in Calls \ {c} : calls'[d] = calls[d]
  BY <1>1, GoesTyped
<1>3. CASE calls[c] \in PlainCall
  <2>1. calls'[c] \notin ReadingCall
    BY <1>2, <1>3, SMTT(30) DEF PlainCall, ReadingCall
  <2> QED BY <2>1 DEF Reads
<1>4. CASE calls[c] \in ReadingCall
  <2>1. /\ rows' = rows /\ linked' = linked /\ video' = video /\ aux_deleted' = aux_deleted
    BY DEF Table
  <2>2. calls[c].pc = "purged" /\ Held(Src(c)) => Held(Src(c))'
    BY <1>2 DEF Held, HeldBy, Src
  <2>3. AsRead(c) => AsRead(c)'
    BY <1>2, <1>4, <2>1, <2>2 DEF AsRead, Src
  <2> QED BY <1>1, <1>2, <1>4, <2>1, <2>3 DEF Reads, Src
<1> QED BY <1>3, <1>4

-----------------------------------------------------------------------------
(* Authorisations.                                                         *)

LEMMA BeginStep ==
  ASSUME AuthInv, NEW c \in Calls
  PROVE  /\ \A s \in Sources :
              BeginAuthorization(c, s) \/ Poll(c, s) \/ Delete(c, s) => AuthInv'
         /\ BeginInsert(c) \/ BeginFails(c) => AuthInv'
<1>1. CallsTyped /\ pending \in [Sources -> PendingStates]
  BY DEF AuthInv, TypeOK
<1>2. ASSUME NEW s \in Sources, NEW pc \in {"begun", "waiting", "checking"}, Call(c, s, pc),
             calls[c] = Idle, UNCHANGED <<Table, vault, pending, lock, aux_stray>>
      PROVE  AuthInv'
  <2>1. /\ CallsTyped' /\ calls'[c] \in PlainCall /\ calls'[c].pc = pc
        /\ \A d \in Calls \ {c} : calls'[d] = calls[d]
    BY <1>1, <1>2, CallTyped DEF PlainSteps
  <2>2. calls'[c] # Idle /\ ~(calls[c].pc \in {"stored", "undoing", "late_link"})
    BY <1>2, <2>1 DEF Idle
  <2>3. Reads(c)'
    BY <2>1, SMTT(30) DEF Reads, PlainCall, ReadingCall
  <2>4. StaysLinked(c)'
    BY <2>1 DEF StaysLinked
  <2> QED BY <1>1, <1>2, <2>1, <2>2, <2>3, <2>4, GoStep DEF HeldBy
<1>3. ASSUME NEW s \in Sources, BeginAuthorization(c, s) \/ Poll(c, s) \/ Delete(c, s)
      PROVE  AuthInv'
  BY <1>2, <1>3 DEF BeginAuthorization, Poll, Delete, MayCall
<1>4. ASSUME BeginInsert(c) \/ BeginFails(c)
      PROVE  AuthInv'
  <2>1. calls[c].pc = "begun" /\ calls[c] # Idle /\ Src(c) \in Sources
    BY <1>1, <1>4, CallTypes DEF BeginInsert, BeginFails, At
  <2>2. pending' \in [Sources -> PendingStates]
    BY <1>1, <1>4, <2>1 DEF BeginInsert, BeginFails, PendingStates
  <2>3. Returns(c) /\ UNCHANGED <<Table, vault, aux_stray>>
    BY <1>4 DEF BeginInsert, BeginFails
  <2> QED BY <2>1, <2>2, <2>3, ReturnStep DEF HeldBy
<1> QED BY <1>3, <1>4

LEMMA PollReturns ==
  ASSUME AuthInv, NEW c \in Calls,
         PollUnanswered(c) \/ PollRefused(c) \/ PollUndo(c)
  PROVE  AuthInv'
<1>1. CallsTyped /\ pending \in [Sources -> PendingStates]
  BY DEF AuthInv, TypeOK
<1>2. CASE PollUnanswered(c)
  <2>1. calls[c].pc = "polling" /\ Src(c) \in Sources
    BY <1>1, <1>2, CallTypes DEF PollUnanswered, At
  <2>2. \A state \in PendingStates : Taken(state) \in PendingStates
    BY DEF Taken, PendingStates
  <2>3. pending' \in [Sources -> PendingStates]
    BY <1>1, <1>2, <2>1, <2>2 DEF PollUnanswered
  <2> QED BY <1>2, <2>1, <2>3, ReturnStep DEF PollUnanswered, HeldBy
<1>3. CASE PollRefused(c)
  BY <1>1, <1>3, ReturnStep DEF PollRefused, HeldBy, At
<1>4. CASE PollUndo(c)
  <2>1. \A s \in vault' : HeldBy(c, s) => s \in aux_stray'
    BY <1>4 DEF PollUndo, DropsCredential, HeldBy, Src
  <2>2. vault' \subseteq vault /\ aux_stray \subseteq aux_stray' /\ pending' = pending
    BY <1>4 DEF PollUndo, DropsCredential
  <2> QED BY <1>1, <1>4, <2>1, <2>2, ReturnStep DEF PollUndo
<1> QED BY <1>2, <1>3, <1>4

\* The lock of an adapter is taken, for one source of the adapter.
LEMMA AcquireStep ==
  ASSUME AuthInv, NEW c \in Calls, PollAcquire(c)
  PROVE  AuthInv'
<1>1. /\ CallsTyped /\ pending \in [Sources -> PendingStates] /\ LocksHeld
      /\ lock \in [Adapters -> Calls \cup {Free}] /\ vault \subseteq Sources
  BY DEF AuthInv, TypeOK, LocksHeld
<1>2. calls[c].pc = "waiting" /\ calls[c] # Idle /\ Src(c) \in Sources
  BY <1>1, CallTypes DEF PollAcquire, At
<1>3. Adapter[Src(c)] \in Adapters
  BY <1>2, SourceAuthorizationAssumption DEF Adapters
<1>4. CASE Returns(c)
  BY <1>1, <1>2, <1>4, ReturnStep DEF PollAcquire, HeldBy
<1>5. CASE Goes(c, "polling") /\ lock' = [lock EXCEPT ![Adapter[Src(c)]] = c]
  <2>1. calls[c] \in PlainCall
    BY <1>1, <1>2, CallTypes DEF ReadingSteps, LateSteps
  <2>2. /\ CallsTyped' /\ calls'[c].pc = "polling"
        /\ \A d \in Calls \ {c} : calls'[d] = calls[d]
    BY <1>1, <1>5, <2>1, GoesTyped DEF PlainSteps
  <2>3. UNCHANGED <<Table, vault, pending, aux_stray>>
    BY DEF PollAcquire
  <2>4. Reads(c)'
    BY <1>5, <2>1, <2>3, GoesReads DEF PlainSteps
  <2>5. StaysLinked(c)'
    BY <2>2 DEF StaysLinked
  <2>6. lock' \in [Adapters -> Calls \cup {Free}]
    BY <1>1, <1>3, <1>5
  <2>7. LocksHeld'
    <3>1. \A d \in Calls : calls[d] # Idle => calls'[d] # Idle
      BY <2>2 DEF Idle
    <3> QED BY <1>1, <1>2, <1>3, <1>5, <3>1 DEF LocksHeld
  <2>8. ASSUME NEW s \in vault
        PROVE  Accounted(s)
    <3>1. ASSUME NEW d \in Calls, HeldBy(d, s)
          PROVE  Held(s)'
      BY <1>2, <2>2, <3>1 DEF Held, HeldBy
    <3> QED BY <3>1 DEF Accounted, Held
  <2> QED BY <1>1, <2>2, <2>3, <2>4, <2>5, <2>6, <2>7, <2>8, CallStep
<1> QED BY <1>4, <1>5 DEF PollAcquire

LEMMA PollGoes ==
  ASSUME AuthInv, NEW c \in Calls, PollAuthorized(c) \/ PollConflict(c)
  PROVE  AuthInv'
<1>1. /\ CallsTyped /\ pending \in [Sources -> PendingStates]
  BY DEF AuthInv, TypeOK
<1>2. CASE PollAuthorized(c)
  <2>1. calls[c].pc = "polling" /\ Src(c) \in Sources /\ calls[c] \in PlainCall
    BY <1>1, <1>2, CallTypes DEF PollAuthorized, At, ReadingSteps, LateSteps, Idle
  <2>2. /\ CallsTyped' /\ calls'[c].pc = "authorized"
        /\ \A d \in Calls \ {c} : calls'[d] = calls[d]
    BY <1>1, <1>2, <2>1, GoesTyped DEF PlainSteps, PollAuthorized
  <2>3. Reads(c)'
    BY <1>2, <2>1, GoesReads DEF PlainSteps, PollAuthorized
  <2>4. StaysLinked(c)' /\ calls'[c] # Idle
    BY <2>2 DEF StaysLinked, Idle
  <2>5. pending' \in [Sources -> PendingStates]
    BY <1>1, <1>2, <2>1 DEF PollAuthorized, PendingStates
  <2> QED BY <1>2, <2>1, <2>2, <2>3, <2>4, <2>5, GoStep DEF PollAuthorized, HeldBy
<1>3. CASE PollConflict(c)
  <2>1. calls[c].pc = "stored" /\ Src(c) \in Sources
    BY <1>1, <1>3, CallTypes DEF PollConflict, At, Idle
  <2>2. /\ CallsTyped' /\ calls'[c] \in PlainCall /\ calls'[c].pc = "undoing"
        /\ calls'[c].source = Src(c)
        /\ \A d \in Calls \ {c} : calls'[d] = calls[d]
    BY <1>1, <1>3, <2>1, CallTyped DEF PlainSteps, PollConflict
  <2>3. Reads(c)'
    BY <2>2, SMTT(30) DEF Reads, PlainCall, ReadingCall
  <2>4. StaysLinked(c)' /\ calls'[c] # Idle
    BY <2>2 DEF StaysLinked, Idle
  <2>5. \A s \in vault : HeldBy(c, s) => HeldBy(c, s)'
    BY <2>2 DEF HeldBy, Src
  <2> QED BY <1>1, <1>3, <2>2, <2>3, <2>4, <2>5, GoStep DEF PollConflict
<1> QED BY <1>2, <1>3

LEMMA PollReadStep ==
  ASSUME AuthInv, NEW c \in Calls, PollRead(c)
  PROVE  AuthInv'
<1>1. /\ CallsTyped /\ pending \in [Sources -> PendingStates]
      /\ rows \in [Sources -> SourceRow \cup {NoRow}]
      /\ video \in [Sources -> Videos \cup {NoVideo}]
  BY DEF AuthInv, TypeOK
<1>2. calls[c].pc = "authorized" /\ calls[c] # Idle /\ Src(c) \in Sources
  BY <1>1, CallTypes DEF PollRead, At, Idle
<1>3. UNCHANGED <<Table, vault, pending, aux_stray>>
  BY DEF PollRead
<1>4. CASE Returns(c)
  BY <1>1, <1>2, <1>3, <1>4, ReturnStep DEF HeldBy
<1>5. CASE ~Returns(c)
  <2>1. /\ rows[Src(c)] # NoRow /\ lock' = lock
        /\ CallReading(c, Src(c), "identifying", TRUE, video[Src(c)])
    BY <1>5 DEF PollRead
  <2>2. rows[Src(c)] \in SourceRow
    BY <1>1, <1>2, <2>1
  <2>3. video[Src(c)] \in Videos \cup {NoVideo}
    BY <1>1, <1>2
  <2>4. /\ CallsTyped'
        /\ calls'[c].pc = "identifying" /\ calls'[c].source = Src(c)
        /\ calls'[c].revision = rows[Src(c)].revision
        /\ calls'[c].video = video[Src(c)]
        /\ \A d \in Calls \ {c} : calls'[d] = calls[d]
    <3>1. "identifying" \in ReadingSteps /\ TRUE \in BOOLEAN
      BY DEF ReadingSteps, LateSteps
    <3>2. ASSUME NEW s \in Sources, NEW v \in Videos \cup {NoVideo}, rows[s] \in SourceRow,
                 CallReading(c, s, "identifying", TRUE, v)
          PROVE  /\ CallsTyped'
                 /\ calls'[c].pc = "identifying" /\ calls'[c].source = s
                 /\ calls'[c].revision = rows[s].revision
                 /\ calls'[c].linked = TRUE /\ calls'[c].video = v
                 /\ \A d \in Calls \ {c} : calls'[d] = calls[d]
      <4>1. CallsTyped
        BY <1>1
      <4> QED BY <4>1, <3>1, <3>2, CallReadingTyped, ZenonT(60)
    <3> QED BY <1>2, <2>1, <2>2, <2>3, <3>2
  <2>5. rows' = rows /\ video' = video
    BY <1>3 DEF Table
  <2>6. Reads(c)'
    BY <2>1, <2>4, <2>5 DEF Reads, AsRead, Src
  <2>7. StaysLinked(c)' /\ calls'[c] # Idle
    BY <2>4 DEF StaysLinked, Idle
  <2> QED BY <1>1, <1>2, <1>3, <2>1, <2>4, <2>6, <2>7, GoStep DEF HeldBy
<1> QED BY <1>4, <1>5

\* The vault gets a credential that its call holds.
LEMMA PollStoreStep ==
  ASSUME AuthInv, NEW c \in Calls, PollStore(c)
  PROVE  AuthInv'
<1>1. /\ CallsTyped /\ pending \in [Sources -> PendingStates] /\ LocksHeld
      /\ lock \in [Adapters -> Calls \cup {Free}] /\ vault \subseteq Sources
  BY DEF AuthInv, TypeOK, LocksHeld
<1>2. /\ calls[c].pc = "identifying" /\ calls[c] # Idle /\ Src(c) \in Sources
      /\ calls[c] \in ReadingCall
  BY <1>1, CallTypes DEF PollStore, At, Idle, PlainSteps
<1>3. /\ CallsTyped' /\ calls'[c].pc = "stored" /\ calls'[c].source = calls[c].source
      /\ \A d \in Calls \ {c} : calls'[d] = calls[d]
  BY <1>1, <1>2, GoesTyped DEF PollStore, ReadingSteps, LateSteps
<1>4. UNCHANGED <<Table, pending, lock, aux_stray>> /\ vault' = vault \cup {Src(c)}
  BY DEF PollStore
<1>5. Reads(c)'
  BY <1>2, <1>4, GoesReads DEF PollStore, ReadingSteps, LateSteps
<1>6. StaysLinked(c)'
  BY <1>3 DEF StaysLinked
<1>7. LocksHeld'
  <2>1. \A d \in Calls : calls[d] # Idle => calls'[d] # Idle
    BY <1>3 DEF Idle
  <2> QED BY <1>1, <1>4, <2>1, SourceAuthorizationAssumption DEF LocksHeld
<1>8. ASSUME NEW s \in vault'
      PROVE  Accounted(s)
  <2>1. CASE s = Src(c)
    <3>1. Held(s)'
      BY <1>3, <2>1 DEF Held, HeldBy, Src
    <3> QED BY <3>1 DEF Accounted
  <2>2. CASE s # Src(c)
    <3>1. ASSUME NEW d \in Calls, HeldBy(d, s)
          PROVE  Held(s)'
      BY <1>2, <1>3, <3>1 DEF Held, HeldBy
    <3>2. s \in vault
      BY <1>4, <2>2
    <3> QED BY <3>1, <3>2 DEF Accounted, Held
  <2> QED BY <2>1, <2>2
<1> QED BY <1>1, <1>2, <1>3, <1>4, <1>5, <1>6, <1>7, <1>8, CallStep

-----------------------------------------------------------------------------
(* Tests, selections and refreshes.                                        *)

LEMMA TestStep ==
  ASSUME AuthInv, NEW c \in Calls, NEW s \in Sources,
         Test(c, s) \/ \E v \in Videos : Select(c, s, v)
  PROVE  AuthInv'
<1>1. /\ CallsTyped /\ pending \in [Sources -> PendingStates]
      /\ rows \in [Sources -> SourceRow \cup {NoRow}]
  BY DEF AuthInv, TypeOK
<1>2. /\ UNCHANGED <<Table, vault, pending, lock, aux_stray>>
      /\ calls[c] = Idle /\ s \in linked /\ rows[s] # NoRow
  BY DEF Test, Select, MayCall
<1>3. /\ CallsTyped' /\ Reads(c)'
      /\ calls'[c].pc = "loading" /\ calls'[c].source = s
      /\ \A d \in Calls \ {c} : calls'[d] = calls[d]
  <2>1. CASE Test(c, s)
    <3>1. Call(c, s, "loading")
      BY <2>1 DEF Test
    <3>2. /\ CallsTyped' /\ calls'[c] \in PlainCall /\ calls'[c].pc = "loading"
          /\ calls'[c].source = s /\ \A d \in Calls \ {c} : calls'[d] = calls[d]
      BY <1>1, <3>1, CallTyped DEF PlainSteps
    <3>3. Reads(c)'
      BY <3>2, SMTT(30) DEF Reads, PlainCall, ReadingCall
    <3> QED BY <3>2, <3>3
  <2>2. ASSUME NEW v \in Videos, Select(c, s, v)
        PROVE  /\ CallsTyped' /\ Reads(c)'
               /\ calls'[c].pc = "loading" /\ calls'[c].source = s
               /\ \A d \in Calls \ {c} : calls'[d] = calls[d]
    <3>1. CallReading(c, s, "loading", TRUE, v)
      BY <2>2 DEF Select
    <3>2. rows[s] \in SourceRow
      BY <1>1, <1>2
    <3>3. /\ CallsTyped' /\ calls'[c].pc = "loading" /\ calls'[c].source = s
          /\ calls'[c].revision = rows[s].revision
          /\ \A d \in Calls \ {c} : calls'[d] = calls[d]
      <4>1. "loading" \in ReadingSteps /\ TRUE \in BOOLEAN /\ v \in Videos \cup {NoVideo}
        BY DEF ReadingSteps, LateSteps
      <4> QED BY <1>1, <3>1, <3>2, <4>1, CallReadingTyped, Zenon
    <3>4. rows' = rows
      BY <1>2 DEF Table
    <3>5. Reads(c)'
      BY <1>2, <3>3, <3>4 DEF Reads, AsRead, Src
    <3> QED BY <3>3, <3>5
  <2> QED BY <2>1, <2>2
<1>4. StaysLinked(c)' /\ calls'[c] # Idle
  BY <1>2, <1>3 DEF StaysLinked, Idle, Src, Table
<1>5. ~(calls[c].pc \in {"stored", "undoing", "late_link"})
  BY <1>2 DEF Idle
<1> QED BY <1>1, <1>2, <1>3, <1>4, <1>5, GoStep DEF HeldBy

LEMMA RefreshReturnStep ==
  ASSUME AuthInv, NEW c \in Calls, RefreshReturns(c)
  PROVE  AuthInv'
<1>1. pending' \in [Sources -> PendingStates]
  BY DEF AuthInv, TypeOK, RefreshReturns
<1> QED BY <1>1, ReturnStep DEF RefreshReturns, HeldBy, At

LEMMA RefreshLoadStep ==
  ASSUME AuthInv, NEW c \in Calls, RefreshLoad(c)
  PROVE  AuthInv'
<1>1. /\ CallsTyped /\ pending \in [Sources -> PendingStates] /\ StaysLinked(c)
  BY DEF AuthInv, TypeOK
<1>2. /\ UNCHANGED <<Table, vault, pending, aux_stray>>
      /\ calls[c].pc = "loading" /\ calls[c] # Idle
      /\ calls[c] \in PlainCall \cup ReadingCall
  BY <1>1, CallTypes DEF RefreshLoad, At, Idle
<1>3. CASE Returns(c)
  BY <1>1, <1>2, <1>3, ReturnStep DEF HeldBy
<1>4. ASSUME NEW pc \in {"refreshing", "identified"}, Goes(c, pc), lock' = lock
      PROVE  AuthInv'
  <2>1. /\ CallsTyped' /\ calls'[c].pc = pc /\ calls'[c].source = calls[c].source
        /\ \A d \in Calls \ {c} : calls'[d] = calls[d]
    BY <1>1, <1>2, <1>4, GoesTyped DEF PlainSteps, ReadingSteps, LateSteps
  <2>2. Reads(c)'
    BY <1>2, <1>4, GoesReads DEF PlainSteps, ReadingSteps, LateSteps
  <2>3. StaysLinked(c)' /\ calls'[c] # Idle
    BY <1>1, <1>2, <2>1 DEF StaysLinked, Src, Idle, Table
  <2> QED BY <1>1, <1>2, <1>4, <2>1, <2>2, <2>3, GoStep DEF HeldBy
<1> QED BY <1>3, <1>4 DEF RefreshLoad

\* The vault gets a credential of a source that is linked, or a stray one.
LEMMA StoredAccounted ==
  ASSUME AuthInv, NEW c \in Calls, Src(c) \in Sources, Stores(Src(c)), UNCHANGED Table,
         calls[c].pc \in {"refreshing", "late_store"},
         calls'[c].pc \notin {"purged", "late_remove"},
         \A d \in Calls \ {c} : calls'[d] = calls[d]
  PROVE  /\ vault' \subseteq Sources /\ aux_stray \subseteq aux_stray'
         /\ \A s \in vault' : Accounted(s)
<1>1. /\ vault' = vault \cup {Src(c)} /\ aux_stray \subseteq aux_stray'
      /\ (Src(c) \in linked /\ ~Leaving(Src(c))) \/ Src(c) \in aux_stray'
  BY DEF Stores
<1>2. vault' \subseteq Sources
  BY <1>1 DEF AuthInv, TypeOK
<1>3. ASSUME NEW s \in vault'
      PROVE  Accounted(s)
  <2>1. CASE s = Src(c) /\ s \in linked /\ ~Leaving(s)
    <3>1. \A d \in Calls : ~(calls[d].pc \in {"purged", "late_remove"} /\ calls[d].source = s)
      BY <2>1 DEF Leaving, At, Src
    <3>2. \A d \in Calls : ~(calls'[d].pc \in {"purged", "late_remove"} /\ calls'[d].source = s)
      BY <3>1
    <3> QED BY <2>1, <3>2 DEF Accounted
  <2>2. CASE s \in aux_stray'
    BY <2>2 DEF Accounted
  <2>3. CASE s # Src(c)
    <3>1. ASSUME NEW d \in Calls, HeldBy(d, s)
          PROVE  Held(s)'
      BY <3>1 DEF Held, HeldBy
    <3>2. s \in vault
      BY <1>1, <2>3
    <3> QED BY <3>1, <3>2 DEF Accounted, Held
  <2> QED BY <1>1, <2>1, <2>2, <2>3
<1> QED BY <1>1, <1>2, <1>3

LEMMA RefreshStoreStep ==
  ASSUME AuthInv, NEW c \in Calls, RefreshStore(c)
  PROVE  AuthInv'
<1>1. /\ CallsTyped /\ pending \in [Sources -> PendingStates] /\ LocksHeld
      /\ lock \in [Adapters -> Calls \cup {Free}] /\ vault \subseteq Sources
      /\ StaysLinked(c) /\ GoneForGood
  BY DEF AuthInv, TypeOK, LocksHeld
<1>2. /\ calls[c].pc = "refreshing" /\ calls[c] # Idle /\ Src(c) \in Sources
      /\ calls[c] \in PlainCall \cup ReadingCall
  BY <1>1, CallTypes DEF RefreshStore, At, Idle
<1>3. Goes(c, "identified") /\ UNCHANGED <<Table, pending, lock>>
  BY DEF RefreshStore
<1>4. /\ CallsTyped' /\ calls'[c].pc = "identified" /\ calls'[c].source = calls[c].source
      /\ \A d \in Calls \ {c} : calls'[d] = calls[d]
  BY <1>1, <1>2, <1>3, GoesTyped DEF PlainSteps, ReadingSteps, LateSteps
<1>5. Reads(c)'
  BY <1>2, <1>3, GoesReads DEF PlainSteps, ReadingSteps, LateSteps
<1>6. StaysLinked(c)'
  BY <1>1, <1>2, <1>3, <1>4 DEF StaysLinked, Src, Table
<1>7. LocksHeld'
  <2>1. \A d \in Calls : calls[d] # Idle => calls'[d] # Idle
    BY <1>4 DEF Idle
  <2> QED BY <1>1, <1>3, <2>1 DEF LocksHeld
<1>8. Stores(Src(c))
  BY DEF RefreshStore
<1>9. /\ vault' \subseteq Sources /\ aux_stray \subseteq aux_stray'
      /\ \A s \in vault' : Accounted(s)
  BY <1>2, <1>3, <1>4, <1>8, StoredAccounted
<1>10. /\ lock' \in [Adapters -> Calls \cup {Free}] /\ pending' \in [Sources -> PendingStates]
       /\ UNCHANGED Table
  BY <1>1, <1>3
<1> QED BY <1>4, <1>5, <1>6, <1>7, <1>9, <1>10, CallStep

-----------------------------------------------------------------------------
(* Deletions, up to the removal of the row.                                *)

LEMMA DeleteCheckStep ==
  ASSUME AuthInv, NEW c \in Calls, DeleteCheck(c)
  PROVE  AuthInv'
<1>1. CallsTyped /\ pending \in [Sources -> PendingStates]
  BY DEF AuthInv, TypeOK
<1>2. /\ calls[c].pc = "checking" /\ calls[c] # Idle /\ calls[c] \in PlainCall
      /\ UNCHANGED <<Table, vault, pending, aux_stray>>
  BY <1>1, CallTypes DEF DeleteCheck, At, Idle, ReadingSteps, LateSteps
<1>3. CASE Returns(c)
  BY <1>1, <1>2, <1>3, ReturnStep DEF HeldBy
<1>4. CASE Goes(c, "checked") /\ lock' = lock
  <2>1. /\ CallsTyped' /\ calls'[c].pc = "checked"
        /\ \A d \in Calls \ {c} : calls'[d] = calls[d]
    BY <1>1, <1>2, <1>4, GoesTyped DEF PlainSteps
  <2>2. Reads(c)'
    BY <1>2, <1>4, GoesReads DEF PlainSteps
  <2>3. StaysLinked(c)' /\ calls'[c] # Idle
    BY <2>1 DEF StaysLinked, Idle
  <2> QED BY <1>1, <1>2, <1>4, <2>1, <2>2, <2>3, GoStep DEF HeldBy
<1> QED BY <1>3, <1>4 DEF DeleteCheck

LEMMA DeleteReading ==
  ASSUME AuthInv, NEW c \in Calls, NEW s \in Sources, calls[c].pc = "checked",
         rows[s] # NoRow, UNCHANGED <<Table, vault, pending, lock, aux_stray>>,
         CallReading(c, s, "purging", s \in linked, NoVideo)
  PROVE  AuthInv'
<1>1. /\ CallsTyped /\ pending \in [Sources -> PendingStates]
      /\ rows \in [Sources -> SourceRow \cup {NoRow}]
  BY DEF AuthInv, TypeOK
<1>2. /\ UNCHANGED <<Table, vault, pending, lock, aux_stray>>
      /\ rows[s] \in SourceRow
      /\ CallReading(c, s, "purging", s \in linked, NoVideo)
  BY <1>1
<1>3. PICK link \in BOOLEAN : link <=> s \in linked
  <2>1. (s \in linked) \in BOOLEAN
    OBVIOUS
  <2> QED BY <2>1, Zenon
<1>4. CallReading(c, s, "purging", link, NoVideo)
  <2>1. link = (s \in linked)
    BY <1>3
  <2> QED BY <1>2, <2>1, Zenon
<1>5. /\ CallsTyped'
      /\ calls'[c].pc = "purging" /\ calls'[c].source = s
      /\ calls'[c].revision = rows[s].revision
      /\ calls'[c].linked = link /\ calls'[c].video = NoVideo
      /\ \A d \in Calls \ {c} : calls'[d] = calls[d]
  <2>1. "purging" \in ReadingSteps /\ NoVideo \in Videos \cup {NoVideo} /\ CallsTyped
        /\ rows[s] \in SourceRow
    BY <1>1, <1>2 DEF ReadingSteps, LateSteps
  <2>2. ASSUME NEW l \in BOOLEAN, NEW v \in Videos \cup {NoVideo},
               CallReading(c, s, "purging", l, v)
        PROVE  /\ CallsTyped'
               /\ calls'[c].pc = "purging" /\ calls'[c].source = s
               /\ calls'[c].revision = rows[s].revision
               /\ calls'[c].linked = l /\ calls'[c].video = v
               /\ \A d \in Calls \ {c} : calls'[d] = calls[d]
    BY <2>1, <2>2, CallReadingTyped
  <2>3. link \in BOOLEAN
    BY <1>3
  <2> QED BY <1>4, <2>1, <2>2, <2>3, Zenon
<1>6. rows' = rows /\ linked' = linked
  BY <1>2 DEF Table
<1>7. rows[s] # NoRow
  BY <1>2, NoRowAssumption
<1>8. s \in linked => calls'[c].linked = TRUE
  BY <1>3, <1>5, Zenon
<1>9. Reads(c)'
  BY <1>5, <1>6, <1>7, <1>8 DEF Reads, AsRead, Src
<1>10. StaysLinked(c)' /\ calls'[c] # Idle /\ ~(calls[c].pc \in {"stored", "undoing", "late_link"})
  BY <1>2, <1>5 DEF StaysLinked, Idle
<1> QED BY <1>1, <1>2, <1>5, <1>9, <1>10, GoStep DEF HeldBy

LEMMA DeleteReadStep ==
  ASSUME AuthInv, NEW c \in Calls, DeleteRead(c)
  PROVE  AuthInv'
<1>1. CallsTyped /\ pending \in [Sources -> PendingStates]
  BY DEF AuthInv, TypeOK
<1>2. /\ calls[c].pc = "checked" /\ Src(c) \in Sources
      /\ UNCHANGED <<Table, vault, pending, aux_stray>>
  BY <1>1, CallTypes DEF DeleteRead, At, Idle
<1>3. CASE Returns(c)
  BY <1>1, <1>2, <1>3, ReturnStep DEF HeldBy
<1>4. CASE ~Returns(c)
  <2>1. /\ rows[Src(c)] # NoRow /\ lock' = lock
        /\ CallReading(c, Src(c), "purging", Src(c) \in linked, NoVideo)
    BY <1>4 DEF DeleteRead
  <2> QED BY <1>2, <2>1, DeleteReading
<1> QED BY <1>3, <1>4

\* What is left in the vault is not linked at the revision that was read.
LEMMA PurgeStep ==
  ASSUME AuthInv, NEW c \in Calls, DeletePurge(c)
  PROVE  AuthInv'
<1>1. /\ CallsTyped /\ pending \in [Sources -> PendingStates] /\ LocksHeld
      /\ lock \in [Adapters -> Calls \cup {Free}] /\ vault \subseteq Sources
      /\ Reads(c) /\ CredentialsAreLinked
  BY DEF AuthInv, TypeOK, LocksHeld
<1>2. /\ calls[c].pc = "purging" /\ calls[c] # Idle /\ Src(c) \in Sources
      /\ calls[c] \in ReadingCall
  BY <1>1, CallTypes DEF DeletePurge, At, Idle, PlainSteps
<1>3. Goes(c, "purged") /\ UNCHANGED <<Table, pending, lock, aux_stray>>
  BY DEF DeletePurge
<1>4. /\ CallsTyped' /\ calls'[c].pc = "purged" /\ calls'[c].source = calls[c].source
      /\ calls'[c].revision = calls[c].revision
      /\ \A d \in Calls \ {c} : calls'[d] = calls[d]
  BY <1>1, <1>2, <1>3, GoesTyped DEF ReadingSteps, LateSteps
<1>5. /\ vault' \subseteq vault
      /\ Src(c) \in vault' => Src(c) \in vault /\ calls[c].linked # TRUE
  BY DEF DeletePurge
<1>6. \A s : HeldBy(c, s) => FALSE
  BY <1>2 DEF HeldBy
<1>7. \A s : Held(s) => \E d \in Calls : calls'[d].pc \in {"stored", "undoing", "late_link"} /\ calls'[d].source = s
  BY <1>4, <1>6 DEF Held, HeldBy
<1>8. /\ rows' = rows /\ linked' = linked /\ video' = video /\ aux_deleted' = aux_deleted
      /\ aux_stray' = aux_stray
  BY <1>3 DEF Table
<1>9. ASSUME AsRead(c), Src(c) \in vault'
      PROVE  Src(c) \in aux_stray \/ Held(Src(c))
  <2>1. Src(c) \in vault /\ Src(c) \notin linked
    BY <1>2, <1>5, <1>9 DEF AsRead
  <2> QED BY <1>1, <2>1, LinkedIsHeld
<1>10. AsRead(c) => AsRead(c)'
  <2>1. Src(c)' = Src(c)
    BY <1>4 DEF Src
  <2>2. Held(Src(c)) => Held(Src(c))'
    <3>1. Held(Src(c))' <=> \E d \in Calls : calls'[d].pc \in {"stored", "undoing", "late_link"} /\ calls'[d].source = Src(c)
      BY <2>1 DEF Held, HeldBy
    <3> QED BY <1>7, <3>1
  <2> QED BY <1>4, <1>8, <1>9, <2>1, <2>2 DEF AsRead
<1>11. Reads(c)'
  BY <1>1, <1>2, <1>4, <1>8, <1>10 DEF Reads, Src
<1>12. StaysLinked(c)'
  BY <1>4 DEF StaysLinked
<1>13. LocksHeld'
  <2>1. \A d \in Calls : calls[d] # Idle => calls'[d] # Idle
    BY <1>4 DEF Idle
  <2> QED BY <1>1, <1>3, <2>1 DEF LocksHeld
<1>14. \A s \in vault' : Accounted(s)
  BY <1>5, <1>7 DEF Accounted, Held, HeldBy
<1>15. /\ lock' \in [Adapters -> Calls \cup {Free}] /\ pending' \in [Sources -> PendingStates]
       /\ vault' \subseteq Sources /\ UNCHANGED Table /\ aux_stray \subseteq aux_stray'
  BY <1>1, <1>3, <1>5
<1> QED BY <1>4, <1>11, <1>12, <1>13, <1>14, <1>15, CallStep

LEMMA DeleteReturns ==
  ASSUME AuthInv, NEW c \in Calls, DeletePurgeFails(c) \/ DeleteConflict(c)
  PROVE  AuthInv'
<1>1. pending' \in [Sources -> PendingStates]
  BY DEF AuthInv, TypeOK, DeletePurgeFails, DeleteConflict
<1> QED BY <1>1, ReturnStep DEF DeletePurgeFails, DeleteConflict, HeldBy, At

LEMMA ForgetStep ==
  ASSUME AuthInv, NEW c \in Calls, DeleteForget(c)
  PROVE  AuthInv'
<1>1. CallsTyped /\ pending \in [Sources -> PendingStates]
  BY DEF AuthInv, TypeOK
<1>2. PICK a \in Adapters :
        /\ At(c, IF a = Twitch THEN "removed" ELSE "forgetting")
        /\ pending' = IF Adapter[Src(c)] = a THEN [pending EXCEPT ![Src(c)] = "none"] ELSE pending
        /\ IF a = Twitch THEN Goes(c, "forgetting") /\ lock' = lock ELSE Returns(c)
        /\ UNCHANGED <<Table, vault, aux_stray>>
  BY DEF DeleteForget
<1>3. /\ calls[c].pc \in {"removed", "forgetting"} /\ Src(c) \in Sources
      /\ calls[c] \in PlainCall
  BY <1>1, <1>2, CallTypes DEF At, Idle, ReadingSteps, LateSteps
<1>4. pending' \in [Sources -> PendingStates]
  BY <1>1, <1>2, <1>3 DEF PendingStates
<1>5. CASE a = Twitch
  <2>1. /\ CallsTyped' /\ calls'[c].pc = "forgetting"
        /\ \A d \in Calls \ {c} : calls'[d] = calls[d]
    BY <1>1, <1>2, <1>3, <1>5, GoesTyped DEF PlainSteps
  <2>2. Reads(c)'
    BY <1>2, <1>3, <1>5, GoesReads DEF PlainSteps
  <2>3. StaysLinked(c)' /\ calls'[c] # Idle
    BY <2>1 DEF StaysLinked, Idle
  <2> QED BY <1>2, <1>3, <1>4, <1>5, <2>1, <2>2, <2>3, GoStep DEF HeldBy
<1>6. CASE a # Twitch
  BY <1>2, <1>3, <1>4, <1>6, ReturnStep DEF HeldBy
<1> QED BY <1>5, <1>6

-----------------------------------------------------------------------------
(* Calls that are dropped, and what their workers do then.                  *)

LEMMA DropStep ==
  ASSUME AuthInv, NEW c \in Calls, Dropped(c)
  PROVE  AuthInv'
<1>1. /\ CallsTyped /\ pending \in [Sources -> PendingStates] /\ LocksHeld
      /\ lock \in [Adapters -> Calls \cup {Free}] /\ vault \subseteq Sources
  BY DEF AuthInv, TypeOK, LocksHeld
<1>2. UNCHANGED <<Table, vault, pending>> /\ lock' = Released(c)
  BY DEF Dropped
<1>3. CASE /\ calls' = [calls EXCEPT ![c] = Idle]
           /\ aux_stray' = IF At(c, "stored") \/ At(c, "undoing") THEN aux_stray \cup {Src(c)}
                           ELSE aux_stray
  <2>1. Returns(c)
    BY <1>2, <1>3 DEF Returns
  <2>2. calls[c].pc # "late_link"
    BY DEF Dropped, LateSteps
  <2>3. \A s : HeldBy(c, s) => s \in aux_stray'
    BY <1>3, <2>2 DEF HeldBy, At, Src
  <2>4. aux_stray \subseteq aux_stray'
    BY <1>3
  <2> QED BY <1>1, <1>2, <2>1, <2>3, <2>4, ReturnStep
<1>4. ASSUME NEW pc \in Work(c), Goes(c, pc), aux_stray' = aux_stray
      PROVE  AuthInv'
  <2>1. /\ pc = "late_store" => calls[c].pc \in {"identifying", "refreshing"}
        /\ pc = "late_link" => calls[c].pc = "stored"
        /\ pc = "late_select" => calls[c].pc = "identified" /\ Selects(c)
        /\ pc = "late_purge" => calls[c].pc = "purging"
        /\ pc = "late_remove" => calls[c].pc = "purged"
        /\ pc \in LateSteps
        /\ calls[c].pc = "stored" => pc = "late_link"
        /\ calls[c].pc # "undoing" /\ calls[c].pc # "late_link"
    <3>1. \/ (At(c, "identifying") \/ At(c, "refreshing")) /\ pc = "late_store"
          \/ At(c, "stored") /\ pc = "late_link"
          \/ At(c, "identified") /\ Selects(c) /\ pc = "late_select"
          \/ At(c, "purging") /\ pc = "late_purge"
          \/ At(c, "purged") /\ pc = "late_remove"
      BY <1>4 DEF Work
    <3> QED BY <3>1 DEF At, LateSteps
  <2>2. calls[c] # Idle /\ calls[c] \in PlainCall \cup ReadingCall
    BY <1>1, CallTypes DEF Dropped
  <2>3. \/ calls[c] \in PlainCall /\ pc \in PlainSteps
        \/ calls[c] \in ReadingCall /\ pc \in ReadingSteps
    <3>1. CASE calls[c] \in ReadingCall
      BY <2>1, <3>1 DEF ReadingSteps
    <3>2. CASE calls[c] \in PlainCall
      <4>1. calls[c].pc \in PlainSteps /\ calls[c] \notin ReadingCall
        BY <3>2, <1>1, CallTypes, SMTT(30) DEF PlainCall, ReadingCall
      <4>2. ~Selects(c)
        BY <1>1, <2>2, <4>1, SelectsReading
      <4> QED BY <2>1, <3>2, <4>1, <4>2 DEF PlainSteps, LateSteps
    <3> QED BY <2>2, <3>1, <3>2
  <2>4. /\ CallsTyped' /\ calls'[c].pc = pc /\ calls'[c].source = calls[c].source
        /\ \A d \in Calls \ {c} : calls'[d] = calls[d]
    BY <1>1, <1>4, <2>3, GoesTyped
  <2>5. Reads(c)'
    <3>1. UNCHANGED Table /\ UNCHANGED <<vault, aux_stray>>
      BY <1>2, <1>4
    <3>2. /\ pc \in {"identifying", "stored", "late_link"} =>
               calls[c].pc \in {"identifying", "stored", "late_link"}
          /\ pc \in {"purged", "late_remove"} => calls[c].pc = "purged"
          /\ pc # "purging"
      BY <2>1 DEF LateSteps
    <3> QED BY <1>4, <2>3, <3>1, <3>2, GoesReads
  <2>6. StaysLinked(c)' /\ calls'[c] # Idle
    BY <2>1, <2>4 DEF StaysLinked, Idle, LateSteps
  <2>7. lock' \in [Adapters -> Calls \cup {Free}] /\ LocksHeld'
    <3>1. \A d \in Calls : calls[d] # Idle => calls'[d] # Idle
      BY <2>4, <2>6
    <3>2. /\ lock' \in [Adapters -> Calls \cup {Free}]
          /\ \A a \in Adapters : lock'[a] = lock[a] \/ lock'[a] = Free
      BY <1>1, <1>2 DEF Released
    <3>3. ASSUME NEW a \in Adapters, lock'[a] # Free
          PROVE  calls'[lock'[a]] # Idle
      <4>1. lock'[a] = lock[a] /\ lock[a] \in Calls /\ calls[lock[a]] # Idle
        BY <1>1, <3>2, <3>3 DEF LocksHeld
      <4> QED BY <3>1, <4>1
    <3> QED BY <3>2, <3>3 DEF LocksHeld
  <2>8. ASSUME NEW s \in vault'
        PROVE  Accounted(s)
    <3>1. ASSUME NEW d \in Calls, HeldBy(d, s)
          PROVE  Held(s)'
      BY <2>1, <2>4, <3>1 DEF Held, HeldBy
    <3> QED BY <1>2, <3>1 DEF Accounted, Held
  <2> QED BY <1>1, <1>2, <1>4, <2>4, <2>5, <2>6, <2>7, <2>8, CallStep
<1> QED BY <1>3, <1>4 DEF Dropped

LEMMA LateStoreStep ==
  ASSUME AuthInv, NEW c \in Calls, LateStore(c)
  PROVE  AuthInv'
<1>1. /\ CallsTyped /\ pending \in [Sources -> PendingStates] /\ LocksHeld
      /\ lock \in [Adapters -> Calls \cup {Free}]
  BY DEF AuthInv, TypeOK, LocksHeld
<1>2. /\ calls[c].pc = "late_store" /\ Src(c) \in Sources
      /\ Stores(Src(c)) /\ Returns(c) /\ UNCHANGED Table /\ pending' = pending
  BY <1>1, CallTypes DEF LateStore, At, Idle
<1>3. /\ CallsTyped' /\ calls'[c].pc = "idle" /\ Reads(c)' /\ StaysLinked(c)'
      /\ \A d \in Calls \ {c} : calls'[d] = calls[d]
      /\ lock' \in [Adapters -> Calls \cup {Free}] /\ LocksHeld'
  BY <1>1, <1>2, Returned
<1>4. /\ vault' \subseteq Sources /\ aux_stray \subseteq aux_stray'
      /\ \A s \in vault' : Accounted(s)
  BY <1>2, <1>3, StoredAccounted
<1> QED BY <1>1, <1>2, <1>3, <1>4, CallStep

LEMMA LatePurgeStep ==
  ASSUME AuthInv, NEW c \in Calls, LatePurge(c)
  PROVE  AuthInv'
<1>1. pending' \in [Sources -> PendingStates] /\ vault' \subseteq vault
  BY DEF AuthInv, TypeOK, LatePurge
<1> QED BY <1>1, ReturnStep DEF LatePurge, HeldBy, At

-----------------------------------------------------------------------------
(* The callback, stops and the end of the process.                          *)

LEMMA OutsideStep ==
  ASSUME AuthInv, (\E s \in Sources : Callback(s)) \/ StopBegins \/ StopEnds
  PROVE  AuthInv'
<1>1. UNCHANGED <<rows, linked, video, aux_selected, aux_deleted, vault, lock, calls, aux_stray>>
  BY DEF Callback, Table, StopBegins, StopEnds
<1>2. pending' \in [Sources -> PendingStates] /\ stopping' \in BOOLEAN
  BY DEF AuthInv, TypeOK, Callback, PendingStates, Table, StopBegins, StopEnds
<1>3. Existing' = Existing
  BY <1>1 DEF Existing
<1>4. TypeOK' /\ IsFiniteSet(Existing)' /\ CallsTyped' /\ GoneForGood' /\ SelectionKept'
  BY <1>1, <1>2, <1>3 DEF AuthInv, TypeOK, CallsTyped, GoneForGood, SelectionKept
<1>5. \A c \in Calls : Reads(c)' /\ StaysLinked(c)'
  BY <1>1 DEF AuthInv, Reads, AsRead, Held, HeldBy, StaysLinked, Src
<1>6. CredentialsAreLinked'
  BY <1>1 DEF AuthInv, CredentialsAreLinked, At, Src
<1> QED BY <1>4, <1>5, <1>6 DEF AuthInv

LEMMA CrashStep ==
  ASSUME AuthInv, Crash
  PROVE  AuthInv'
<1>1. /\ rows' = rows /\ linked' = linked /\ video' = video /\ vault' = vault
      /\ aux_selected' = aux_selected /\ aux_deleted' = aux_deleted
  BY DEF Crash
<1>2. /\ calls' = [c \in Calls |-> Idle] /\ lock' = [a \in Adapters |-> Free] /\ stopping' = FALSE
      /\ pending' = [s \in Sources |-> "none"]
      /\ aux_stray' = aux_stray \cup {Src(c) : c \in
           {d \in Calls : At(d, "stored") \/ At(d, "undoing") \/ At(d, "late_link")}}
  BY DEF Crash
<1>3. Existing' = Existing
  BY <1>1 DEF Existing
<1>4. TypeOK' /\ IsFiniteSet(Existing)' /\ CallsTyped' /\ GoneForGood' /\ SelectionKept'
  BY <1>1, <1>2, <1>3 DEF AuthInv, TypeOK, CallsTyped, GoneForGood, SelectionKept, PendingStates
<1>5. Idle.pc = "idle" /\ Idle \notin ReadingCall
  <2>1. Idle.pc = "idle" /\ (Idle \in ReadingCall => Idle.pc \in ReadingSteps)
    BY DEF Idle, ReadingCall
  <2> QED BY <2>1 DEF ReadingSteps, LateSteps
<1>6. \A c \in Calls : Reads(c)' /\ StaysLinked(c)'
  BY <1>2, <1>5 DEF Reads, StaysLinked
<1>7. \A s : Held(s) => s \in aux_stray'
  BY <1>2 DEF Held, HeldBy, At, Src
<1>8. CredentialsAreLinked'
  BY <1>1, <1>2, <1>7, LinkedIsHeld DEF AuthInv, CredentialsAreLinked
<1> QED BY <1>4, <1>6, <1>8 DEF AuthInv

-----------------------------------------------------------------------------
(* Writes of the table.                                                    *)

\* A source no call has read of, since its identifier is new.
LEMMA CreateStep ==
  ASSUME AuthInv, NEW s \in Sources, CreateSource(s)
  PROVE  AuthInv'
<1> DEFINE row == [desired |-> "paused", revision |-> 1]
<1>1. /\ rows \in [Sources -> SourceRow \cup {NoRow}] /\ CallsTyped
      /\ rows[s] = NoRow /\ s \notin aux_deleted /\ rows' = [rows EXCEPT ![s] = row]
      /\ UNCHANGED <<linked, video, vault, pending, lock, stopping, calls,
                     aux_selected, aux_stray, aux_deleted>>
  BY DEF AuthInv, TypeOK, CreateSource
<1>2. row \in SourceRow /\ row # NoRow
  BY NoRowAssumption DEF SourceRow
<1>3. rows' \in [Sources -> SourceRow \cup {NoRow}] /\ rows'[s] = row
      /\ \A other \in Sources : other # s => rows'[other] = rows[other]
  BY <1>1, <1>2
<1>4. Existing' = Existing \cup {s}
  BY <1>1, <1>2, <1>3 DEF Existing
<1>5. IsFiniteSet(Existing)' /\ Cardinality(Existing)' <= MaxSources
  <2>1. s \notin Existing /\ IsFiniteSet(Existing)
    BY <1>1 DEF Existing, AuthInv
  <2>2. /\ IsFiniteSet(Existing \cup {s})
        /\ Cardinality(Existing \cup {s}) = Cardinality(Existing) + 1
    BY <2>1, FS_AddElement
  <2>3. Cardinality(Existing) \in Nat /\ Cardinality(Existing) < MaxSources
    BY <2>1, FS_CardinalityType DEF CreateSource, HasRoom
  <2> QED BY <1>4, <2>2, <2>3, SourceAuthorizationAssumption
<1>6. linked' \subseteq Existing'
  BY <1>1, <1>4 DEF AuthInv, TypeOK
<1>7. TypeOK'
  BY <1>1, <1>3, <1>5, <1>6 DEF AuthInv, TypeOK
<1>8. CallsTyped' /\ SelectionKept'
  BY <1>1 DEF AuthInv, CallsTyped, SelectionKept
<1>9. GoneForGood'
  BY <1>1, <1>3 DEF AuthInv, GoneForGood
<1>10. CredentialsAreLinked'
  BY <1>1 DEF AuthInv, CredentialsAreLinked, At, Src
<1>11. ASSUME NEW c \in Calls
       PROVE  Reads(c)' /\ StaysLinked(c)'
  <2>1. Reads(c) /\ StaysLinked(c) /\ (calls[c] \in ReadingCall => Src(c) \in Sources)
    BY <1>1, CallTypes DEF AuthInv
  <2>2. StaysLinked(c)'
    BY <1>1, <2>1 DEF StaysLinked, Src
  <2>3. calls[c] \in ReadingCall /\ Src(c) \notin aux_deleted => Src(c) # s
    BY <1>1, <2>1 DEF Reads
  <2>4. AsRead(c) => AsRead(c)'
    BY <1>1 DEF AsRead, Held, HeldBy, Src
  <2>5. Src(c)' = Src(c)
    BY <1>1 DEF Src
  <2> QED BY <1>1, <1>3, <2>1, <2>2, <2>3, <2>4, <2>5 DEF Reads
<1> QED BY <1>5, <1>7, <1>8, <1>9, <1>10, <1>11 DEF AuthInv

\* A write moves the revision on: what other calls have read of the source is
\* of an older one.
LEMMA RowMoved ==
  ASSUME AuthInv, NEW s \in Sources, NEW row \in SourceRow,
         rows[s] # NoRow, row.revision = rows[s].revision + 1,
         rows' = [rows EXCEPT ![s] = row],
         linked \subseteq linked', linked' \subseteq linked \cup {s},
         \A other \in Sources : other # s => video'[other] = video[other],
         UNCHANGED <<vault, aux_stray, aux_deleted>>,
         CallsTyped',
         \A d \in Calls :
           \/ calls'[d] = calls[d]
           \/ calls'[d] = Idle /\ calls[d].source = s /\ s \in linked'
  PROVE  /\ rows' \in [Sources -> SourceRow \cup {NoRow}]
         /\ linked' \subseteq Existing' /\ Existing' = Existing
         /\ GoneForGood' /\ CredentialsAreLinked'
         /\ \A c \in Calls : Reads(c)' /\ StaysLinked(c)'
<1>1. /\ rows \in [Sources -> SourceRow \cup {NoRow}] /\ CallsTyped
      /\ linked \subseteq Existing /\ row # NoRow
  BY NoRowAssumption DEF AuthInv, TypeOK
<1>2. /\ rows' \in [Sources -> SourceRow \cup {NoRow}] /\ rows'[s] = row
      /\ \A other \in Sources : other # s => rows'[other] = rows[other]
  BY <1>1
<1>3. Existing' = Existing /\ linked' \subseteq Existing'
  BY <1>1, <1>2 DEF Existing
<1>4. GoneForGood'
  BY <1>1, <1>2 DEF AuthInv, GoneForGood
<1>5. Idle.pc = "idle" /\ Idle \notin ReadingCall
  <2>1. Idle.pc = "idle" /\ (Idle \in ReadingCall => Idle.pc \in ReadingSteps)
    BY DEF Idle, ReadingCall
  <2> QED BY <2>1 DEF ReadingSteps, LateSteps
<1>6. \A t : Held(t) =>
        \/ t = s /\ s \in linked'
        \/ \E d \in Calls : calls'[d].pc \in {"stored", "undoing", "late_link"} /\ calls'[d].source = t
  BY DEF Held, HeldBy
<1>7. CredentialsAreLinked'
  <2>1. \A t \in vault : t \in linked \/ t \in aux_stray \/ Held(t)
    BY <1>1, LinkedIsHeld DEF AuthInv
  <2>2. \A c \in Calls : calls'[c].pc \in {"stored", "undoing", "late_link"} => calls'[c] # Idle
    BY <1>5
  <2> QED BY <1>6, <2>1, <2>2 DEF CredentialsAreLinked, At, Src
<1>8. ASSUME NEW c \in Calls
      PROVE  Reads(c)' /\ StaysLinked(c)'
  <2>1. CASE calls'[c] = Idle
    BY <1>5, <2>1 DEF Reads, StaysLinked
  <2>2. CASE calls'[c] = calls[c]
    <3>1. Reads(c) /\ StaysLinked(c) /\ Src(c)' = Src(c)
      BY <2>2 DEF AuthInv, Src
    <3>2. StaysLinked(c)'
      BY <2>2, <3>1 DEF StaysLinked
    <3>3. ASSUME calls[c] \in ReadingCall, Src(c) \notin aux_deleted
          PROVE  Reads(c)'
      <4>1. Src(c) \in Sources /\ calls[c].revision \in Nat \ {0}
        BY <1>1, <3>3, CallTypes
      <4>2. CASE Src(c) = s
        <5>1. rows[s].revision \in Nat /\ row.revision \in Nat
          BY <1>1 DEF SourceRow
        <5>2. calls[c].revision <= rows[s].revision
          BY <3>1, <3>3, <4>1, <4>2, <5>1 DEF Reads
        <5>3. calls[c].revision < row.revision
          BY <4>1, <5>1, <5>2
        <5> QED BY <1>1, <1>2, <2>2, <3>1, <4>2, <5>3 DEF Reads
      <4>3. CASE Src(c) # s
        <5>1. Held(Src(c)) => Held(Src(c))'
          BY <1>6, <2>2, <4>3 DEF Held, HeldBy, Src
        <5>2. AsRead(c) => AsRead(c)'
          BY <2>2, <3>1, <4>1, <4>3, <5>1 DEF AsRead
        <5> QED BY <1>2, <2>2, <3>1, <3>3, <4>1, <4>3, <5>2 DEF Reads
      <4> QED BY <4>2, <4>3
    <3> QED BY <2>2, <3>1, <3>2, <3>3 DEF Reads
  <2> QED BY <2>1, <2>2
<1> QED BY <1>2, <1>3, <1>4, <1>7, <1>8

LEMMA ToggleStep ==
  ASSUME AuthInv, NEW s \in Sources, NEW desired \in {"paused", "active"}, Toggle(s, desired)
  PROVE  AuthInv'
<1>1. /\ rows[s] # NoRow /\ rows[s] \in SourceRow /\ CallsTyped
      /\ UNCHANGED <<linked, video, vault, pending, lock, stopping, calls,
                     aux_selected, aux_stray, aux_deleted>>
  BY DEF Toggle, AuthInv, TypeOK
<1>2. PICK row \in SetDesiredState(rows[s], rows[s].revision, desired) :
        rows' = [rows EXCEPT ![s] = row]
  BY DEF Toggle
<1>3. row = [desired |-> desired, revision |-> rows[s].revision + 1]
  BY <1>1, <1>2 DEF Toggle, SetDesiredState, Current
<1>4. row \in SourceRow /\ row.revision = rows[s].revision + 1
  BY <1>1, <1>3 DEF SourceRow
<1>5. CallsTyped'
  BY <1>1 DEF CallsTyped
<1>6. /\ rows' \in [Sources -> SourceRow \cup {NoRow}]
      /\ linked' \subseteq Existing' /\ Existing' = Existing
      /\ GoneForGood' /\ CredentialsAreLinked'
      /\ \A c \in Calls : Reads(c)' /\ StaysLinked(c)'
  <2>1. /\ linked \subseteq linked' /\ linked' \subseteq linked \cup {s}
        /\ \A other \in Sources : other # s => video'[other] = video[other]
        /\ \A d \in Calls :
             \/ calls'[d] = calls[d]
             \/ calls'[d] = Idle /\ calls[d].source = s /\ s \in linked'
        /\ UNCHANGED <<vault, aux_stray, aux_deleted>>
    <3>1. /\ linked' = linked /\ video' = video /\ calls' = calls
          /\ vault' = vault /\ aux_stray' = aux_stray /\ aux_deleted' = aux_deleted
      BY <1>1
    <3> QED BY <3>1, Zenon
  <2> QED BY <1>1, <1>2, <1>4, <1>5, <2>1, RowMoved
<1>7. TypeOK'
  BY <1>1, <1>6 DEF AuthInv, TypeOK
<1> QED BY <1>1, <1>5, <1>6, <1>7 DEF AuthInv, SelectionKept

\* An update that succeeds writes what its call has read at that revision, or
\* what the operator has chosen.
LEMMA UpdateStep ==
  ASSUME AuthInv, NEW c \in Calls, calls[c] # Idle, calls[c] \in ReadingCall,
         NEW row \in UpdateRow(rows[Src(c)], calls[c].revision),
         rows' = [rows EXCEPT ![Src(c)] = row],
         linked' = linked \cup {Src(c)},
         video' = [video EXCEPT ![Src(c)] = calls[c].video],
         video' = aux_selected',
         Returns(c), pending' \in [Sources -> PendingStates], stopping' = stopping,
         UNCHANGED <<vault, aux_stray, aux_deleted>>
  PROVE  AuthInv'
<1>1. /\ CallsTyped /\ rows \in [Sources -> SourceRow \cup {NoRow}]
      /\ video \in [Sources -> Videos \cup {NoVideo}] /\ LocksHeld
      /\ lock \in [Adapters -> Calls \cup {Free}]
  BY DEF AuthInv, TypeOK, LocksHeld
<1>2. Src(c) \in Sources /\ calls[c].video \in Videos \cup {NoVideo}
  BY <1>1, CallTypes
<1>3. /\ rows[Src(c)] # NoRow /\ rows[Src(c)] \in SourceRow
      /\ row = [rows[Src(c)] EXCEPT !.revision = @ + 1]
  BY <1>1, <1>2 DEF UpdateRow, Current
<1>4. row \in SourceRow /\ row.revision = rows[Src(c)].revision + 1
  BY <1>3 DEF SourceRow
<1>5. /\ CallsTyped' /\ calls'[c] = Idle
      /\ \A d \in Calls \ {c} : calls'[d] = calls[d]
      /\ lock' \in [Adapters -> Calls \cup {Free}]
      /\ \A a \in Adapters : lock'[a] # Free => lock'[a] = lock[a] /\ lock'[a] # c
  BY <1>1, ReturnsTyped
<1>6. LocksHeld'
  <2>1. ASSUME NEW a \in Adapters, lock'[a] # Free
        PROVE  calls'[lock'[a]] # Idle
    <3>1. lock'[a] = lock[a] /\ lock[a] # c /\ lock[a] # Free /\ lock[a] \in Calls
      BY <1>1, <1>5, <2>1
    <3> QED BY <1>1, <1>5, <3>1 DEF LocksHeld
  <2> QED BY <2>1 DEF LocksHeld
<1>7. \A other \in Sources : other # Src(c) => video'[other] = video[other]
  BY <1>1
<1>8. \A d \in Calls :
        \/ calls'[d] = calls[d]
        \/ calls'[d] = Idle /\ calls[d].source = Src(c) /\ Src(c) \in linked'
  <2>1. Src(c) \in linked' /\ calls[c].source = Src(c)
    BY DEF Src
  <2>2. ASSUME NEW d \in Calls
        PROVE  \/ calls'[d] = calls[d]
               \/ calls'[d] = Idle /\ calls[d].source = Src(c) /\ Src(c) \in linked'
    <3>1. CASE d = c
      BY <1>5, <2>1, <3>1
    <3>2. CASE d # c
      BY <1>5, <3>2
    <3> QED BY <3>1, <3>2
  <2> QED BY <2>2
<1>9. /\ rows' \in [Sources -> SourceRow \cup {NoRow}]
      /\ linked' \subseteq Existing' /\ Existing' = Existing
      /\ GoneForGood' /\ CredentialsAreLinked'
      /\ \A d \in Calls : Reads(d)' /\ StaysLinked(d)'
  <2>1. PICK s \in Sources : s = Src(c)
    BY <1>2
  <2>2. /\ rows[s] # NoRow /\ row.revision = rows[s].revision + 1
        /\ rows' = [rows EXCEPT ![s] = row]
        /\ linked \subseteq linked' /\ linked' \subseteq linked \cup {s}
        /\ \A other \in Sources : other # s => video'[other] = video[other]
        /\ \A d \in Calls :
             \/ calls'[d] = calls[d]
             \/ calls'[d] = Idle /\ calls[d].source = s /\ s \in linked'
    BY <1>3, <1>4, <1>7, <1>8, <2>1
  <2>3. UNCHANGED <<vault, aux_stray, aux_deleted>> /\ CallsTyped'
    BY <1>5
  <2> QED BY <1>4, <2>2, <2>3, RowMoved
<1>10. video' \in [Sources -> Videos \cup {NoVideo}]
  BY <1>1, <1>2
<1>11. TypeOK'
  BY <1>5, <1>6, <1>9, <1>10 DEF AuthInv, TypeOK, LocksHeld
<1> QED BY <1>5, <1>9, <1>11 DEF AuthInv, SelectionKept

LEMMA LinkStep ==
  ASSUME AuthInv, NEW c \in Calls, Links(c), calls[c].pc \in {"stored", "late_link"},
         Returns(c), pending' \in [Sources -> PendingStates], UNCHANGED <<vault, aux_stray>>
  PROVE  AuthInv'
<1>1. /\ CallsTyped /\ Reads(c) /\ GoneForGood
      /\ video = aux_selected /\ video \in [Sources -> Videos \cup {NoVideo}]
  BY DEF AuthInv, TypeOK, SelectionKept
<1>2. calls[c] # Idle /\ Src(c) \in Sources /\ calls[c] \in ReadingCall
  BY <1>1, CallTypes DEF Idle, PlainSteps
<1>3. PICK row \in UpdateRow(rows[Src(c)], calls[c].revision) :
        rows' = [rows EXCEPT ![Src(c)] = row]
  BY DEF Links
<1>4. rows[Src(c)] # NoRow /\ rows[Src(c)].revision = calls[c].revision
  BY <1>3 DEF UpdateRow, Current
<1>5. rows[Src(c)].revision \in Nat
  BY <1>2, <1>4 DEF AuthInv, TypeOK, SourceRow
<1>6. calls[c].video = video[Src(c)]
  BY <1>1, <1>2, <1>4, <1>5 DEF Reads, AsRead, GoneForGood
<1>7. /\ linked' = linked \cup {Src(c)}
      /\ video' = [video EXCEPT ![Src(c)] = calls[c].video]
      /\ UNCHANGED <<stopping, aux_deleted, aux_selected>>
  BY DEF Links
<1>8. video' = aux_selected'
  BY <1>1, <1>2, <1>6, <1>7
<1>9. UNCHANGED <<vault, aux_stray, aux_deleted>> /\ stopping' = stopping
  BY <1>7
<1> QED BY <1>2, <1>3, <1>7, <1>8, <1>9, UpdateStep

LEMMA PollUpdateStep ==
  ASSUME AuthInv, NEW c \in Calls, PollUpdate(c)
  PROVE  AuthInv'
<1>1. CallsTyped /\ pending \in [Sources -> PendingStates]
  BY DEF AuthInv, TypeOK
<1>2. calls[c].pc = "stored" /\ Src(c) \in Sources
  BY <1>1, CallTypes DEF PollUpdate, At, Idle
<1>3. pending' \in [Sources -> PendingStates]
  BY <1>1, <1>2 DEF PollUpdate, PendingStates
<1> QED BY <1>2, <1>3, LinkStep DEF PollUpdate

LEMMA LateLinkStep ==
  ASSUME AuthInv, NEW c \in Calls, LateLink(c)
  PROVE  AuthInv'
<1>1. calls[c].pc = "late_link" /\ Returns(c) /\ vault' = vault
      /\ pending' \in [Sources -> PendingStates]
  BY DEF AuthInv, TypeOK, LateLink, At
<1>2. CASE Links(c) /\ aux_stray' = aux_stray
  BY <1>1, <1>2, LinkStep
<1>3. CASE aux_stray' = aux_stray \cup {Src(c)} /\ UNCHANGED Table
  BY <1>1, <1>3, ReturnStep DEF HeldBy, Src
<1> QED BY <1>2, <1>3 DEF LateLink

LEMMA SelectUpdateStep ==
  ASSUME AuthInv, NEW c \in Calls, SelectUpdate(c)
  PROVE  AuthInv'
<1>1. /\ CallsTyped /\ pending \in [Sources -> PendingStates]
      /\ video = aux_selected /\ video \in [Sources -> Videos \cup {NoVideo}]
  BY DEF AuthInv, TypeOK, SelectionKept
<1>2. calls[c].pc \in {"identified", "late_select"} /\ calls[c] # Idle /\ Src(c) \in Sources
  BY <1>1, CallTypes DEF SelectUpdate, At, Idle
<1>3. calls[c] \in ReadingCall
  <2>1. CASE Selects(c)
    BY <1>1, <1>2, <2>1, SelectsReading
  <2>2. CASE calls[c].pc = "late_select"
    BY <1>1, <1>2, <2>2, CallTypes DEF PlainSteps
  <2> QED BY <2>1, <2>2 DEF SelectUpdate, At
<1>4. Returns(c) /\ UNCHANGED <<vault, pending, stopping, aux_stray, aux_deleted>>
  BY DEF SelectUpdate
<1>5. pending' \in [Sources -> PendingStates]
  BY <1>1, <1>4
<1>6. CASE UpdateRow(rows[Src(c)], calls[c].revision) = {}
  <2>1. UNCHANGED Table
    BY <1>4, <1>6 DEF SelectUpdate, Table
  <2> QED BY <1>2, <1>4, <1>5, <2>1, ReturnStep DEF HeldBy
<1>7. CASE UpdateRow(rows[Src(c)], calls[c].revision) # {}
  <2>1. /\ \E row \in UpdateRow(rows[Src(c)], calls[c].revision) : rows' = [rows EXCEPT ![Src(c)] = row]
        /\ linked' = linked \cup {Src(c)}
        /\ video' = [video EXCEPT ![Src(c)] = calls[c].video]
        /\ aux_selected' = [aux_selected EXCEPT ![Src(c)] = calls[c].video]
    BY <1>7 DEF SelectUpdate
  <2>2. PICK row \in UpdateRow(rows[Src(c)], calls[c].revision) : rows' = [rows EXCEPT ![Src(c)] = row]
    BY <2>1
  <2>3. video' = aux_selected'
    BY <1>1, <2>1
  <2> QED BY <1>2, <1>3, <1>4, <1>5, <2>1, <2>2, <2>3, UpdateStep
<1> QED BY <1>6, <1>7

\* The row goes at the revision that was read: nothing of it is in the vault
\* that is not accounted for.
LEMMA RemoveStep ==
  ASSUME AuthInv, NEW c \in Calls, Removes(c), calls[c].pc \in {"purged", "late_remove"},
         UNCHANGED <<vault, pending, aux_stray>>,
         CallsTyped', \A d \in Calls \ {c} : calls'[d] = calls[d],
         Reads(c)', StaysLinked(c)',
         lock' \in [Adapters -> Calls \cup {Free}], LocksHeld'
  PROVE  AuthInv'
<1>1. /\ CallsTyped /\ Reads(c) /\ GoneForGood /\ CredentialsAreLinked
      /\ rows \in [Sources -> SourceRow \cup {NoRow}] /\ linked \subseteq Existing
      /\ video = aux_selected /\ video \in [Sources -> Videos \cup {NoVideo}]
  BY DEF AuthInv, TypeOK, SelectionKept
<1>2. /\ calls[c] # Idle /\ Src(c) \in Sources
      /\ calls[c] \in ReadingCall
  BY <1>1, CallTypes DEF Idle, PlainSteps
<1>3. PICK s \in Sources : s = Src(c)
  BY <1>2
<1>4. PICK row \in RemoveRow(rows[s], calls[c].revision) : rows' = [rows EXCEPT ![s] = row]
  BY <1>3 DEF Removes
<1>5. rows[s] # NoRow /\ rows[s].revision = calls[c].revision /\ row = NoRow
  BY <1>4 DEF RemoveRow, Current
<1>6. /\ linked' = linked \ {s} /\ video' = [video EXCEPT ![s] = NoVideo]
      /\ aux_selected' = [aux_selected EXCEPT ![s] = NoVideo]
      /\ aux_deleted' = aux_deleted \cup {s} /\ stopping' = stopping
      /\ UNCHANGED <<vault, pending, aux_stray>>
  BY <1>3 DEF Removes
<1>7. \A d \in Calls \ {c} : calls'[d] = calls[d]
  OBVIOUS
<1>8. /\ rows' \in [Sources -> SourceRow \cup {NoRow}] /\ rows'[s] = NoRow
      /\ \A other \in Sources : other # s => rows'[other] = rows[other]
  BY <1>1, <1>4, <1>5
<1>9. Existing' = Existing \ {s} /\ s \in Existing
  BY <1>5, <1>8 DEF Existing
<1>10. IsFiniteSet(Existing)' /\ Cardinality(Existing)' <= MaxSources
  <2>1. IsFiniteSet(Existing) /\ Cardinality(Existing) <= MaxSources
    BY DEF AuthInv, TypeOK
  <2>2. /\ IsFiniteSet(Existing \ {s})
        /\ Cardinality(Existing \ {s}) = Cardinality(Existing) - 1
    BY <1>9, <2>1, FS_RemoveElement
  <2>3. Cardinality(Existing) \in Nat
    BY <2>1, FS_CardinalityType
  <2> QED BY <1>9, <2>1, <2>2, <2>3, SourceAuthorizationAssumption
<1>12. TypeOK'
  <2>1. video' \in [Sources -> Videos \cup {NoVideo}]
    BY <1>1, <1>6
  <2>2. linked' \subseteq Existing'
    BY <1>1, <1>6, <1>9
  <2> QED BY <1>6, <1>8, <1>10, <2>1, <2>2 DEF AuthInv, TypeOK, LocksHeld
<1>13. SelectionKept' /\ GoneForGood'
  BY <1>1, <1>6, <1>8 DEF SelectionKept, GoneForGood
<1>14. \A t : Held(t) => \E d \in Calls : calls'[d].pc \in {"stored", "undoing", "late_link"} /\ calls'[d].source = t
  BY <1>2, <1>7 DEF Held, HeldBy
<1>15. CredentialsAreLinked'
  <2>1. \A t \in vault : t \in linked \/ t \in aux_stray \/ Held(t)
    BY <1>1, LinkedIsHeld
  <2>2. s \in vault => s \in aux_stray \/ Held(s)
    <3>1. rows[s].revision \in Nat /\ s \notin aux_deleted
      BY <1>1, <1>5 DEF SourceRow, GoneForGood
    <3>2. AsRead(c)
      BY <1>1, <1>2, <1>3, <1>5, <3>1 DEF Reads
    <3> QED BY <1>2, <1>3, <3>2 DEF AsRead
  <2>3. \A d \in Calls : calls'[d].pc \in {"stored", "undoing", "late_link"} => calls'[d] # Idle
    BY DEF Idle
  <2> QED BY <1>6, <1>14, <2>1, <2>2, <2>3 DEF CredentialsAreLinked, At, Src
<1>16. ASSUME NEW d \in Calls
       PROVE  Reads(d)' /\ StaysLinked(d)'
  <2>1. CASE d = c
    BY <2>1
  <2>2. CASE d # c
    <3>1. Reads(d) /\ StaysLinked(d) /\ calls'[d] = calls[d] /\ Src(d)' = Src(d)
      BY <1>7, <2>2 DEF AuthInv, Src
    <3>2. StaysLinked(d)'
      BY <1>6, <3>1 DEF StaysLinked
    <3>3. ASSUME calls[d] \in ReadingCall, Src(d) \notin aux_deleted, Src(d) # s
          PROVE  Reads(d)'
      <4>1. Src(d) \in Sources
        BY <1>1, <3>3, CallTypes
      <4>2. Held(Src(d)) => Held(Src(d))'
        BY <1>14, <3>1 DEF Held, HeldBy
      <4>3. AsRead(d) => AsRead(d)'
        BY <1>1, <1>6, <3>1, <3>3, <4>1, <4>2 DEF AsRead
      <4> QED BY <1>8, <3>1, <3>3, <4>1, <4>3 DEF Reads
    <3> QED BY <1>6, <3>1, <3>2, <3>3 DEF Reads
  <2> QED BY <2>1, <2>2
<1> QED BY <1>10, <1>12, <1>13, <1>15, <1>16 DEF AuthInv

LEMMA DeleteRemoveStep ==
  ASSUME AuthInv, NEW c \in Calls, DeleteRemove(c)
  PROVE  AuthInv'
<1>1. /\ CallsTyped /\ LocksHeld /\ lock \in [Adapters -> Calls \cup {Free}]
  BY DEF AuthInv, TypeOK, LocksHeld
<1>2. /\ calls[c].pc = "purged" /\ Src(c) \in Sources /\ Removes(c)
      /\ Call(c, Src(c), "removed") /\ UNCHANGED <<vault, pending, lock, aux_stray>>
  BY <1>1, CallTypes DEF DeleteRemove, At, Idle
<1>3. /\ CallsTyped' /\ calls'[c] \in PlainCall /\ calls'[c].pc = "removed"
      /\ \A d \in Calls \ {c} : calls'[d] = calls[d]
  BY <1>1, <1>2, CallTyped DEF PlainSteps
<1>4. Reads(c)'
  BY <1>3, SMTT(30) DEF Reads, PlainCall, ReadingCall
<1>5. StaysLinked(c)'
  BY <1>3 DEF StaysLinked
<1>6. LocksHeld' /\ lock' \in [Adapters -> Calls \cup {Free}]
  <2>1. \A d \in Calls : calls[d] # Idle => calls'[d] # Idle
    BY <1>3 DEF Idle
  <2> QED BY <1>1, <1>2, <2>1 DEF LocksHeld
<1> QED BY <1>2, <1>3, <1>4, <1>5, <1>6, RemoveStep

LEMMA LateRemoveStep ==
  ASSUME AuthInv, NEW c \in Calls, LateRemove(c)
  PROVE  AuthInv'
<1>1. /\ CallsTyped /\ LocksHeld /\ lock \in [Adapters -> Calls \cup {Free}]
  BY DEF AuthInv, TypeOK, LocksHeld
<1>2. /\ calls[c].pc = "late_remove" /\ Removes(c) /\ Returns(c)
      /\ UNCHANGED <<vault, pending, aux_stray>>
  BY DEF LateRemove, At
<1>3. /\ CallsTyped' /\ Reads(c)' /\ StaysLinked(c)'
      /\ \A d \in Calls \ {c} : calls'[d] = calls[d]
      /\ lock' \in [Adapters -> Calls \cup {Free}] /\ LocksHeld'
  BY <1>1, <1>2, Returned
<1> QED BY <1>2, <1>3, RemoveStep

-----------------------------------------------------------------------------
(* The invariant and the theorems.                                         *)

LEMMA AuthInit == Init => AuthInv
<1> SUFFICES ASSUME Init PROVE AuthInv
  OBVIOUS
<1>1. Existing = {}
  BY DEF Init, Existing
<1>2. IsFiniteSet({}) /\ Cardinality({}) = 0
  BY FS_EmptySet
<1>3. TypeOK
  <2>1. /\ rows \in [Sources -> SourceRow \cup {NoRow}]
        /\ linked \subseteq Existing /\ vault \subseteq Sources
        /\ video \in [Sources -> Videos \cup {NoVideo}]
        /\ pending \in [Sources -> PendingStates]
    BY DEF Init, PendingStates
  <2>2. stopping \in BOOLEAN
    BY DEF Init
  <2>3. lock \in [Adapters -> Calls \cup {Free}] /\ \A a \in Adapters : lock[a] = Free
    BY DEF Init
  <2>4. Cardinality(Existing) <= MaxSources
    BY <1>1, <1>2, SourceAuthorizationAssumption
  <2> QED BY <2>1, <2>2, <2>3, <2>4 DEF TypeOK
<1>4. CallsTyped /\ GoneForGood /\ SelectionKept /\ CredentialsAreLinked
  BY DEF Init, CallsTyped, GoneForGood, SelectionKept, CredentialsAreLinked
<1>5. Idle.pc = "idle" /\ Idle \notin ReadingCall
  <2>1. Idle.pc = "idle" /\ (Idle \in ReadingCall => Idle.pc \in ReadingSteps)
    BY DEF Idle, ReadingCall
  <2> QED BY <2>1 DEF ReadingSteps, LateSteps
<1>6. \A c \in Calls : Reads(c) /\ StaysLinked(c)
  BY <1>5 DEF Init, Reads, StaysLinked
<1> QED BY <1>1, <1>2, <1>3, <1>4, <1>6 DEF AuthInv

LEMMA AuthUnchanged == AuthInv /\ UNCHANGED vars => AuthInv'
BY DEF AuthInv, vars, TypeOK, Existing, CallsTyped, Reads, AsRead, Held, HeldBy, StaysLinked,
       GoneForGood, CredentialsAreLinked, SelectionKept, At, Src

LEMMA AuthStep == AuthInv /\ Next => AuthInv'
<1> SUFFICES ASSUME AuthInv, Next PROVE AuthInv'
  OBVIOUS
<1>1. ASSUME NEW s \in Sources, CreateSource(s)
      PROVE  AuthInv'
  BY <1>1, CreateStep
<1>2. ASSUME NEW s \in Sources, NEW d \in {"paused", "active"}, Toggle(s, d)
      PROVE  AuthInv'
  BY <1>2, ToggleStep
<1>3. CASE (\E s \in Sources : Callback(s)) \/ StopBegins \/ StopEnds
  BY <1>3, OutsideStep
<1>4. ASSUME NEW s \in Sources, NEW c \in Calls,
             BeginAuthorization(c, s) \/ Poll(c, s) \/ Delete(c, s)
      PROVE  AuthInv'
  BY <1>4, BeginStep
<1>5. ASSUME NEW s \in Sources, NEW c \in Calls, Test(c, s) \/ \E v \in Videos : Select(c, s, v)
      PROVE  AuthInv'
  BY <1>5, TestStep
<1>7. ASSUME NEW c \in Calls, Acquires(c)
      PROVE  AuthInv'
  BY <1>7, BeginStep, AcquireStep, DeleteCheckStep, ForgetStep DEF Acquires
<1>8. ASSUME NEW c \in Calls, BeginFails(c) \/ Dropped(c)
      PROVE  AuthInv'
  BY <1>8, BeginStep, DropStep
<1>9. ASSUME NEW c \in Calls, Proceeds(c)
      PROVE  AuthInv'
  <2>1. CASE PollUnanswered(c) \/ PollRefused(c) \/ PollUndo(c)
    BY <2>1, PollReturns
  <2>2. CASE PollAuthorized(c) \/ PollConflict(c)
    BY <2>2, PollGoes
  <2>3. CASE PollRead(c) \/ PollStore(c)
    BY <2>3, PollReadStep, PollStoreStep
  <2>4. CASE PollUpdate(c) \/ SelectUpdate(c)
    BY <2>4, PollUpdateStep, SelectUpdateStep
  <2>5. CASE RefreshLoad(c) \/ RefreshStore(c) \/ RefreshReturns(c)
    BY <2>5, RefreshLoadStep, RefreshStoreStep, RefreshReturnStep
  <2>6. CASE DeleteRead(c) \/ DeletePurge(c)
    BY <2>6, DeleteReadStep, PurgeStep
  <2>7. CASE DeletePurgeFails(c) \/ DeleteRemove(c) \/ DeleteConflict(c)
    BY <2>7, DeleteReturns, DeleteRemoveStep
  <2>8. CASE LateStore(c) \/ LateLink(c) \/ LatePurge(c) \/ LateRemove(c)
    BY <2>8, LateStoreStep, LateLinkStep, LatePurgeStep, LateRemoveStep
  <2> QED BY <1>9, <2>1, <2>2, <2>3, <2>4, <2>5, <2>6, <2>7, <2>8 DEF Proceeds
<1>10. CASE Crash
  BY <1>10, CrashStep
<1> QED BY <1>1, <1>2, <1>3, <1>4, <1>5, <1>7, <1>8, <1>9, <1>10 DEF Next

LEMMA AuthInvariant == Spec => []AuthInv
<1>1. AuthInv /\ [Next]_vars => AuthInv'
  BY AuthStep, AuthUnchanged
<1> QED BY <1>1, AuthInit, PTL DEF Spec

\* There are never more sources than the maximum, what is linked exists, and a
\* lock is held by a call that is under way: one that returns, is dropped or
\* dies has let go of it.
THEOREM AuthorizationTyped == Spec => []TypeOK
<1>1. AuthInv => TypeOK
  BY DEF AuthInv
<1> QED BY <1>1, AuthInvariant, PTL

\* In any interleaving of polls, refreshes and deletions, a credential of the
\* vault is linked to its source, held by a call that will link or delete it,
\* or left by one of the failures that are named.
THEOREM NoStrayCredential == Spec => []CredentialsAreLinked
<1>1. AuthInv => CredentialsAreLinked
  BY DEF AuthInv
<1> QED BY <1>1, AuthInvariant, PTL

\* An authorisation writes back the settings it read, and never over a
\* selection that succeeded in between.
THEOREM SelectionsStay == Spec => []SelectionKept
<1>1. AuthInv => SelectionKept
  BY DEF AuthInv
<1> QED BY <1>1, AuthInvariant, PTL
=============================================================================
