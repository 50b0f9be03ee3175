---------------------------- MODULE SessionStore ----------------------------
(***************************************************************************)
(* The durable copy of the sessions (crates/semantic-engine-session-store).*)
(* A stored session is its row of session_records with its rows of         *)
(* session_events and session_deliveries.  Every write is one SQLite       *)
(* transaction on one session: an operator from the stored session to the  *)
(* set of sessions it may commit, empty when the store refuses the write   *)
(* (Missing, Ended or Conflict) and rolls it back.                         *)
(***************************************************************************)
EXTENDS Integers, FiniteSets

CONSTANTS
  NoSession,     \* no row in session_records
  MaxEvents,     \* ServiceConfig.max_events_per_session
  MaxRecorded    \* ServiceConfig.max_recorded_validations

ASSUME SessionStoreAssumption ==
  /\ MaxEvents \in Nat \ {0}
  /\ MaxRecorded \in Nat \ {0}

\* expect_next_active_sequence.
ExpectNextActive(stored, event) ==
  /\ stored # NoSession
  /\ stored.state = "active"
  /\ event.sequence = stored.latest + 1

\* trim_events, trim_deliveries: DELETE ... sequence <= MAX(sequence) - cap.
TrimBySequence(rows, cap) ==
  {row \in rows : \A newest \in rows : row.sequence > newest.sequence - cap}

Appended(stored, event) ==
  [stored EXCEPT !.latest = event.sequence,
                 !.events = TrimBySequence(@ \cup {event}, MaxEvents)]

\* PRIMARY KEY(session_id, message_id) of session_deliveries.
StoredDeliveries(stored, message) ==
  {delivery \in stored.deliveries : delivery.submission.message = message}

StoreValidation(stored, event, delivery) ==
  IF /\ ExpectNextActive(stored, event)
     /\ StoredDeliveries(stored, delivery.submission.message) = {}
  THEN {[Appended(stored, event) EXCEPT
           !.deliveries = TrimBySequence(@ \cup {delivery}, MaxRecorded)]}
  ELSE {}

\* Mutant: the mark of the delivery is not stored.
StoreResolutionUnmarked(stored, event) ==
  IF /\ ExpectNextActive(stored, event)
     /\ StoredDeliveries(stored, event.message) # {}
  THEN {Appended(stored, event)} ELSE {}

\* UPDATE ... SET resolution_emitted = 1 WHERE resolution_emitted = 0 has to
\* change exactly one row.
StoreResolution(stored, event) ==
  LET open == IF stored = NoSession THEN {}
              ELSE {d \in StoredDeliveries(stored, event.message) : ~d.emitted}
  IN  IF ExpectNextActive(stored, event)
      THEN {[Appended(stored, event) EXCEPT
               !.deliveries = (@ \ {d}) \cup {[d EXCEPT !.emitted = TRUE]}] :
              d \in open}
      ELSE {}

\* Mutant: the state changes without its event.
StoreEndSilent(stored, event) ==
  IF ExpectNextActive(stored, event)
  THEN {[stored EXCEPT !.state = "ended"]} ELSE {}

StoreEnd(stored, event) ==
  IF ExpectNextActive(stored, event)
  THEN {[Appended(stored, event) EXCEPT !.state = "ended"]}
  ELSE {}

\* create_session, INSERT INTO session_records: the identifier must be free.
StoreCreate(stored, record) == IF stored = NoSession THEN {record} ELSE {}

\* Mutant: the number of deleted rows is not looked at.
StoreDeleteUnchecked(stored) == {stored}

\* delete_ended: DELETE ... WHERE state = 'ended' has to change one row.
StoreDeleteEnded(stored) ==
  IF stored # NoSession /\ stored.state = "ended" THEN {NoSession} ELSE {}
=============================================================================
