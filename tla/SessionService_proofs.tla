------------------------ MODULE SessionService_proofs ------------------------
(***************************************************************************)
(* Proofs about SessionService for any sets of sessions, messages and      *)
(* targets, and any capacities.                                            *)
(***************************************************************************)
EXTENDS SessionService, SequenceTheorems, TLAPS

-----------------------------------------------------------------------------
(* Types.                                                                  *)

LEMMA IdentitiesType ==
  ASSUME NEW rows \in Seq(AuditRow)
  PROVE  Identities(rows) \subseteq Rounds \X Messages
<1>1. \A i \in DOMAIN rows : rows[i] \in AuditRow
  OBVIOUS
<1>2. \A row \in AuditRow : row.round \in Rounds /\ row.message \in Messages
  BY DEF AuditRow
<1> QED BY <1>1, <1>2 DEF Identities

\* apply_retention keeps the newest rows of a table, shifted to its front.
LEMMA RetainedRows ==
  ASSUME NEW full \in Seq(AuditRow), NEW rows2 \in Retained(full)
  PROVE  \E k \in 1 .. Len(full) :
           /\ rows2 \in Seq(AuditRow)
           /\ Len(rows2) = Len(full) - k + 1
           /\ \A i \in 1 .. Len(rows2) : rows2[i] = full[i + k - 1]
<1>1. PICK k \in 1 .. Len(full) : rows2 = SubSeq(full, k, Len(full))
  BY DEF Retained
<1>2. \A i \in k .. Len(full) : full[i] \in AuditRow
  OBVIOUS
<1>3. /\ rows2 \in Seq(AuditRow)
      /\ Len(rows2) = Len(full) - k + 1
      /\ \A i \in 1 .. Len(full) - k + 1 : rows2[i] = full[k + i - 1]
  BY <1>1, <1>2, SubSeqProperties
<1> QED BY <1>3

\* Both outcomes of AuditStore::record_validation are tables of rows.
LEMMA RecordValidationType ==
  ASSUME NEW rows \in Seq(AuditRow), NEW row \in AuditRow,
         NEW rows2 \in RecordValidation(rows, row)
  PROVE  rows2 \in Seq(AuditRow)
<1>1. CASE RowsOf(rows, row.round, row.message) = {}
  <2>1. rows2 \in Retained(Append(rows, row))
    BY <1>1 DEF RecordValidation
  <2>2. Append(rows, row) \in Seq(AuditRow)
    OBVIOUS
  <2> QED BY <2>1, <2>2, RetainedRows
<1>2. CASE RowsOf(rows, row.round, row.message) # {}
  BY <1>2 DEF RecordValidation
<1> QED BY <1>1, <1>2

\* So are those of AuditStore::record_resolution.
LEMMA RecordResolutionType ==
  ASSUME NEW rows \in Seq(AuditRow), NEW round, NEW message, NEW origin,
         NEW verdict, NEW resolution \in Resolutions,
         NEW rows2 \in RecordResolution(rows, round, message, origin, verdict,
                                        resolution)
  PROVE  rows2 \in Seq(AuditRow)
<1>1. PICK i \in DOMAIN rows :
        rows2 = [rows EXCEPT ![i].resolution = resolution]
  BY DEF RecordResolution, RowsOf
<1>2. rows[i] \in AuditRow
  OBVIOUS
<1>3. [rows[i] EXCEPT !.resolution = resolution] \in AuditRow
  BY <1>2 DEF AuditRow
<1> QED BY <1>1, <1>3

\* new_session_event makes an event of the next sequence.
LEMMA NewEventType ==
  ASSUME NEW record \in SessionRecord, record.latest < MaxSequence,
         NEW kind \in {"started", "validation", "resolution", "ended"},
         NEW message \in Messages \cup {None},
         NEW verdict \in Verdicts \cup {None}
  PROVE  NewEvent(record, kind, message, verdict) \in Event
BY SessionServiceAssumption DEF NewEvent, Event, SessionRecord

\* push_session_event keeps the type of a session in memory.
LEMMA PushedType ==
  ASSUME NEW record \in SessionRecord, NEW event \in Event
  PROVE  Pushed(record, event) \in SessionRecord
<1>1. Newest(record.events \cup {event}, MaxEvents) \subseteq Event
  BY DEF Newest, SessionRecord
<1> QED BY <1>1 DEF Pushed, SessionRecord, Event

\* append_event_and_advance keeps the type of a stored session.
LEMMA AppendedType ==
  ASSUME NEW stored \in SessionRecord, NEW event \in Event
  PROVE  Appended(stored, event) \in SessionRecord
<1>1. TrimBySequence(stored.events \cup {event}, MaxEvents) \subseteq Event
  BY DEF TrimBySequence, SessionRecord
<1> QED BY <1>1 DEF Appended, SessionRecord, Event

\* SessionStore::record_validation keeps it too.
LEMMA StoreValidationType ==
  ASSUME NEW stored \in SessionRecord \cup {NoSession}, NEW event \in Event,
         NEW delivery \in Delivery,
         NEW stored2 \in StoreValidation(stored, event, delivery)
  PROVE  stored2 \in SessionRecord
<1>1. stored \in SessionRecord
  BY DEF StoreValidation, ExpectNextActive
<1>2. Appended(stored, event) \in SessionRecord
  BY <1>1, AppendedType
<1> DEFINE trimmed == TrimBySequence(
                        Appended(stored, event).deliveries \cup {delivery},
                        MaxRecorded)
<1>3. stored2 = [Appended(stored, event) EXCEPT !.deliveries = trimmed]
  BY DEF StoreValidation
<1>4. trimmed \subseteq Delivery
  BY <1>2 DEF TrimBySequence, SessionRecord
<1> HIDE DEF trimmed
<1> QED BY <1>2, <1>3, <1>4 DEF SessionRecord

\* And so does SessionStore::record_resolution.
LEMMA StoreResolutionType ==
  ASSUME NEW stored \in SessionRecord \cup {NoSession}, NEW event \in Event,
         NEW stored2 \in StoreResolution(stored, event)
  PROVE  stored2 \in SessionRecord
<1>1. stored \in SessionRecord
  BY DEF StoreResolution, ExpectNextActive
<1>2. Appended(stored, event) \in SessionRecord
  BY <1>1, AppendedType
<1>3. PICK d \in StoredDeliveries(stored, event.message) :
        stored2 = [Appended(stored, event) EXCEPT
                     !.deliveries = (@ \ {d}) \cup {[d EXCEPT !.emitted = TRUE]}]
  BY DEF StoreResolution
<1>4. d \in Delivery
  BY <1>1 DEF StoredDeliveries, SessionRecord
<1>5. [d EXCEPT !.emitted = TRUE] \in Delivery
  BY <1>4 DEF Delivery
<1> QED BY <1>2, <1>3, <1>5 DEF SessionRecord

\* And SessionStore::end_session.
LEMMA StoreEndType ==
  ASSUME NEW stored \in SessionRecord \cup {NoSession}, NEW event \in Event,
         NEW stored2 \in StoreEnd(stored, event)
  PROVE  stored2 \in SessionRecord
<1>1. stored \in SessionRecord
  BY DEF StoreEnd, ExpectNextActive
<1>2. Appended(stored, event) \in SessionRecord
  BY <1>1, AppendedType
<1> QED BY <1>2 DEF StoreEnd, SessionRecord

-----------------------------------------------------------------------------
(* TypeOK is preserved, operation by operation.                            *)

LEMMA ValidatedType ==
  ASSUME TypeOK, NEW d \in Definitions, NEW submission \in Submissions,
         NEW verdict \in Verdicts, Validated(d, submission, verdict)
  PROVE  /\ audit' \in Seq(AuditRow)
         /\ recorded' \in Seq(Recorded)
         /\ aux_dropped' \subseteq Rounds \X Messages
<1>1. CASE UNCHANGED <<audit, recorded, aux_dropped>>
  BY <1>1 DEF TypeOK
<1>2. CASE ~ UNCHANGED <<audit, recorded, aux_dropped>>
  <2> DEFINE row == [round |-> d.round, message |-> submission.message,
                     origin |-> submission.origin, context |-> d.context,
                     verdict |-> verdict, resolution |-> NoResolution]
             item == [definition |-> d, submission |-> submission,
                      verdict |-> verdict]
  <2>1. /\ audit' \in RecordValidation(audit, row)
        /\ aux_dropped' = aux_dropped \cup
                            (Identities(audit) \ Identities(audit'))
        /\ recorded' = PushBounded(recorded, item, MaxRecorded)
    BY <1>2 DEF Validated, CommitAudit
  <2>2. row \in AuditRow
    BY SessionServiceAssumption DEF AuditRow
  <2>3. item \in Recorded
    BY DEF Recorded
  <2> HIDE DEF row, item
  <2>4. audit' \in Seq(AuditRow)
    BY <2>1, <2>2, RecordValidationType DEF TypeOK
  <2>5. recorded' \in Seq(Recorded)
    BY <2>1, <2>3, SessionStoreAssumption DEF TypeOK, PushBounded
  <2>6. aux_dropped' \subseteq Rounds \X Messages
    BY <2>1, IdentitiesType DEF TypeOK
  <2> QED BY <2>4, <2>5, <2>6
<1> QED BY <1>1, <1>2

LEMMA ResolvedType ==
  ASSUME TypeOK, NEW round, NEW message, NEW origin, NEW verdict,
         NEW resolution \in Resolutions,
         CommitAudit(RecordResolution(audit, round, message, origin, verdict,
                                      resolution))
  PROVE  /\ audit' \in Seq(AuditRow)
         /\ aux_dropped' \subseteq Rounds \X Messages
<1>1. audit' \in Seq(AuditRow)
  BY RecordResolutionType DEF TypeOK, CommitAudit
<1>2. aux_dropped' \subseteq Rounds \X Messages
  BY IdentitiesType DEF TypeOK, CommitAudit
<1> QED BY <1>1, <1>2

\* start_session.
LEMMA AdmitType ==
  ASSUME NEW s \in Sessions, NEW d \in Definitions,
         NEW remaining \in [Sessions -> SessionRecord \cup {NoSession}],
         NEW stored \in [Sessions -> SessionRecord \cup {NoSession}],
         NEW queue \in Seq(Sessions),
         Admit(s, d, remaining, stored, queue)
  PROVE  /\ memory' \in [Sessions -> SessionRecord \cup {NoSession}]
         /\ disk' \in [Sessions -> SessionRecord \cup {NoSession}]
         /\ order' \in Seq(Sessions)
<1>1. StartedEvent \in Event
  BY SessionServiceAssumption DEF StartedEvent, Event
<1>2. Started(d) \in SessionRecord
  BY <1>1, SessionServiceAssumption DEF Started, SessionRecord
<1> QED BY <1>2 DEF Admit, StoreCreate

LEMMA WithoutType ==
  ASSUME order \in Seq(Sessions), NEW i \in DOMAIN order
  PROVE  Without(i) \in Seq(Sessions)
BY DEF Without

LEMMA StartSessionEvictingType ==
  ASSUME TypeOK, NEW s \in Sessions, NEW d \in Definitions,
         NEW i \in DOMAIN order, StartSessionEvicting(s, d, i)
  PROVE  TypeOK'
<1>1. PICK gone \in StoreDeleteEnded(disk[order[i]]) :
        LET remaining == [memory EXCEPT ![order[i]] = NoSession]
            stored == [disk EXCEPT ![order[i]] = gone]
        IN  \/ Admit(s, d, remaining, stored, Without(i))
            \/ /\ memory' = remaining
               /\ disk' = stored
               /\ order' = Without(i)
  BY DEF StartSessionEvicting
<1> DEFINE remaining == [memory EXCEPT ![order[i]] = NoSession]
           stored == [disk EXCEPT ![order[i]] = gone]
<1>2. /\ remaining \in [Sessions -> SessionRecord \cup {NoSession}]
      /\ stored \in [Sessions -> SessionRecord \cup {NoSession}]
  BY DEF TypeOK, StoreDeleteEnded
<1>3. Without(i) \in Seq(Sessions)
  BY WithoutType DEF TypeOK
<1> HIDE DEF remaining, stored
<1>4. /\ memory' \in [Sessions -> SessionRecord \cup {NoSession}]
      /\ disk' \in [Sessions -> SessionRecord \cup {NoSession}]
      /\ order' \in Seq(Sessions)
  <2>1. CASE Admit(s, d, remaining, stored, Without(i))
    BY <1>2, <1>3, <2>1, AdmitType
  <2>2. CASE ~ Admit(s, d, remaining, stored, Without(i))
    BY <1>1, <1>2, <1>3, <2>2 DEF remaining, stored
  <2> QED BY <2>1, <2>2
<1> QED BY <1>4 DEF TypeOK, StartSessionEvicting

\* submit.
LEMMA SubmitType ==
  ASSUME TypeOK, NEW s \in Sessions, NEW submission \in Submissions,
         Submit(s, submission)
  PROVE  TypeOK'
<1>1. memory[s] \in SessionRecord /\ memory[s].latest < MaxSequence
  BY DEF TypeOK, Submit, Active
<1>2. PICK verdict \in Verdicts :
        /\ Validated(memory[s].definition, submission, verdict)
        /\ \/ DeliverValidation(s, submission, verdict)
           \/ reply' = NoReply /\ UNCHANGED <<memory, disk>>
  BY DEF Submit
<1>3. /\ audit' \in Seq(AuditRow)
      /\ recorded' \in Seq(Recorded)
      /\ aux_dropped' \subseteq Rounds \X Messages
  BY <1>1, <1>2, ValidatedType DEF SessionRecord
<1>4. /\ memory' \in [Sessions -> SessionRecord \cup {NoSession}]
      /\ disk' \in [Sessions -> SessionRecord \cup {NoSession}]
      /\ reply' \in Reply \cup {NoReply}
  <2>1. CASE UNCHANGED <<memory, disk>> /\ reply' = NoReply
    BY <2>1 DEF TypeOK
  <2>2. CASE DeliverValidation(s, submission, verdict)
    <3> DEFINE event == NewEvent(memory[s], "validation", submission.message,
                                 verdict)
               delivery == [sequence |-> event.sequence,
                            submission |-> submission, verdict |-> verdict,
                            emitted |-> FALSE, text |-> NoText]
               kept == [delivery EXCEPT !.text = submission.text]
    <3>1. submission.message \in Messages /\ submission.text \in Texts
      BY SessionServiceAssumption
    <3>2. event \in Event
      BY <1>1, <3>1, NewEventType
    <3>3. delivery \in Delivery /\ kept \in Delivery
      BY <3>1, <3>2 DEF Delivery, Event
    <3>4. PICK stored \in StoreValidation(disk[s], event, delivery) :
            disk' = [disk EXCEPT ![s] = stored]
      BY <2>2 DEF DeliverValidation
    <3>5. /\ memory' = [memory EXCEPT ![s] = Delivered(@, event, kept)]
          /\ reply' = [session |-> s, submission |-> submission,
                       verdict |-> verdict]
      BY <2>2 DEF DeliverValidation
    <3> HIDE DEF event, delivery, kept
    <3>6. stored \in SessionRecord
      BY <3>2, <3>3, <3>4, StoreValidationType DEF TypeOK
    <3>7. Delivered(memory[s], event, kept) \in SessionRecord
      <4>1. Pushed(memory[s], event) \in SessionRecord
        BY <1>1, <3>2, PushedType
      <4> DEFINE deliveries == Newest(
                   Pushed(memory[s], event).deliveries \cup {kept}, MaxRecorded)
      <4>2. deliveries \subseteq Delivery
        BY <3>3, <4>1 DEF Newest, SessionRecord
      <4>3. Delivered(memory[s], event, kept)
              = [Pushed(memory[s], event) EXCEPT !.deliveries = deliveries]
        BY DEF Delivered
      <4> HIDE DEF deliveries
      <4> QED BY <4>1, <4>2, <4>3 DEF SessionRecord
    <3> QED BY <3>4, <3>5, <3>6, <3>7 DEF TypeOK, Reply
  <2> QED BY <1>2, <2>1, <2>2
<1> QED BY <1>3, <1>4 DEF TypeOK, Submit

\* resolve_session.
LEMMA ResolveSessionType ==
  ASSUME TypeOK, NEW s \in Sessions, NEW message \in Messages,
         NEW resolution \in Resolutions,
         ResolveSession(s, message, resolution)
  PROVE  TypeOK'
<1>1. memory[s] \in SessionRecord /\ memory[s].latest < MaxSequence
  BY DEF TypeOK, ResolveSession, Active
<1>2. PICK delivery \in DeliveriesOf(memory[s], message) :
        /\ CommitAudit(RecordResolution(audit, memory[s].definition.round,
                         message, delivery.submission.origin,
                         delivery.verdict, resolution))
        /\ \/ EmitResolution(s, delivery, resolution)
           \/ UNCHANGED <<memory, disk>>
  BY DEF ResolveSession
<1>3. audit' \in Seq(AuditRow) /\ aux_dropped' \subseteq Rounds \X Messages
  BY <1>2, ResolvedType
<1>4. delivery \in Delivery
  BY <1>1, <1>2 DEF DeliveriesOf, SessionRecord
<1>5. /\ memory' \in [Sessions -> SessionRecord \cup {NoSession}]
      /\ disk' \in [Sessions -> SessionRecord \cup {NoSession}]
  <2>1. CASE UNCHANGED <<memory, disk>>
    BY <2>1 DEF TypeOK
  <2>2. CASE EmitResolution(s, delivery, resolution)
    <3> DEFINE event == NewEvent(memory[s], "resolution",
                                 delivery.submission.message, resolution)
               marked == [delivery EXCEPT !.emitted = TRUE]
    <3>1. delivery.submission.message \in Messages
      BY <1>4, SessionServiceAssumption DEF Delivery
    <3>2. resolution \in Verdicts
      BY DEF Resolutions, Verdicts
    <3>3. event \in Event
      BY <1>1, <3>1, <3>2, NewEventType
    <3>4. marked \in Delivery
      BY <1>4 DEF Delivery
    <3>5. PICK stored \in StoreResolution(disk[s], event) :
            disk' = [disk EXCEPT ![s] = stored]
      BY <2>2 DEF EmitResolution
    <3>6. memory' = [memory EXCEPT ![s] = Emitted(@, event, delivery)]
      BY <2>2 DEF EmitResolution
    <3> HIDE DEF event
    <3>7. stored \in SessionRecord
      BY <3>3, <3>5, StoreResolutionType DEF TypeOK
    <3>8. Emitted(memory[s], event, delivery) \in SessionRecord
      <4>1. Pushed(memory[s], event) \in SessionRecord
        BY <1>1, <3>3, PushedType
      <4> HIDE DEF marked
      <4>2. Emitted(memory[s], event, delivery)
              = [Pushed(memory[s], event) EXCEPT
                   !.deliveries = (@ \ {delivery}) \cup {marked}]
        BY DEF Emitted, marked
      <4> QED BY <3>4, <4>1, <4>2 DEF SessionRecord
    <3> QED BY <3>5, <3>6, <3>7, <3>8 DEF TypeOK
  <2> QED BY <1>2, <2>1, <2>2
<1> QED BY <1>3, <1>5 DEF TypeOK, ResolveSession

\* end_session.
LEMMA EndSessionType ==
  ASSUME TypeOK, NEW s \in Sessions, EndSession(s)
  PROVE  TypeOK'
<1> DEFINE event == NewEvent(memory[s], "ended", None, None)
<1>1. memory[s] \in SessionRecord /\ memory[s].latest < MaxSequence
  BY DEF TypeOK, EndSession, Active
<1>2. event \in Event
  BY <1>1, NewEventType
<1>3. PICK stored \in StoreEnd(disk[s], event) :
        disk' = [disk EXCEPT ![s] = stored]
  BY DEF EndSession
<1>4. memory' = [memory EXCEPT
                   ![s] = [Pushed(@, event) EXCEPT !.state = "ended"]]
  BY DEF EndSession
<1> HIDE DEF event
<1>5. stored \in SessionRecord
  BY <1>2, <1>3, StoreEndType DEF TypeOK
<1>6. Pushed(memory[s], event) \in SessionRecord
  BY <1>1, <1>2, PushedType
<1>7. [Pushed(memory[s], event) EXCEPT !.state = "ended"] \in SessionRecord
  BY <1>6 DEF SessionRecord
<1> QED BY <1>3, <1>4, <1>5, <1>7 DEF TypeOK, EndSession

\* remember_session_resolution.
LEMMA RememberType ==
  ASSUME TypeOK, NEW s \in Sessions, NEW message \in Messages,
         Remember(s, message)
  PROVE  TypeOK'
<1>1. memory[s] \in SessionRecord
  BY DEF TypeOK, Remember
<1>2. PICK e \in ResolutionsOf(memory[s], message),
           delivery \in DeliveriesOf(memory[s], message) :
        /\ delivery.text # NoText
        /\ e.verdict \in Targets
        /\ learned' = learned \cup
             {<<memory[s].definition.context, delivery.text, e.verdict>>}
  BY DEF Remember
<1>3. memory[s].definition \in Definitions /\ delivery \in Delivery
  BY <1>1, <1>2 DEF DeliveriesOf, SessionRecord
<1>4. memory[s].definition.context \in Contexts
  BY <1>3, SessionServiceAssumption
<1>5. delivery.text \in Texts
  BY <1>2, <1>3 DEF Delivery
<1> QED BY <1>2, <1>4, <1>5 DEF TypeOK, Remember

\* open, after the process stopped.
LEMMA RestartType ==
  ASSUME TypeOK, Restart
  PROVE  TypeOK'
<1>1. \A stored \in SessionRecord : Restored(stored) \in SessionRecord \cup {NoSession}
  <2> SUFFICES ASSUME NEW stored \in SessionRecord
               PROVE  Restored(stored) \in SessionRecord \cup {NoSession}
    OBVIOUS
  <2>1. /\ Newest(stored.events, MaxEvents) \subseteq Event
        /\ Newest(stored.deliveries, MaxRecorded) \subseteq Delivery
    BY DEF Newest, SessionRecord
  <2> QED BY <2>1 DEF Restored, SessionRecord
<1>2. Restored(NoSession) = NoSession
  BY DEF Restored
<1>3. memory' \in [Sessions -> SessionRecord \cup {NoSession}]
  BY <1>1, <1>2 DEF TypeOK, Restart
<1>4. recorded' \in Seq(Recorded)
  BY DEF Restart
<1> QED BY <1>3, <1>4 DEF TypeOK, Restart

\* Every step keeps the types.
LEMMA TypeStep == TypeOK /\ [Next]_vars => TypeOK'
<1> SUFFICES ASSUME TypeOK, [Next]_vars
             PROVE  TypeOK'
  OBVIOUS
<1>1. ASSUME NEW d \in Definitions, NEW submission \in Submissions,
             Validate(d, submission)
      PROVE  TypeOK'
  BY <1>1, ValidatedType DEF TypeOK, Validate
<1>2. ASSUME NEW i \in DOMAIN recorded, NEW resolution \in Resolutions,
             Resolve(i, resolution)
      PROVE  TypeOK'
  BY <1>2, ResolvedType DEF TypeOK, Resolve
<1>3. ASSUME NEW s \in Sessions, NEW d \in Definitions, StartSession(s, d)
      PROVE  TypeOK'
  BY <1>3, AdmitType DEF TypeOK, StartSession
<1>4. ASSUME NEW s \in Sessions, NEW d \in Definitions,
             NEW i \in DOMAIN order, StartSessionEvicting(s, d, i)
      PROVE  TypeOK'
  BY <1>4, StartSessionEvictingType
<1>5. ASSUME NEW s \in Sessions, NEW submission \in Submissions,
             Replay(s, submission)
      PROVE  TypeOK'
  BY <1>5, SessionServiceAssumption DEF TypeOK, Replay, Reply
<1>6. ASSUME NEW s \in Sessions, NEW submission \in Submissions,
             Submit(s, submission)
      PROVE  TypeOK'
  BY <1>6, SubmitType
<1>7. ASSUME NEW s \in Sessions, NEW message \in Messages,
             NEW resolution \in Resolutions,
             ResolveSession(s, message, resolution)
      PROVE  TypeOK'
  BY <1>7, ResolveSessionType
<1>8. ASSUME NEW s \in Sessions, EndSession(s)
      PROVE  TypeOK'
  BY <1>8, EndSessionType
<1>9. ASSUME NEW s \in Sessions, NEW message \in Messages,
             Remember(s, message)
      PROVE  TypeOK'
  BY <1>9, RememberType
<1>10. ASSUME NEW entry \in learned, Forget(entry)
       PROVE  TypeOK'
  BY <1>10 DEF TypeOK, Forget
<1>11. ASSUME Purge
       PROVE  TypeOK'
  BY <1>11 DEF TypeOK, Purge
<1>12. ASSUME Restart
       PROVE  TypeOK'
  BY <1>12, RestartType
<1>13. CASE UNCHANGED vars
  BY <1>13 DEF TypeOK, vars
<1> QED
  BY <1>1, <1>2, <1>3, <1>4, <1>5, <1>6, <1>7, <1>8, <1>9, <1>10, <1>11,
     <1>12, <1>13 DEF Next

\* Every reachable state has its type: no operation, failed commit, eviction or
\* restart builds a session, row or answer that the tables could not hold.
THEOREM TypeCorrect == Spec => []TypeOK
<1>1. Init => TypeOK
  BY DEF Init, TypeOK
<1> QED BY <1>1, TypeStep, PTL DEF Spec

-----------------------------------------------------------------------------
(* The service implements SessionJournal: the journals are the stored      *)
(* sessions, so only the session store matters, whatever memory and the    *)
(* audit do.                                                               *)

\* A stored session has numbered its rows up to `latest', and holds at most one
\* delivery of a message (PRIMARY KEY(session_id, message_id)).
WellNumbered(stored) ==
  /\ \A e \in stored.events : e.sequence <= stored.latest
  /\ \A d \in stored.deliveries : d.sequence <= stored.latest
  /\ \A d, other \in stored.deliveries :
       d.submission.message = other.submission.message => d = other

StoreInv ==
  /\ TypeOK
  /\ \A s \in Sessions : disk[s] # NoSession => WellNumbered(disk[s])

-----------------------------------------------------------------------------
(* The session store.                                                      *)

\* What every write of a session has checked, and what it appends.
LEMMA AppendedNumbered ==
  ASSUME NEW stored \in SessionRecord, WellNumbered(stored), NEW event \in Event,
         event.sequence = stored.latest + 1
  PROVE  /\ WellNumbered(Appended(stored, event))
         /\ Appended(stored, event).state = stored.state
         /\ Appended(stored, event).definition = stored.definition
         /\ Appended(stored, event).latest = stored.latest + 1
         /\ Appended(stored, event).deliveries = stored.deliveries
         /\ \E oldest \in 1 .. stored.latest + 1 :
              Appended(stored, event).events
                = {e \in stored.events \cup {event} : e.sequence >= oldest}
<1> DEFINE n == stored.latest + 1
           rows == stored.events \cup {event}
           oldest == IF n > MaxEvents THEN n - MaxEvents + 1 ELSE 1
           appended == Appended(stored, event)
<1>1. stored.latest \in Nat \ {0} /\ MaxEvents \in Nat \ {0}
  BY SessionServiceAssumption, SessionStoreAssumption DEF SessionRecord
<1>2. \A e \in rows : e.sequence \in Nat \ {0} /\ e.sequence <= n
  BY <1>1, SessionServiceAssumption DEF SessionRecord, Event, WellNumbered
<1>3. TrimBySequence(rows, MaxEvents) = {e \in rows : e.sequence >= oldest}
  <2>1. \A e \in rows :
          (\A newest \in rows : e.sequence > newest.sequence - MaxEvents)
          <=> e.sequence > n - MaxEvents
    BY <1>1, <1>2
  <2>2. \A e \in rows : e.sequence > n - MaxEvents <=> e.sequence >= oldest
    BY <1>1, <1>2
  <2> QED BY <2>1, <2>2 DEF TrimBySequence
<1>4. oldest \in 1 .. n
  BY <1>1
<1>5. /\ appended.state = stored.state
      /\ appended.definition = stored.definition
      /\ appended.latest = n
      /\ appended.deliveries = stored.deliveries
      /\ appended.events = TrimBySequence(rows, MaxEvents)
  BY DEF Appended, SessionRecord
<1> HIDE DEF appended, oldest
<1>6. WellNumbered(appended)
  <2>1. \A e \in appended.events : e.sequence <= n
    BY <1>2, <1>5 DEF TrimBySequence
  <2>2. \A d \in stored.deliveries : d.sequence <= n
    <3>1. \A d \in stored.deliveries :
            d.sequence \in Nat /\ d.sequence <= stored.latest
      BY SessionServiceAssumption DEF WellNumbered, SessionRecord, Delivery
    <3> QED BY <1>1, <3>1
  <2> QED BY <1>5, <2>1, <2>2 DEF WellNumbered
<1> QED BY <1>3, <1>4, <1>5, <1>6 DEF appended

\* SessionStore::record_validation: the new delivery is the newest row, so it is
\* not trimmed, and no stored delivery has its message.
LEMMA ValidationStored ==
  ASSUME NEW stored \in SessionRecord, WellNumbered(stored), NEW event \in Event,
         NEW delivery \in Delivery, delivery.sequence = event.sequence,
         NEW stored2 \in StoreValidation(stored, event, delivery)
  PROVE  /\ event.sequence = stored.latest + 1 /\ stored.state = "active"
         /\ stored2 \in SessionRecord /\ WellNumbered(stored2)
         /\ \A d \in stored.deliveries :
              d.submission.message # delivery.submission.message
         /\ delivery \in stored2.deliveries
         /\ stored2.deliveries \subseteq stored.deliveries \cup {delivery}
         /\ stored2 = [Appended(stored, event) EXCEPT
                         !.deliveries = stored2.deliveries]
<1> DEFINE appended == Appended(stored, event)
           rows == stored.deliveries \cup {delivery}
           trimmed == TrimBySequence(rows, MaxRecorded)
<1>1. /\ event.sequence = stored.latest + 1 /\ stored.state = "active"
      /\ \A d \in stored.deliveries :
           d.submission.message # delivery.submission.message
  BY DEF StoreValidation, ExpectNextActive, StoredDeliveries
<1>2. /\ appended \in SessionRecord
      /\ WellNumbered(appended)
      /\ appended.deliveries = stored.deliveries
      /\ appended.latest = stored.latest + 1
  BY <1>1, AppendedType, AppendedNumbered
<1>3. stored2 = [appended EXCEPT !.deliveries = trimmed]
  BY <1>2 DEF StoreValidation
<1>4. trimmed \subseteq rows
  BY DEF TrimBySequence
<1>5. \A d \in rows : d.sequence \in Nat /\ d.sequence <= delivery.sequence
  <2>1. /\ stored.latest \in Nat /\ delivery.sequence = stored.latest + 1
        /\ \A d \in stored.deliveries :
             d.sequence \in Nat /\ d.sequence <= stored.latest
    BY <1>1, SessionServiceAssumption DEF WellNumbered, SessionRecord, Delivery
  <2> QED BY <2>1
<1>6. delivery \in trimmed
  BY <1>5, SessionStoreAssumption DEF TrimBySequence
<1> HIDE DEF appended, trimmed
<1>7. /\ stored2.deliveries = trimmed /\ stored2.latest = appended.latest
      /\ stored2.events = appended.events
  BY <1>2, <1>3 DEF SessionRecord
<1>8. stored2 \in SessionRecord
  BY StoreValidationType
<1>9. WellNumbered(stored2)
  <2>1. \A d \in rows : d.sequence <= appended.latest
    BY <1>1, <1>2, <1>5
  <2>2. \A d, other \in rows :
          d.submission.message = other.submission.message => d = other
    BY <1>1 DEF WellNumbered
  <2> QED BY <1>2, <1>4, <1>7, <2>1, <2>2 DEF WellNumbered
<1> QED BY <1>1, <1>3, <1>4, <1>6, <1>7, <1>8, <1>9 DEF appended

\* SessionStore::record_resolution marks the delivery that had no resolution.
LEMMA ResolutionStored ==
  ASSUME NEW stored \in SessionRecord, WellNumbered(stored), NEW event \in Event,
         NEW stored2 \in StoreResolution(stored, event)
  PROVE  /\ event.sequence = stored.latest + 1 /\ stored.state = "active"
         /\ stored2 \in SessionRecord /\ WellNumbered(stored2)
         /\ \E d \in stored.deliveries :
              /\ d.submission.message = event.message /\ ~ d.emitted
              /\ stored2 = [Appended(stored, event) EXCEPT !.deliveries =
                   (stored.deliveries \ {d}) \cup {[d EXCEPT !.emitted = TRUE]}]
<1> DEFINE appended == Appended(stored, event)
<1>1. /\ event.sequence = stored.latest + 1 /\ stored.state = "active"
      /\ stored # NoSession
  BY NoSessionAssumption DEF StoreResolution, ExpectNextActive
<1>2. /\ appended \in SessionRecord
      /\ WellNumbered(appended)
      /\ appended.deliveries = stored.deliveries
      /\ appended.latest = stored.latest + 1
  BY <1>1, AppendedType, AppendedNumbered
<1>3. PICK d \in StoredDeliveries(stored, event.message) :
        /\ ~ d.emitted
        /\ stored2 = [appended EXCEPT
                        !.deliveries = (@ \ {d}) \cup {[d EXCEPT !.emitted = TRUE]}]
  BY <1>1 DEF StoreResolution
<1> DEFINE marked == [d EXCEPT !.emitted = TRUE]
           deliveries == (stored.deliveries \ {d}) \cup {marked}
<1>4. d \in stored.deliveries /\ d.submission.message = event.message
  BY <1>3 DEF StoredDeliveries
<1>5. d \in Delivery
  BY <1>4 DEF SessionRecord
<1>6. marked.submission = d.submission /\ marked.sequence = d.sequence
  BY <1>5 DEF Delivery
<1>7. stored2 = [appended EXCEPT !.deliveries = deliveries]
  BY <1>2, <1>3
<1> HIDE DEF appended, marked
<1>8. /\ stored2.deliveries = deliveries /\ stored2.latest = appended.latest
      /\ stored2.events = appended.events
  BY <1>2, <1>7 DEF SessionRecord
<1>9. stored2 \in SessionRecord
  BY StoreResolutionType
<1>10. WellNumbered(stored2)
  <2>1. \A other \in deliveries : other.sequence <= appended.latest
    BY <1>2, <1>4, <1>6 DEF WellNumbered
  <2>2. \A x, y \in deliveries :
          x.submission.message = y.submission.message => x = y
    BY <1>4, <1>6 DEF WellNumbered
  <2> QED BY <1>2, <1>8, <2>1, <2>2 DEF WellNumbered
<1> QED BY <1>1, <1>3, <1>4, <1>7, <1>9, <1>10 DEF appended, marked

\* SessionStore::end_session only changes the state besides appending.
LEMMA EndStored ==
  ASSUME NEW stored \in SessionRecord, WellNumbered(stored), NEW event \in Event,
         NEW stored2 \in StoreEnd(stored, event)
  PROVE  /\ event.sequence = stored.latest + 1 /\ stored.state = "active"
         /\ stored2 \in SessionRecord /\ WellNumbered(stored2)
         /\ stored2 = [Appended(stored, event) EXCEPT !.state = "ended"]
<1> DEFINE appended == Appended(stored, event)
<1>1. /\ event.sequence = stored.latest + 1 /\ stored.state = "active"
      /\ stored2 = [appended EXCEPT !.state = "ended"]
  BY DEF StoreEnd, ExpectNextActive
<1>2. appended \in SessionRecord /\ WellNumbered(appended)
  BY <1>1, AppendedType, AppendedNumbered
<1> HIDE DEF appended
<1>3. /\ stored2.deliveries = appended.deliveries
      /\ stored2.latest = appended.latest
      /\ stored2.events = appended.events
  BY <1>1, <1>2 DEF SessionRecord
<1>4. WellNumbered(stored2)
  BY <1>2, <1>3 DEF WellNumbered
<1> QED BY <1>1, <1>4, StoreEndType DEF appended

-----------------------------------------------------------------------------
(* Steps of the store as steps of the journals.                            *)

\* The messages whose resolution a stored session still expects.
Awaiting(stored) ==
  {d.submission.message : d \in {d \in stored.deliveries : ~ d.emitted}}

LEMMA AsJournalOf ==
  ASSUME NEW stored \in SessionRecord
  PROVE  AsJournal(stored) = [definition |-> stored.definition,
                              state |-> stored.state, latest |-> stored.latest,
                              entries |-> stored.events,
                              awaiting |-> Awaiting(stored)]
BY NoSessionAssumption DEF AsJournal, Awaiting

\* A write of one session is an Append to its journal.
LEMMA AppendMapped ==
  ASSUME disk \in [Sessions -> SessionRecord \cup {NoSession}],
         NEW s \in Sessions, NEW stored \in SessionRecord, disk[s] = stored,
         WellNumbered(stored), stored.state = "active", NEW event \in Event,
         event.sequence = stored.latest + 1,
         NEW stored2 \in SessionRecord, disk' = [disk EXCEPT ![s] = stored2],
         stored2.definition = Appended(stored, event).definition,
         stored2.latest = Appended(stored, event).latest,
         stored2.events = Appended(stored, event).events
  PROVE  Journals!Append(s, event.kind, event.message, event.verdict,
                         stored2.state, Awaiting(stored2))
<1> DEFINE n == stored.latest + 1
<1>1. /\ stored2.definition = stored.definition
      /\ stored2.latest = n
      /\ \E oldest \in 1 .. n :
           stored2.events
             = {e \in stored.events \cup {event} : e.sequence >= oldest}
  BY AppendedNumbered
<1>2. event = Journals!Entry(n, event.kind, event.message, event.verdict)
  BY DEF Event, Journals!Entry
<1>3. /\ AsJournal(stored) = [definition |-> stored.definition,
                              state |-> stored.state, latest |-> stored.latest,
                              entries |-> stored.events,
                              awaiting |-> Awaiting(stored)]
      /\ AsJournal(stored2) = [definition |-> stored2.definition,
                               state |-> stored2.state,
                               latest |-> stored2.latest,
                               entries |-> stored2.events,
                               awaiting |-> Awaiting(stored2)]
  BY AsJournalOf
<1>4. StoredJournals[s] = AsJournal(stored)
  BY DEF StoredJournals
<1>5. StoredJournals' = [StoredJournals EXCEPT ![s] = AsJournal(stored2)]
  BY DEF StoredJournals
<1>6. PICK oldest \in 1 .. n :
        stored2.events
          = {e \in stored.events \cup {event} : e.sequence >= oldest}
  BY <1>1
<1>7. AsJournal(stored2)
        = [definition |-> AsJournal(stored).definition,
           state |-> stored2.state, latest |-> n,
           entries |-> {e \in AsJournal(stored).entries \cup {event} :
                          e.sequence >= oldest},
           awaiting |-> Awaiting(stored2)]
  <2>1. /\ AsJournal(stored).definition = stored.definition
        /\ AsJournal(stored).entries = stored.events
    BY <1>3
  <2>2. stored2.events = {e \in AsJournal(stored).entries \cup {event} :
                            e.sequence >= oldest}
    BY <1>6, <2>1
  <2> QED BY <1>1, <1>3, <2>1, <2>2
<1>8. /\ StoredJournals[s].latest + 1 = n
      /\ StoredJournals[s].state = "active"
      /\ StoredJournals[s].entries = AsJournal(stored).entries
  BY <1>3, <1>4
<1> HIDE DEF n
<1> QED BY <1>2, <1>4, <1>5, <1>7, <1>8 DEF Journals!Append

LEMMA ValidationMapped ==
  ASSUME StoreInv, NEW s \in Sessions, NEW event \in Event,
         event.kind = "validation", NEW delivery \in Delivery,
         ~ delivery.emitted, delivery.sequence = event.sequence,
         delivery.submission.message = event.message,
         NEW stored2 \in StoreValidation(disk[s], event, delivery),
         disk' = [disk EXCEPT ![s] = stored2]
  PROVE  /\ WellNumbered(stored2)
         /\ Journals!Validate(s, event.message, event.verdict)
<1> DEFINE stored == disk[s]
           appended == Appended(stored, event)
           message == event.message
           kept == Awaiting(stored2) \ {message}
<1>1. /\ stored \in SessionRecord /\ stored # NoSession
      /\ WellNumbered(stored)
      /\ disk \in [Sessions -> SessionRecord \cup {NoSession}]
  BY DEF StoreInv, TypeOK, StoreValidation, ExpectNextActive
<1>2. /\ event.sequence = stored.latest + 1 /\ stored.state = "active"
      /\ stored2 \in SessionRecord /\ WellNumbered(stored2)
  BY <1>1, ValidationStored
<1>3. /\ \A d \in stored.deliveries : d.submission.message # message
      /\ delivery \in stored2.deliveries
      /\ stored2.deliveries \subseteq stored.deliveries \cup {delivery}
      /\ stored2 = [appended EXCEPT !.deliveries = stored2.deliveries]
  BY <1>1, ValidationStored
<1>4. /\ appended \in SessionRecord /\ appended.state = "active"
  BY <1>1, <1>2, AppendedType, AppendedNumbered
<1> HIDE DEF appended
<1>5. /\ stored2.definition = appended.definition
      /\ stored2.latest = appended.latest
      /\ stored2.events = appended.events
      /\ stored2.state = "active"
  BY <1>2, <1>3, <1>4 DEF SessionRecord
<1>6. Journals!Append(s, "validation", message, event.verdict, "active",
                      Awaiting(stored2))
  BY <1>1, <1>2, <1>5, AppendMapped DEF appended
<1>7. StoredJournals[s].awaiting = Awaiting(stored)
  BY <1>1, AsJournalOf DEF StoredJournals
<1>8. /\ message \notin Awaiting(stored)
      /\ kept \subseteq Awaiting(stored)
      /\ Awaiting(stored2) = kept \cup {message}
  BY <1>3 DEF Awaiting
<1> HIDE DEF message, kept, stored
<1>9. /\ Journals!Append(s, "validation", message, event.verdict, "active",
                         kept \cup {message})
      /\ kept \in SUBSET StoredJournals[s].awaiting
      /\ message \notin StoredJournals[s].awaiting
  BY <1>6, <1>7, <1>8
<1>10. Journals!Validate(s, message, event.verdict)
  BY <1>9 DEF Journals!Validate
<1> QED BY <1>2, <1>10 DEF message

LEMMA ResolutionMapped ==
  ASSUME StoreInv, NEW s \in Sessions, NEW event \in Event,
         event.kind = "resolution",
         NEW stored2 \in StoreResolution(disk[s], event),
         disk' = [disk EXCEPT ![s] = stored2]
  PROVE  /\ WellNumbered(stored2)
         /\ Journals!Resolve(s, event.message, event.verdict)
<1> DEFINE stored == disk[s]
           appended == Appended(stored, event)
           message == event.message
<1>1. /\ stored \in SessionRecord /\ stored # NoSession
      /\ WellNumbered(stored)
      /\ disk \in [Sessions -> SessionRecord \cup {NoSession}]
  BY DEF StoreInv, TypeOK, StoreResolution, ExpectNextActive
<1>2. /\ event.sequence = stored.latest + 1 /\ stored.state = "active"
      /\ stored2 \in SessionRecord /\ WellNumbered(stored2)
  BY <1>1, ResolutionStored
<1>3. PICK d \in stored.deliveries :
        /\ d.submission.message = message /\ ~ d.emitted
        /\ stored2 = [appended EXCEPT !.deliveries =
                        (stored.deliveries \ {d}) \cup {[d EXCEPT !.emitted = TRUE]}]
  BY <1>1, ResolutionStored
<1>4. /\ appended \in SessionRecord /\ appended.state = "active"
  BY <1>1, <1>2, AppendedType, AppendedNumbered
<1> HIDE DEF appended
<1> DEFINE marked == [d EXCEPT !.emitted = TRUE]
<1>5. d \in Delivery /\ marked.emitted
  BY <1>1, <1>3 DEF SessionRecord, Delivery
<1> HIDE DEF marked
<1>6. /\ stored2.definition = appended.definition
      /\ stored2.latest = appended.latest
      /\ stored2.events = appended.events
      /\ stored2.state = "active"
      /\ stored2.deliveries = (stored.deliveries \ {d}) \cup {marked}
  BY <1>3, <1>4 DEF SessionRecord, marked
<1>7. Journals!Append(s, "resolution", message, event.verdict, "active",
                      Awaiting(stored2))
  BY <1>1, <1>2, <1>6, AppendMapped DEF appended
<1>8. StoredJournals[s].awaiting = Awaiting(stored)
  BY <1>1, AsJournalOf DEF StoredJournals
<1>9. /\ message \in Awaiting(stored)
      /\ Awaiting(stored2) = Awaiting(stored) \ {message}
  BY <1>1, <1>3, <1>5, <1>6 DEF Awaiting, WellNumbered
<1> HIDE DEF message, stored
<1> QED BY <1>2, <1>7, <1>8, <1>9 DEF Journals!Resolve, message

LEMMA EndMapped ==
  ASSUME StoreInv, NEW s \in Sessions, NEW event \in Event,
         event.kind = "ended", event.message = None, event.verdict = None,
         NEW stored2 \in StoreEnd(disk[s], event),
         disk' = [disk EXCEPT ![s] = stored2]
  PROVE  WellNumbered(stored2) /\ Journals!Close(s)
<1> DEFINE stored == disk[s]
           appended == Appended(stored, event)
<1>1. /\ stored \in SessionRecord /\ stored # NoSession
      /\ WellNumbered(stored)
      /\ disk \in [Sessions -> SessionRecord \cup {NoSession}]
  BY DEF StoreInv, TypeOK, StoreEnd, ExpectNextActive
<1>2. /\ event.sequence = stored.latest + 1 /\ stored.state = "active"
      /\ stored2 \in SessionRecord /\ WellNumbered(stored2)
      /\ stored2 = [appended EXCEPT !.state = "ended"]
  BY <1>1, EndStored
<1>3. appended \in SessionRecord /\ appended.deliveries = stored.deliveries
  BY <1>1, <1>2, AppendedType, AppendedNumbered
<1> HIDE DEF appended
<1>4. /\ stored2.definition = appended.definition
      /\ stored2.latest = appended.latest
      /\ stored2.events = appended.events
      /\ stored2.state = "ended"
      /\ stored2.deliveries = stored.deliveries
  BY <1>2, <1>3 DEF SessionRecord
<1>5. Journals!Append(s, "ended", None, None, "ended", Awaiting(stored2))
  BY <1>1, <1>2, <1>4, AppendMapped DEF appended
<1>6. /\ StoredJournals[s].awaiting = Awaiting(stored)
      /\ Awaiting(stored2) = Awaiting(stored)
  BY <1>1, <1>4, AsJournalOf DEF StoredJournals, Awaiting
<1> HIDE DEF stored
<1> QED BY <1>2, <1>5, <1>6 DEF Journals!Close

\* A session is stored for the first time, after those of `gone' were deleted.
LEMMA AdmitMapped ==
  ASSUME StoreInv, NEW s \in Sessions, NEW d \in Definitions,
         NEW gone \in SUBSET {t \in Sessions : disk[t] # NoSession /\ disk[t].state = "ended"},
         s \notin gone, NEW remaining, NEW queue, NEW stored,
         stored = [t \in Sessions |-> IF t \in gone THEN NoSession ELSE disk[t]],
         Admit(s, d, remaining, stored, queue)
  PROVE  /\ \A t \in Sessions : disk'[t] # NoSession => WellNumbered(disk'[t])
         /\ Journals!Open(s, d, gone)
<1>1. /\ disk' = [stored EXCEPT ![s] = Started(d)]
      /\ disk[s] = NoSession
  BY DEF Admit, StoreCreate
<1>2. StartedEvent \in Event /\ StartedEvent.sequence = 1
  BY SessionServiceAssumption DEF StartedEvent, Event
<1>3. Started(d) \in SessionRecord
  BY <1>2, SessionServiceAssumption DEF Started, SessionRecord
<1>4. WellNumbered(Started(d))
  BY <1>2 DEF WellNumbered, Started
<1>5. AsJournal(Started(d)) = Journals!Opened(d)
  BY <1>3, AsJournalOf
     DEF Started, StartedEvent, Awaiting, Journals!Opened, Journals!Entry
<1>6. StoredJournals[s].state = "absent"
  BY <1>1 DEF StoredJournals, AsJournal
<1>7. gone \subseteq Journals!Closed
  BY AsJournalOf DEF Journals!Closed, StoredJournals, StoreInv, TypeOK
<1>8. StoredJournals' = [Journals!Delete(gone) EXCEPT ![s] = Journals!Opened(d)]
  <2>1. \A t \in Sessions :
          AsJournal(disk'[t]) = IF t = s THEN Journals!Opened(d)
                                ELSE IF t \in gone THEN Journals!Absent
                                ELSE StoredJournals[t]
    BY <1>1, <1>5 DEF StoredJournals, AsJournal, Journals!Absent
  <2> QED BY <2>1 DEF StoredJournals, Journals!Delete
<1>9. \A t \in Sessions : disk'[t] # NoSession => WellNumbered(disk'[t])
  BY <1>1, <1>4 DEF StoreInv
<1> QED BY <1>6, <1>8, <1>9 DEF Journals!Open

LEMMA StartMapped ==
  ASSUME StoreInv, NEW s \in Sessions, NEW d \in Definitions,
         StartSession(s, d)
  PROVE  /\ \A t \in Sessions : disk'[t] # NoSession => WellNumbered(disk'[t])
         /\ Journals!Next
<1>1. disk = [t \in Sessions |-> IF t \in {} THEN NoSession ELSE disk[t]]
  BY DEF StoreInv, TypeOK
<1>2. Admit(s, d, memory, disk, order)
  BY DEF StartSession
<1>3. /\ \A t \in Sessions : disk'[t] # NoSession => WellNumbered(disk'[t])
      /\ Journals!Open(s, d, {})
  BY <1>1, <1>2, AdmitMapped
<1> QED BY <1>3 DEF Journals!Next

LEMMA EvictMapped ==
  ASSUME StoreInv, NEW s \in Sessions, NEW d \in Definitions,
         NEW i \in DOMAIN order, StartSessionEvicting(s, d, i)
  PROVE  /\ \A t \in Sessions : disk'[t] # NoSession => WellNumbered(disk'[t])
         /\ Journals!Next
<1> DEFINE gone == {order[i]}
           stored == [disk EXCEPT ![order[i]] = NoSession]
           closed == {t \in Sessions : disk[t] # NoSession /\ disk[t].state = "ended"}
<1>1. /\ order[i] \in closed
      /\ s # order[i]
      /\ \/ \E remaining : Admit(s, d, remaining, stored, Without(i))
         \/ disk' = stored
  <2>1. order[i] \in Sessions
    BY DEF StoreInv, TypeOK
  <2>2. s # order[i]
    BY DEF StartSessionEvicting, FirstEnded, Ended
  <2>3. disk[order[i]] # NoSession /\ disk[order[i]].state = "ended"
    BY DEF StartSessionEvicting, StoreDeleteEnded
  <2>4. \/ \E remaining : Admit(s, d, remaining, stored, Without(i))
        \/ disk' = stored
    BY DEF StartSessionEvicting, StoreDeleteEnded
  <2> QED BY <2>1, <2>2, <2>3, <2>4
<1>2. stored = [t \in Sessions |-> IF t \in gone THEN NoSession ELSE disk[t]]
  BY DEF StoreInv, TypeOK
<1>3. closed \subseteq Journals!Closed
  BY AsJournalOf DEF Journals!Closed, StoredJournals, StoreInv, TypeOK
<1> HIDE DEF stored
<1>4. CASE \E remaining : Admit(s, d, remaining, stored, Without(i))
  <2>1. /\ \A t \in Sessions : disk'[t] # NoSession => WellNumbered(disk'[t])
        /\ Journals!Open(s, d, gone)
    BY <1>1, <1>2, <1>4, AdmitMapped
  <2>2. gone \in SUBSET Journals!Closed
    BY <1>1, <1>3
  <2> QED BY <2>1, <2>2 DEF Journals!Next
<1>5. CASE disk' = stored
  <2>1. \A t \in Sessions : disk'[t] # NoSession => WellNumbered(disk'[t])
    BY <1>2, <1>5 DEF StoreInv
  <2>2. \A t \in Sessions :
          AsJournal(disk'[t]) = IF t \in gone THEN Journals!Absent
                                ELSE StoredJournals[t]
    BY <1>2, <1>5 DEF StoredJournals, AsJournal, Journals!Absent
  <2>3. Journals!Discard(gone)
    BY <2>2 DEF StoredJournals, Journals!Discard, Journals!Delete
  <2>4. gone \in SUBSET Journals!Closed
    BY <1>1, <1>3
  <2> QED BY <2>1, <2>3, <2>4 DEF Journals!Next
<1> QED BY <1>1, <1>4, <1>5

\* submit, resolve_session and end_session.
LEMMA SubmitMapped ==
  ASSUME StoreInv, NEW s \in Sessions, NEW submission \in Submissions,
         Submit(s, submission)
  PROVE  \/ UNCHANGED disk
         \/ /\ \A t \in Sessions : disk'[t] # NoSession => WellNumbered(disk'[t])
            /\ Journals!Next
<1>1. memory[s] \in SessionRecord /\ memory[s].latest < MaxSequence
  BY DEF StoreInv, TypeOK, Submit, Active
<1>2. PICK verdict \in Verdicts :
        DeliverValidation(s, submission, verdict) \/ UNCHANGED disk
  BY DEF Submit
<1> SUFFICES ASSUME DeliverValidation(s, submission, verdict)
             PROVE  /\ \A t \in Sessions :
                         disk'[t] # NoSession => WellNumbered(disk'[t])
                    /\ Journals!Next
  BY <1>2
<1> DEFINE event == NewEvent(memory[s], "validation", submission.message,
                             verdict)
           delivery == [sequence |-> event.sequence,
                        submission |-> submission, verdict |-> verdict,
                        emitted |-> FALSE, text |-> NoText]
<1>3. PICK stored2 \in StoreValidation(disk[s], event, delivery) :
        disk' = [disk EXCEPT ![s] = stored2]
  BY DEF DeliverValidation
<1>4. submission.message \in Messages
  BY SessionServiceAssumption
<1>5. /\ event \in Event /\ event.kind = "validation"
      /\ event.message = submission.message /\ event.verdict = verdict
  BY <1>1, <1>4, NewEventType DEF NewEvent
<1>6. /\ delivery \in Delivery /\ ~ delivery.emitted
      /\ delivery.sequence = event.sequence
      /\ delivery.submission.message = event.message
  BY <1>5 DEF Delivery, Event
<1> HIDE DEF event, delivery
<1>7. /\ WellNumbered(stored2)
      /\ Journals!Validate(s, submission.message, verdict)
  BY <1>3, <1>5, <1>6, ValidationMapped
<1> QED BY <1>3, <1>4, <1>7 DEF StoreInv, TypeOK, Journals!Next

LEMMA ResolveMapped ==
  ASSUME StoreInv, NEW s \in Sessions, NEW message \in Messages,
         NEW resolution \in Resolutions, ResolveSession(s, message, resolution)
  PROVE  \/ UNCHANGED disk
         \/ /\ \A t \in Sessions : disk'[t] # NoSession => WellNumbered(disk'[t])
            /\ Journals!Next
<1>1. memory[s] \in SessionRecord /\ memory[s].latest < MaxSequence
  BY DEF StoreInv, TypeOK, ResolveSession, Active
<1>2. PICK delivery \in DeliveriesOf(memory[s], message) :
        EmitResolution(s, delivery, resolution) \/ UNCHANGED disk
  BY DEF ResolveSession
<1> SUFFICES ASSUME EmitResolution(s, delivery, resolution)
             PROVE  /\ \A t \in Sessions :
                         disk'[t] # NoSession => WellNumbered(disk'[t])
                    /\ Journals!Next
  BY <1>2
<1> DEFINE event == NewEvent(memory[s], "resolution",
                             delivery.submission.message, resolution)
<1>3. PICK stored2 \in StoreResolution(disk[s], event) :
        disk' = [disk EXCEPT ![s] = stored2]
  BY DEF EmitResolution
<1>4. delivery.submission.message = message /\ resolution \in Verdicts
  BY DEF DeliveriesOf, Resolutions, Verdicts
<1>5. /\ event \in Event /\ event.kind = "resolution"
      /\ event.message = message /\ event.verdict = resolution
  BY <1>1, <1>4, NewEventType DEF NewEvent
<1> HIDE DEF event
<1>6. WellNumbered(stored2) /\ Journals!Resolve(s, message, resolution)
  BY <1>3, <1>5, ResolutionMapped
<1> QED BY <1>3, <1>6 DEF StoreInv, TypeOK, Journals!Next

LEMMA CloseMapped ==
  ASSUME StoreInv, NEW s \in Sessions, EndSession(s)
  PROVE  /\ \A t \in Sessions : disk'[t] # NoSession => WellNumbered(disk'[t])
         /\ Journals!Next
<1>1. memory[s] \in SessionRecord /\ memory[s].latest < MaxSequence
  BY DEF StoreInv, TypeOK, EndSession, Active
<1> DEFINE event == NewEvent(memory[s], "ended", None, None)
<1>2. PICK stored2 \in StoreEnd(disk[s], event) :
        disk' = [disk EXCEPT ![s] = stored2]
  BY DEF EndSession
<1>3. /\ event \in Event /\ event.kind = "ended"
      /\ event.message = None /\ event.verdict = None
  BY <1>1, NewEventType DEF NewEvent
<1> HIDE DEF event
<1>4. WellNumbered(stored2) /\ Journals!Close(s)
  BY <1>2, <1>3, EndMapped
<1> QED BY <1>2, <1>4 DEF StoreInv, TypeOK, Journals!Next

-----------------------------------------------------------------------------
(* The theorem.                                                            *)

LEMMA JournalInit == Init => StoreInv /\ Journals!Init
<1> SUFFICES ASSUME Init PROVE StoreInv /\ Journals!Init
  OBVIOUS
<1>1. TypeOK
  BY DEF Init, TypeOK
<1>2. Journals!Init
  BY DEF Init, Journals!Init, StoredJournals, AsJournal, Journals!Absent
<1> QED BY <1>1, <1>2 DEF Init, StoreInv

\* Every step of the service is a step of the journals or a stutter.
LEMMA JournalStep ==
  StoreInv /\ [Next]_vars => StoreInv' /\ [Journals!Next]_StoredJournals
<1> SUFFICES ASSUME StoreInv, [Next]_vars
             PROVE  StoreInv' /\ [Journals!Next]_StoredJournals
  OBVIOUS
<1> DEFINE Numbered == \A t \in Sessions :
                         disk'[t] # NoSession => WellNumbered(disk'[t])
<1>1. TypeOK'
  BY TypeStep DEF StoreInv
<1>2. CASE UNCHANGED disk
  BY <1>1, <1>2 DEF StoreInv, StoredJournals
<1>3. CASE Numbered /\ Journals!Next
  BY <1>1, <1>3 DEF StoreInv
<1> HIDE DEF Numbered
<1>4. ASSUME NEW d \in Definitions, NEW submission \in Submissions,
             Validate(d, submission)
      PROVE  UNCHANGED disk
  BY <1>4 DEF Validate
<1>5. ASSUME NEW i \in DOMAIN recorded, NEW resolution \in Resolutions,
             Resolve(i, resolution)
      PROVE  UNCHANGED disk
  BY <1>5 DEF Resolve
<1>6. ASSUME NEW s \in Sessions, NEW d \in Definitions, StartSession(s, d)
      PROVE  Numbered /\ Journals!Next
  BY <1>6, StartMapped DEF Numbered
<1>7. ASSUME NEW s \in Sessions, NEW d \in Definitions,
             NEW i \in DOMAIN order, StartSessionEvicting(s, d, i)
      PROVE  Numbered /\ Journals!Next
  BY <1>7, EvictMapped DEF Numbered
<1>8. ASSUME NEW s \in Sessions, NEW submission \in Submissions,
             Replay(s, submission)
      PROVE  UNCHANGED disk
  BY <1>8 DEF Replay
<1>9. ASSUME NEW s \in Sessions, NEW submission \in Submissions,
             Submit(s, submission)
      PROVE  UNCHANGED disk \/ (Numbered /\ Journals!Next)
  BY <1>9, SubmitMapped DEF Numbered
<1>10. ASSUME NEW s \in Sessions, NEW message \in Messages,
              NEW resolution \in Resolutions,
              ResolveSession(s, message, resolution)
       PROVE  UNCHANGED disk \/ (Numbered /\ Journals!Next)
  BY <1>10, ResolveMapped DEF Numbered
<1>11. ASSUME NEW s \in Sessions, EndSession(s)
       PROVE  Numbered /\ Journals!Next
  BY <1>11, CloseMapped DEF Numbered
<1>12. ASSUME NEW s \in Sessions, NEW message \in Messages,
              Remember(s, message)
       PROVE  UNCHANGED disk
  BY <1>12 DEF Remember
<1>13. ASSUME NEW entry \in learned, Forget(entry)
       PROVE  UNCHANGED disk
  BY <1>13 DEF Forget
<1>14. ASSUME Purge
       PROVE  Numbered /\ Journals!Next
  <2>1. StoredJournals' = [s \in Sessions |-> Journals!Absent]
    BY <1>14 DEF Purge, StoredJournals, AsJournal, Journals!Absent
  <2> QED BY <1>14, <2>1 DEF Purge, Numbered, Journals!Next, Journals!Purge
<1>15. ASSUME Restart
       PROVE  UNCHANGED disk
  BY <1>15 DEF Restart
<1>16. CASE UNCHANGED vars
  BY <1>2, <1>16 DEF vars
<1> QED
  BY <1>2, <1>3, <1>4, <1>5, <1>6, <1>7, <1>8, <1>9, <1>10, <1>11, <1>12,
     <1>13, <1>14, <1>15, <1>16 DEF Next

\* The service implements the journals: whatever fails, is retried or restarts,
\* a stored session only grows by its next event, is final once ended, and never
\* resolves a message that does not await a resolution.
THEOREM JournalsImplemented == Spec => ImplementsJournals
BY JournalInit, JournalStep, PTL DEF Spec, ImplementsJournals, Journals!Spec


-----------------------------------------------------------------------------
(***************************************************************************)
(* Proofs that the sessions and the audit agree.  The audit is written     *)
(* before a session is, so the proof has two halves: a write to the audit  *)
(* keeps every statement about it true (Preserves), and an event or a      *)
(* delivery is only built from a statement that the write before it made   *)
(* true.                                                                   *)
(***************************************************************************)

\* From (rows, gone) to (rows2, gone2), what is backed stays backed.
Preserves(rows, gone, rows2, gone2) ==
  \A round, message, verdict, resolution :
    resolution # NoResolution /\ Backed(rows, gone, round, message, verdict, resolution)
    => Backed(rows2, gone2, round, message, verdict, resolution)

-----------------------------------------------------------------------------
(* Writes to the audit.                                                    *)

\* record_validation of a new identity, retention included: the row is there,
\* no identity has two rows, and a row that is gone is known to be gone.
LEMMA InsertPreserves ==
  ASSUME NEW rows \in Seq(AuditRow), NEW row \in AuditRow, Unique(rows),
         RowsOf(rows, row.round, row.message) = {},
         NEW rows2 \in Retained(Append(rows, row)),
         NEW gone, NEW gone2,
         gone2 = gone \cup (Identities(rows) \ Identities(rows2))
  PROVE  /\ Unique(rows2)
         /\ Preserves(rows, gone, rows2, gone2)
         /\ Backed(rows2, gone2, row.round, row.message, row.verdict, None)
<1> DEFINE full == Append(rows, row)
<1>1. /\ full \in Seq(AuditRow)
      /\ Len(full) = Len(rows) + 1
      /\ \A i \in 1 .. Len(rows) : full[i] = rows[i]
      /\ full[Len(rows) + 1] = row
  OBVIOUS
<1> HIDE DEF full
<1>2. PICK k \in 1 .. Len(full) :
        /\ rows2 \in Seq(AuditRow)
        /\ Len(rows2) = Len(full) - k + 1
        /\ \A i \in 1 .. Len(rows2) : rows2[i] = full[i + k - 1]
  BY <1>1, RetainedRows DEF full
<1>3. \A i, j \in 1 .. Len(full) :
        full[i].round = full[j].round /\ full[i].message = full[j].message
        => i = j
  <2> SUFFICES ASSUME NEW i \in 1 .. Len(full), NEW j \in 1 .. Len(full),
                      full[i].round = full[j].round,
                      full[i].message = full[j].message
               PROVE  i = j
    OBVIOUS
  <2>1. \A n \in 1 .. Len(rows) : ~ (/\ rows[n].round = row.round
                                     /\ rows[n].message = row.message)
    BY DEF RowsOf
  <2>2. CASE i \in 1 .. Len(rows) /\ j \in 1 .. Len(rows)
    BY <1>1, <2>2 DEF Unique
  <2>3. CASE i = Len(rows) + 1 \/ j = Len(rows) + 1
    BY <1>1, <2>1, <2>3
  <2> QED BY <1>1, <2>2, <2>3
<1>4. Unique(rows2)
  <2>0. DOMAIN rows2 = 1 .. Len(rows2)
    BY <1>2
  <2> SUFFICES ASSUME NEW i \in 1 .. Len(rows2), NEW j \in 1 .. Len(rows2),
                      rows2[i].round = rows2[j].round,
                      rows2[i].message = rows2[j].message
               PROVE  i = j
    BY <2>0 DEF Unique
  <2>1. i + k - 1 \in 1 .. Len(full) /\ j + k - 1 \in 1 .. Len(full)
    BY <1>1, <1>2
  <2>2. rows2[i] = full[i + k - 1] /\ rows2[j] = full[j + k - 1]
    BY <1>2
  <2>3. i + k - 1 = j + k - 1
    BY <1>3, <2>1, <2>2
  <2> QED BY <2>3
<1>5. Preserves(rows, gone, rows2, gone2)
  <2> SUFFICES ASSUME NEW round, NEW message, NEW verdict, NEW resolution,
                      Backed(rows, gone, round, message, verdict, resolution)
               PROVE  Backed(rows2, gone2, round, message, verdict, resolution)
    BY DEF Preserves
  <2>1. CASE <<round, message>> \in gone
    BY <2>1 DEF Backed
  <2>2. CASE <<round, message>> \notin gone
    <3>1. PICK i \in 1 .. Len(rows) :
            /\ rows[i].round = round
            /\ rows[i].message = message
            /\ verdict # None => rows[i].verdict = verdict
            /\ resolution # None => rows[i].resolution = resolution
      BY <2>2 DEF Backed, RowsOf
    <3>2. CASE i >= k
      <4>1. i - k + 1 \in 1 .. Len(rows2) /\ rows2[i - k + 1] = rows[i]
        BY <1>1, <1>2, <3>2
      <4>2. i - k + 1 \in RowsOf(rows2, round, message)
        BY <1>2, <3>1, <4>1 DEF RowsOf
      <4> QED BY <3>1, <4>1, <4>2 DEF Backed
    <3>3. CASE i < k
      <4>1. <<round, message>> \in Identities(rows)
        BY <3>1 DEF Identities
      <4>2. <<round, message>> \notin Identities(rows2)
        <5> SUFFICES ASSUME NEW j \in 1 .. Len(rows2),
                            rows2[j].round = round, rows2[j].message = message
                     PROVE  FALSE
          BY <1>2 DEF Identities
        <5>1. /\ j + k - 1 \in 1 .. Len(full)
              /\ full[j + k - 1] = rows2[j]
          BY <1>1, <1>2
        <5>2. full[i] = rows[i] /\ i \in 1 .. Len(full)
          BY <1>1
        <5>3. j + k - 1 = i
          BY <1>3, <3>1, <5>1, <5>2
        <5> QED BY <3>3, <5>3
      <4> QED BY <4>1, <4>2 DEF Backed
    <3> QED BY <1>2, <3>2, <3>3
  <2> QED BY <2>1, <2>2
<1>6. Backed(rows2, gone2, row.round, row.message, row.verdict, None)
  <2>1. Len(rows2) \in 1 .. Len(rows2) /\ rows2[Len(rows2)] = row
    BY <1>1, <1>2
  <2>2. Len(rows2) \in RowsOf(rows2, row.round, row.message)
    BY <1>2, <2>1 DEF RowsOf
  <2> QED BY <2>1, <2>2 DEF Backed
<1> QED BY <1>4, <1>5, <1>6

\* record_validation, the repetition of a recorded payload included.
LEMMA RecordValidationPreserves ==
  ASSUME NEW rows \in Seq(AuditRow), NEW row \in AuditRow, Unique(rows),
         NEW rows2 \in RecordValidation(rows, row),
         NEW gone, NEW gone2,
         gone2 = gone \cup (Identities(rows) \ Identities(rows2))
  PROVE  /\ Unique(rows2)
         /\ Preserves(rows, gone, rows2, gone2)
         /\ Backed(rows2, gone2, row.round, row.message, row.verdict, None)
<1>1. CASE RowsOf(rows, row.round, row.message) = {}
  <2>1. rows2 \in Retained(Append(rows, row))
    BY <1>1 DEF RecordValidation
  <2> QED BY <1>1, <2>1, InsertPreserves
<1>2. CASE RowsOf(rows, row.round, row.message) # {}
  <2>1. /\ rows2 = rows
        /\ \A i \in RowsOf(rows, row.round, row.message) : SamePayload(rows[i], row)
    BY <1>2 DEF RecordValidation
  <2>2. gone2 = gone
    BY <2>1
  <2>3. Preserves(rows, gone, rows2, gone2)
    BY <2>1, <2>2 DEF Preserves
  <2> QED BY <1>2, <2>1, <2>3 DEF Backed, SamePayload
<1> QED BY <1>1, <1>2

\* record_resolution: a resolution that is there is never replaced.
LEMMA RecordResolutionPreserves ==
  ASSUME NEW rows \in Seq(AuditRow), Unique(rows),
         NEW round, NEW message, NEW origin, NEW verdict,
         NEW resolution \in Resolutions,
         NEW rows2 \in RecordResolution(rows, round, message, origin, verdict,
                                        resolution),
         NEW gone, NEW gone2,
         gone2 = gone \cup (Identities(rows) \ Identities(rows2))
  PROVE  /\ Unique(rows2)
         /\ Preserves(rows, gone, rows2, gone2)
         /\ Backed(rows2, gone2, round, message, None, resolution)
<1>1. PICK i \in RowsOf(rows, round, message) :
        /\ rows2 = [rows EXCEPT ![i].resolution = resolution]
        /\ rows[i].resolution \in {NoResolution, resolution}
  BY DEF RecordResolution
<1>2. i \in DOMAIN rows /\ rows[i].round = round /\ rows[i].message = message
  BY DEF RowsOf
<1>3. rows[i] \in AuditRow
  BY <1>2
<1>4. /\ DOMAIN rows2 = DOMAIN rows
      /\ \A j \in DOMAIN rows : j # i => rows2[j] = rows[j]
      /\ rows2[i] = [rows[i] EXCEPT !.resolution = resolution]
  BY <1>1, <1>2
<1>5. /\ rows2[i].round = rows[i].round
      /\ rows2[i].message = rows[i].message
      /\ rows2[i].verdict = rows[i].verdict
      /\ rows2[i].resolution = resolution
  BY <1>3, <1>4 DEF AuditRow
<1>6. \A j \in DOMAIN rows : /\ rows2[j].round = rows[j].round
                             /\ rows2[j].message = rows[j].message
                             /\ rows2[j].verdict = rows[j].verdict
  BY <1>4, <1>5
<1>7. Unique(rows2)
  BY <1>4, <1>6 DEF Unique
<1>8. Preserves(rows, gone, rows2, gone2)
  <2> SUFFICES ASSUME NEW r, NEW m, NEW v, NEW x, x # NoResolution,
                      Backed(rows, gone, r, m, v, x)
               PROVE  Backed(rows2, gone2, r, m, v, x)
    BY DEF Preserves
  <2>1. CASE <<r, m>> \in gone
    BY <2>1 DEF Backed
  <2>2. CASE <<r, m>> \notin gone
    <3>1. PICK j \in RowsOf(rows, r, m) :
            /\ v # None => rows[j].verdict = v
            /\ x # None => rows[j].resolution = x
      BY <2>2 DEF Backed
    <3>2. j \in RowsOf(rows2, r, m)
      BY <1>4, <1>6 DEF RowsOf
    <3>3. x # None => rows2[j].resolution = x
      BY <1>1, <1>4, <1>5, <3>1 DEF RowsOf
    <3> QED BY <1>6, <3>1, <3>2, <3>3 DEF Backed, RowsOf
  <2> QED BY <2>1, <2>2
<1>9. Backed(rows2, gone2, round, message, None, resolution)
  <2>1. i \in RowsOf(rows2, round, message)
    BY <1>2, <1>4, <1>6 DEF RowsOf
  <2> QED BY <1>5, <2>1 DEF Backed
<1> QED BY <1>7, <1>8, <1>9

-----------------------------------------------------------------------------
(* Records.                                                                *)

\* A session built from a backed one and one backed event.
LEMMA RecordBuilt ==
  ASSUME NEW rows, NEW gone, NEW record, NEW other, NEW event,
         RecordBacked(rows, gone, record),
         other.definition = record.definition,
         other.events \subseteq record.events \cup {event},
         EventBacked(rows, gone, record.definition.round, event),
         \A d \in other.deliveries :
           \/ d \in record.deliveries
           \/ Backed(rows, gone, record.definition.round, d.submission.message,
                     d.verdict, None)
  PROVE  RecordBacked(rows, gone, other)
BY DEF RecordBacked, DeliveriesBacked

\* What a session tells stays true when the audit grows.
LEMMA RecordPreserved ==
  ASSUME NEW rows, NEW gone, NEW rows2, NEW gone2, NEW record \in SessionRecord,
         RecordBacked(rows, gone, record), Preserves(rows, gone, rows2, gone2)
  PROVE  RecordBacked(rows2, gone2, record)
<1>1. /\ None # NoResolution
      /\ \A e \in record.events : e.verdict # NoResolution
  BY AuditAssumption, SessionServiceAssumption DEF SessionRecord, Event, Verdicts
<1>2. DeliveriesBacked(rows2, gone2, record)
  BY <1>1 DEF RecordBacked, DeliveriesBacked, Preserves
<1>3. \A e \in record.events :
        EventBacked(rows2, gone2, record.definition.round, e)
  BY <1>1 DEF RecordBacked, EventBacked, Preserves
<1> QED BY <1>2, <1>3 DEF RecordBacked

LEMMA AllPreserved ==
  ASSUME NEW rows, NEW gone, NEW rows2, NEW gone2,
         NEW records \in [Sessions -> SessionRecord \cup {NoSession}],
         AllBacked(rows, gone, records), Preserves(rows, gone, rows2, gone2)
  PROVE  AllBacked(rows2, gone2, records)
<1> SUFFICES ASSUME NEW s \in Sessions, records[s] # NoSession
             PROVE  RecordBacked(rows2, gone2, records[s])
  BY DEF AllBacked
<1> QED BY RecordPreserved DEF AllBacked

\* One more session, or one session replaced.
LEMMA AllUpdated ==
  ASSUME NEW rows, NEW gone,
         NEW records \in [Sessions -> SessionRecord \cup {NoSession}],
         AllBacked(rows, gone, records), NEW s \in Sessions, NEW record,
         record # NoSession => RecordBacked(rows, gone, record)
  PROVE  AllBacked(rows, gone, [records EXCEPT ![s] = record])
BY DEF AllBacked

-----------------------------------------------------------------------------
(* AuditInv is preserved, operation by operation.                          *)

\* validate: the answer is backed, be it recorded now or before.
LEMMA ValidatedBacked ==
  ASSUME AuditInv, NEW d \in Definitions, NEW submission \in Submissions,
         NEW verdict \in Verdicts, Validated(d, submission, verdict)
  PROVE  /\ Unique(audit')
         /\ Preserves(audit, aux_dropped, audit', aux_dropped')
         /\ RecordedBacked'
         /\ Backed(audit', aux_dropped', d.round, submission.message, verdict,
                   None)
<1> DEFINE row == [round |-> d.round, message |-> submission.message,
                   origin |-> submission.origin, context |-> d.context,
                   verdict |-> verdict, resolution |-> NoResolution]
           item == [definition |-> d, submission |-> submission,
                    verdict |-> verdict]
<1>1. CASE /\ \E i \in RecordedFor(d.round, submission.message) :
                recorded[i] = item
           /\ UNCHANGED <<audit, recorded, aux_dropped>>
  <2>1. PICK i \in DOMAIN recorded : recorded[i] = item
    BY <1>1 DEF RecordedFor
  <2>2. Backed(audit, aux_dropped, d.round, submission.message, verdict, None)
    BY <2>1 DEF AuditInv, RecordedBacked
  <2> QED BY <1>1, <2>2 DEF AuditInv, RecordedBacked, Preserves
<1>2. CASE /\ CommitAudit(RecordValidation(audit, row))
           /\ recorded' = PushBounded(recorded, item, MaxRecorded)
  <2>1. row \in AuditRow /\ audit \in Seq(AuditRow)
    BY SessionServiceAssumption DEF AuditRow, AuditInv, TypeOK
  <2>2. /\ row.round = d.round /\ row.message = submission.message
        /\ row.verdict = verdict
    OBVIOUS
  <2>3. item.definition = d /\ item.submission = submission /\ item.verdict = verdict
    OBVIOUS
  <2> HIDE DEF row, item
  <2>4. /\ Unique(audit')
        /\ Preserves(audit, aux_dropped, audit', aux_dropped')
        /\ Backed(audit', aux_dropped', d.round, submission.message, verdict,
                  None)
    BY <1>2, <2>1, <2>2, RecordValidationPreserves DEF CommitAudit, AuditInv
  <2>5. \A i \in DOMAIN recorded' :
          \/ recorded'[i] = item
          \/ \E j \in DOMAIN recorded : recorded'[i] = recorded[j]
    <3>1. recorded \in Seq(Recorded) /\ MaxRecorded \in Nat \ {0}
      BY SessionStoreAssumption DEF AuditInv, TypeOK
    <3> QED BY <1>2, <3>1 DEF PushBounded
  <2>6. RecordedBacked'
    <3> SUFFICES ASSUME NEW i \in DOMAIN recorded'
                 PROVE  Backed(audit', aux_dropped', recorded'[i].definition.round,
                               recorded'[i].submission.message,
                               recorded'[i].verdict, None)
      BY DEF RecordedBacked
    <3>1. CASE recorded'[i] = item
      BY <2>3, <2>4, <3>1
    <3>2. ASSUME NEW j \in DOMAIN recorded, recorded'[i] = recorded[j]
          PROVE  Backed(audit', aux_dropped', recorded'[i].definition.round,
                        recorded'[i].submission.message,
                        recorded'[i].verdict, None)
      <4>1. Backed(audit, aux_dropped, recorded[j].definition.round,
                   recorded[j].submission.message, recorded[j].verdict, None)
        BY DEF AuditInv, RecordedBacked
      <4> QED BY <2>4, <3>2, <4>1, SessionServiceAssumption DEF Preserves
    <3> QED BY <2>5, <3>1, <3>2
  <2> QED BY <2>4, <2>6
<1> QED BY <1>1, <1>2 DEF Validated

\* resolve: the resolution is backed.
LEMMA ResolvedBacked ==
  ASSUME AuditInv, NEW round, NEW message, NEW origin, NEW verdict,
         NEW resolution \in Resolutions,
         CommitAudit(RecordResolution(audit, round, message, origin, verdict,
                                      resolution))
  PROVE  /\ Unique(audit')
         /\ Preserves(audit, aux_dropped, audit', aux_dropped')
         /\ Backed(audit', aux_dropped', round, message, None, resolution)
BY RecordResolutionPreserves DEF AuditInv, TypeOK, CommitAudit

LEMMA RecordedPreserved ==
  ASSUME RecordedBacked, UNCHANGED recorded,
         Preserves(audit, aux_dropped, audit', aux_dropped')
  PROVE  RecordedBacked'
BY SessionServiceAssumption DEF RecordedBacked, Preserves

\* What push_session_event and append_event_and_advance leave alone.
LEMMA PushedParts ==
  ASSUME NEW record \in SessionRecord, NEW event
  PROVE  /\ Pushed(record, event).definition = record.definition
         /\ Pushed(record, event).events \subseteq record.events \cup {event}
         /\ Pushed(record, event).deliveries = record.deliveries
BY DEF Pushed, Newest, SessionRecord

LEMMA AppendedParts ==
  ASSUME NEW stored \in SessionRecord, NEW event
  PROVE  /\ Appended(stored, event).definition = stored.definition
         /\ Appended(stored, event).events \subseteq stored.events \cup {event}
         /\ Appended(stored, event).deliveries = stored.deliveries
BY DEF Appended, TrimBySequence, SessionRecord

\* The session submit builds, in memory and in the store.
LEMMA DeliveredParts ==
  ASSUME NEW record \in SessionRecord, NEW event \in Event, NEW delivery
  PROVE  /\ Delivered(record, event, delivery).definition = record.definition
         /\ Delivered(record, event, delivery).events
              \subseteq record.events \cup {event}
         /\ Delivered(record, event, delivery).deliveries
              \subseteq record.deliveries \cup {delivery}
<1> DEFINE pushed == Pushed(record, event)
<1>1. pushed \in SessionRecord
  BY PushedType
<1>2. /\ pushed.definition = record.definition
      /\ pushed.events \subseteq record.events \cup {event}
      /\ pushed.deliveries = record.deliveries
  BY PushedParts
<1>3. Delivered(record, event, delivery)
        = [pushed EXCEPT !.deliveries = Newest(@ \cup {delivery}, MaxRecorded)]
  BY DEF Delivered
<1> HIDE DEF pushed
<1> QED BY <1>1, <1>2, <1>3 DEF SessionRecord, Newest

LEMMA StoredValidationParts ==
  ASSUME NEW stored \in SessionRecord \cup {NoSession}, NEW event \in Event,
         NEW delivery, NEW stored2 \in StoreValidation(stored, event, delivery)
  PROVE  /\ stored # NoSession
         /\ stored2.definition = stored.definition
         /\ stored2.events \subseteq stored.events \cup {event}
         /\ stored2.deliveries \subseteq stored.deliveries \cup {delivery}
<1> DEFINE appended == Appended(stored, event)
<1>1. stored \in SessionRecord /\ stored # NoSession
  BY DEF StoreValidation, ExpectNextActive
<1>2. /\ appended.definition = stored.definition
      /\ appended.events \subseteq stored.events \cup {event}
      /\ appended.deliveries = stored.deliveries
  BY <1>1, AppendedParts
<1>3. appended \in SessionRecord
  BY <1>1, AppendedType
<1>4. stored2 = [appended EXCEPT
                   !.deliveries = TrimBySequence(@ \cup {delivery}, MaxRecorded)]
  BY DEF StoreValidation
<1> HIDE DEF appended
<1> QED BY <1>1, <1>2, <1>3, <1>4 DEF SessionRecord, TrimBySequence

\* The session resolve_session builds: a delivery is at most marked.
LEMMA EmittedParts ==
  ASSUME NEW record \in SessionRecord, NEW event \in Event,
         NEW delivery \in record.deliveries
  PROVE  /\ Emitted(record, event, delivery).definition = record.definition
         /\ Emitted(record, event, delivery).events
              \subseteq record.events \cup {event}
         /\ \A d \in Emitted(record, event, delivery).deliveries :
              \E old \in record.deliveries :
                d.submission = old.submission /\ d.verdict = old.verdict
<1> DEFINE pushed == Pushed(record, event)
           marked == [delivery EXCEPT !.emitted = TRUE]
<1>1. pushed \in SessionRecord
  BY PushedType
<1>2. /\ pushed.definition = record.definition
      /\ pushed.events \subseteq record.events \cup {event}
      /\ pushed.deliveries = record.deliveries
  BY PushedParts
<1>3. delivery \in Delivery
  BY DEF SessionRecord
<1>4. marked.submission = delivery.submission /\ marked.verdict = delivery.verdict
  BY <1>3 DEF Delivery
<1>5. Emitted(record, event, delivery)
        = [pushed EXCEPT !.deliveries = (@ \ {delivery}) \cup {marked}]
  BY DEF Emitted
<1> HIDE DEF pushed, marked
<1> QED BY <1>1, <1>2, <1>4, <1>5 DEF SessionRecord

LEMMA StoredResolutionParts ==
  ASSUME NEW stored \in SessionRecord \cup {NoSession}, NEW event \in Event,
         NEW stored2 \in StoreResolution(stored, event)
  PROVE  /\ stored # NoSession
         /\ stored2.definition = stored.definition
         /\ stored2.events \subseteq stored.events \cup {event}
         /\ \A d \in stored2.deliveries :
              \E old \in stored.deliveries :
                d.submission = old.submission /\ d.verdict = old.verdict
<1> DEFINE appended == Appended(stored, event)
<1>1. stored \in SessionRecord /\ stored # NoSession
  BY DEF StoreResolution, ExpectNextActive
<1>2. /\ appended.definition = stored.definition
      /\ appended.events \subseteq stored.events \cup {event}
      /\ appended.deliveries = stored.deliveries
  BY <1>1, AppendedParts
<1>3. appended \in SessionRecord
  BY <1>1, AppendedType
<1>4. PICK d \in StoredDeliveries(stored, event.message) :
        stored2 = [appended EXCEPT
                     !.deliveries = (@ \ {d}) \cup {[d EXCEPT !.emitted = TRUE]}]
  BY DEF StoreResolution
<1>5. d \in stored.deliveries /\ d \in Delivery
  BY <1>1, <1>4 DEF StoredDeliveries, SessionRecord
<1> DEFINE marked == [d EXCEPT !.emitted = TRUE]
<1>6. marked.submission = d.submission /\ marked.verdict = d.verdict
  BY <1>5 DEF Delivery
<1>7. stored2 = [appended EXCEPT !.deliveries = (@ \ {d}) \cup {marked}]
  BY <1>4
<1> HIDE DEF appended, marked
<1> QED BY <1>1, <1>2, <1>3, <1>5, <1>6, <1>7 DEF SessionRecord

LEMMA StoredEndParts ==
  ASSUME NEW stored \in SessionRecord \cup {NoSession}, NEW event \in Event,
         NEW stored2 \in StoreEnd(stored, event)
  PROVE  /\ stored # NoSession
         /\ stored2.definition = stored.definition
         /\ stored2.events \subseteq stored.events \cup {event}
         /\ stored2.deliveries = stored.deliveries
<1> DEFINE appended == Appended(stored, event)
<1>1. stored \in SessionRecord /\ stored # NoSession
  BY DEF StoreEnd, ExpectNextActive
<1>2. /\ appended.definition = stored.definition
      /\ appended.events \subseteq stored.events \cup {event}
      /\ appended.deliveries = stored.deliveries
  BY <1>1, AppendedParts
<1>3. appended \in SessionRecord
  BY <1>1, AppendedType
<1>4. stored2 = [appended EXCEPT !.state = "ended"]
  BY DEF StoreEnd
<1> HIDE DEF appended
<1> QED BY <1>1, <1>2, <1>3, <1>4 DEF SessionRecord

\* submit, whether the session store commits or fails.
LEMMA SubmitBacked ==
  ASSUME AuditInv, NEW s \in Sessions, NEW submission \in Submissions,
         Submit(s, submission)
  PROVE  AuditInv'
<1>1. TypeOK /\ TypeOK'
  BY SubmitType DEF AuditInv
<1>2. memory[s] \in SessionRecord /\ memory[s].latest < MaxSequence
  BY <1>1 DEF TypeOK, Submit, Active
<1>3. PICK verdict \in Verdicts :
        /\ Validated(memory[s].definition, submission, verdict)
        /\ \/ DeliverValidation(s, submission, verdict)
           \/ UNCHANGED <<memory, disk>>
  BY DEF Submit
<1> DEFINE round == memory[s].definition.round
<1>4. /\ Unique(audit')
      /\ Preserves(audit, aux_dropped, audit', aux_dropped')
      /\ RecordedBacked'
      /\ Backed(audit', aux_dropped', round, submission.message, verdict, None)
  BY <1>2, <1>3, ValidatedBacked DEF SessionRecord
<1>5. /\ AllBacked(audit', aux_dropped', memory)
      /\ AllBacked(audit', aux_dropped', disk)
  BY <1>1, <1>4, AllPreserved DEF AuditInv, JournalBackedByAudit, TypeOK
<1>6. CASE UNCHANGED <<memory, disk>>
  BY <1>1, <1>4, <1>5, <1>6
     DEF AuditInv, JournalBackedByAudit, SameDefinitions
<1>7. CASE DeliverValidation(s, submission, verdict)
  <2> DEFINE event == NewEvent(memory[s], "validation", submission.message,
                               verdict)
             delivery == [sequence |-> event.sequence,
                          submission |-> submission, verdict |-> verdict,
                          emitted |-> FALSE, text |-> NoText]
             kept == [delivery EXCEPT !.text = submission.text]
             record == Delivered(memory[s], event, kept)
  <2>1. event \in Event
    <3>1. submission.message \in Messages
      BY SessionServiceAssumption
    <3> QED BY <1>2, <3>1, NewEventType
  <2>2. /\ event.kind = "validation" /\ event.message = submission.message
        /\ event.verdict = verdict
    BY DEF NewEvent
  <2>3. /\ delivery.submission = submission /\ delivery.verdict = verdict
        /\ kept.submission = submission /\ kept.verdict = verdict
    OBVIOUS
  <2>4. PICK stored \in StoreValidation(disk[s], event, delivery) :
          disk' = [disk EXCEPT ![s] = stored]
    BY <1>7 DEF DeliverValidation
  <2>5. memory' = [memory EXCEPT ![s] = record]
    BY <1>7 DEF DeliverValidation
  <2> HIDE DEF event, delivery, kept
  <2>6. EventBacked(audit', aux_dropped', round, event)
    BY <1>4, <2>2 DEF EventBacked
  <2>7. /\ record.definition = memory[s].definition
        /\ record.events \subseteq memory[s].events \cup {event}
        /\ record.deliveries \subseteq memory[s].deliveries \cup {kept}
    BY <1>2, <2>1, DeliveredParts
  <2>8. /\ disk[s] \in SessionRecord \cup {NoSession} /\ disk[s] # NoSession
        /\ stored.definition = disk[s].definition
        /\ stored.events \subseteq disk[s].events \cup {event}
        /\ stored.deliveries \subseteq disk[s].deliveries \cup {delivery}
    BY <1>1, <2>1, <2>4, StoredValidationParts DEF TypeOK
  <2>9. disk[s].definition.round = round
    BY <2>8 DEF AuditInv, SameDefinitions, Submit, Active
  <2> HIDE DEF record, round
  <2>10. RecordBacked(audit', aux_dropped', record)
    <3>1. RecordBacked(audit', aux_dropped', memory[s])
      BY <1>5 DEF AllBacked, Submit, Active
    <3> QED BY <1>4, <2>3, <2>6, <2>7, <3>1, RecordBuilt DEF round
  <2>11. RecordBacked(audit', aux_dropped', stored)
    <3>1. RecordBacked(audit', aux_dropped', disk[s])
      BY <1>5, <2>8 DEF AllBacked
    <3> QED BY <1>4, <2>3, <2>6, <2>8, <2>9, <3>1, RecordBuilt
  <2>12. JournalBackedByAudit'
    BY <1>1, <1>5, <2>4, <2>5, <2>10, <2>11, AllUpdated
       DEF JournalBackedByAudit, TypeOK
  <2>13. SameDefinitions'
    BY <1>1, <2>4, <2>5, <2>7, <2>8
       DEF AuditInv, SameDefinitions, TypeOK, Submit, Active
  <2> QED BY <1>1, <1>4, <2>12, <2>13 DEF AuditInv
<1> QED BY <1>3, <1>6, <1>7

\* resolve_session, whether the delivery had emitted its resolution or not, and
\* whether the session store commits or fails.
LEMMA ResolveSessionBacked ==
  ASSUME AuditInv, NEW s \in Sessions, NEW message \in Messages,
         NEW resolution \in Resolutions,
         ResolveSession(s, message, resolution)
  PROVE  AuditInv'
<1>1. TypeOK /\ TypeOK'
  BY ResolveSessionType DEF AuditInv
<1>2. memory[s] \in SessionRecord /\ memory[s].latest < MaxSequence
  BY <1>1 DEF TypeOK, ResolveSession, Active
<1> DEFINE round == memory[s].definition.round
<1>3. PICK delivery \in DeliveriesOf(memory[s], message) :
        /\ CommitAudit(RecordResolution(audit, round, message,
                         delivery.submission.origin, delivery.verdict,
                         resolution))
        /\ \/ EmitResolution(s, delivery, resolution)
           \/ UNCHANGED <<memory, disk>>
  BY DEF ResolveSession
<1>4. /\ Unique(audit')
      /\ Preserves(audit, aux_dropped, audit', aux_dropped')
      /\ Backed(audit', aux_dropped', round, message, None, resolution)
  BY <1>3, ResolvedBacked
<1>5. /\ AllBacked(audit', aux_dropped', memory)
      /\ AllBacked(audit', aux_dropped', disk)
  BY <1>1, <1>4, AllPreserved DEF AuditInv, JournalBackedByAudit, TypeOK
<1>6. RecordedBacked'
  BY <1>4, RecordedPreserved DEF AuditInv, ResolveSession
<1>7. CASE UNCHANGED <<memory, disk>>
  BY <1>1, <1>4, <1>5, <1>6, <1>7
     DEF AuditInv, JournalBackedByAudit, SameDefinitions
<1>8. CASE EmitResolution(s, delivery, resolution)
  <2> DEFINE event == NewEvent(memory[s], "resolution",
                               delivery.submission.message, resolution)
             record == Emitted(memory[s], event, delivery)
  <2>1. /\ delivery \in memory[s].deliveries
        /\ delivery.submission.message = message
    BY <1>3 DEF DeliveriesOf
  <2>2. resolution \in Verdicts /\ resolution # None
    BY SessionServiceAssumption DEF Resolutions, Verdicts
  <2>3. event \in Event
    BY <1>2, <2>1, <2>2, NewEventType
  <2>4. /\ event.kind = "resolution" /\ event.message = message
        /\ event.verdict = resolution
    BY <2>1 DEF NewEvent
  <2>5. PICK stored \in StoreResolution(disk[s], event) :
          disk' = [disk EXCEPT ![s] = stored]
    BY <1>8 DEF EmitResolution
  <2>6. memory' = [memory EXCEPT ![s] = record]
    BY <1>8 DEF EmitResolution
  <2> HIDE DEF event
  <2>7. EventBacked(audit', aux_dropped', round, event)
    BY <1>4, <2>2, <2>4 DEF EventBacked
  <2>8. /\ record.definition = memory[s].definition
        /\ record.events \subseteq memory[s].events \cup {event}
        /\ \A d \in record.deliveries :
             \E old \in memory[s].deliveries :
               d.submission = old.submission /\ d.verdict = old.verdict
    BY <1>2, <2>1, <2>3, EmittedParts
  <2>9. /\ disk[s] # NoSession
        /\ stored.definition = disk[s].definition
        /\ stored.events \subseteq disk[s].events \cup {event}
        /\ \A d \in stored.deliveries :
             \E old \in disk[s].deliveries :
               d.submission = old.submission /\ d.verdict = old.verdict
    BY <1>1, <2>3, <2>5, StoredResolutionParts DEF TypeOK
  <2>10. disk[s].definition.round = round
    BY <2>9 DEF AuditInv, SameDefinitions, ResolveSession, Active
  <2> HIDE DEF record, round
  <2>11. RecordBacked(audit', aux_dropped', record)
    <3>1. RecordBacked(audit', aux_dropped', memory[s])
      BY <1>5 DEF AllBacked, ResolveSession, Active
    <3>2. \A d \in record.deliveries :
            Backed(audit', aux_dropped', memory[s].definition.round,
                   d.submission.message, d.verdict, None)
      BY <2>8, <3>1 DEF RecordBacked, DeliveriesBacked
    <3> QED BY <2>7, <2>8, <3>1, <3>2, RecordBuilt DEF round
  <2>12. RecordBacked(audit', aux_dropped', stored)
    <3>1. RecordBacked(audit', aux_dropped', disk[s])
      BY <1>5, <2>9 DEF AllBacked
    <3>2. \A d \in stored.deliveries :
            Backed(audit', aux_dropped', disk[s].definition.round,
                   d.submission.message, d.verdict, None)
      BY <2>9, <3>1 DEF RecordBacked, DeliveriesBacked
    <3> QED BY <2>7, <2>9, <2>10, <3>1, <3>2, RecordBuilt
  <2>13. JournalBackedByAudit'
    BY <1>1, <1>5, <2>5, <2>6, <2>11, <2>12, AllUpdated
       DEF JournalBackedByAudit, TypeOK
  <2>14. SameDefinitions'
    BY <1>1, <2>5, <2>6, <2>8, <2>9
       DEF AuditInv, SameDefinitions, TypeOK, ResolveSession, Active
  <2> QED BY <1>1, <1>4, <1>6, <2>13, <2>14 DEF AuditInv
<1> QED BY <1>3, <1>7, <1>8

\* end_session.
LEMMA EndSessionBacked ==
  ASSUME AuditInv, NEW s \in Sessions, EndSession(s)
  PROVE  AuditInv'
<1> DEFINE event == NewEvent(memory[s], "ended", None, None)
           pushed == Pushed(memory[s], event)
           record == [pushed EXCEPT !.state = "ended"]
<1>1. TypeOK /\ TypeOK'
  BY EndSessionType DEF AuditInv
<1>2. /\ memory[s] \in SessionRecord /\ memory[s].latest < MaxSequence
      /\ memory[s] # NoSession
  BY <1>1 DEF TypeOK, EndSession, Active
<1>3. event \in Event /\ event.kind = "ended"
  BY <1>2, NewEventType DEF NewEvent
<1>4. PICK stored \in StoreEnd(disk[s], event) :
        disk' = [disk EXCEPT ![s] = stored]
  BY DEF EndSession
<1>5. memory' = [memory EXCEPT ![s] = record]
  BY DEF EndSession
<1> HIDE DEF event
<1>6. /\ disk[s] # NoSession
      /\ stored.definition = disk[s].definition
      /\ stored.events \subseteq disk[s].events \cup {event}
      /\ stored.deliveries = disk[s].deliveries
  BY <1>1, <1>3, <1>4, StoredEndParts DEF TypeOK
<1>7. /\ record.definition = memory[s].definition
      /\ record.events \subseteq memory[s].events \cup {event}
      /\ record.deliveries = memory[s].deliveries
  <2>1. pushed \in SessionRecord
    BY <1>2, <1>3, PushedType
  <2>2. /\ pushed.definition = memory[s].definition
        /\ pushed.events \subseteq memory[s].events \cup {event}
        /\ pushed.deliveries = memory[s].deliveries
    BY <1>2, PushedParts
  <2> HIDE DEF pushed
  <2> QED BY <2>1, <2>2 DEF SessionRecord
<1> HIDE DEF record
<1>8. /\ RecordBacked(audit, aux_dropped, record)
      /\ RecordBacked(audit, aux_dropped, stored)
  <2>1. \A round : EventBacked(audit, aux_dropped, round, event)
    BY <1>3 DEF EventBacked
  <2>2. /\ RecordBacked(audit, aux_dropped, memory[s])
        /\ RecordBacked(audit, aux_dropped, disk[s])
    BY <1>2, <1>6 DEF AuditInv, JournalBackedByAudit, AllBacked
  <2> QED BY <1>6, <1>7, <2>1, <2>2, RecordBuilt
<1>9. JournalBackedByAudit'
  <2>1. UNCHANGED <<audit, aux_dropped>>
    BY DEF EndSession
  <2>2. /\ AllBacked(audit, aux_dropped, memory)
        /\ AllBacked(audit, aux_dropped, disk)
    BY DEF AuditInv, JournalBackedByAudit
  <2>3. /\ AllBacked(audit, aux_dropped, memory')
        /\ AllBacked(audit, aux_dropped, disk')
    BY <1>1, <1>4, <1>5, <1>8, <2>2, AllUpdated DEF TypeOK
  <2> QED BY <2>1, <2>3 DEF JournalBackedByAudit
<1>10. SameDefinitions'
  BY <1>1, <1>2, <1>4, <1>5, <1>6, <1>7 DEF AuditInv, SameDefinitions, TypeOK
<1> QED BY <1>1, <1>9, <1>10 DEF AuditInv, RecordedBacked, EndSession

\* start_session: a new session tells nothing about any message.
LEMMA StartedBacked ==
  ASSUME NEW rows, NEW gone, NEW d
  PROVE  RecordBacked(rows, gone, Started(d))
BY DEF RecordBacked, DeliveriesBacked, EventBacked, Started, StartedEvent

\* With or without an eviction before it.
LEMMA AdmitBacked ==
  ASSUME NEW s \in Sessions, NEW d \in Definitions,
         NEW remaining \in [Sessions -> SessionRecord \cup {NoSession}],
         NEW stored \in [Sessions -> SessionRecord \cup {NoSession}],
         NEW queue,
         Admit(s, d, remaining, stored, queue),
         AllBacked(audit, aux_dropped, remaining),
         AllBacked(audit, aux_dropped, stored),
         \A t \in Sessions : remaining[t] # NoSession /\ stored[t] # NoSession
                            => remaining[t].definition = stored[t].definition
  PROVE  /\ AllBacked(audit, aux_dropped, memory')
         /\ AllBacked(audit, aux_dropped, disk')
         /\ SameDefinitions'
<1>1. /\ disk' = [stored EXCEPT ![s] = Started(d)]
      /\ memory' = [remaining EXCEPT ![s] = Started(d)]
  BY DEF Admit, StoreCreate
<1>2. /\ AllBacked(audit, aux_dropped, memory')
      /\ AllBacked(audit, aux_dropped, disk')
  BY <1>1, StartedBacked, AllUpdated
<1>3. SameDefinitions'
  BY <1>1 DEF SameDefinitions
<1> QED BY <1>2, <1>3

LEMMA StartSessionBacked ==
  ASSUME AuditInv, NEW s \in Sessions, NEW d \in Definitions,
         StartSession(s, d)
  PROVE  AuditInv'
<1>1. TypeOK'
  BY AdmitType DEF AuditInv, TypeOK, StartSession
<1>2. /\ AllBacked(audit, aux_dropped, memory')
      /\ AllBacked(audit, aux_dropped, disk')
      /\ SameDefinitions'
  BY AdmitBacked
     DEF AuditInv, TypeOK, JournalBackedByAudit, SameDefinitions, StartSession
<1>3. UNCHANGED <<audit, recorded, aux_dropped>>
  BY DEF StartSession
<1> QED BY <1>1, <1>2, <1>3
           DEF AuditInv, JournalBackedByAudit, RecordedBacked

LEMMA StartSessionEvictingBacked ==
  ASSUME AuditInv, NEW s \in Sessions, NEW d \in Definitions,
         NEW i \in DOMAIN order, StartSessionEvicting(s, d, i)
  PROVE  AuditInv'
<1>1. TypeOK /\ TypeOK'
  BY StartSessionEvictingType DEF AuditInv
<1> DEFINE remaining == [memory EXCEPT ![order[i]] = NoSession]
           stored == [disk EXCEPT ![order[i]] = NoSession]
<1>2. \/ Admit(s, d, remaining, stored, Without(i))
      \/ memory' = remaining /\ disk' = stored
  BY DEF StartSessionEvicting, StoreDeleteEnded
<1>3. /\ remaining \in [Sessions -> SessionRecord \cup {NoSession}]
      /\ stored \in [Sessions -> SessionRecord \cup {NoSession}]
      /\ order[i] \in Sessions
  BY <1>1 DEF TypeOK
<1>4. /\ AllBacked(audit, aux_dropped, remaining)
      /\ AllBacked(audit, aux_dropped, stored)
  BY <1>1, <1>3 DEF AuditInv, TypeOK, JournalBackedByAudit, AllBacked
<1>5. \A t \in Sessions : remaining[t] # NoSession /\ stored[t] # NoSession
                         => remaining[t].definition = stored[t].definition
  BY <1>1, <1>3 DEF AuditInv, TypeOK, SameDefinitions
<1>6. UNCHANGED <<audit, recorded, aux_dropped>>
  BY DEF StartSessionEvicting
<1> HIDE DEF remaining, stored
<1>7. /\ AllBacked(audit, aux_dropped, memory')
      /\ AllBacked(audit, aux_dropped, disk')
      /\ SameDefinitions'
  <2>1. CASE Admit(s, d, remaining, stored, Without(i))
    BY <1>3, <1>4, <1>5, <2>1, AdmitBacked
  <2>2. CASE memory' = remaining /\ disk' = stored
    BY <1>4, <1>5, <2>2 DEF SameDefinitions
  <2> QED BY <1>2, <2>1, <2>2
<1> QED BY <1>1, <1>6, <1>7 DEF AuditInv, JournalBackedByAudit, RecordedBacked

\* A restart: what is loaded is part of what was stored.
LEMMA RestartBacked ==
  ASSUME AuditInv, Restart
  PROVE  AuditInv'
<1>1. TypeOK /\ TypeOK'
  BY RestartType DEF AuditInv
<1>2. ASSUME NEW s \in Sessions, memory'[s] # NoSession
      PROVE  /\ RecordBacked(audit, aux_dropped, memory'[s])
             /\ memory'[s].definition = disk[s].definition
  <2>1. disk[s] \in SessionRecord /\ disk[s] # NoSession
    BY <1>1, <1>2 DEF TypeOK, Restart, Restored
  <2>2. memory'[s] = [disk[s] EXCEPT !.events = Newest(@, MaxEvents),
                                     !.deliveries = Newest(@, MaxRecorded)]
    BY <2>1 DEF Restart, Restored
  <2>3. /\ memory'[s].definition = disk[s].definition
        /\ memory'[s].events \subseteq disk[s].events
        /\ memory'[s].deliveries \subseteq disk[s].deliveries
    BY <2>1, <2>2 DEF SessionRecord, Newest
  <2>4. RecordBacked(audit, aux_dropped, disk[s])
    BY <2>1 DEF AuditInv, JournalBackedByAudit, AllBacked
  <2> QED BY <2>3, <2>4 DEF RecordBacked, DeliveriesBacked
<1>3. UNCHANGED <<disk, audit, aux_dropped>> /\ recorded' = << >>
  BY DEF Restart
<1>4. JournalBackedByAudit'
  BY <1>2, <1>3 DEF AuditInv, JournalBackedByAudit, AllBacked
<1>5. SameDefinitions'
  BY <1>2, <1>3 DEF SameDefinitions
<1>6. RecordedBacked'
  BY <1>3 DEF RecordedBacked
<1> QED BY <1>1, <1>3, <1>4, <1>5, <1>6 DEF AuditInv

-----------------------------------------------------------------------------
(* Theorems.                                                               *)

LEMMA AuditInit == Init => AuditInv
<1> SUFFICES ASSUME Init PROVE AuditInv
  OBVIOUS
<1>1. TypeOK
  BY DEF Init, TypeOK
<1> QED BY <1>1 DEF Init, AuditInv, Unique, SameDefinitions, RecordedBacked,
                    JournalBackedByAudit, AllBacked

\* Steps that only change the memory of the recogniser or the last answer.
LEMMA AuditUntouched ==
  ASSUME AuditInv, TypeOK',
         UNCHANGED <<memory, disk, audit, recorded, aux_dropped>>
  PROVE  AuditInv'
BY DEF AuditInv, SameDefinitions, RecordedBacked, JournalBackedByAudit

LEMMA AuditStep == AuditInv /\ [Next]_vars => AuditInv'
<1> SUFFICES ASSUME AuditInv, [Next]_vars
             PROVE  AuditInv'
  OBVIOUS
<1>0. TypeOK /\ TypeOK'
  BY TypeStep DEF AuditInv
<1>1. ASSUME NEW d \in Definitions, NEW submission \in Submissions,
             Validate(d, submission)
      PROVE  AuditInv'
  <2>1. UNCHANGED <<memory, disk>>
    BY <1>1 DEF Validate
  <2>2. PICK verdict \in Verdicts : Validated(d, submission, verdict)
    BY <1>1 DEF Validate
  <2>3. /\ Unique(audit')
        /\ Preserves(audit, aux_dropped, audit', aux_dropped')
        /\ RecordedBacked'
    BY <2>2, ValidatedBacked
  <2>4. /\ AllBacked(audit', aux_dropped', memory)
        /\ AllBacked(audit', aux_dropped', disk)
    BY <1>0, <2>3, AllPreserved DEF AuditInv, JournalBackedByAudit, TypeOK
  <2> QED BY <1>0, <2>1, <2>3, <2>4
             DEF AuditInv, JournalBackedByAudit, SameDefinitions
<1>2. ASSUME NEW i \in DOMAIN recorded, NEW resolution \in Resolutions,
             Resolve(i, resolution)
      PROVE  AuditInv'
  <2>1. UNCHANGED <<memory, disk, recorded>>
    BY <1>2 DEF Resolve
  <2>2. /\ Unique(audit')
        /\ Preserves(audit, aux_dropped, audit', aux_dropped')
    BY <1>2, ResolvedBacked DEF Resolve
  <2>3. /\ AllBacked(audit', aux_dropped', memory)
        /\ AllBacked(audit', aux_dropped', disk)
    BY <1>0, <2>2, AllPreserved DEF AuditInv, JournalBackedByAudit, TypeOK
  <2>4. RecordedBacked'
    BY <2>1, <2>2, RecordedPreserved DEF AuditInv
  <2> QED BY <1>0, <2>1, <2>2, <2>3, <2>4
             DEF AuditInv, JournalBackedByAudit, SameDefinitions
<1>3. ASSUME NEW s \in Sessions, NEW d \in Definitions, StartSession(s, d)
      PROVE  AuditInv'
  BY <1>3, StartSessionBacked
<1>4. ASSUME NEW s \in Sessions, NEW d \in Definitions,
             NEW i \in DOMAIN order, StartSessionEvicting(s, d, i)
      PROVE  AuditInv'
  BY <1>4, StartSessionEvictingBacked
<1>5. ASSUME NEW s \in Sessions, NEW submission \in Submissions,
             Replay(s, submission)
      PROVE  AuditInv'
  BY <1>0, <1>5, AuditUntouched DEF Replay
<1>6. ASSUME NEW s \in Sessions, NEW submission \in Submissions,
             Submit(s, submission)
      PROVE  AuditInv'
  BY <1>6, SubmitBacked
<1>7. ASSUME NEW s \in Sessions, NEW message \in Messages,
             NEW resolution \in Resolutions,
             ResolveSession(s, message, resolution)
      PROVE  AuditInv'
  BY <1>7, ResolveSessionBacked
<1>8. ASSUME NEW s \in Sessions, EndSession(s)
      PROVE  AuditInv'
  BY <1>8, EndSessionBacked
<1>9. ASSUME NEW s \in Sessions, NEW message \in Messages,
             Remember(s, message)
      PROVE  AuditInv'
  BY <1>0, <1>9, AuditUntouched DEF Remember
<1>10. ASSUME NEW entry \in learned, Forget(entry)
       PROVE  AuditInv'
  BY <1>0, <1>10, AuditUntouched DEF Forget
<1>11. ASSUME Purge
       PROVE  AuditInv'
  BY <1>0, <1>11 DEF Purge, AuditInv, Unique, SameDefinitions, RecordedBacked,
                     JournalBackedByAudit, AllBacked
<1>12. ASSUME Restart
       PROVE  AuditInv'
  BY <1>12, RestartBacked
<1>13. CASE UNCHANGED vars
  BY <1>0, <1>13, AuditUntouched DEF vars
<1> QED
  BY <1>1, <1>2, <1>3, <1>4, <1>5, <1>6, <1>7, <1>8, <1>9, <1>10, <1>11,
     <1>12, <1>13 DEF Next

\* AuditInv holds in every reachable state.
THEOREM AuditInvariant == Spec => []AuditInv
BY AuditInit, AuditStep, PTL DEF Spec

\* What the sessions tell agrees with the audit, whichever commits of submit and
\* resolve_session failed and however often the process restarted.
THEOREM SessionsAgreeWithAudit == Spec => []JournalBackedByAudit
<1>1. AuditInv => JournalBackedByAudit
  BY DEF AuditInv
<1> QED BY <1>1, AuditInvariant, PTL

\* The first resolution of a message is final, across sessions and restarts, as
\* long as retention keeps its row: of the identities in aux_dropped, whose row
\* it has deleted, the theorem says nothing.
THEOREM ResolutionsAreFinal == Spec => []NoContradictoryResolutions
<1>1. AuditInv => NoContradictoryResolutions
  <2> SUFFICES ASSUME AuditInv, NEW s \in Sessions, NEW t \in Sessions,
                      disk[s] # NoSession, disk[t] # NoSession,
                      disk[s].definition.round = disk[t].definition.round,
                      NEW e \in disk[s].events, NEW f \in disk[t].events,
                      e.kind = "resolution", f.kind = "resolution",
                      e.message = f.message,
                      <<disk[s].definition.round, e.message>> \notin aux_dropped
               PROVE  e.verdict = f.verdict
    BY DEF NoContradictoryResolutions
  <2> DEFINE round == disk[s].definition.round
  <2>1. /\ EventBacked(audit, aux_dropped, round, e)
        /\ EventBacked(audit, aux_dropped, round, f)
    BY DEF AuditInv, JournalBackedByAudit, AllBacked, RecordBacked
  <2> HIDE DEF round
  <2>2. PICK i \in RowsOf(audit, round, e.message) :
          audit[i].resolution = e.verdict
    BY <2>1 DEF EventBacked, Backed, round
  <2>3. PICK j \in RowsOf(audit, round, e.message) :
          audit[j].resolution = f.verdict
    BY <2>1 DEF EventBacked, Backed, round
  <2>4. i = j
    BY <2>2, <2>3 DEF RowsOf, AuditInv, Unique
  <2> QED BY <2>2, <2>3, <2>4
<1> QED BY <1>1, AuditInvariant, PTL

=============================================================================
