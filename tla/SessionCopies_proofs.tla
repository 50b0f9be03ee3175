------------------------ MODULE SessionCopies_proofs ------------------------
(***************************************************************************)
(* Proofs about the two copies of a session, in memory and in the store:   *)
(* each is a contiguous journal, they agree, every stored delivery has one *)
(* resolution at most, and a restart can always load the store.            *)
(*                                                                         *)
(* Memory trims a deque by its length and the store deletes rows by their  *)
(* sequence; what makes the copies agree is that sequences have no hole.   *)
(***************************************************************************)
EXTENDS SessionService_proofs, FiniteSetTheorems

\* The oldest event of a journal whose last sequence is n.
Oldest(n) == IF n > MaxEvents THEN n - MaxEvents + 1 ELSE 1

\* Rows of which no two have the same sequence.
Distinct(rows) == \A r, other \in rows : r.sequence = other.sequence => r = other

Contiguous(record) ==
  /\ Distinct(record.events)
  /\ \A e \in record.events : e.sequence \in Oldest(record.latest) .. record.latest
  /\ \A k \in Oldest(record.latest) .. record.latest :
       \E e \in record.events : e.sequence = k

\* The stored deliveries are within one window of sequences, and hold no text.
Windowed(stored) ==
  /\ Distinct(stored.deliveries)
  /\ \A d, newest \in stored.deliveries :
       d.sequence > newest.sequence - MaxRecorded
  /\ \A d \in stored.deliveries : d.text = NoText

\* The deliveries in memory are told apart by message and by sequence.
Told(record) ==
  /\ Distinct(record.deliveries)
  /\ \A d \in record.deliveries : d.sequence <= record.latest
  /\ \A d, other \in record.deliveries :
       d.submission.message = other.submission.message => d = other

Mirrored(record, stored) ==
  /\ record.definition = stored.definition
  /\ record.state = stored.state
  /\ record.latest = stored.latest
  /\ record.events = stored.events
  /\ \A x \in stored.deliveries :
       \E d \in record.deliveries : [d EXCEPT !.text = NoText] = x

\* The resolutions of a stored delivery in the journal.
LaterOf(stored, d) ==
  {e \in ResolutionsOf(stored, d.submission.message) : e.sequence > d.sequence}

OnceFor(stored, d) ==
  /\ \A e, f \in LaterOf(stored, d) : e = f
  /\ LaterOf(stored, d) # {} => d.emitted
  /\ d.emitted /\ (\E e \in stored.events : e.sequence = d.sequence)
       => LaterOf(stored, d) # {}

ResolvedOnce(stored) == \A d \in stored.deliveries : OnceFor(stored, d)

\* One session in memory is a copy of the stored one.
CopyOf(record, stored) ==
  IF stored = NoSession THEN record = NoSession
  ELSE /\ record # NoSession
       /\ WellNumbered(stored)
       /\ Contiguous(stored)
       /\ Windowed(stored)
       /\ ResolvedOnce(stored)
       /\ Told(record)
       /\ Mirrored(record, stored)

\* The stored sessions are in the queue that is bounded by max_sessions.
Listed ==
  /\ Len(order) <= MaxSessions
  /\ \A s \in Sessions :
       disk[s] # NoSession => \E i \in DOMAIN order : order[i] = s

Copied == \A s \in Sessions : CopyOf(memory[s], disk[s])

CopyInv == TypeOK /\ Copied /\ Listed

-----------------------------------------------------------------------------
(* Trimming by length and trimming by sequence.                            *)

\* Rows with sequences in an interval are at most as many as the interval is
\* long, and as many when they fill it.
LEMMA CountedRows ==
  ASSUME NEW rows, NEW a \in Int, NEW b \in Int, a <= b + 1, Distinct(rows),
         \A r \in rows : r.sequence \in a .. b
  PROVE  /\ IsFiniteSet(rows)
         /\ Cardinality(rows) \in Nat
         /\ Cardinality(rows) <= b - a + 1
         /\ (\A k \in a .. b : \E r \in rows : r.sequence = k)
              => Cardinality(rows) = b - a + 1
<1> DEFINE f == [r \in rows |-> r.sequence]
<1>1. f \in Injection(rows, a .. b)
  BY DEF Injection, IsInjective, Distinct
<1>2. IsFiniteSet(a .. b) /\ Cardinality(a .. b) = b - a + 1
  <2>1. /\ IsFiniteSet(a .. b)
        /\ Cardinality(a .. b) = IF a > b THEN 0 ELSE b - a + 1
    BY FS_Interval
  <2> QED BY <2>1
<1>3. /\ IsFiniteSet(rows)
      /\ Cardinality(rows) <= Cardinality(a .. b)
      /\ Cardinality(rows) = Cardinality(a .. b)
           <=> f \in Surjection(rows, a .. b)
  BY <1>1, <1>2, FS_Injection
<1>4. (\A k \in a .. b : \E r \in rows : r.sequence = k)
        => f \in Surjection(rows, a .. b)
  BY <1>1 DEF Surjection, Injection
<1>5. Cardinality(rows) \in Nat
  BY <1>3, FS_CardinalityType
<1> QED BY <1>2, <1>3, <1>4, <1>5

\* Rows within one window of sequences are all kept by a deque of its length.
LEMMA KeptByLength ==
  ASSUME NEW rows, NEW cap \in Nat \ {0}, Distinct(rows),
         \A r \in rows : r.sequence \in Nat, NEW d \in rows,
         \A r \in rows : d.sequence > r.sequence - cap
  PROVE  d \in Newest(rows, cap)
<1> DEFINE newer == {r \in rows : r.sequence > d.sequence}
<1>1. PICK n \in Nat : n = d.sequence
  OBVIOUS
<1>2. \A r \in newer : r.sequence \in n + 1 .. n + cap - 1
  BY <1>1
<1>3. Distinct(newer)
  BY DEF Distinct
<1>4. n + 1 <= (n + cap - 1) + 1
  OBVIOUS
<1>5. Cardinality(newer) \in Nat /\ Cardinality(newer) <= cap - 1
  <2> HIDE DEF newer
  <2>1. /\ Cardinality(newer) \in Nat
        /\ Cardinality(newer) <= (n + cap - 1) - (n + 1) + 1
    BY <1>2, <1>3, <1>4, CountedRows
  <2> QED BY <2>1
<1>6. Cardinality(newer) < cap
  BY <1>5
<1> QED BY <1>6 DEF Newest

\* Rows without a hole: the length of the deque and the sequence trim alike.
LEMMA SameTrim ==
  ASSUME NEW rows, NEW cap \in Nat \ {0}, NEW lo \in Nat, NEW n \in Nat,
         lo <= n, Distinct(rows), \A r \in rows : r.sequence \in lo .. n,
         \A k \in lo .. n : \E r \in rows : r.sequence = k
  PROVE  /\ Newest(rows, cap) = {r \in rows : r.sequence > n - cap}
         /\ TrimBySequence(rows, cap) = {r \in rows : r.sequence > n - cap}
<1>1. TrimBySequence(rows, cap) = {r \in rows : r.sequence > n - cap}
  <2>1. \E r \in rows : r.sequence = n
    OBVIOUS
  <2>2. ASSUME NEW d \in rows
        PROVE  (\A r \in rows : d.sequence > r.sequence - cap)
                 <=> d.sequence > n - cap
    BY <2>1
  <2> QED BY <2>2 DEF TrimBySequence
<1>2. ASSUME NEW d \in rows
      PROVE  Cardinality({r \in rows : r.sequence > d.sequence}) < cap
               <=> d.sequence > n - cap
  <2> DEFINE newer == {r \in rows : r.sequence > d.sequence}
  <2>1. PICK k \in lo .. n : k = d.sequence
    OBVIOUS
  <2>2. \A r \in newer : r.sequence \in k + 1 .. n
    BY <2>1
  <2>3. \A j \in k + 1 .. n : \E r \in newer : r.sequence = j
    <3> TAKE j \in k + 1 .. n
    <3>1. j \in lo .. n
      OBVIOUS
    <3>2. PICK r \in rows : r.sequence = j
      BY <3>1
    <3>3. r.sequence > d.sequence
      BY <2>1, <3>2
    <3> QED BY <3>2, <3>3
  <2>4. Distinct(newer)
    BY DEF Distinct
  <2>5. k + 1 <= n + 1
    OBVIOUS
  <2>6. Cardinality(newer) = n - (k + 1) + 1
    <3> HIDE DEF newer
    <3> QED BY <2>2, <2>3, <2>4, <2>5, CountedRows
  <2> HIDE DEF newer
  <2>7. Cardinality(newer) < cap <=> d.sequence > n - cap
    BY <2>1, <2>6
  <2> QED BY <2>7 DEF newer
<1>3. Newest(rows, cap) = {r \in rows : r.sequence > n - cap}
  BY <1>2 DEF Newest
<1> QED BY <1>1, <1>3

\* The events of a session after an append: memory and store keep the same, and
\* these are contiguous again.
LEMMA AppendedEvents ==
  ASSUME NEW stored \in SessionRecord, Contiguous(stored), NEW event \in Event,
         event.sequence = stored.latest + 1
  PROVE  /\ Newest(stored.events \cup {event}, MaxEvents)
              = Appended(stored, event).events
         /\ Contiguous(Appended(stored, event))
         /\ event \in Appended(stored, event).events
         /\ Appended(stored, event).events
              = {e \in stored.events \cup {event} :
                   e.sequence >= Oldest(stored.latest + 1)}
<1> DEFINE rows == stored.events \cup {event}
           appended == Appended(stored, event)
<1>1. PICK n \in Nat : n = stored.latest + 1
  BY SessionServiceAssumption DEF SessionRecord
<1>2. /\ MaxEvents \in Nat \ {0} /\ n - 1 = stored.latest /\ n >= 2
      /\ event.sequence = n
  BY <1>1, SessionServiceAssumption, SessionStoreAssumption DEF SessionRecord
<1>3. PICK lo \in Nat : lo = Oldest(n - 1)
  <2>1. Oldest(n - 1) \in Nat
    BY <1>2 DEF Oldest
  <2> QED BY <2>1
<1>4. /\ lo <= n - 1 /\ lo >= 1
      /\ lo <= Oldest(n)
      /\ Oldest(n) \in Nat /\ Oldest(n) <= n
      /\ \A k \in lo .. n : k > n - MaxEvents <=> k >= Oldest(n)
  <2>1. PICK cap \in Nat \ {0} : cap = MaxEvents
    BY <1>2
  <2>2. /\ Oldest(n) = IF n > cap THEN n - cap + 1 ELSE 1
        /\ lo = IF n - 1 > cap THEN n - 1 - cap + 1 ELSE 1
    BY <1>3, <2>1 DEF Oldest
  <2>3. lo <= n - 1 /\ lo >= 1 /\ Oldest(n) \in Nat /\ Oldest(n) <= n
    BY <1>2, <2>2
  <2>4. lo <= Oldest(n)
    BY <1>2, <2>2
  <2>5. \A k \in lo .. n : k > n - cap <=> k >= Oldest(n)
    BY <1>2, <2>2, <2>3
  <2> QED BY <2>1, <2>3, <2>4, <2>5
<1>5. /\ Distinct(stored.events)
      /\ \A e \in stored.events : e.sequence \in lo .. n - 1
      /\ \A k \in lo .. n - 1 : \E e \in stored.events : e.sequence = k
  BY <1>2, <1>3 DEF Contiguous
<1>6. \A r \in rows : r.sequence \in lo .. n
  BY <1>2, <1>4, <1>5
<1>7. Distinct(rows)
  BY <1>2, <1>5 DEF Distinct
<1>8. \A k \in lo .. n : \E r \in rows : r.sequence = k
  <2> TAKE k \in lo .. n
  <2>1. CASE k = n
    BY <1>2, <2>1
  <2>2. CASE k # n
    <3>1. k \in lo .. n - 1
      BY <2>2
    <3> QED BY <1>5, <3>1
  <2> QED BY <2>1, <2>2
<1> HIDE DEF rows
<1>9. /\ Newest(rows, MaxEvents) = {r \in rows : r.sequence > n - MaxEvents}
      /\ TrimBySequence(rows, MaxEvents)
           = {r \in rows : r.sequence > n - MaxEvents}
  <2>1. lo <= n
    BY <1>4
  <2> QED BY <1>2, <1>6, <1>7, <1>8, <2>1, SameTrim
<1>10. {r \in rows : r.sequence > n - MaxEvents}
         = {r \in rows : r.sequence >= Oldest(n)}
  BY <1>4, <1>6
<1>11. appended.events = TrimBySequence(rows, MaxEvents) /\ appended.latest = n
  BY <1>2 DEF Appended, SessionRecord, rows
<1> HIDE DEF appended
<1>12. appended.events = {r \in rows : r.sequence >= Oldest(n)}
  BY <1>9, <1>10, <1>11
<1>13. Contiguous(appended)
  <2>1. Distinct(appended.events)
    BY <1>7, <1>12 DEF Distinct
  <2>2. \A e \in appended.events : e.sequence \in Oldest(n) .. n
    BY <1>4, <1>6, <1>12
  <2>3. \A k \in Oldest(n) .. n : \E e \in appended.events : e.sequence = k
    <3> TAKE k \in Oldest(n) .. n
    <3>1. k \in lo .. n /\ k >= Oldest(n)
      BY <1>4
    <3> QED BY <1>8, <1>12, <3>1
  <2> QED BY <1>11, <2>1, <2>2, <2>3 DEF Contiguous
<1>14. event \in appended.events
  BY <1>2, <1>4, <1>12 DEF rows
<1>15. Newest(rows, MaxEvents) = appended.events
  BY <1>9, <1>11
<1> QED BY <1>1, <1>12, <1>13, <1>14, <1>15 DEF rows, appended

-----------------------------------------------------------------------------
(* The writes of a session, in the store and in memory.                    *)

\* What both copies agree on besides their deliveries.
SameJournal(record, stored) ==
  /\ record.definition = stored.definition
  /\ record.state = stored.state
  /\ record.latest = stored.latest
  /\ record.events = stored.events

LEMMA PushedSame ==
  ASSUME NEW record \in SessionRecord, NEW stored \in SessionRecord,
         Contiguous(stored), Mirrored(record, stored), NEW event \in Event,
         event.sequence = stored.latest + 1
  PROVE  /\ SameJournal(Pushed(record, event), Appended(stored, event))
         /\ Pushed(record, event).deliveries = record.deliveries
<1>1. Newest(record.events \cup {event}, MaxEvents)
        = Appended(stored, event).events
  BY AppendedEvents DEF Mirrored
<1>2. /\ Pushed(record, event).definition = record.definition
      /\ Pushed(record, event).state = record.state
      /\ Pushed(record, event).latest = event.sequence
      /\ Pushed(record, event).events
           = Newest(record.events \cup {event}, MaxEvents)
      /\ Pushed(record, event).deliveries = record.deliveries
  BY DEF Pushed, SessionRecord
<1>3. /\ Appended(stored, event).definition = stored.definition
      /\ Appended(stored, event).state = stored.state
      /\ Appended(stored, event).latest = event.sequence
  BY DEF Appended, SessionRecord
<1> QED BY <1>1, <1>2, <1>3 DEF SameJournal, Mirrored

\* An event that is no resolution of a delivery leaves it resolved as it was, or
\* unreachable.
LEMMA OnceKept ==
  ASSUME NEW stored \in SessionRecord, Contiguous(stored), NEW event \in Event,
         event.sequence = stored.latest + 1, NEW stored2,
         stored2.events = Appended(stored, event).events,
         NEW d \in Delivery, d.sequence <= stored.latest, OnceFor(stored, d),
         event.kind # "resolution" \/ event.message # d.submission.message
  PROVE  OnceFor(stored2, d)
<1>1. PICK n \in Nat : n = stored.latest + 1
  BY SessionServiceAssumption DEF SessionRecord
<1>2. PICK lo \in Nat : lo = Oldest(n)
  <2>1. Oldest(n) \in Nat
    BY <1>1, SessionStoreAssumption DEF Oldest
  <2> QED BY <2>1
<1>3. stored2.events = {e \in stored.events \cup {event} : e.sequence >= lo}
  <2>1. Appended(stored, event).events
          = {e \in stored.events \cup {event} :
               e.sequence >= Oldest(stored.latest + 1)}
    BY AppendedEvents
  <2>2. lo = Oldest(stored.latest + 1)
    BY <1>1, <1>2
  <2> QED BY <2>1, <2>2
<1>4. /\ \A e \in stored.events : e.sequence \in Nat
      /\ d.sequence \in Nat /\ d.sequence < n /\ event.sequence = n
  BY <1>1, SessionServiceAssumption DEF SessionRecord, Event, Delivery
<1>5. LaterOf(stored2, d) \subseteq LaterOf(stored, d)
  BY <1>3 DEF LaterOf, ResolutionsOf
<1>6. ASSUME \E e \in stored2.events : e.sequence = d.sequence
      PROVE  /\ \E e \in stored.events : e.sequence = d.sequence
             /\ LaterOf(stored, d) \subseteq LaterOf(stored2, d)
  <2>1. \E e \in stored.events : e.sequence = d.sequence /\ e.sequence >= lo
    BY <1>3, <1>4, <1>6
  <2>2. \A e \in stored.events : e.sequence > d.sequence => e.sequence >= lo
    BY <1>4, <2>1
  <2>3. LaterOf(stored, d) \subseteq LaterOf(stored2, d)
    BY <1>3, <2>2 DEF LaterOf, ResolutionsOf
  <2> QED BY <2>1, <2>3
<1> QED BY <1>5, <1>6 DEF OnceFor

\* The first resolution of a delivery.
LEMMA OnceResolved ==
  ASSUME NEW stored \in SessionRecord, Contiguous(stored), NEW event \in Event,
         event.sequence = stored.latest + 1, NEW stored2,
         stored2.events = Appended(stored, event).events,
         NEW d \in Delivery, d.sequence <= stored.latest, OnceFor(stored, d),
         ~ d.emitted, event.kind = "resolution",
         event.message = d.submission.message
  PROVE  OnceFor(stored2, [d EXCEPT !.emitted = TRUE])
<1> DEFINE marked == [d EXCEPT !.emitted = TRUE]
<1>1. /\ marked.emitted /\ marked.submission = d.submission
      /\ marked.sequence = d.sequence
  BY DEF Delivery
<1>2. LaterOf(stored, d) = {}
  BY DEF OnceFor
<1>3. /\ event \in stored2.events
      /\ stored2.events \subseteq stored.events \cup {event}
  BY AppendedEvents
<1>4. event.sequence > d.sequence
  BY SessionServiceAssumption DEF SessionRecord, Delivery
<1> HIDE DEF marked
<1>5. LaterOf(stored2, marked) = {event}
  BY <1>1, <1>2, <1>3, <1>4 DEF LaterOf, ResolutionsOf
<1>6. OnceFor(stored2, marked)
  BY <1>1, <1>5 DEF OnceFor
<1> QED BY <1>6 DEF marked

\* submit: the copy in memory keeps the text, the stored one does not.
LEMMA ValidationCopied ==
  ASSUME NEW record \in SessionRecord, NEW stored \in SessionRecord,
         CopyOf(record, stored), NEW event \in Event,
         event.kind = "validation", NEW delivery \in Delivery,
         delivery.sequence = event.sequence, ~ delivery.emitted,
         delivery.text = NoText, NEW text \in Texts,
         DeliveriesOf(record, delivery.submission.message) = {},
         NEW stored2 \in StoreValidation(stored, event, delivery)
  PROVE  CopyOf(Delivered(record, event, [delivery EXCEPT !.text = text]),
                stored2)
<1> DEFINE mine == [delivery EXCEPT !.text = text]
           pushed == Pushed(record, event)
           appended == Appended(stored, event)
           rows == record.deliveries \cup {mine}
           delivered == Delivered(record, event, mine)
<1>1. /\ WellNumbered(stored) /\ Contiguous(stored) /\ Windowed(stored)
      /\ ResolvedOnce(stored) /\ Told(record) /\ Mirrored(record, stored)
  BY NoSessionAssumption DEF CopyOf
<1>2. /\ event.sequence = stored.latest + 1
      /\ stored2 \in SessionRecord /\ WellNumbered(stored2)
      /\ \A d \in stored.deliveries :
           d.submission.message # delivery.submission.message
      /\ stored2.deliveries \subseteq stored.deliveries \cup {delivery}
      /\ stored2 = [appended EXCEPT !.deliveries = stored2.deliveries]
  BY <1>1, ValidationStored
<1>3. /\ SameJournal(pushed, appended)
      /\ pushed.deliveries = record.deliveries
      /\ Contiguous(appended) /\ appended.deliveries = stored.deliveries
      /\ appended \in SessionRecord /\ pushed \in SessionRecord
  <2>1. SameJournal(pushed, appended) /\ pushed.deliveries = record.deliveries
    BY <1>1, <1>2, PushedSame
  <2>2. Contiguous(appended)
    BY <1>1, <1>2, AppendedEvents
  <2>3. appended.deliveries = stored.deliveries
    BY <1>1, <1>2, AppendedNumbered
  <2>4. appended \in SessionRecord /\ pushed \in SessionRecord
    BY AppendedType, PushedType
  <2> QED BY <2>1, <2>2, <2>3, <2>4
<1>4. stored2.deliveries
        = TrimBySequence(stored.deliveries \cup {delivery}, MaxRecorded)
  BY <1>3 DEF StoreValidation, SessionRecord
<1>5. /\ mine.sequence = delivery.sequence
      /\ mine.submission = delivery.submission
      /\ [mine EXCEPT !.text = NoText] = delivery
  BY DEF Delivery
<1> HIDE DEF pushed, appended, mine
<1>6. SameJournal(stored2, appended)
  BY <1>2, <1>3 DEF SessionRecord, SameJournal
<1>7. /\ SameJournal(delivered, pushed)
      /\ delivered.deliveries = Newest(rows, MaxRecorded)
  BY <1>3 DEF Delivered, SessionRecord, SameJournal, pushed
<1> HIDE DEF delivered
<1>8. PICK n \in Nat \ {0} : n = event.sequence
  BY SessionServiceAssumption DEF Event
<1>9. MaxRecorded \in Nat \ {0} /\ stored.latest = n - 1
  BY <1>2, <1>8, SessionStoreAssumption, SessionServiceAssumption
     DEF SessionRecord
<1>10. /\ \A d \in stored.deliveries : d.sequence \in Nat /\ d.sequence < n
       /\ \A d \in record.deliveries : d.sequence \in Nat /\ d.sequence < n
       /\ mine.sequence = n
  <2>1. \A d \in stored.deliveries : d \in Delivery /\ d.sequence <= n - 1
    BY <1>1, <1>9 DEF WellNumbered, SessionRecord
  <2>2. \A d \in record.deliveries : d \in Delivery /\ d.sequence <= n - 1
    BY <1>1, <1>9 DEF Told, Mirrored, SessionRecord
  <2>3. \A d \in Delivery : d.sequence \in Nat
    BY SessionServiceAssumption DEF Delivery
  <2> QED BY <1>5, <1>8, <2>1, <2>2, <2>3
<1>11. record.deliveries \subseteq Delivery /\ stored.deliveries \subseteq Delivery
  BY DEF SessionRecord
<1>12. Distinct(rows)
  BY <1>1, <1>10 DEF Distinct, Told
<1>13. Windowed(stored2)
  <2>1. Distinct(stored2.deliveries)
    BY <1>1, <1>2, <1>5, <1>10 DEF Distinct, Windowed
  <2>2. \A d, newest \in stored2.deliveries :
          d.sequence > newest.sequence - MaxRecorded
    BY <1>4 DEF TrimBySequence
  <2>3. \A d \in stored2.deliveries : d.text = NoText
    BY <1>1, <1>2 DEF Windowed
  <2> QED BY <2>1, <2>2, <2>3 DEF Windowed
<1>14. Told(delivered)
  <2>1. delivered.deliveries \subseteq rows
    BY <1>7 DEF Newest
  <2>2. Distinct(delivered.deliveries)
    BY <1>12, <2>1 DEF Distinct
  <2>3. delivered.latest = n
    BY <1>3, <1>7, <1>8 DEF SameJournal, pushed, Pushed, SessionRecord
  <2>4. \A d \in delivered.deliveries : d.sequence <= delivered.latest
    BY <1>10, <2>1, <2>3
  <2>5. \A d \in record.deliveries :
          d.submission.message # mine.submission.message
    BY <1>5 DEF DeliveriesOf
  <2>6. \A d, other \in rows :
          d.submission.message = other.submission.message => d = other
    BY <1>1, <2>5 DEF Told
  <2> QED BY <2>1, <2>2, <2>4, <2>6 DEF Told
<1>15. Mirrored(delivered, stored2)
  <2>1. ASSUME NEW x \in stored2.deliveries
        PROVE  \E d \in delivered.deliveries : [d EXCEPT !.text = NoText] = x
    <3>1. \E d \in rows : [d EXCEPT !.text = NoText] = x
      BY <1>1, <1>2, <1>5 DEF Mirrored
    <3>2. PICK d \in rows : [d EXCEPT !.text = NoText] = x
      BY <3>1
    <3>3. d.sequence = x.sequence
      <4>1. CASE d = mine
        BY <1>5, <3>2, <4>1
      <4>2. CASE d \in record.deliveries
        BY <1>11, <3>2, <4>2 DEF Delivery
      <4> QED BY <3>2, <4>1, <4>2
    <3>4. x.sequence > n - MaxRecorded
      BY <1>4, <1>5, <1>10 DEF TrimBySequence
    <3>5. \A r \in rows : r.sequence \in Nat /\ r.sequence <= n
      BY <1>10
    <3>6. d.sequence \in Nat
      BY <3>2, <3>5
    <3>7. \A r \in rows : d.sequence > r.sequence - MaxRecorded
      BY <1>9, <3>3, <3>4, <3>5, <3>6
    <3>8. d \in Newest(rows, MaxRecorded)
      <4> HIDE DEF rows
      <4> QED BY <1>9, <1>12, <3>2, <3>5, <3>7, KeptByLength
    <3> QED BY <1>7, <3>2, <3>8
  <2> QED BY <1>3, <1>6, <1>7, <2>1 DEF Mirrored, SameJournal
<1>16. ResolvedOnce(stored2)
  <2>1. stored2.events = appended.events
    BY <1>6 DEF SameJournal
  <2>2. ASSUME NEW d \in stored.deliveries
        PROVE  OnceFor(stored2, d)
    <3>1. d \in Delivery /\ d.sequence <= stored.latest /\ OnceFor(stored, d)
      BY <1>1, <1>11 DEF WellNumbered, ResolvedOnce
    <3> QED BY <1>1, <1>2, <2>1, <3>1, OnceKept DEF appended
  <2>3. OnceFor(stored2, delivery)
    <3>1. \A e \in stored2.events : e.sequence \in Nat /\ e.sequence <= n
      <4>1. \A e \in stored2.events : e \in Event /\ e.sequence <= stored2.latest
        BY <1>2 DEF WellNumbered, SessionRecord
      <4>2. stored2.latest = n
        BY <1>6, <1>8 DEF SameJournal, appended, Appended, SessionRecord
      <4> QED BY <4>1, <4>2, SessionServiceAssumption DEF Event
    <3>2. LaterOf(stored2, delivery) = {}
      BY <1>8, <3>1 DEF LaterOf, ResolutionsOf
    <3> QED BY <3>2 DEF OnceFor
  <2> QED BY <1>2, <2>2, <2>3 DEF ResolvedOnce
<1>17. Contiguous(stored2)
  BY <1>3, <1>6 DEF Contiguous, SameJournal
<1>18. delivered # NoSession /\ stored2 # NoSession
  <2>1. mine \in Delivery
    BY DEF mine, Delivery
  <2>2. Newest(rows, MaxRecorded) \subseteq Delivery
    BY <1>11, <2>1 DEF Newest
  <2>3. delivered \in SessionRecord
    BY <1>3, <2>2 DEF delivered, Delivered, pushed, SessionRecord
  <2> QED BY <1>2, <2>3, NoSessionAssumption
<1> QED BY <1>2, <1>13, <1>14, <1>15, <1>16, <1>17, <1>18 DEF CopyOf, delivered, mine

\* resolve_session: both copies mark the delivery of the message.
LEMMA ResolutionCopied ==
  ASSUME NEW record \in SessionRecord, NEW stored \in SessionRecord,
         CopyOf(record, stored), NEW event \in Event,
         event.kind = "resolution", NEW delivery \in record.deliveries,
         event.message = delivery.submission.message,
         NEW stored2 \in StoreResolution(stored, event)
  PROVE  CopyOf(Emitted(record, event, delivery), stored2)
<1> DEFINE mine == [delivery EXCEPT !.emitted = TRUE]
           pushed == Pushed(record, event)
           appended == Appended(stored, event)
           rows == (record.deliveries \ {delivery}) \cup {mine}
           emitted == Emitted(record, event, delivery)
<1>1. /\ WellNumbered(stored) /\ Contiguous(stored) /\ Windowed(stored)
      /\ ResolvedOnce(stored) /\ Told(record) /\ Mirrored(record, stored)
  BY NoSessionAssumption DEF CopyOf
<1>2. /\ event.sequence = stored.latest + 1
      /\ stored2 \in SessionRecord /\ WellNumbered(stored2)
  BY <1>1, ResolutionStored
<1>3. PICK d \in stored.deliveries :
        /\ d.submission.message = event.message /\ ~ d.emitted
        /\ stored2 = [appended EXCEPT !.deliveries =
             (stored.deliveries \ {d}) \cup {[d EXCEPT !.emitted = TRUE]}]
  BY <1>1, ResolutionStored
<1> DEFINE theirs == [d EXCEPT !.emitted = TRUE]
<1>4. /\ SameJournal(pushed, appended)
      /\ pushed.deliveries = record.deliveries
      /\ Contiguous(appended)
      /\ appended \in SessionRecord /\ pushed \in SessionRecord
  <2>1. SameJournal(pushed, appended) /\ pushed.deliveries = record.deliveries
    BY <1>1, <1>2, PushedSame
  <2>2. Contiguous(appended)
    BY <1>1, <1>2, AppendedEvents
  <2>3. appended \in SessionRecord /\ pushed \in SessionRecord
    BY AppendedType, PushedType
  <2> QED BY <2>1, <2>2, <2>3
<1>5. record.deliveries \subseteq Delivery /\ stored.deliveries \subseteq Delivery
  BY DEF SessionRecord
<1>6. [delivery EXCEPT !.text = NoText] = d
  <2>1. PICK m \in record.deliveries : [m EXCEPT !.text = NoText] = d
    BY <1>1 DEF Mirrored
  <2>2. m.submission = d.submission
    BY <1>5, <2>1 DEF Delivery
  <2>3. m = delivery
    BY <1>1, <1>3, <2>2 DEF Told
  <2> QED BY <2>1, <2>3
<1>7. /\ mine \in Delivery /\ mine.sequence = delivery.sequence
      /\ mine.submission = delivery.submission
      /\ theirs.sequence = d.sequence /\ theirs.submission = d.submission
      /\ theirs.text = d.text
      /\ [mine EXCEPT !.text = NoText] = theirs
  BY <1>5, <1>6 DEF Delivery
<1>8. /\ SameJournal(stored2, appended)
      /\ stored2.deliveries = (stored.deliveries \ {d}) \cup {theirs}
  BY <1>3, <1>4 DEF SessionRecord, SameJournal
<1>9. /\ SameJournal(emitted, pushed)
      /\ emitted.deliveries = rows
      /\ emitted \in SessionRecord
  <2>1. emitted = [pushed EXCEPT !.deliveries = rows]
    BY <1>4 DEF Emitted
  <2>2. rows \subseteq Delivery
    BY <1>5, <1>7
  <2> HIDE DEF emitted, pushed, rows
  <2> QED BY <1>4, <2>1, <2>2 DEF SessionRecord, SameJournal
<1> HIDE DEF pushed, appended, mine, theirs, emitted
<1>10. /\ emitted.latest = event.sequence
       /\ stored.latest \in Nat /\ event.sequence = stored.latest + 1
       /\ record.latest = stored.latest
  BY <1>1, <1>2, <1>4, <1>9, SessionServiceAssumption
     DEF SameJournal, pushed, Pushed, SessionRecord, Mirrored
<1>11. Windowed(stored2)
  BY <1>1, <1>7, <1>8 DEF Windowed, Distinct
<1>12. Told(emitted)
  <2>1. Distinct(rows)
    BY <1>1, <1>7 DEF Distinct, Told
  <2>2. \A x, y \in rows : x.submission.message = y.submission.message => x = y
    BY <1>1, <1>7 DEF Told
  <2>3. \A x \in rows : x.sequence <= record.latest
    BY <1>1, <1>7 DEF Told
  <2>4. \A x \in rows : x.sequence \in Nat
    BY <1>5, <1>7, SessionServiceAssumption DEF Delivery
  <2>5. \A x \in rows : x.sequence <= emitted.latest
    BY <1>10, <2>3, <2>4
  <2> QED BY <1>9, <2>1, <2>2, <2>5 DEF Told
<1>13. Mirrored(emitted, stored2)
  <2>1. ASSUME NEW x \in stored2.deliveries
        PROVE  \E y \in rows : [y EXCEPT !.text = NoText] = x
    <3>1. CASE x = theirs
      BY <1>7, <3>1
    <3>2. CASE x \in stored.deliveries \ {d}
      <4>1. PICK y \in record.deliveries : [y EXCEPT !.text = NoText] = x
        BY <1>1, <3>2 DEF Mirrored
      <4>2. y # delivery
        BY <1>6, <3>2, <4>1
      <4> QED BY <4>1, <4>2
    <3> QED BY <1>8, <3>1, <3>2
  <2> QED BY <1>4, <1>8, <1>9, <2>1 DEF Mirrored, SameJournal
<1>14. ResolvedOnce(stored2)
  <2>1. stored2.events = appended.events
    BY <1>8 DEF SameJournal
  <2>2. ASSUME NEW x \in stored.deliveries
        PROVE  x \in Delivery /\ x.sequence <= stored.latest /\ OnceFor(stored, x)
    BY <1>1, <1>5 DEF WellNumbered, ResolvedOnce
  <2>3. OnceFor(stored2, theirs)
    BY <1>1, <1>2, <1>3, <2>1, <2>2, OnceResolved DEF appended, theirs
  <2>4. ASSUME NEW x \in stored.deliveries, x # d
        PROVE  OnceFor(stored2, x)
    <3>1. event.message # x.submission.message
      BY <1>1, <1>3, <2>4 DEF WellNumbered
    <3> QED BY <1>1, <1>2, <2>1, <2>2, <3>1, OnceKept DEF appended
  <2> QED BY <1>8, <2>3, <2>4 DEF ResolvedOnce
<1>15. Contiguous(stored2)
  BY <1>4, <1>8 DEF Contiguous, SameJournal
<1>16. emitted # NoSession /\ stored2 # NoSession
  BY <1>2, <1>9, NoSessionAssumption
<1> QED BY <1>2, <1>11, <1>12, <1>13, <1>14, <1>15, <1>16 DEF CopyOf, emitted

\* end_session.
LEMMA EndCopied ==
  ASSUME NEW record \in SessionRecord, NEW stored \in SessionRecord,
         CopyOf(record, stored), NEW event \in Event, event.kind = "ended",
         NEW stored2 \in StoreEnd(stored, event)
  PROVE  CopyOf([Pushed(record, event) EXCEPT !.state = "ended"], stored2)
<1> DEFINE pushed == Pushed(record, event)
           appended == Appended(stored, event)
           ended == [pushed EXCEPT !.state = "ended"]
<1>1. /\ WellNumbered(stored) /\ Contiguous(stored) /\ Windowed(stored)
      /\ ResolvedOnce(stored) /\ Told(record) /\ Mirrored(record, stored)
  BY NoSessionAssumption DEF CopyOf
<1>2. /\ event.sequence = stored.latest + 1
      /\ stored2 \in SessionRecord /\ WellNumbered(stored2)
      /\ stored2 = [appended EXCEPT !.state = "ended"]
  BY <1>1, EndStored
<1>3. /\ SameJournal(pushed, appended)
      /\ pushed.deliveries = record.deliveries
      /\ Contiguous(appended) /\ appended.deliveries = stored.deliveries
      /\ appended \in SessionRecord /\ pushed \in SessionRecord
  <2>1. SameJournal(pushed, appended) /\ pushed.deliveries = record.deliveries
    BY <1>1, <1>2, PushedSame
  <2>2. Contiguous(appended)
    BY <1>1, <1>2, AppendedEvents
  <2>3. appended.deliveries = stored.deliveries
    BY <1>1, <1>2, AppendedNumbered
  <2>4. appended \in SessionRecord /\ pushed \in SessionRecord
    BY AppendedType, PushedType
  <2> QED BY <2>1, <2>2, <2>3, <2>4
<1>4. pushed.latest = event.sequence
  BY DEF Pushed, SessionRecord
<1> HIDE DEF pushed, appended
<1>5. /\ ended \in SessionRecord
      /\ ended.deliveries = record.deliveries
      /\ ended.latest = event.sequence
      /\ stored2.deliveries = stored.deliveries
      /\ stored2.events = appended.events /\ stored2.latest = appended.latest
      /\ SameJournal(ended, stored2)
  BY <1>2, <1>3, <1>4 DEF SessionRecord, SameJournal
<1>6. Windowed(stored2)
  BY <1>1, <1>5 DEF Windowed
<1>7. Contiguous(stored2)
  BY <1>3, <1>5 DEF Contiguous
<1>8. Told(ended)
  <2>1. record.latest \in Nat /\ event.sequence = record.latest + 1
    BY <1>1, <1>2, SessionServiceAssumption DEF Mirrored, SessionRecord
  <2>2. \A x \in record.deliveries :
          x.sequence \in Nat /\ x.sequence <= record.latest
    BY <1>1, SessionServiceAssumption DEF Told, SessionRecord, Delivery
  <2>3. \A x \in record.deliveries : x.sequence <= event.sequence
    BY <2>1, <2>2
  <2> HIDE DEF ended
  <2> QED BY <1>1, <1>5, <2>3 DEF Told
<1>9. Mirrored(ended, stored2)
  BY <1>1, <1>5 DEF Mirrored, SameJournal
<1>10. ResolvedOnce(stored2)
  <2>1. ASSUME NEW x \in stored.deliveries
        PROVE  OnceFor(stored2, x)
    <3>1. x \in Delivery /\ x.sequence <= stored.latest /\ OnceFor(stored, x)
      BY <1>1 DEF WellNumbered, ResolvedOnce, SessionRecord
    <3> QED BY <1>1, <1>2, <1>5, <3>1, OnceKept DEF appended
  <2> QED BY <1>5, <2>1 DEF ResolvedOnce
<1>11. ended # NoSession /\ stored2 # NoSession
  BY <1>2, <1>5, NoSessionAssumption
<1> QED BY <1>2, <1>6, <1>7, <1>8, <1>9, <1>10, <1>11 DEF CopyOf, pushed

\* start_session: a session that has just started is its own copy.
LEMMA StartedCopied ==
  ASSUME NEW d \in Definitions
  PROVE  CopyOf(Started(d), Started(d)) /\ Started(d) \in SessionRecord
<1>1. /\ StartedEvent \in Event /\ StartedEvent.sequence = 1
      /\ Started(d) \in SessionRecord
  BY SessionServiceAssumption DEF Started, StartedEvent, Event, SessionRecord
<1>2. Oldest(1) = 1
  BY SessionStoreAssumption DEF Oldest
<1>3. Contiguous(Started(d))
  BY <1>1, <1>2 DEF Contiguous, Started, Distinct
<1>4. WellNumbered(Started(d))
  BY <1>1 DEF WellNumbered, Started
<1> QED BY <1>1, <1>3, <1>4, NoSessionAssumption
        DEF CopyOf, Started, Windowed, Told, ResolvedOnce, Mirrored, Distinct

\* restore_sessions: the bounds of the deques drop nothing that was stored.
LEMMA RestoredCopied ==
  ASSUME NEW record, NEW stored \in SessionRecord \cup {NoSession},
         CopyOf(record, stored)
  PROVE  CopyOf(Restored(stored), stored)
<1>1. CASE stored = NoSession
  BY <1>1 DEF CopyOf, Restored
<1>2. CASE stored \in SessionRecord
  <2>1. /\ WellNumbered(stored) /\ Contiguous(stored) /\ Windowed(stored)
        /\ ResolvedOnce(stored) /\ stored # NoSession
    BY <1>2, NoSessionAssumption DEF CopyOf
  <2>2. Newest(stored.deliveries, MaxRecorded) = stored.deliveries
    <3>1. \A d \in stored.deliveries : d.sequence \in Nat
      BY <1>2, SessionServiceAssumption DEF SessionRecord, Delivery
    <3>2. stored.deliveries \subseteq Newest(stored.deliveries, MaxRecorded)
      BY <2>1, <3>1, KeptByLength, SessionStoreAssumption DEF Windowed
    <3> QED BY <3>2 DEF Newest
  <2>3. Newest(stored.events, MaxEvents) = stored.events
    <3>1. PICK n \in Nat \ {0} : n = stored.latest
      BY <1>2, SessionServiceAssumption DEF SessionRecord
    <3>2. \A e \in stored.events : e.sequence > n - MaxEvents
      BY <2>1, <3>1, SessionStoreAssumption DEF Contiguous, Oldest
    <3>3. \A e \in stored.events : e.sequence \in Nat /\ e.sequence <= n
      BY <1>2, <2>1, <3>1, SessionServiceAssumption
         DEF SessionRecord, Event, WellNumbered
    <3>4. \A e, newest \in stored.events :
            e.sequence > newest.sequence - MaxEvents
      BY <3>2, <3>3, SessionStoreAssumption
    <3>5. stored.events \subseteq Newest(stored.events, MaxEvents)
      BY <2>1, <3>3, <3>4, KeptByLength, SessionStoreAssumption DEF Contiguous
    <3> QED BY <3>5 DEF Newest
  <2>4. Restored(stored) = stored
    BY <1>2, <2>1, <2>2, <2>3 DEF Restored, SessionRecord
  <2>5. Told(stored)
    BY <2>1 DEF Told, Windowed, WellNumbered
  <2>6. Mirrored(stored, stored)
    <3>1. \A d \in stored.deliveries : [d EXCEPT !.text = NoText] = d
      BY <1>2, <2>1 DEF Windowed, SessionRecord, Delivery
    <3> QED BY <3>1 DEF Mirrored
  <2> QED BY <2>1, <2>4, <2>5, <2>6 DEF CopyOf
<1> QED BY <1>1, <1>2

-----------------------------------------------------------------------------
(* The operations of the service.                                          *)

\* A session takes the place that is free in the queue.
LEMMA AdmitCopied ==
  ASSUME NEW s \in Sessions, NEW d \in Definitions,
         NEW remaining \in [Sessions -> SessionRecord \cup {NoSession}],
         NEW stored \in [Sessions -> SessionRecord \cup {NoSession}],
         NEW queue \in Seq(Sessions),
         Admit(s, d, remaining, stored, queue),
         \A t \in Sessions : CopyOf(remaining[t], stored[t]),
         Len(queue) < MaxSessions,
         \A t \in Sessions :
           stored[t] # NoSession => \E i \in DOMAIN queue : queue[i] = t
  PROVE  Copied' /\ Listed'
<1>1. /\ disk' = [stored EXCEPT ![s] = Started(d)]
      /\ memory' = [remaining EXCEPT ![s] = Started(d)]
      /\ order' = Append(queue, s)
  BY DEF Admit, StoreCreate
<1>2. Copied'
  BY <1>1, StartedCopied DEF Copied
<1>3. Len(order') <= MaxSessions
  BY <1>1, SessionServiceAssumption
<1>4. ASSUME NEW t \in Sessions, disk'[t] # NoSession
      PROVE  \E i \in DOMAIN order' : order'[i] = t
  <2>1. CASE t = s
    <3>1. Len(queue) + 1 \in DOMAIN order' /\ order'[Len(queue) + 1] = s
      BY <1>1
    <3> QED BY <2>1, <3>1
  <2>2. CASE t # s
    <3>1. stored[t] # NoSession
      BY <1>1, <1>4, <2>2
    <3>2. PICK i \in DOMAIN queue : queue[i] = t
      BY <3>1
    <3>3. i \in DOMAIN order' /\ order'[i] = t
      BY <1>1, <3>2
    <3> QED BY <3>3
  <2> QED BY <2>1, <2>2
<1> QED BY <1>2, <1>3, <1>4 DEF Listed

LEMMA StartCopied ==
  ASSUME CopyInv, NEW s \in Sessions, NEW d \in Definitions, StartSession(s, d)
  PROVE  Copied' /\ Listed'
<1>1. /\ memory \in [Sessions -> SessionRecord \cup {NoSession}]
      /\ disk \in [Sessions -> SessionRecord \cup {NoSession}]
      /\ order \in Seq(Sessions)
  BY DEF CopyInv, TypeOK
<1>2. /\ Len(order) < MaxSessions
      /\ Admit(s, d, memory, disk, order)
  BY DEF StartSession
<1> QED BY <1>1, <1>2, AdmitCopied DEF CopyInv, Copied, Listed

\* The queue without its i-th session still holds all the others.
LEMMA WithoutHolds ==
  ASSUME order \in Seq(Sessions), NEW i \in DOMAIN order
  PROVE  /\ Without(i) \in Seq(Sessions)
         /\ Len(Without(i)) = Len(order) - 1
         /\ \A j \in DOMAIN order :
              j # i => \E k \in DOMAIN Without(i) : Without(i)[k] = order[j]
<1>1. PICK n \in Nat \ {0} : n = Len(order)
  OBVIOUS
<1>2. i \in 1 .. n /\ DOMAIN order = 1 .. n
  BY <1>1
<1>3. Without(i) = [j \in 1 .. n - 1 |-> IF j < i THEN order[j] ELSE order[j + 1]]
  BY <1>1 DEF Without
<1>4. Without(i) \in Seq(Sessions)
  BY WithoutType
<1>5. Len(Without(i)) = n - 1 /\ DOMAIN Without(i) = 1 .. n - 1
  BY <1>1, <1>3, <1>4
<1>6. ASSUME NEW j \in 1 .. n, j # i
      PROVE  \E k \in 1 .. n - 1 : Without(i)[k] = order[j]
  <2>1. CASE j < i
    <3>1. j \in 1 .. n - 1
      BY <1>2, <2>1
    <3>2. Without(i)[j] = order[j]
      BY <1>3, <2>1, <3>1
    <3> QED BY <3>1, <3>2
  <2>2. CASE j > i
    <3>1. PICK k \in Nat : k = j - 1
      BY <1>2, <2>2
    <3>2. k \in 1 .. n - 1 /\ ~ (k < i) /\ k + 1 = j
      BY <1>2, <2>2, <3>1
    <3>3. Without(i)[k] = order[j]
      BY <1>3, <3>2
    <3> QED BY <3>2, <3>3
  <2> QED BY <1>2, <1>6, <2>1, <2>2
<1> QED BY <1>1, <1>2, <1>4, <1>5, <1>6

LEMMA EvictCopied ==
  ASSUME CopyInv, NEW s \in Sessions, NEW d \in Definitions,
         NEW i \in DOMAIN order, StartSessionEvicting(s, d, i)
  PROVE  Copied' /\ Listed'
<1> DEFINE remaining == [memory EXCEPT ![order[i]] = NoSession]
           stored == [disk EXCEPT ![order[i]] = NoSession]
<1>1. /\ memory \in [Sessions -> SessionRecord \cup {NoSession}]
      /\ disk \in [Sessions -> SessionRecord \cup {NoSession}]
      /\ order \in Seq(Sessions)
      /\ order[i] \in Sessions
  BY DEF CopyInv, TypeOK
<1>2. \/ Admit(s, d, remaining, stored, Without(i))
      \/ /\ memory' = remaining
         /\ disk' = stored
         /\ order' = Without(i)
  BY DEF StartSessionEvicting, StoreDeleteEnded
<1>3. /\ remaining \in [Sessions -> SessionRecord \cup {NoSession}]
      /\ stored \in [Sessions -> SessionRecord \cup {NoSession}]
  BY <1>1
<1>4. \A t \in Sessions : CopyOf(remaining[t], stored[t])
  BY <1>1 DEF CopyInv, Copied, CopyOf
<1>5. /\ Without(i) \in Seq(Sessions)
      /\ Len(Without(i)) = Len(order) - 1
      /\ Len(order) \in Nat /\ Len(order) <= MaxSessions
      /\ MaxSessions \in Nat
  BY <1>1, WithoutHolds, SessionServiceAssumption DEF CopyInv, Listed
<1>6. Len(Without(i)) < MaxSessions
  BY <1>5
<1>7. \A t \in Sessions :
        stored[t] # NoSession
          => \E k \in DOMAIN Without(i) : Without(i)[k] = t
  <2> TAKE t \in Sessions
  <2> HAVE stored[t] # NoSession
  <2>1. t # order[i] /\ disk[t] # NoSession
    BY <1>1
  <2>2. PICK j \in DOMAIN order : order[j] = t
    BY <2>1 DEF CopyInv, Listed
  <2>3. j # i
    BY <2>1, <2>2
  <2> QED BY <1>1, <2>2, <2>3, WithoutHolds
<1> HIDE DEF remaining, stored
<1>8. CASE Admit(s, d, remaining, stored, Without(i))
  BY <1>3, <1>4, <1>5, <1>6, <1>7, <1>8, AdmitCopied
<1>9. CASE /\ memory' = remaining
           /\ disk' = stored
           /\ order' = Without(i)
  <2>1. Copied'
    BY <1>4, <1>9 DEF Copied
  <2>2. Len(order') <= MaxSessions
    BY <1>5, <1>9
  <2> QED BY <1>7, <1>9, <2>1, <2>2 DEF Listed
<1> QED BY <1>2, <1>8, <1>9

\* One session is written in both copies, or in none.
LEMMA WriteCopied ==
  ASSUME CopyInv, NEW s \in Sessions, disk[s] # NoSession,
         NEW record, NEW stored, CopyOf(record, stored),
         memory' = [memory EXCEPT ![s] = record],
         disk' = [disk EXCEPT ![s] = stored],
         order' = order
  PROVE  Copied' /\ Listed'
<1>1. Copied'
  BY DEF CopyInv, TypeOK, Copied
<1>2. \A t \in Sessions : disk'[t] # NoSession => disk[t] # NoSession
  BY DEF CopyInv, TypeOK
<1> QED BY <1>1, <1>2 DEF CopyInv, Listed

LEMMA UnchangedCopied ==
  ASSUME CopyInv, UNCHANGED <<memory, disk, order>>
  PROVE  Copied' /\ Listed'
BY DEF CopyInv, Copied, Listed

\* An active session is in both copies.
LEMMA ActiveCopied ==
  ASSUME CopyInv, NEW s \in Sessions, Active(s)
  PROVE  /\ memory[s] \in SessionRecord /\ disk[s] \in SessionRecord
         /\ disk[s] # NoSession /\ CopyOf(memory[s], disk[s])
BY DEF CopyInv, TypeOK, Copied, CopyOf, Active

LEMMA SubmitCopied ==
  ASSUME CopyInv, NEW s \in Sessions, NEW submission \in Submissions,
         Submit(s, submission)
  PROVE  Copied' /\ Listed'
<1>1. /\ memory[s] \in SessionRecord /\ disk[s] \in SessionRecord
      /\ disk[s] # NoSession /\ CopyOf(memory[s], disk[s])
      /\ memory[s].latest < MaxSequence
      /\ DeliveriesOf(memory[s], submission.message) = {}
  BY ActiveCopied DEF Submit
<1>2. PICK verdict \in Verdicts :
        DeliverValidation(s, submission, verdict) \/ UNCHANGED <<memory, disk>>
  BY DEF Submit
<1>3. CASE UNCHANGED <<memory, disk>>
  BY <1>3, UnchangedCopied DEF Submit
<1>4. CASE DeliverValidation(s, submission, verdict)
  <2> DEFINE event == NewEvent(memory[s], "validation", submission.message,
                               verdict)
             delivery == [sequence |-> event.sequence,
                          submission |-> submission, verdict |-> verdict,
                          emitted |-> FALSE, text |-> NoText]
             mine == [delivery EXCEPT !.text = submission.text]
  <2>1. submission.message \in Messages /\ submission.text \in Texts
    BY SessionServiceAssumption
  <2>2. event \in Event /\ event.kind = "validation"
    BY <1>1, <2>1, NewEventType DEF NewEvent
  <2>3. /\ delivery \in Delivery
        /\ delivery.sequence = event.sequence /\ ~ delivery.emitted
        /\ delivery.text = NoText
        /\ delivery.submission.message = submission.message
    BY <2>2 DEF Delivery, Event
  <2>4. PICK stored \in StoreValidation(disk[s], event, delivery) :
          disk' = [disk EXCEPT ![s] = stored]
    BY <1>4 DEF DeliverValidation
  <2>5. memory' = [memory EXCEPT ![s] = Delivered(memory[s], event, mine)]
    BY <1>4 DEF DeliverValidation
  <2>6. order' = order
    BY DEF Submit
  <2> HIDE DEF event, delivery
  <2>7. CopyOf(Delivered(memory[s], event, mine), stored)
    BY <1>1, <2>1, <2>2, <2>3, <2>4, ValidationCopied
  <2> HIDE DEF mine
  <2> QED BY <1>1, <2>4, <2>5, <2>6, <2>7, WriteCopied
<1> QED BY <1>2, <1>3, <1>4

LEMMA ResolveCopied ==
  ASSUME CopyInv, NEW s \in Sessions, NEW message \in Messages,
         NEW resolution \in Resolutions, ResolveSession(s, message, resolution)
  PROVE  Copied' /\ Listed'
<1>1. /\ memory[s] \in SessionRecord /\ disk[s] \in SessionRecord
      /\ disk[s] # NoSession /\ CopyOf(memory[s], disk[s])
      /\ memory[s].latest < MaxSequence
  BY ActiveCopied DEF ResolveSession
<1>2. PICK delivery \in DeliveriesOf(memory[s], message) :
        EmitResolution(s, delivery, resolution) \/ UNCHANGED <<memory, disk>>
  BY DEF ResolveSession
<1>3. CASE UNCHANGED <<memory, disk>>
  BY <1>3, UnchangedCopied DEF ResolveSession
<1>4. CASE EmitResolution(s, delivery, resolution)
  <2> DEFINE event == NewEvent(memory[s], "resolution",
                               delivery.submission.message, resolution)
  <2>1. /\ delivery \in memory[s].deliveries
        /\ delivery.submission.message = message /\ resolution \in Verdicts
    BY <1>2 DEF DeliveriesOf, Resolutions, Verdicts
  <2>2. /\ event \in Event /\ event.kind = "resolution"
        /\ event.message = delivery.submission.message
    BY <1>1, <2>1, NewEventType DEF NewEvent
  <2>3. PICK stored \in StoreResolution(disk[s], event) :
          disk' = [disk EXCEPT ![s] = stored]
    BY <1>4 DEF EmitResolution
  <2>4. memory' = [memory EXCEPT ![s] = Emitted(memory[s], event, delivery)]
    BY <1>4 DEF EmitResolution
  <2>5. order' = order
    BY DEF ResolveSession
  <2> HIDE DEF event
  <2>6. CopyOf(Emitted(memory[s], event, delivery), stored)
    BY <1>1, <2>1, <2>2, <2>3, ResolutionCopied
  <2> QED BY <1>1, <2>3, <2>4, <2>5, <2>6, WriteCopied
<1> QED BY <1>2, <1>3, <1>4

LEMMA CloseCopied ==
  ASSUME CopyInv, NEW s \in Sessions, EndSession(s)
  PROVE  Copied' /\ Listed'
<1>1. /\ memory[s] \in SessionRecord /\ disk[s] \in SessionRecord
      /\ disk[s] # NoSession /\ CopyOf(memory[s], disk[s])
      /\ memory[s].latest < MaxSequence
  BY ActiveCopied DEF EndSession
<1> DEFINE event == NewEvent(memory[s], "ended", None, None)
           ended == [Pushed(memory[s], event) EXCEPT !.state = "ended"]
<1>2. event \in Event /\ event.kind = "ended"
  BY <1>1, NewEventType DEF NewEvent
<1>3. PICK stored \in StoreEnd(disk[s], event) :
        disk' = [disk EXCEPT ![s] = stored]
  BY DEF EndSession
<1>4. memory' = [memory EXCEPT ![s] = ended] /\ order' = order
  BY DEF EndSession
<1> HIDE DEF event
<1>5. CopyOf(ended, stored)
  BY <1>1, <1>2, <1>3, EndCopied
<1> HIDE DEF ended
<1> QED BY <1>1, <1>3, <1>4, <1>5, WriteCopied

LEMMA PurgeCopied == Purge => Copied' /\ Listed'
BY SessionServiceAssumption DEF Purge, Copied, CopyOf, Listed

LEMMA RestartCopied ==
  ASSUME CopyInv, Restart
  PROVE  Copied' /\ Listed'
<1>1. Copied'
  BY RestoredCopied DEF CopyInv, TypeOK, Copied, Restart
<1> QED BY <1>1 DEF Restart, CopyInv, Listed

-----------------------------------------------------------------------------
(* The theorems.                                                           *)

LEMMA CopyInit == Init => CopyInv
BY SessionServiceAssumption
   DEF Init, CopyInv, TypeOK, Copied, CopyOf, Listed

LEMMA CopyStep == CopyInv /\ [Next]_vars => CopyInv'
<1> SUFFICES ASSUME CopyInv, [Next]_vars
             PROVE  CopyInv'
  OBVIOUS
<1>1. TypeOK'
  BY TypeStep DEF CopyInv
<1>2. CASE UNCHANGED <<memory, disk, order>>
  BY <1>1, <1>2, UnchangedCopied DEF CopyInv
<1>3. ASSUME NEW d \in Definitions, NEW submission \in Submissions,
             Validate(d, submission)
      PROVE  UNCHANGED <<memory, disk, order>>
  BY <1>3 DEF Validate
<1>4. ASSUME NEW i \in DOMAIN recorded, NEW resolution \in Resolutions,
             Resolve(i, resolution)
      PROVE  UNCHANGED <<memory, disk, order>>
  BY <1>4 DEF Resolve
<1>5. ASSUME NEW s \in Sessions, NEW submission \in Submissions,
             Replay(s, submission)
      PROVE  UNCHANGED <<memory, disk, order>>
  BY <1>5 DEF Replay
<1>6. ASSUME NEW s \in Sessions, NEW message \in Messages,
             Remember(s, message)
      PROVE  UNCHANGED <<memory, disk, order>>
  BY <1>6 DEF Remember
<1>7. ASSUME NEW entry \in learned, Forget(entry)
      PROVE  UNCHANGED <<memory, disk, order>>
  BY <1>7 DEF Forget
<1>8. CASE UNCHANGED vars
  BY <1>2, <1>8 DEF vars
<1> QED
  BY <1>1, <1>2, <1>3, <1>4, <1>5, <1>6, <1>7, <1>8, StartCopied, EvictCopied,
     SubmitCopied, ResolveCopied, CloseCopied, PurgeCopied, RestartCopied
     DEF Next, CopyInv

LEMMA CopyInvariant == Spec => []CopyInv
BY CopyInit, CopyStep, PTL DEF Spec

LEMMA CopyMirrors == CopyInv => MemoryMirrorsStore
<1> SUFFICES ASSUME CopyInv, NEW s \in Sessions, disk[s] # NoSession
             PROVE  /\ memory[s] # NoSession
                    /\ [memory[s] EXCEPT !.deliveries = {}]
                         = [disk[s] EXCEPT !.deliveries = {}]
                    /\ \A delivery \in disk[s].deliveries :
                         \E d \in memory[s].deliveries :
                           [d EXCEPT !.text = NoText] = delivery
  BY DEF MemoryMirrorsStore, CopyInv, Copied, CopyOf
<1>1. /\ memory[s] # NoSession /\ Mirrored(memory[s], disk[s])
      /\ memory[s] \in SessionRecord /\ disk[s] \in SessionRecord
  BY DEF CopyInv, TypeOK, Copied, CopyOf
<1>2. [memory[s] EXCEPT !.deliveries = {}] = [disk[s] EXCEPT !.deliveries = {}]
  BY <1>1 DEF Mirrored, SessionRecord
<1> QED BY <1>1, <1>2 DEF Mirrored

LEMMA CopyContiguous == CopyInv => JournalContiguous
<1> SUFFICES ASSUME CopyInv, NEW s \in Sessions, memory[s] # NoSession
             PROVE  /\ {e.sequence : e \in memory[s].events}
                         = Oldest(memory[s].latest) .. memory[s].latest
                    /\ Cardinality(memory[s].events)
                         = memory[s].latest - Oldest(memory[s].latest) + 1
  BY DEF JournalContiguous, Oldest
<1>1. /\ memory[s] \in SessionRecord
      /\ Contiguous(memory[s])
  BY DEF CopyInv, TypeOK, Copied, CopyOf, Mirrored, Contiguous
<1>2. PICK n \in Nat \ {0} : n = memory[s].latest
  BY <1>1, SessionServiceAssumption DEF SessionRecord
<1>3. PICK lo \in Nat : lo = Oldest(n)
  <2>1. Oldest(n) \in Nat
    BY SessionStoreAssumption DEF Oldest
  <2> QED BY <2>1
<1>4. lo <= n
  BY <1>3, SessionStoreAssumption DEF Oldest
<1> DEFINE events == memory[s].events
<1>5. /\ Distinct(events)
      /\ \A e \in events : e.sequence \in lo .. n
      /\ \A k \in lo .. n : \E e \in events : e.sequence = k
  BY <1>1, <1>2, <1>3 DEF Contiguous
<1> HIDE DEF events
<1>6. {e.sequence : e \in events} = lo .. n
  BY <1>5
<1>7. Cardinality(events) = n - lo + 1
  BY <1>4, <1>5, CountedRows
<1> QED BY <1>2, <1>3, <1>6, <1>7 DEF events

LEMMA CopyOneResolution == CopyInv => OneResolutionPerDelivery
<1> SUFFICES ASSUME CopyInv, NEW s \in Sessions, disk[s] # NoSession,
                    NEW d \in disk[s].deliveries
             PROVE  /\ Cardinality(LaterOf(disk[s], d)) <= 1
                    /\ LaterOf(disk[s], d) # {} => d.emitted
                    /\ d.emitted /\ (\E e \in disk[s].events :
                                       e.sequence = d.sequence)
                         => LaterOf(disk[s], d) # {}
  BY DEF OneResolutionPerDelivery, LaterOf
<1>1. OnceFor(disk[s], d)
  BY DEF CopyInv, Copied, CopyOf, ResolvedOnce
<1> DEFINE later == LaterOf(disk[s], d)
<1>2. later = {} \/ \E e : later = {e}
  BY <1>1 DEF OnceFor
<1> HIDE DEF later
<1>3. Cardinality(later) <= 1
  BY <1>2, FS_EmptySet, FS_Singleton
<1> QED BY <1>1, <1>3 DEF OnceFor, later

LEMMA CopyRestarts == CopyInv => RestartAlwaysPossible
<1> SUFFICES ASSUME CopyInv
             PROVE  Cardinality({s \in Sessions : disk[s] # NoSession})
                      <= MaxSessions
  BY DEF RestartAlwaysPossible
<1> DEFINE listed == {order[i] : i \in DOMAIN order}
           stored == {s \in Sessions : disk[s] # NoSession}
<1>1. PICK n \in Nat : n = Len(order) /\ n <= MaxSessions
  BY DEF CopyInv, TypeOK, Listed
<1>2. order \in [1 .. n -> listed]
  BY <1>1 DEF CopyInv, TypeOK
<1>3. order \in Surjection(1 .. n, listed)
  BY <1>2 DEF Surjection
<1>4. IsFiniteSet(1 .. n) /\ Cardinality(1 .. n) <= n
  <2>1. /\ IsFiniteSet(1 .. n)
        /\ Cardinality(1 .. n) = IF 1 > n THEN 0 ELSE n - 1 + 1
    BY FS_Interval
  <2> QED BY <2>1
<1> HIDE DEF listed
<1>5. IsFiniteSet(listed) /\ Cardinality(listed) <= Cardinality(1 .. n)
  BY <1>3, <1>4, FS_Surjection
<1>6. stored \subseteq listed
  BY DEF CopyInv, Listed, listed
<1> HIDE DEF stored
<1>7. /\ IsFiniteSet(stored)
      /\ Cardinality(stored) <= Cardinality(listed)
  BY <1>5, <1>6, FS_Subset
<1>8. /\ Cardinality(stored) \in Nat /\ Cardinality(listed) \in Nat
      /\ Cardinality(1 .. n) \in Nat /\ MaxSessions \in Nat
  BY <1>4, <1>5, <1>7, FS_CardinalityType, SessionServiceAssumption
<1> QED BY <1>1, <1>4, <1>5, <1>7, <1>8 DEF stored

\* Whichever commits failed before a stop, the store never holds more sessions
\* than restore_sessions accepts: the service can always be opened again.
THEOREM AlwaysRestarts == Spec => []RestartAlwaysPossible
BY CopyInvariant, CopyRestarts, PTL

\* Trimming by length in memory and by sequence in the store leaves the same
\* journal in both, so a restart resumes exactly what a client was paging.
THEOREM CopiesAgree == Spec => []MemoryMirrorsStore
BY CopyInvariant, CopyMirrors, PTL

\* The journal of every session is its newest events, up to the capacity, with
\* no hole and no repetition.
THEOREM JournalsContiguous == Spec => []JournalContiguous
BY CopyInvariant, CopyContiguous, PTL

\* A stored delivery is marked as resolved exactly when the journal holds its
\* one resolution, or no longer reaches back to the delivery.
THEOREM ResolvedAtMostOnce == Spec => []OneResolutionPerDelivery
BY CopyInvariant, CopyOneResolution, PTL

=============================================================================
