------------------------ MODULE LearningService_proofs ------------------------
(***************************************************************************)
(* Proofs about LearningService for any round that a session accepts, any  *)
(* requests, and any capacities and times to live.                         *)
(***************************************************************************)
EXTENDS LearningService, FiniteSetTheorems, WellFoundedInduction, TLAPS

-----------------------------------------------------------------------------
(* Least and largest elements, and order.                                  *)

LEMMA LeastNat ==
  ASSUME NEW T \in SUBSET Nat, T # {}
  PROVE  \E x \in T : \A y \in T : x <= y
<1>1. \E x \in T : \A y \in T : ~(<<y, x>> \in OpToRel(<, Nat))
  BY NatLessThanWellFounded, WFMin
<1>2. \A x, y \in T : y < x => <<y, x>> \in OpToRel(<, Nat)
  BY DEF OpToRel
<1>3. PICK x \in T : \A y \in T : ~(y < x)
  BY <1>1, <1>2
<1>4. \A y \in T : x \in Nat /\ y \in Nat /\ ~(y < x)
  BY <1>3
<1>5. \A y \in T : x <= y
  BY <1>4
<1> QED BY <1>5

LEMMA LargestNat ==
  ASSUME NEW S \in SUBSET Nat, IsFiniteSet(S), S # {}
  PROVE  \E x \in S : \A y \in S : y <= x
<1> DEFINE Largest(T) == \E x \in T : \A y \in T : y <= x
           Bad == {n \in Nat : \E T \in SUBSET S : T # {} /\ Cardinality(T) = n /\ ~Largest(T)}
<1>1. CASE Bad = {}
  <2>1. Cardinality(S) \in Nat
    BY FS_CardinalityType
  <2> QED BY <1>1, <2>1
<1>2. CASE Bad # {}
  <2>1. PICK n \in Bad : \A m \in Bad : n <= m
    <3>1. Bad \in SUBSET Nat
      OBVIOUS
    <3> HIDE DEF Bad
    <3> QED BY <1>2, <3>1, LeastNat
  <2>2. PICK T \in SUBSET S : T # {} /\ Cardinality(T) = n /\ ~Largest(T)
    BY <2>1
  <2>3. PICK x \in T : TRUE
    BY <2>2
  <2>4. /\ IsFiniteSet(T) /\ IsFiniteSet(T \ {x})
        /\ Cardinality(T) \in Nat /\ Cardinality(T \ {x}) = Cardinality(T) - 1
    BY <2>2, <2>3, FS_Subset, FS_RemoveElement, FS_CardinalityType
  <2>5. Cardinality(T \ {x}) \in Nat
    BY <2>4, FS_CardinalityType
  <2>6. CASE T \ {x} = {}
    BY <2>2, <2>3, <2>6
  <2>7. CASE T \ {x} # {}
    <3>1. Cardinality(T \ {x}) \notin Bad
      <4> HIDE DEF Bad
      <4>1. Cardinality(T \ {x}) \in Bad => n <= Cardinality(T \ {x})
        BY <2>1
      <4> QED BY <2>2, <2>4, <2>5, <4>1
    <3>2. T \ {x} \in SUBSET S
      BY <2>2
    <3>3. Largest(T \ {x})
      BY <2>5, <2>7, <3>1, <3>2
    <3>4. PICK y \in T \ {x} : \A z \in T \ {x} : z <= y
      BY <3>3
    <3>5. \E w \in {x, y} : x <= w /\ y <= w
      BY <2>3, <3>4
    <3>6. PICK w \in {x, y} : x <= w /\ y <= w
      BY <3>5
    <3>7. w \in T /\ \A z \in T : z <= w
      BY <2>3, <3>4, <3>6
    <3> QED BY <2>2, <3>7
  <2> QED BY <2>6, <2>7
<1> QED BY <1>1, <1>2

Increasing(f) == \A i, j \in DOMAIN f : i < j => f[i] < f[j]

\* A set of positions can be listed in order.
LEMMA InOrderExists ==
  ASSUME NEW len \in Nat, NEW P \in SUBSET (1 .. len)
  PROVE  /\ IsFiniteSet(P)
         /\ \E f \in [1 .. Cardinality(P) -> P] : Increasing(f)
<1> DEFINE Listed(T) == \E f \in [1 .. Cardinality(T) -> T] : Increasing(f)
           Bad == {n \in Nat : \E T \in SUBSET (1 .. n) : ~Listed(T)}
<1>1. \A n \in Nat : \A T \in SUBSET (1 .. n) :
        IsFiniteSet(T) /\ Cardinality(T) \in Nat
  <2> SUFFICES ASSUME NEW n \in Nat, NEW T \in SUBSET (1 .. n)
               PROVE  IsFiniteSet(T) /\ Cardinality(T) \in Nat
    OBVIOUS
  <2>1. IsFiniteSet(1 .. n)
    BY FS_Interval
  <2>2. IsFiniteSet(T)
    BY <2>1, FS_Subset
  <2> QED BY <2>2, FS_CardinalityType
<1>2. CASE Bad = {}
  BY <1>1, <1>2
<1>3. CASE Bad # {}
  <2>1. PICK n \in Bad : \A m \in Bad : n <= m
    <3>1. Bad \in SUBSET Nat
      OBVIOUS
    <3> HIDE DEF Bad
    <3> QED BY <1>3, <3>1, LeastNat
  <2>2. PICK T \in SUBSET (1 .. n) : ~Listed(T)
    BY <2>1
  <2>3. n \in Nat /\ IsFiniteSet(T) /\ Cardinality(T) \in Nat
    BY <1>1, <2>1, <2>2
  <2>4. CASE n \notin T
    <3>1. T \in SUBSET (1 .. n - 1)
      BY <2>2, <2>3, <2>4
    <3>2. n # 0
      <4>1. CASE n = 0
        <5>1. T = {} /\ Cardinality(T) = 0
          <6>1. T = {}
            BY <2>2, <2>3, <4>1
          <6> QED BY <6>1, FS_EmptySet
        <5>2. [i \in 1 .. 0 |-> 0] \in [1 .. Cardinality(T) -> T]
              /\ Increasing([i \in 1 .. 0 |-> 0])
          BY <5>1 DEF Increasing
        <5> QED BY <2>2, <5>2
      <4> QED BY <4>1
    <3>3. n - 1 \in Nat /\ n - 1 \notin Bad
      <4> HIDE DEF Bad
      <4>1. n - 1 \in Bad => n <= n - 1
        BY <2>1
      <4> QED BY <2>3, <3>2, <4>1
    <3> QED BY <2>2, <3>1, <3>3
  <2>5. CASE n \in T
    <3> DEFINE U == T \ {n}
               k == Cardinality(T)
    <3>1. U \in SUBSET (1 .. n - 1) /\ n \in 1 .. n
      BY <2>2, <2>3, <2>5
    <3>2. IsFiniteSet(U) /\ Cardinality(U) = k - 1
      BY <2>3, <2>5, FS_RemoveElement
    <3>3. Cardinality(U) \in Nat
      BY <3>2, FS_CardinalityType
    <3>4. n - 1 \in Nat /\ n - 1 \notin Bad
      <4> HIDE DEF Bad, U
      <4>1. n - 1 \in Bad => n <= n - 1
        BY <2>1
      <4>2. n \in 1 .. n
        BY <3>1
      <4> QED BY <2>3, <4>1, <4>2
    <3>5. PICK f \in [1 .. k - 1 -> U] : Increasing(f)
      <4>1. Listed(U)
        BY <3>1, <3>4
      <4> QED BY <3>2, <4>1
    <3> DEFINE g == [i \in 1 .. k |-> IF i = k THEN n ELSE f[i]]
    <3>6. k \in Nat \ {0}
      BY <2>3, <3>2, <3>3
    <3>7. \A i \in 1 .. k : i # k => i \in 1 .. k - 1 /\ f[i] \in U
      BY <3>5, <3>6
    <3>8. g \in [1 .. k -> T]
      BY <2>5, <3>7
    <3>9. \A i \in 1 .. k - 1 : f[i] < n
      <4>1. \A u \in U : u < n
        BY <2>3, <3>1
      <4> QED BY <3>5, <4>1
    <3>10. \A i, j \in 1 .. k - 1 : i < j => f[i] < f[j]
      BY <3>5 DEF Increasing
    <3>11. Increasing(g)
      <4> SUFFICES ASSUME NEW i \in 1 .. k, NEW j \in 1 .. k, i < j
                   PROVE  g[i] < g[j]
        BY <3>8 DEF Increasing
      <4>1. i # k /\ i \in 1 .. k - 1
        BY <3>6
      <4>2. CASE j = k
        BY <3>9, <4>1, <4>2
      <4>3. CASE j # k
        BY <3>7, <3>10, <4>1, <4>3
      <4> QED BY <4>2, <4>3
    <3> QED BY <2>2, <3>8, <3>11
  <2> QED BY <2>4, <2>5
<1> QED BY <1>2, <1>3

\* Kept keeps the entries at its positions, and no entry twice.
LEMMA KeptEntries ==
  ASSUME NEW E, NEW entries \in Seq(E), NEW P \in SUBSET DOMAIN entries
  PROVE  /\ IsFiniteSet(P) /\ Cardinality(P) \in Nat /\ Cardinality(P) <= Len(entries)
         /\ Kept(entries, P) \in Seq(E)
         /\ Len(Kept(entries, P)) = Cardinality(P)
         /\ \E f \in [1 .. Cardinality(P) -> P] :
              /\ \A i, j \in 1 .. Cardinality(P) : f[i] = f[j] => i = j
              /\ \A i \in 1 .. Cardinality(P) : Kept(entries, P)[i] = entries[f[i]]
<1> DEFINE n == Cardinality(P)
<1>1. Len(entries) \in Nat /\ DOMAIN entries = 1 .. Len(entries)
  OBVIOUS
<1>2. IsFiniteSet(P) /\ \E f \in [1 .. n -> P] : Increasing(f)
  BY <1>1, InOrderExists
<1>3. n \in Nat /\ n <= Len(entries)
  <2>1. IsFiniteSet(1 .. Len(entries)) /\ Cardinality(1 .. Len(entries)) = Len(entries)
    <3>1. \A m \in Nat : IsFiniteSet(1 .. m) /\ Cardinality(1 .. m) = IF 1 > m THEN 0 ELSE m - 1 + 1
      BY FS_Interval
    <3>2. \A m \in Nat : (IF 1 > m THEN 0 ELSE m - 1 + 1) = m
      OBVIOUS
    <3> QED BY <1>1, <3>1, <3>2
  <2>2. n <= Cardinality(1 .. Len(entries))
    BY <1>1, <2>1, FS_Subset
  <2>3. n \in Nat
    BY <1>2, FS_CardinalityType
  <2> QED BY <2>1, <2>2, <2>3
<1>4. InOrder(P) \in [1 .. n -> P] /\ Increasing(InOrder(P))
  BY <1>2 DEF InOrder, Increasing
<1>5. Kept(entries, P) = [i \in 1 .. n |-> entries[InOrder(P)[i]]]
  BY DEF Kept
<1>6. \A i \in 1 .. n : InOrder(P)[i] \in DOMAIN entries
  BY <1>4
<1>7. Kept(entries, P) \in Seq(E) /\ Len(Kept(entries, P)) = n
  BY <1>3, <1>5, <1>6
<1>8. \A i, j \in 1 .. n : InOrder(P)[i] = InOrder(P)[j] => i = j
  <2> SUFFICES ASSUME NEW i \in 1 .. n, NEW j \in 1 .. n, InOrder(P)[i] = InOrder(P)[j], i # j
               PROVE  FALSE
    OBVIOUS
  <2>1. InOrder(P)[i] \in Nat /\ InOrder(P)[j] \in Nat
    BY <1>1, <1>6
  <2>2. i < j \/ j < i
    BY <1>3
  <2>3. InOrder(P)[i] < InOrder(P)[j] \/ InOrder(P)[j] < InOrder(P)[i]
    BY <1>4, <2>2 DEF Increasing
  <2> QED BY <2>1, <2>3
<1>9. \A i \in 1 .. n : Kept(entries, P)[i] = entries[InOrder(P)[i]]
  BY <1>5
<1> QED BY <1>2, <1>3, <1>4, <1>7, <1>8, <1>9

-----------------------------------------------------------------------------
(* The table of the memory.                                                *)

Expressions == {Normalized[text] : text \in Texts}

ActiveRow == [row : Nat \ {0}, context : Contexts, target : TargetIds,
              expression : Expressions, lastUsed : 0 .. MaxTime,
              expires : Ttl .. MaxTime + Ttl, state : {"active"}]

ClosedRow == [row : Nat \ {0}, state : {"closed"}]

Row == ActiveRow \cup ClosedRow

\* Every active row of a table is an entry of another one.
Within(after, table) ==
  \A r \in ActiveRows(after) : \E q \in ActiveRows(table) :
    r.context = q.context /\ r.target = q.target /\ r.expression = q.expression

\* Every active row of a table is still there, and due when it was.
Lasting(table, after) ==
  \A q \in ActiveRows(table) : \E r \in ActiveRows(after) :
    /\ r.context = q.context /\ r.target = q.target /\ r.expression = q.expression
    /\ r.expires = q.expires

SameEntry(r, q) ==
  r.context = q.context /\ r.target = q.target /\ r.expression = q.expression

\* A row has a number of its own, and an entry one active row at most.
Table(table) ==
  /\ table \subseteq Row /\ IsFiniteSet(table)
  /\ \A r, q \in table : r.row = q.row => r = q
  /\ \A r, q \in ActiveRows(table) : SameEntry(r, q) => r = q

LEMMA RowTypes ==
  ASSUME NEW r \in Row
  PROVE  /\ r.row \in Nat \ {0}
         /\ r.state \in {"active", "closed"}
         /\ r.state = "active" =>
              /\ r \in ActiveRow
              /\ r.context \in Contexts /\ r.target \in TargetIds
              /\ r.expression \in Expressions /\ r.lastUsed \in 0 .. MaxTime
              /\ r.expires \in Ttl .. MaxTime + Ttl
         /\ Closed(r) \in ClosedRow /\ Closed(r).row = r.row /\ Closed(r).state = "closed"
<1>1. CASE r \in ActiveRow
  BY <1>1 DEF ActiveRow, ClosedRow, Closed
<1>2. CASE r \in ClosedRow
  BY <1>2 DEF ActiveRow, ClosedRow, Closed
<1> QED BY <1>1, <1>2 DEF Row

Image(f) == {f[r] : r \in DOMAIN f}

\* A transaction that changes rows one by one: it activates none, changes the
\* entry of none, and so leaves no more of them.
LEMMA Rewritten ==
  ASSUME NEW table, Table(table), NEW f \in [table -> Row],
         \A r \in table : f[r].row = r.row,
         \A r \in table : f[r].state = "active" => r.state = "active" /\ SameEntry(f[r], r)
  PROVE  /\ Table(Image(f))
         /\ Cardinality(Image(f)) <= Cardinality(table)
         /\ Cardinality(ActiveRows(Image(f))) <= Cardinality(ActiveRows(table))
         /\ Cardinality(Image(f)) \in Nat /\ Cardinality(table) \in Nat
         /\ Cardinality(ActiveRows(Image(f))) \in Nat /\ Cardinality(ActiveRows(table)) \in Nat
<1> DEFINE live == {r \in table : f[r].state = "active"}
           g == [r \in live |-> f[r]]
<1>1. IsFiniteSet(table) /\ DOMAIN f = table
  BY DEF Table
<1>2. f \in Surjection(table, Image(f))
  BY <1>1 DEF Surjection, Image
<1>3. IsFiniteSet(Image(f)) /\ Cardinality(Image(f)) <= Cardinality(table)
  BY <1>1, <1>2, FS_Surjection
<1>4. ActiveRows(Image(f)) = {f[r] : r \in live}
  BY <1>1 DEF ActiveRows, Image
<1>5. g \in Surjection(live, ActiveRows(Image(f)))
  BY <1>4 DEF Surjection
<1>6. live \subseteq ActiveRows(table) /\ ActiveRows(table) \subseteq table
  BY DEF ActiveRows
<1>7. IsFiniteSet(ActiveRows(table)) /\ IsFiniteSet(live)
      /\ Cardinality(live) <= Cardinality(ActiveRows(table))
  <2>1. IsFiniteSet(ActiveRows(table))
    BY <1>1, <1>6, FS_Subset
  <2> HIDE DEF live
  <2> QED BY <1>6, <2>1, FS_Subset
<1>8. IsFiniteSet(ActiveRows(Image(f)))
      /\ Cardinality(ActiveRows(Image(f))) <= Cardinality(live)
  <2> HIDE DEF live, g
  <2> QED BY <1>5, <1>7, FS_Surjection
<1>9. /\ Cardinality(Image(f)) \in Nat /\ Cardinality(table) \in Nat
      /\ Cardinality(ActiveRows(Image(f))) \in Nat /\ Cardinality(ActiveRows(table)) \in Nat
      /\ Cardinality(live) \in Nat
  <2> HIDE DEF live
  <2> QED BY <1>1, <1>3, <1>7, <1>8, FS_CardinalityType
<1>10. Cardinality(ActiveRows(Image(f))) <= Cardinality(ActiveRows(table))
  <2> HIDE DEF live
  <2> QED BY <1>7, <1>8, <1>9
<1>11. Table(Image(f))
  <2>1. Image(f) \subseteq Row
    BY <1>1 DEF Image
  <2>2. \A r, q \in table : f[r].row = f[q].row => r = q
    BY DEF Table
  <2>3. \A a, b \in Image(f) : a.row = b.row => a = b
    BY <1>1, <2>2 DEF Image
  <2>4. ASSUME NEW r \in live, NEW q \in live, SameEntry(f[r], f[q])
        PROVE  f[r] = f[q]
    <3>1. SameEntry(f[r], r) /\ SameEntry(f[q], q) /\ r \in ActiveRows(table) /\ q \in ActiveRows(table)
      BY <1>6
    <3>2. SameEntry(r, q)
      BY <2>4, <3>1 DEF SameEntry
    <3> QED BY <3>1, <3>2 DEF Table
  <2>5. \A a, b \in ActiveRows(Image(f)) : SameEntry(a, b) => a = b
    BY <1>4, <2>4
  <2> QED BY <1>3, <2>1, <2>3, <2>5 DEF Table
<1> QED BY <1>3, <1>9, <1>10, <1>11

\* What a table keeps when some of its rows are deleted.
LEMMA FewerRows ==
  ASSUME NEW table, Table(table), NEW fewer \in SUBSET table
  PROVE  /\ Table(fewer)
         /\ Cardinality(fewer) \in Nat /\ Cardinality(table) \in Nat
         /\ Cardinality(fewer) <= Cardinality(table)
         /\ Cardinality(ActiveRows(fewer)) \in Nat /\ Cardinality(ActiveRows(table)) \in Nat
         /\ Cardinality(ActiveRows(fewer)) <= Cardinality(ActiveRows(table))
<1>1. IsFiniteSet(table)
  BY DEF Table
<1>2. IsFiniteSet(fewer) /\ Cardinality(fewer) <= Cardinality(table)
  BY <1>1, FS_Subset
<1>3. ActiveRows(table) \in SUBSET table /\ ActiveRows(fewer) \in SUBSET ActiveRows(table)
  BY DEF ActiveRows
<1>4. IsFiniteSet(ActiveRows(table))
  BY <1>1, <1>3, FS_Subset
<1>5. IsFiniteSet(ActiveRows(fewer))
      /\ Cardinality(ActiveRows(fewer)) <= Cardinality(ActiveRows(table))
  BY <1>3, <1>4, FS_Subset
<1>6. Table(fewer)
  BY <1>2, <1>3 DEF Table
<1> QED BY <1>1, <1>2, <1>4, <1>5, <1>6, FS_CardinalityType

ExpiredRow(r, now) == IF r.state = "active" /\ r.expires <= now THEN Closed(r) ELSE r

\* What expires is closed; what stays active is not due.
LEMMA ExpiredTable ==
  ASSUME NEW table, Table(table), NEW now \in Int
  PROVE  /\ Table(Expired(table, now))
         /\ Cardinality(Expired(table, now)) <= Cardinality(table)
         /\ Cardinality(ActiveRows(Expired(table, now))) <= Cardinality(ActiveRows(table))
         /\ Cardinality(Expired(table, now)) \in Nat /\ Cardinality(table) \in Nat
         /\ Cardinality(ActiveRows(Expired(table, now))) \in Nat
         /\ Cardinality(ActiveRows(table)) \in Nat
         /\ \A r \in ActiveRows(Expired(table, now)) : r \in ActiveRows(table) /\ now < r.expires
         /\ {r.row : r \in Expired(table, now)} \subseteq {r.row : r \in table}
<1> DEFINE f == [r \in table |-> ExpiredRow(r, now)]
<1>1. Expired(table, now) = Image(f)
  BY DEF Expired, ExpiredRow, Image
<1>2. ASSUME NEW r \in table
      PROVE  /\ f[r] \in Row /\ f[r].row = r.row
             /\ f[r].state = "active" => f[r] = r /\ r.state = "active" /\ now < r.expires
  <2>1. r \in Row
    BY DEF Table
  <2>2. Closed(r) \in Row /\ Closed(r).row = r.row /\ Closed(r).state # "active"
    BY <2>1, RowTypes DEF Row
  <2>3. r.state = "active" => r.expires \in Int
    BY <2>1, RowTypes
  <2>4. f[r] = IF r.state = "active" /\ r.expires <= now THEN Closed(r) ELSE r
    BY DEF ExpiredRow
  <2> QED BY <2>1, <2>2, <2>3, <2>4
<1>3. f \in [table -> Row] /\ DOMAIN f = table
  BY <1>2
<1>4. \A r \in table : f[r].state = "active" => r.state = "active" /\ SameEntry(f[r], r)
  BY <1>2 DEF SameEntry
<1>5. /\ Table(Image(f))
      /\ Cardinality(Image(f)) <= Cardinality(table)
      /\ Cardinality(ActiveRows(Image(f))) <= Cardinality(ActiveRows(table))
      /\ Cardinality(Image(f)) \in Nat /\ Cardinality(table) \in Nat
      /\ Cardinality(ActiveRows(Image(f))) \in Nat /\ Cardinality(ActiveRows(table)) \in Nat
  <2> HIDE DEF f
  <2> QED BY <1>2, <1>3, <1>4, Rewritten
<1>6. \A r \in ActiveRows(Image(f)) : r \in ActiveRows(table) /\ now < r.expires
  BY <1>2, <1>3 DEF ActiveRows, Image
<1>7. {r.row : r \in Image(f)} \subseteq {r.row : r \in table}
  BY <1>2, <1>3 DEF Image
<1> HIDE DEF f
<1> QED BY <1>1, <1>5, <1>6, <1>7

MarkedRow(r, used, now) == IF r \in used THEN [r EXCEPT !.lastUsed = now] ELSE r

\* mark_used moves rows in the order of use, and nothing else.
LEMMA MarkedTable ==
  ASSUME NEW table, Table(table), NEW used, used \subseteq ActiveRows(table), NEW now \in 0 .. MaxTime
  PROVE  /\ Table(MarkedUsed(table, used, now))
         /\ Cardinality(MarkedUsed(table, used, now)) <= Cardinality(table)
         /\ Cardinality(ActiveRows(MarkedUsed(table, used, now))) <= Cardinality(ActiveRows(table))
         /\ Cardinality(MarkedUsed(table, used, now)) \in Nat /\ Cardinality(table) \in Nat
         /\ Cardinality(ActiveRows(MarkedUsed(table, used, now))) \in Nat
         /\ Cardinality(ActiveRows(table)) \in Nat
         /\ Within(MarkedUsed(table, used, now), table)
         /\ Lasting(table, MarkedUsed(table, used, now))
         /\ {r.row : r \in MarkedUsed(table, used, now)} \subseteq {r.row : r \in table}
<1> DEFINE f == [r \in table |-> MarkedRow(r, used, now)]
<1>1. MarkedUsed(table, used, now) = Image(f)
  BY DEF MarkedUsed, MarkedRow, Image
<1>2. ASSUME NEW r \in table
      PROVE  /\ f[r] \in Row /\ f[r].row = r.row /\ f[r].state = r.state
             /\ r.state = "active" => SameEntry(f[r], r) /\ f[r].expires = r.expires
  <2>1. r \in Row
    BY DEF Table
  <2>2. CASE r \in used
    <3>1. r \in ActiveRow
      BY <2>1, <2>2, RowTypes DEF ActiveRows
    <3>2. [r EXCEPT !.lastUsed = now] \in ActiveRow
      BY <3>1 DEF ActiveRow
    <3>3. f[r] = [r EXCEPT !.lastUsed = now]
      BY <2>2 DEF MarkedRow
    <3> QED BY <3>1, <3>2, <3>3 DEF Row, ActiveRow, SameEntry
  <2>3. CASE r \notin used
    BY <2>1, <2>3 DEF MarkedRow, SameEntry
  <2> QED BY <2>2, <2>3
<1>3. f \in [table -> Row] /\ DOMAIN f = table
  BY <1>2
<1>4. \A r \in table : f[r].state = "active" => r.state = "active" /\ SameEntry(f[r], r)
  BY <1>2
<1>5. /\ Table(Image(f))
      /\ Cardinality(Image(f)) <= Cardinality(table)
      /\ Cardinality(ActiveRows(Image(f))) <= Cardinality(ActiveRows(table))
      /\ Cardinality(Image(f)) \in Nat /\ Cardinality(table) \in Nat
      /\ Cardinality(ActiveRows(Image(f))) \in Nat /\ Cardinality(ActiveRows(table)) \in Nat
  <2> HIDE DEF f
  <2> QED BY <1>2, <1>3, <1>4, Rewritten
<1>6. \A r \in ActiveRows(Image(f)) : \E q \in ActiveRows(table) : SameEntry(r, q)
  <2> HIDE DEF f
  <2> QED BY <1>2, <1>3, <1>4 DEF ActiveRows, Image
<1>7. \A q \in ActiveRows(table) : \E r \in ActiveRows(Image(f)) : SameEntry(r, q) /\ r.expires = q.expires
  <2> HIDE DEF f
  <2> QED BY <1>2, <1>3 DEF ActiveRows, Image
<1>8. {r.row : r \in Image(f)} \subseteq {r.row : r \in table}
  <2> HIDE DEF f
  <2> QED BY <1>2, <1>3 DEF Image
<1> HIDE DEF f
<1>9. Within(Image(f), table) /\ Lasting(table, Image(f))
  BY <1>6, <1>7 DEF Within, Lasting, SameEntry
<1> QED BY <1>1, <1>5, <1>8, <1>9

ClosedRows(table, chosen) == {IF r \in chosen THEN Closed(r) ELSE r : r \in table}

\* Rows that are closed, chosen in any way.
LEMMA ClosedTable ==
  ASSUME NEW table, Table(table), NEW chosen
  PROVE  /\ Table(ClosedRows(table, chosen))
         /\ Cardinality(ClosedRows(table, chosen)) <= Cardinality(table)
         /\ Cardinality(ActiveRows(ClosedRows(table, chosen))) <= Cardinality(ActiveRows(table))
         /\ Cardinality(ClosedRows(table, chosen)) \in Nat /\ Cardinality(table) \in Nat
         /\ Cardinality(ActiveRows(ClosedRows(table, chosen))) \in Nat
         /\ Cardinality(ActiveRows(table)) \in Nat
         /\ ActiveRows(ClosedRows(table, chosen)) = ActiveRows(table) \ chosen
         /\ {r.row : r \in ClosedRows(table, chosen)} \subseteq {r.row : r \in table}
<1> DEFINE f == [r \in table |-> IF r \in chosen THEN Closed(r) ELSE r]
<1>1. ClosedRows(table, chosen) = Image(f)
  BY DEF Image, ClosedRows
<1>2. ASSUME NEW r \in table
      PROVE  /\ f[r] \in Row /\ f[r].row = r.row
             /\ f[r].state = "active" => f[r] = r /\ r.state = "active" /\ r \notin chosen
             /\ r \notin chosen => f[r] = r
  <2>1. r \in Row
    BY DEF Table
  <2>2. Closed(r) \in Row /\ Closed(r).row = r.row /\ Closed(r).state # "active"
    BY <2>1, RowTypes DEF Row
  <2> QED BY <2>1, <2>2
<1>3. f \in [table -> Row] /\ DOMAIN f = table
  BY <1>2
<1>4. \A r \in table : f[r].state = "active" => r.state = "active" /\ SameEntry(f[r], r)
  BY <1>2 DEF SameEntry
<1> HIDE DEF f
<1>5. /\ Table(Image(f))
      /\ Cardinality(Image(f)) <= Cardinality(table)
      /\ Cardinality(ActiveRows(Image(f))) <= Cardinality(ActiveRows(table))
      /\ Cardinality(Image(f)) \in Nat /\ Cardinality(table) \in Nat
      /\ Cardinality(ActiveRows(Image(f))) \in Nat /\ Cardinality(ActiveRows(table)) \in Nat
  BY <1>2, <1>3, <1>4, Rewritten
<1>6. ActiveRows(Image(f)) = ActiveRows(table) \ chosen
  BY <1>2, <1>3 DEF ActiveRows, Image
<1>7. {r.row : r \in Image(f)} \subseteq {r.row : r \in table}
  BY <1>2, <1>3 DEF Image
<1> QED BY <1>1, <1>5, <1>6, <1>7

\* The rows in use have an order: by their last use, then by their number.
LEMMA LeastUsedActive ==
  ASSUME NEW table, Table(table), ActiveRows(table) # {}
  PROVE  LeastUsed(table) \in ActiveRows(table)
<1> DEFINE live == ActiveRows(table)
           Less(r, q) == \/ r.lastUsed < q.lastUsed
                         \/ r.lastUsed = q.lastUsed /\ r.row < q.row
<1>1. \A r \in live : r.lastUsed \in Nat /\ r.row \in Nat
  <2>1. \A r \in live : r \in Row /\ r.state = "active"
    BY DEF Table, ActiveRows
  <2> QED BY <2>1, RowTypes
<1>2. \A r, q \in live : r.row = q.row => r = q
  BY DEF Table, ActiveRows
<1> HIDE DEF live
<1>3. PICK r \in live : \A q \in live : r.lastUsed <= q.lastUsed
  <2> DEFINE uses == {r.lastUsed : r \in live}
  <2>1. uses \in SUBSET Nat /\ uses # {}
    BY <1>1 DEF live
  <2>2. \E x \in uses : \A y \in uses : x <= y
    <3> HIDE DEF uses
    <3> QED BY <2>1, LeastNat
  <2> QED BY <2>2
<1> DEFINE oldest == {q \in live : q.lastUsed = r.lastUsed}
<1>4. PICK v \in oldest : \A q \in oldest : v.row <= q.row
  <2> DEFINE numbers == {q.row : q \in oldest}
  <2>1. numbers \in SUBSET Nat /\ numbers # {}
    BY <1>1, <1>3
  <2>2. \E x \in numbers : \A y \in numbers : x <= y
    <3> HIDE DEF numbers
    <3> QED BY <2>1, LeastNat
  <2> QED BY <2>2
<1>5. \A q \in live \ {v} : Less(v, q)
  <2> SUFFICES ASSUME NEW q \in live \ {v} PROVE Less(v, q)
    OBVIOUS
  <2>1. v \in live /\ v.lastUsed = r.lastUsed
    BY <1>4
  <2>2. v.lastUsed <= q.lastUsed
    BY <1>3, <2>1
  <2>3. q.lastUsed = r.lastUsed => v.row <= q.row
    BY <1>4
  <2>4. v.row # q.row
    BY <1>2, <2>1
  <2>5. v.lastUsed \in Nat /\ q.lastUsed \in Nat /\ v.row \in Nat /\ q.row \in Nat
    BY <1>1, <2>1
  <2> QED BY <2>1, <2>2, <2>3, <2>4, <2>5
<1>6. v \in live
  BY <1>4
<1>7. \E w \in live : \A q \in live \ {w} :
        w.lastUsed < q.lastUsed \/ (w.lastUsed = q.lastUsed /\ w.row < q.row)
  BY <1>5, <1>6
<1> QED BY <1>7 DEF LeastUsed, live

\* evict_if_full makes room for one entry.
LEMMA EvictedTable ==
  ASSUME NEW table, Table(table), Cardinality(ActiveRows(table)) <= Capacity
  PROVE  /\ Table(Evicted(table))
         /\ Cardinality(ActiveRows(Evicted(table))) \in Nat
         /\ Cardinality(ActiveRows(Evicted(table))) < Capacity
         /\ ActiveRows(Evicted(table)) \subseteq ActiveRows(table)
         /\ {r.row : r \in Evicted(table)} \subseteq {r.row : r \in table}
<1> DEFINE victim == LeastUsed(table)
<1>1. IsFiniteSet(ActiveRows(table)) /\ Cardinality(ActiveRows(table)) \in Nat
  <2>1. IsFiniteSet(table) /\ ActiveRows(table) \in SUBSET table
    BY DEF Table, ActiveRows
  <2> QED BY <2>1, FS_Subset, FS_CardinalityType
<1>2. CASE Cardinality(ActiveRows(table)) < Capacity
  BY <1>1, <1>2 DEF Evicted
<1>3. CASE ~(Cardinality(ActiveRows(table)) < Capacity)
  <2>1. Cardinality(ActiveRows(table)) = Capacity
    BY <1>1, <1>3, MemoryPolicyAssumption
  <2>2. ActiveRows(table) # {}
    <3>1. ActiveRows(table) = {} => Cardinality(ActiveRows(table)) = 0
      BY FS_EmptySet
    <3> QED BY <2>1, <3>1, MemoryPolicyAssumption
  <2>3. victim \in ActiveRows(table) /\ victim \in table
    BY <2>2, LeastUsedActive DEF ActiveRows
  <2>4. Evicted(table) = ClosedRows(table, {victim})
    <3>1. Evicted(table) = (table \ {victim}) \cup {Closed(victim)}
      BY <1>3 DEF Evicted
    <3> HIDE DEF victim
    <3> QED BY <2>3, <3>1 DEF ClosedRows
  <2> HIDE DEF victim
  <2>5. /\ Table(ClosedRows(table, {victim}))
        /\ ActiveRows(ClosedRows(table, {victim})) = ActiveRows(table) \ {victim}
        /\ {r.row : r \in ClosedRows(table, {victim})} \subseteq {r.row : r \in table}
    BY ClosedTable
  <2>6. Cardinality(ActiveRows(table) \ {victim}) = Capacity - 1
    BY <1>1, <2>1, <2>3, FS_RemoveElement
  <2>7. Cardinality(ActiveRows(Evicted(table))) = Capacity - 1
    BY <2>4, <2>5, <2>6
  <2>8. Capacity - 1 \in Nat /\ Capacity - 1 < Capacity
    BY MemoryPolicyAssumption
  <2>9. ActiveRows(table) \ {victim} \subseteq ActiveRows(table)
    OBVIOUS
  <2> QED BY <2>4, <2>5, <2>7, <2>8, <2>9, Zenon
<1> QED BY <1>2, <1>3

\* trim_history keeps what is in use, and the newest of the rest.
LEMMA TrimmedTable ==
  ASSUME NEW table, Table(table)
  PROVE  /\ Table(Trimmed(table)) /\ Trimmed(table) \subseteq table
         /\ ActiveRows(Trimmed(table)) = ActiveRows(table)
         /\ Cardinality(Trimmed(table)) \in Nat /\ Cardinality(ActiveRows(table)) \in Nat
         /\ Cardinality(Trimmed(table)) <= Cardinality(ActiveRows(table)) + History
<1> DEFINE closed == table \ ActiveRows(table)
           Above(r) == {q \in closed : q.row > r.row}
           kept == {r \in closed : Cardinality(Above(r)) < History}
<1>1. Trimmed(table) = ActiveRows(table) \cup kept
  BY DEF Trimmed, ActiveRows
<1>2. /\ IsFiniteSet(table) /\ closed \in SUBSET table /\ kept \in SUBSET closed
      /\ ActiveRows(table) \in SUBSET table
      /\ \A r \in closed : Above(r) \in SUBSET closed
  BY DEF Table, ActiveRows
<1>3. \A r \in table : r.row \in Nat
  BY RowTypes DEF Table
<1>4. \A r, q \in kept : r.row = q.row => r = q
  BY <1>2 DEF Table
<1>5. \A r \in kept : \A q \in kept : q # r /\ r.row <= q.row => q \in Above(r)
  BY <1>2, <1>3, <1>4
<1>6. \A r \in kept : Cardinality(Above(r)) < History
  OBVIOUS
<1>7. ActiveRows(ActiveRows(table) \cup kept) = ActiveRows(table)
  BY DEF ActiveRows
<1> HIDE DEF kept, Above, closed
<1>8. IsFiniteSet(closed) /\ IsFiniteSet(kept) /\ IsFiniteSet(ActiveRows(table))
  <2>1. IsFiniteSet(closed) /\ IsFiniteSet(ActiveRows(table))
    BY <1>2, FS_Subset
  <2> QED BY <1>2, <2>1, FS_Subset
<1>9. Cardinality(kept) \in Nat /\ Cardinality(kept) <= History
  <2>1. CASE kept = {}
    BY <2>1, FS_EmptySet, MemoryPolicyAssumption
  <2>2. CASE kept # {}
    <3>1. PICK r \in kept : \A q \in kept : r.row <= q.row
      <4> DEFINE numbers == {q.row : q \in kept}
      <4>1. numbers \in SUBSET Nat /\ numbers # {}
        BY <1>2, <1>3, <2>2
      <4>2. \E x \in numbers : \A y \in numbers : x <= y
        <5> HIDE DEF numbers
        <5> QED BY <4>1, LeastNat
      <4> QED BY <4>2
    <3>2. kept \ {r} \in SUBSET Above(r)
      BY <1>5, <3>1
    <3>3. IsFiniteSet(Above(r)) /\ Cardinality(Above(r)) \in Nat
      BY <1>2, <1>8, <3>1, FS_Subset, FS_CardinalityType
    <3>4. IsFiniteSet(kept \ {r}) /\ Cardinality(kept \ {r}) <= Cardinality(Above(r))
      BY <3>2, <3>3, FS_Subset
    <3>5. Cardinality(kept \ {r}) = Cardinality(kept) - 1 /\ Cardinality(kept) \in Nat
      BY <1>8, <3>1, FS_RemoveElement, FS_CardinalityType
    <3>6. Cardinality(Above(r)) < History
      BY <1>6, <3>1
    <3> QED BY <3>3, <3>4, <3>5, <3>6, MemoryPolicyAssumption
  <2> QED BY <2>1, <2>2
<1>10. Cardinality(ActiveRows(table)) \in Nat
  BY <1>8, FS_CardinalityType
<1>11. /\ Cardinality(ActiveRows(table) \cup kept) \in Nat
       /\ Cardinality(ActiveRows(table) \cup kept) <= Cardinality(ActiveRows(table)) + History
  <2>1. /\ IsFiniteSet(ActiveRows(table) \cup kept)
        /\ Cardinality(ActiveRows(table) \cup kept)
             = Cardinality(ActiveRows(table)) + Cardinality(kept)
               - Cardinality(ActiveRows(table) \cap kept)
    BY <1>8, FS_Union
  <2>2. IsFiniteSet(ActiveRows(table) \cap kept)
    BY <1>8, FS_Intersection
  <2>3. Cardinality(ActiveRows(table) \cap kept) \in Nat /\ Cardinality(ActiveRows(table) \cup kept) \in Nat
    BY <2>1, <2>2, FS_CardinalityType
  <2> QED BY <1>9, <1>10, <2>1, <2>3, MemoryPolicyAssumption
<1>12. ActiveRows(table) \cup kept \in SUBSET table
  BY <1>2
<1>13. Table(ActiveRows(table) \cup kept)
  BY <1>12, FewerRows
<1> QED BY <1>1, <1>7, <1>10, <1>11, <1>12, <1>13

\* What a table is between two transactions: `next' is the next row's number.
Kempt(table, next) ==
  /\ Table(table)
  /\ \A r \in table : r.row < next
  /\ Cardinality(ActiveRows(table)) <= Capacity
  /\ Cardinality(table) <= Capacity + History

\* remember teaches at most the entry it is told.
LEMMA RememberedTable ==
  ASSUME NEW table, NEW next \in Nat \ {0}, Kempt(table, next),
         NEW context \in Contexts, NEW target \in TargetIds,
         NEW expression \in Expressions, NEW now \in 0 .. MaxTime
  PROVE  LET after == Remembered(table, next, context, target, expression, now)
         IN  /\ Kempt(after, IF \E r \in after : r.row = next THEN next + 1 ELSE next)
             /\ \A r \in ActiveRows(after) :
                  \/ r \in ActiveRows(table)
                  \/ r.context = context /\ r.target = target /\ r.expression = expression
<1> DEFINE live  == Expired(table, now)
           new   == [row |-> next, context |-> context, target |-> target,
                     expression |-> expression, lastUsed |-> now, expires |-> now + Ttl,
                     state |-> "active"]
           after == Remembered(table, next, context, target, expression, now)
<1>1. /\ Table(live)
      /\ Cardinality(live) <= Capacity + History
      /\ Cardinality(ActiveRows(live)) <= Capacity
      /\ \A r \in ActiveRows(live) : r \in ActiveRows(table)
      /\ {r.row : r \in live} \subseteq {r.row : r \in table}
  <2>1. now \in Int
    OBVIOUS
  <2>2. /\ Table(live)
        /\ Cardinality(live) <= Cardinality(table)
        /\ Cardinality(ActiveRows(live)) <= Cardinality(ActiveRows(table))
        /\ Cardinality(live) \in Nat /\ Cardinality(table) \in Nat
        /\ Cardinality(ActiveRows(live)) \in Nat /\ Cardinality(ActiveRows(table)) \in Nat
        /\ \A r \in ActiveRows(live) : r \in ActiveRows(table)
        /\ {r.row : r \in live} \subseteq {r.row : r \in table}
    BY <2>1, ExpiredTable DEF Kempt
  <2> HIDE DEF live
  <2>3. Cardinality(table) <= Capacity + History /\ Cardinality(ActiveRows(table)) <= Capacity
    BY DEF Kempt
  <2>4. Cardinality(live) <= Capacity + History /\ Cardinality(ActiveRows(live)) <= Capacity
    BY <2>2, <2>3, MemoryPolicyAssumption
  <2> QED BY <2>2, <2>4
<1>2. \A T : {r.row : r \in T} \subseteq {r.row : r \in table} => \A r \in T : r.row < next
  <2> SUFFICES ASSUME NEW T, {r.row : r \in T} \subseteq {r.row : r \in table}, NEW r \in T
               PROVE  r.row < next
    OBVIOUS
  <2>1. r.row \in {q.row : q \in T}
    OBVIOUS
  <2>2. r.row \in {q.row : q \in table}
    BY <2>1
  <2>3. \E q \in table : q.row = r.row
    BY <2>2
  <2> QED BY <2>3 DEF Kempt
<1> HIDE DEF live
<1>3. CASE Known(live, context, target, expression) # {}
  <2>1. after = live
    BY <1>3 DEF Remembered, live
  <2>2. \A r \in live : r.row < next
    BY <1>1, <1>2
  <2>3. ~ \E r \in live : r.row = next
    BY <2>2
  <2>4. Kempt(live, next)
    BY <1>1, <2>2 DEF Kempt
  <2> HIDE DEF after
  <2> QED BY <1>1, <2>1, <2>3, <2>4 DEF after
<1>4. CASE Known(live, context, target, expression) = {}
  <2> DEFINE room == Evicted(live)
             more == room \cup {new}
  <2>1. after = Trimmed(more)
    BY <1>4 DEF Remembered, live
  <2>2. /\ Table(room)
        /\ Cardinality(ActiveRows(room)) \in Nat
        /\ Cardinality(ActiveRows(room)) < Capacity
        /\ ActiveRows(room) \subseteq ActiveRows(live)
        /\ {r.row : r \in room} \subseteq {r.row : r \in live}
    BY <1>1, EvictedTable
  <2>3. \A r \in room : r.row < next
    <3>1. {r.row : r \in room} \subseteq {r.row : r \in table}
      BY <1>1, <2>2
    <3> HIDE DEF room
    <3> QED BY <1>2, <3>1
  <2> HIDE DEF room
  <2>4. new \in ActiveRow /\ new \notin room
    <3>1. now + Ttl \in Ttl .. MaxTime + Ttl
      BY MemoryPolicyAssumption, LearningServiceAssumption
    <3>2. new \in ActiveRow
      BY <3>1 DEF ActiveRow
    <3>3. new.row = next
      OBVIOUS
    <3> QED BY <2>3, <3>2, <3>3
  <2>5. new.row = next /\ new.state = "active" /\ new.context = context
        /\ new.target = target /\ new.expression = expression
    OBVIOUS
  <2> HIDE DEF new
  <2>6. ActiveRows(more) = ActiveRows(room) \cup {new}
    BY <2>5 DEF ActiveRows
  <2>7. \A r \in ActiveRows(room) : ~SameEntry(r, new)
    BY <1>4, <2>2, <2>5 DEF Known, SameEntry
  <2>8. Table(more)
    <3>1. IsFiniteSet(more)
      BY <2>2, FS_AddElement DEF Table
    <3>2. more \subseteq Row
      BY <2>2, <2>4 DEF Table, Row
    <3>3. \A r, q \in more : r.row = q.row => r = q
      <4>1. \A r \in room : r.row # new.row
        BY <2>2, <2>3, <2>5, RowTypes DEF Table
      <4>2. \A r, q \in room : r.row = q.row => r = q
        BY <2>2 DEF Table
      <4> QED BY <4>1, <4>2
    <3>4. \A r, q \in ActiveRows(more) : SameEntry(r, q) => r = q
      <4>1. \A r \in ActiveRows(room) : ~SameEntry(new, r)
        BY <2>7 DEF SameEntry
      <4>2. \A r, q \in ActiveRows(room) : SameEntry(r, q) => r = q
        BY <2>2 DEF Table
      <4> QED BY <2>6, <2>7, <4>1, <4>2
    <3> QED BY <3>1, <3>2, <3>3, <3>4 DEF Table
  <2>9. Cardinality(ActiveRows(more)) <= Capacity
    <3>1. IsFiniteSet(ActiveRows(room)) /\ new \notin ActiveRows(room)
      <4>1. IsFiniteSet(room) /\ ActiveRows(room) \in SUBSET room
        BY <2>2 DEF Table, ActiveRows
      <4> QED BY <2>4, <4>1, FS_Subset
    <3>2. Cardinality(ActiveRows(room) \cup {new}) = Cardinality(ActiveRows(room)) + 1
      BY <3>1, FS_AddElement
    <3>3. Cardinality(ActiveRows(more)) = Cardinality(ActiveRows(room)) + 1
      BY <2>6, <3>2
    <3> HIDE DEF more
    <3> QED BY <2>2, <3>3, MemoryPolicyAssumption
  <2> HIDE DEF more
  <2>10. /\ Table(Trimmed(more)) /\ Trimmed(more) \subseteq more
         /\ ActiveRows(Trimmed(more)) = ActiveRows(more)
         /\ Cardinality(Trimmed(more)) \in Nat /\ Cardinality(ActiveRows(more)) \in Nat
         /\ Cardinality(Trimmed(more)) <= Cardinality(ActiveRows(more)) + History
    BY <2>8, TrimmedTable
  <2>11. Cardinality(Trimmed(more)) <= Capacity + History
    BY <2>9, <2>10, MemoryPolicyAssumption
  <2>12. \E r \in Trimmed(more) : r.row = next
    BY <2>5, <2>6, <2>10 DEF ActiveRows
  <2>13. \A r \in Trimmed(more) : r.row < next + 1
    <3>1. \A r \in more : r.row < next + 1
      <4>1. \A r \in room : r.row \in Nat
        BY <2>2, RowTypes DEF Table
      <4>2. \A r \in room : r.row < next + 1
        BY <2>3, <4>1
      <4>3. new.row < next + 1
        BY <2>5
      <4> QED BY <4>2, <4>3 DEF more
    <3> QED BY <2>10, <3>1
  <2>14. Kempt(Trimmed(more), next + 1)
    BY <2>9, <2>10, <2>11, <2>13 DEF Kempt
  <2>15. \A r \in ActiveRows(Trimmed(more)) :
           \/ r \in ActiveRows(table)
           \/ r.context = context /\ r.target = target /\ r.expression = expression
    BY <1>1, <2>2, <2>5, <2>6, <2>10
  <2> HIDE DEF after
  <2> QED BY <2>1, <2>12, <2>14, <2>15 DEF after
<1> QED BY <1>3, <1>4

-----------------------------------------------------------------------------
(* The cache of answers.                                                   *)

Submissions == {q.submission : q \in Requests}

\* What the evidence of an answer may name.
Matchable ==
  (UNION {Round.targets[i].expressions : i \in DOMAIN Round.targets})
    \cup Texts \cup Expressions \cup {NoExpression}

Answers == [decision : {"accepted", "abstained", "rejected"},
            target : TargetIds \cup {NoTarget}, score : Nat,
            evidence : {"configured", "memory", "fuzzy", "ambiguous", "none"},
            matched : Matchable, issue : BOOLEAN]

Keys == Texts \X (Contexts \cup {NoContext}) \X SUBSET ((Nat \ {0}) \X TargetIds)

Entry == [key : Keys, age : Nat, answer : Answers]

\* validation_with_memory, of what the key of a cached answer says of the text
\* and the matches.
FromPairs(configured, text, pairs) ==
  LET targets == {p[2] : p \in pairs}
  IN  IF ~( /\ pairs # {}
            /\ ~configured.issue
            /\ ~(configured.evidence \in {"configured", "ambiguous"} /\ configured.score = 100))
      THEN configured
      ELSE IF Cardinality(targets) = 1
           THEN Answer("accepted", CHOOSE t \in targets : TRUE, 100, "memory",
                       Normalized[text])
           ELSE Answer("abstained", NoTarget, 100, "ambiguous", Normalized[text])

\* A cached answer is the verdict InvalidSubmission, or what its key gives to
\* every sender that is not itself invalid.
Holds(e) ==
  \/ e.answer.issue = TRUE /\ e.answer.evidence = "none"
  \/ \A s \in Submissions :
       s.text = e.key[1] /\ s.participant \notin BadParticipants =>
         e.answer = FromPairs(Configured[s], e.key[1], e.key[3])

CacheOK(entries) ==
  /\ entries \in Seq(Entry) /\ Len(entries) <= CacheCapacity
  /\ \A i, j \in DOMAIN entries : entries[i].key = entries[j].key => i = j
  /\ \A i \in DOMAIN entries : Holds(entries[i])

LEMMA KeptCache ==
  ASSUME NEW entries, CacheOK(entries), NEW P \in SUBSET DOMAIN entries
  PROVE  CacheOK(Kept(entries, P))
<1> DEFINE kept == Kept(entries, P)
<1>1. entries \in Seq(Entry) /\ Len(entries) \in Nat
  BY DEF CacheOK
<1>2. /\ Cardinality(P) \in Nat /\ Cardinality(P) <= Len(entries)
      /\ kept \in Seq(Entry)
      /\ Len(kept) = Cardinality(P)
      /\ \E f \in [1 .. Cardinality(P) -> P] :
           /\ \A i, j \in 1 .. Cardinality(P) : f[i] = f[j] => i = j
           /\ \A i \in 1 .. Cardinality(P) : kept[i] = entries[f[i]]
  BY <1>1, KeptEntries
<1> HIDE DEF kept
<1>3. PICK f \in [1 .. Cardinality(P) -> P] :
        /\ \A i, j \in 1 .. Cardinality(P) : f[i] = f[j] => i = j
        /\ \A i \in 1 .. Cardinality(P) : kept[i] = entries[f[i]]
  BY <1>2
<1>4. DOMAIN kept = 1 .. Cardinality(P) /\ \A i \in 1 .. Cardinality(P) : f[i] \in DOMAIN entries
  BY <1>2, <1>3
<1>5. Len(kept) <= CacheCapacity
  <2>1. Len(entries) <= CacheCapacity
    BY DEF CacheOK
  <2> QED BY <1>1, <1>2, <2>1, LearningServiceAssumption
<1>6. \A i, j \in DOMAIN kept : kept[i].key = kept[j].key => i = j
  <2> SUFFICES ASSUME NEW i \in DOMAIN kept, NEW j \in DOMAIN kept, kept[i].key = kept[j].key
               PROVE  i = j
    OBVIOUS
  <2>1. entries[f[i]].key = entries[f[j]].key
    BY <1>3, <1>4
  <2>2. f[i] = f[j]
    BY <1>4, <2>1 DEF CacheOK
  <2> QED BY <1>3, <1>4, <2>2
<1>7. \A i \in DOMAIN kept : Holds(kept[i])
  BY <1>3, <1>4 DEF CacheOK
<1>8. CacheOK(kept)
  BY <1>2, <1>5, <1>6, <1>7 DEF CacheOK
<1> QED BY <1>8 DEF kept

LEMMA PrunedCache ==
  ASSUME NEW entries, CacheOK(entries)
  PROVE  CacheOK(Pruned(entries))
<1>1. {i \in DOMAIN entries : entries[i].age < CacheTtl} \in SUBSET DOMAIN entries
  OBVIOUS
<1> QED BY <1>1, KeptCache DEF Pruned

\* What is kept of the entries at some positions is one of these entries.
LEMMA KeptFrom ==
  ASSUME NEW entries, CacheOK(entries), NEW P \in SUBSET DOMAIN entries
  PROVE  /\ Len(Kept(entries, P)) = Cardinality(P)
         /\ \A i \in DOMAIN Kept(entries, P) : \E j \in P : Kept(entries, P)[i] = entries[j]
<1>1. entries \in Seq(Entry)
  BY DEF CacheOK
<1>2. /\ Kept(entries, P) \in Seq(Entry)
      /\ Len(Kept(entries, P)) = Cardinality(P) /\ Cardinality(P) \in Nat
      /\ \E f \in [1 .. Cardinality(P) -> P] :
           \A i \in 1 .. Cardinality(P) : Kept(entries, P)[i] = entries[f[i]]
  BY <1>1, KeptEntries
<1> QED BY <1>2

LEMMA TouchedCache ==
  ASSUME NEW entries, CacheOK(entries), NEW key
  PROVE  CacheOK(Touched(entries, key))
<1> DEFINE C == Cached(entries, key)
           O == DOMAIN entries \ C
           a == Kept(entries, O)
           b == Kept(entries, C)
<1>1. C \in SUBSET DOMAIN entries /\ O \in SUBSET DOMAIN entries
  BY DEF Cached
<1>2. CacheOK(a) /\ CacheOK(b)
  BY <1>1, KeptCache
<1>3. /\ Len(a) = Cardinality(O) /\ Len(b) = Cardinality(C)
      /\ \A i \in DOMAIN a : \E j \in O : a[i] = entries[j]
      /\ \A i \in DOMAIN b : \E j \in C : b[i] = entries[j]
  <2> HIDE DEF C, O
  <2>1. Len(a) = Cardinality(O) /\ \A i \in DOMAIN a : \E j \in O : a[i] = entries[j]
    BY <1>1, KeptFrom
  <2>2. Len(b) = Cardinality(C) /\ \A i \in DOMAIN b : \E j \in C : b[i] = entries[j]
    BY <1>1, KeptFrom
  <2> QED BY <2>1, <2>2
<1>4. /\ \A i \in DOMAIN a : a[i].key # key
      /\ \A i \in DOMAIN b : b[i].key = key
  <2>1. (\A j \in O : entries[j].key # key) /\ (\A j \in C : entries[j].key = key)
    BY DEF Cached
  <2> HIDE DEF a, b, C, O
  <2> QED BY <1>3, <2>1
<1>5. Touched(entries, key) = a \o b
  BY DEF Touched, Others
<1>6. Len(a) + Len(b) <= CacheCapacity
  <2>1. entries \in Seq(Entry) /\ Len(entries) \in Nat /\ DOMAIN entries = 1 .. Len(entries)
    BY DEF CacheOK
  <2>2. IsFiniteSet(DOMAIN entries) /\ Cardinality(DOMAIN entries) = Len(entries)
    <3>1. \A m \in Nat : IsFiniteSet(1 .. m) /\ Cardinality(1 .. m) = IF 1 > m THEN 0 ELSE m - 1 + 1
      BY FS_Interval
    <3>2. \A m \in Nat : (IF 1 > m THEN 0 ELSE m - 1 + 1) = m
      OBVIOUS
    <3> QED BY <2>1, <3>1, <3>2
  <2> HIDE DEF C
  <2>3. /\ Cardinality(O) = Cardinality(DOMAIN entries) - Cardinality(DOMAIN entries \cap C)
    BY <2>2, FS_Difference
  <2>4. DOMAIN entries \cap C = C /\ IsFiniteSet(C)
    BY <1>1, <2>2, FS_Subset
  <2>5. Cardinality(C) \in Nat
    BY <2>4, FS_CardinalityType
  <2>6. Cardinality(O) = Len(entries) - Cardinality(C)
    BY <2>2, <2>3, <2>4
  <2>7. Len(entries) <= CacheCapacity
    BY DEF CacheOK
  <2> HIDE DEF O, a, b
  <2> QED BY <1>3, <2>1, <2>5, <2>6, <2>7, LearningServiceAssumption
<1> HIDE DEF a, b
<1>7. a \in Seq(Entry) /\ b \in Seq(Entry) /\ Len(a) \in Nat /\ Len(b) \in Nat
  BY <1>2 DEF CacheOK
<1>8. /\ a \o b \in Seq(Entry) /\ Len(a \o b) = Len(a) + Len(b)
      /\ \A i \in DOMAIN (a \o b) :
           \/ i \in DOMAIN a /\ (a \o b)[i] = a[i]
           \/ i - Len(a) \in DOMAIN b /\ (a \o b)[i] = b[i - Len(a)] /\ i \in Int
  BY <1>7
<1>9. \A i, j \in DOMAIN (a \o b) : (a \o b)[i].key = (a \o b)[j].key => i = j
  <2> SUFFICES ASSUME NEW i \in DOMAIN (a \o b), NEW j \in DOMAIN (a \o b),
                      (a \o b)[i].key = (a \o b)[j].key
               PROVE  i = j
    OBVIOUS
  <2>1. CASE i \in DOMAIN a /\ j \in DOMAIN a /\ (a \o b)[i] = a[i] /\ (a \o b)[j] = a[j]
    BY <1>2, <2>1 DEF CacheOK
  <2>2. CASE /\ i - Len(a) \in DOMAIN b /\ (a \o b)[i] = b[i - Len(a)] /\ i \in Int
             /\ j - Len(a) \in DOMAIN b /\ (a \o b)[j] = b[j - Len(a)] /\ j \in Int
    <3>1. i - Len(a) = j - Len(a)
      BY <1>2, <2>2 DEF CacheOK
    <3> QED BY <1>7, <2>2, <3>1
  <2> QED BY <1>4, <1>8, <2>1, <2>2
<1>10. \A i \in DOMAIN (a \o b) : Holds((a \o b)[i])
  BY <1>2, <1>8 DEF CacheOK
<1>11. Len(a \o b) <= CacheCapacity
  BY <1>6, <1>8
<1> QED BY <1>5, <1>8, <1>9, <1>10, <1>11 DEF CacheOK

LEMMA InsertedCache ==
  ASSUME NEW entries, CacheOK(entries), NEW key \in Keys, NEW answer \in Answers,
         Holds([key |-> key, age |-> 0, answer |-> answer])
  PROVE  CacheOK(Inserted(entries, key, answer))
<1> DEFINE O == DOMAIN entries \ Cached(entries, key)
           a == Kept(entries, O)
           e == [key |-> key, age |-> 0, answer |-> answer]
           longer == Append(a, e)
           first == Max({1, Len(longer) - CacheCapacity + 1})
<1>1. CASE CacheCapacity = 0
  BY <1>1 DEF Inserted
<1>2. CASE CacheCapacity # 0
  <2>1. Inserted(entries, key, answer) = SubSeq(longer, first, Len(longer))
    BY <1>2 DEF Inserted, Others
  <2>2. CacheOK(a)
    BY KeptCache
  <2>3. \A i \in DOMAIN a : a[i].key # key
    <3>1. \A i \in DOMAIN a : \E j \in O : a[i] = entries[j]
      BY KeptFrom
    <3> QED BY <3>1 DEF Cached
  <2>4. e \in Entry /\ e.key = key /\ Holds(e)
    BY DEF Entry
  <2> HIDE DEF a, e
  <2>5. a \in Seq(Entry) /\ Len(a) \in Nat /\ Len(a) <= CacheCapacity
    BY <2>2 DEF CacheOK
  <2>6. /\ longer \in Seq(Entry) /\ Len(longer) = Len(a) + 1
        /\ \A i \in DOMAIN longer :
             \/ i \in DOMAIN a /\ longer[i] = a[i]
             \/ i = Len(a) + 1 /\ longer[i] = e
    BY <2>4, <2>5
  <2>7. \A i, j \in DOMAIN longer : longer[i].key = longer[j].key => i = j
    <3>1. \A i, j \in DOMAIN a : a[i].key = a[j].key => i = j
      BY <2>2 DEF CacheOK
    <3> HIDE DEF longer
    <3> QED BY <2>3, <2>4, <2>6, <3>1
  <2>8. \A i \in DOMAIN longer : Holds(longer[i])
    BY <2>2, <2>4, <2>6 DEF CacheOK
  <2> HIDE DEF longer
  <2>9. first \in {1, 2} /\ Len(longer) - first + 1 <= CacheCapacity /\ first <= Len(longer)
    <3> DEFINE d == Len(longer) - CacheCapacity + 1
    <3>1. d \in Int /\ d <= 2
      BY <2>5, <2>6, LearningServiceAssumption
    <3>2. \E x \in {1, d} : \A y \in {1, d} : x >= y
      BY <3>1
    <3>3. first \in {1, d} /\ \A y \in {1, d} : first >= y
      BY <3>2 DEF Max
    <3> HIDE DEF first
    <3> QED BY <1>2, <2>5, <2>6, <3>1, <3>3, LearningServiceAssumption
  <2> HIDE DEF first
  <2> DEFINE kept == SubSeq(longer, first, Len(longer))
  <2>10. /\ kept \in Seq(Entry) /\ Len(kept) = Len(longer) - first + 1
         /\ \A i \in DOMAIN kept :
              i + first - 1 \in DOMAIN longer /\ kept[i] = longer[i + first - 1] /\ i \in Int
    BY <2>5, <2>6, <2>9
  <2> HIDE DEF kept
  <2>11. \A i, j \in DOMAIN kept : kept[i].key = kept[j].key => i = j
    <3> SUFFICES ASSUME NEW i \in DOMAIN kept, NEW j \in DOMAIN kept, kept[i].key = kept[j].key
                 PROVE  i = j
      OBVIOUS
    <3>1. i + first - 1 = j + first - 1
      BY <2>7, <2>10
    <3> QED BY <2>9, <2>10, <3>1
  <2>12. \A i \in DOMAIN kept : Holds(kept[i])
    BY <2>8, <2>10
  <2>13. CacheOK(kept)
    BY <2>9, <2>10, <2>11, <2>12 DEF CacheOK
  <2> QED BY <2>1, <2>13 DEF kept
<1> QED BY <1>1, <1>2

\* Time passes on every entry.
LEMMA AgedCache ==
  ASSUME NEW entries, CacheOK(entries)
  PROVE  CacheOK([i \in DOMAIN entries |->
                    [entries[i] EXCEPT !.age = IF @ < CacheTtl THEN @ + 1 ELSE @]])
<1> DEFINE aged == [i \in DOMAIN entries |->
                      [entries[i] EXCEPT !.age = IF @ < CacheTtl THEN @ + 1 ELSE @]]
<1>1. entries \in Seq(Entry) /\ Len(entries) \in Nat /\ DOMAIN entries = 1 .. Len(entries)
  BY DEF CacheOK
<1>2. \A i \in DOMAIN entries :
        /\ aged[i] \in Entry /\ aged[i].key = entries[i].key
        /\ aged[i].answer = entries[i].answer
  <2> SUFFICES ASSUME NEW i \in DOMAIN entries
               PROVE  /\ aged[i] \in Entry /\ aged[i].key = entries[i].key
                      /\ aged[i].answer = entries[i].answer
    OBVIOUS
  <2>1. entries[i] \in Entry
    BY <1>1
  <2> QED BY <2>1 DEF Entry
<1>3. DOMAIN aged = DOMAIN entries
  OBVIOUS
<1> HIDE DEF aged
<1>4. aged \in Seq(Entry) /\ Len(aged) = Len(entries)
  <2>1. aged \in [1 .. Len(entries) -> Entry]
    BY <1>1, <1>2, <1>3 DEF aged
  <2> QED BY <1>1, <2>1
<1>5. \A i \in DOMAIN entries : Holds(aged[i])
  BY <1>2 DEF CacheOK, Holds
<1>6. CacheOK(aged)
  BY <1>2, <1>3, <1>4, <1>5 DEF CacheOK
<1> QED BY <1>6 DEF aged

-----------------------------------------------------------------------------
(* The recogniser.                                                         *)

LEMMA RoundTypes ==
  /\ DOMAIN Round.targets = 1 .. Len(Round.targets) /\ Len(Round.targets) \in Nat \ {0}
  /\ Round.review \in Nat /\ Round.accept \in Nat /\ Round.margin \in Nat
  /\ \A i \in DOMAIN Round.targets : Round.targets[i].id \in TargetIds
<1>1. Round.targets \in Seq({Round.targets[i] : i \in DOMAIN Round.targets})
  BY RoundAssumption
<1> DEFINE T == {Round.targets[i] : i \in DOMAIN Round.targets}
<1> HIDE DEF T
<1>2. Round.targets \in Seq(T) /\ Round.targets # << >>
  BY <1>1, RoundAssumption DEF T
<1>3. DOMAIN Round.targets = 1 .. Len(Round.targets) /\ Len(Round.targets) \in Nat \ {0}
  BY <1>2
<1>4. Round.review \in Nat /\ Round.accept \in Nat /\ Round.margin \in Nat
  BY RoundAssumption
<1> QED BY <1>3, <1>4 DEF TargetIds

\* An image of a finite set is finite.
LEMMA FiniteImage ==
  ASSUME NEW S, IsFiniteSet(S), NEW f, DOMAIN f = S
  PROVE  IsFiniteSet({f[x] : x \in S})
<1>1. f \in Surjection(S, {f[x] : x \in S}) \/ [x \in S |-> f[x]] \in Surjection(S, {f[x] : x \in S})
  BY DEF Surjection
<1> QED BY <1>1, FS_Surjection

LEMMA ScoreTyped ==
  ASSUME NEW s \in Submissions, NEW i \in DOMAIN Round.targets
  PROVE  /\ Score(Round, s.text, i) \in Nat
         /\ Closest(Round, s.text, i) # {}
         /\ Closest(Round, s.text, i) \subseteq Round.targets[i].expressions
<1> DEFINE E == Round.targets[i].expressions
           f == [e \in E |-> Likeness[<<Form(s.text), Form(e)>>]]
           S == {f[e] : e \in E}
<1>1. PICK q \in Requests : s = q.submission
  BY DEF Submissions
<1>2. IsFiniteSet(E) /\ E # {} /\ \A e \in E : Likeness[<<Form(s.text), Form(e)>>] \in Nat
  BY <1>1, RoundAssumption
<1>3. Score(Round, s.text, i) = Max(S)
  BY DEF Score
<1>4. S \in SUBSET Nat /\ S # {}
  BY <1>2
<1>5. IsFiniteSet(S)
  <2>1. DOMAIN f = E
    OBVIOUS
  <2> HIDE DEF f, E
  <2> QED BY <1>2, <2>1, FiniteImage
<1> HIDE DEF S
<1>6. \E x \in S : \A y \in S : y <= x
  BY <1>4, <1>5, LargestNat
<1>7. \E x \in S : \A y \in S : x >= y
  BY <1>4, <1>6
<1>8. Max(S) \in S
  BY <1>7 DEF Max
<1>9. Score(Round, s.text, i) \in Nat
  BY <1>3, <1>4, <1>8
<1>10. \E e \in E : Likeness[<<Form(s.text), Form(e)>>] = Score(Round, s.text, i)
  BY <1>3, <1>8 DEF S
<1> QED BY <1>9, <1>10 DEF Closest

\* The sorted candidates begin with one of the best score.
LEMMA FirstIsBest ==
  ASSUME NEW round, NEW text, NEW n \in Nat, NEW C \in SUBSET (1 .. n), C # {},
         \A i \in C : Score(round, text, i) \in Nat
  PROVE  /\ FirstOf(round, text, C) \in C
         /\ \A j \in C : Score(round, text, j) <= Score(round, text, FirstOf(round, text, C))
<1> DEFINE f == [i \in C |-> Score(round, text, i)]
           S == {f[i] : i \in C}
<1>1. IsFiniteSet(C) /\ \A i \in C : i \in Nat /\ f[i] \in Nat
  <2>1. IsFiniteSet(1 .. n)
    BY FS_Interval
  <2>2. IsFiniteSet(C)
    BY <2>1, FS_Subset
  <2> QED BY <2>2
<1>2. IsFiniteSet(S) /\ S \in SUBSET Nat /\ S # {}
  <2>1. S \in SUBSET Nat /\ S # {}
    BY <1>1
  <2>2. DOMAIN f = C
    OBVIOUS
  <2> HIDE DEF f
  <2> QED BY <1>1, <2>1, <2>2, FiniteImage
<1>3. PICK k \in C : \A j \in C : f[j] <= f[k]
  <2>1. \E x \in S : \A y \in S : y <= x
    <3> HIDE DEF S
    <3> QED BY <1>2, LargestNat
  <2> HIDE DEF f
  <2> QED BY <2>1
<1> DEFINE B == {i \in C : f[i] = f[k]}
<1>4. PICK b \in B : \A j \in B : b <= j
  <2>1. B \in SUBSET Nat /\ B # {}
    BY <1>1, <1>3
  <2> HIDE DEF B
  <2> QED BY <2>1, LeastNat
<1>5. b \in C /\ \A j \in C \ {b} : f[b] > f[j] \/ (f[b] = f[j] /\ b < j)
  <2> SUFFICES ASSUME NEW j \in C, j # b
               PROVE  f[b] > f[j] \/ (f[b] = f[j] /\ b < j)
    BY <1>4
  <2>1. b \in C /\ f[b] = f[k] /\ f[j] <= f[k] /\ (f[j] = f[k] => b <= j)
    BY <1>3, <1>4
  <2>2. b \in Nat /\ j \in Nat /\ f[b] \in Nat /\ f[j] \in Nat
    BY <1>1, <2>1
  <2> HIDE DEF f
  <2> QED BY <2>1, <2>2
<1>6. \E i \in C : \A j \in C \ {i} : Before(round, text, i, j)
  BY <1>5 DEF Before
<1> DEFINE w == FirstOf(round, text, C)
<1>7. w \in C /\ \A j \in C \ {w} : Before(round, text, w, j)
  BY <1>6 DEF FirstOf
<1> HIDE DEF w
<1>8. \A j \in C : Score(round, text, j) <= Score(round, text, w)
  <2> SUFFICES ASSUME NEW j \in C PROVE Score(round, text, j) <= Score(round, text, w)
    OBVIOUS
  <2>1. Score(round, text, j) \in Nat /\ Score(round, text, w) \in Nat
    BY <1>7
  <2>2. CASE j = w
    BY <2>1, <2>2
  <2>3. CASE j # w
    BY <1>7, <2>1, <2>3 DEF Before
  <2> QED BY <2>2, <2>3
<1> QED BY <1>7, <1>8 DEF w

LEMMA LargestMember ==
  ASSUME NEW S \in SUBSET Nat, IsFiniteSet(S), S # {}
  PROVE  Max(S) \in S
<1>1. \E x \in S : \A y \in S : y <= x
  BY LargestNat
<1>2. \E x \in S : \A y \in S : x >= y
  BY <1>1
<1> QED BY <1>2 DEF Max

\* What an answer may name as the expression that matched.
LEMMA MatchableHas ==
  /\ NoExpression \in Matchable
  /\ Expressions \subseteq Matchable
  /\ \A s \in Submissions : s.text \in Matchable
  /\ \A i \in DOMAIN Round.targets : Round.targets[i].expressions \subseteq Matchable
<1> DEFINE named == UNION {Round.targets[i].expressions : i \in DOMAIN Round.targets}
<1>1. Matchable = named \cup Texts \cup Expressions \cup {NoExpression}
  BY DEF Matchable
<1>2. \A i \in DOMAIN Round.targets : Round.targets[i].expressions \subseteq named
  OBVIOUS
<1> HIDE DEF named
<1>3. \A s \in Submissions : s.text \in Texts
  BY DEF Submissions, Texts
<1> QED BY <1>1, <1>2, <1>3

\* What the answers without memory are like: an issue has no evidence, and
\* an exact answer its own.
LEMMA ValidateTyped ==
  ASSUME NEW s \in Submissions
  PROVE  /\ Validate(Round, s) \in Answers
         /\ Issue(s) => Validate(Round, s).issue = TRUE /\ Validate(Round, s).evidence = "none"
         /\ ~Issue(s) => /\ Validate(Round, s).issue = FALSE
                         /\ Validate(Round, s).evidence # "memory"
         /\ ~Issue(s) /\ ExactMatches(Round, s.text) # {} =>
              /\ Validate(Round, s).evidence \in {"configured", "ambiguous"}
              /\ Validate(Round, s).score = 100
<1> DEFINE n     == Len(Round.targets)
           exact == ExactMatches(Round, s.text)
<1>1. n \in Nat \ {0} /\ DOMAIN Round.targets = 1 .. n
      /\ \A i \in 1 .. n : Round.targets[i].id \in TargetIds /\ Score(Round, s.text, i) \in Nat
  BY RoundTypes, ScoreTyped
<1> HIDE DEF n
<1>2. CASE Issue(s)
  BY <1>2, MatchableHas DEF Validate, Rejected, Answer, Answers
<1>3. CASE ~Issue(s) /\ exact # {}
  <2>1. exact \in SUBSET (1 .. n)
    BY <1>1 DEF ExactMatches
  <2> HIDE DEF exact
  <2>2. exact \in SUBSET Nat /\ IsFiniteSet(exact)
    <3>1. IsFiniteSet(1 .. n)
      BY <1>1, FS_Interval
    <3>2. IsFiniteSet(exact)
      BY <2>1, <3>1, FS_Subset
    <3>3. exact \in SUBSET Nat
      BY <1>1, <2>1
    <3> QED BY <3>2, <3>3
  <2>3. Max(exact) \in 1 .. n
    BY <1>3, <2>1, <2>2, LargestMember
  <2> DEFINE target == Round.targets[Max(exact)]
             e      == CHOOSE e \in Equals(target, s.text) : TRUE
  <2>4. Validate(Round, s) = IF Cardinality(exact) = 1
                             THEN Answer("accepted", target.id, 100, "configured", e)
                             ELSE Answer("abstained", NoTarget, 100, "ambiguous", s.text)
    BY <1>3 DEF Validate, exact
  <2>5. target.id \in TargetIds
    BY <1>1, <2>3
  <2>8. e \in Matchable /\ s.text \in Matchable
    <3>1. Max(exact) \in exact
      BY <1>3, <2>2, LargestMember
    <3>2. Equals(target, s.text) # {} /\ Equals(target, s.text) \subseteq target.expressions
      BY <3>1 DEF exact, ExactMatches, Equals
    <3>3. e \in target.expressions
      BY <3>2
    <3>4. target.expressions \subseteq Matchable
      BY <1>1, <2>3, MatchableHas
    <3>5. s.text \in Matchable
      BY MatchableHas
    <3> QED BY <3>3, <3>4, <3>5
  <2> HIDE DEF target, e
  <2>6. CASE Cardinality(exact) = 1
    BY <1>3, <2>4, <2>5, <2>6, <2>8 DEF Answer, Answers
  <2>7. CASE Cardinality(exact) # 1
    BY <1>3, <2>4, <2>7, <2>8 DEF Answer, Answers
  <2> QED BY <2>6, <2>7
<1>4. CASE ~Issue(s) /\ exact = {}
  <2> DEFINE best   == FirstOf(Round, s.text, 1 .. n)
             score  == Score(Round, s.text, best)
             unsure == Ambiguous(Round, s.text, best, (1 .. n) \ {best})
             m      == CHOOSE x \in Closest(Round, s.text, best) : TRUE
  <2>1. Validate(Round, s) =
          IF Form(s.text) \in Short THEN Rejected(0)
          ELSE IF score < Round.review THEN Rejected(score)
          ELSE Answer(IF score >= Round.accept /\ ~unsure THEN "accepted" ELSE "abstained",
                      IF unsure THEN NoTarget ELSE Round.targets[best].id,
                      score, IF unsure THEN "ambiguous" ELSE "fuzzy", m)
    BY <1>1, <1>4 DEF Validate, ValidateFuzzy
  <2>2. best \in 1 .. n
    <3>1. 1 \in 1 .. n
      BY <1>1
    <3> QED BY <1>1, <3>1, FirstIsBest
  <2>3. score \in Nat /\ Round.targets[best].id \in TargetIds
    BY <1>1, <2>2
  <2>5. m \in Matchable
    <3>1. Closest(Round, s.text, best) # {}
          /\ Closest(Round, s.text, best) \subseteq Round.targets[best].expressions
      BY <1>1, <2>2, ScoreTyped
    <3>2. Round.targets[best].expressions \subseteq Matchable
      BY <1>1, <2>2, MatchableHas
    <3> HIDE DEF best
    <3> QED BY <3>1, <3>2
  <2> HIDE DEF score, unsure, best, exact, m
  <2>4. \E a \in Answers : /\ Validate(Round, s) = a /\ a.issue = FALSE
                          /\ a.evidence \in {"none", "ambiguous", "fuzzy"}
    <3>1. CASE Form(s.text) \in Short
      <4>1. Rejected(0) \in Answers /\ Rejected(0).issue = FALSE /\ Rejected(0).evidence = "none"
        BY MatchableHas DEF Rejected, Answer, Answers
      <4> QED BY <2>1, <3>1, <4>1
    <3>2. CASE ~(Form(s.text) \in Short) /\ score < Round.review
      <4>1. Rejected(score) \in Answers /\ Rejected(score).issue = FALSE
            /\ Rejected(score).evidence = "none"
        BY <2>3, MatchableHas DEF Rejected, Answer, Answers
      <4> QED BY <2>1, <3>2, <4>1
    <3>3. CASE ~(Form(s.text) \in Short) /\ ~(score < Round.review)
      <4> DEFINE d == IF score >= Round.accept /\ ~unsure THEN "accepted" ELSE "abstained"
                 t == IF unsure THEN NoTarget ELSE Round.targets[best].id
                 e == IF unsure THEN "ambiguous" ELSE "fuzzy"
      <4>1. d \in {"accepted", "abstained"} /\ t \in TargetIds \cup {NoTarget}
            /\ e \in {"ambiguous", "fuzzy"}
        BY <2>3
      <4>2. Validate(Round, s) = Answer(d, t, score, e, m)
        BY <2>1, <3>3
      <4> HIDE DEF d, t, e
      <4>3. Answer(d, t, score, e, m) \in Answers
            /\ Answer(d, t, score, e, m).issue = FALSE
            /\ Answer(d, t, score, e, m).evidence = e
        BY <2>3, <2>5, <4>1 DEF Answer, Answers
      <4> QED BY <4>1, <4>2, <4>3
    <3> QED BY <3>1, <3>2, <3>3
  <2> QED BY <1>4, <2>4 DEF exact
<1> QED BY <1>2, <1>3, <1>4

\* The answers without memory are about the text alone, for valid senders.
LEMMA SameText ==
  ASSUME NEW s \in Submissions, NEW u \in Submissions, s.text = u.text,
         s.participant \notin BadParticipants, u.participant \notin BadParticipants
  PROVE  Validate(Round, s) = Validate(Round, u)
BY DEF Validate, Issue

LEMMA ConfiguredIs ==
  /\ DOMAIN Configured = Submissions
  /\ \A s \in Submissions : Configured[s] = Validate(Round, s)
BY DEF Configured, Submissions

\* The key of an answer says enough of the matches.
LEMMA MemoryFromPairs ==
  ASSUME NEW configured, NEW text, NEW matches,
         \A r \in matches : r.expression = Normalized[text]
  PROVE  ValidationWithMemory(configured, matches)
           = FromPairs(configured, text, {<<r.row, r.target>> : r \in matches})
<1> DEFINE pairs == {<<r.row, r.target>> : r \in matches}
<1>1. pairs = {} <=> matches = {}
  OBVIOUS
<1> DEFINE ofPairs   == {p[2] : p \in pairs}
           ofMatches == {r.target : r \in matches}
<1>2. ofPairs = ofMatches
  <2>1. \A p \in pairs : \E r \in matches : p[2] = r.target
    OBVIOUS
  <2>2. \A r \in matches : <<r.row, r.target>> \in pairs /\ <<r.row, r.target>>[2] = r.target
    OBVIOUS
  <2> HIDE DEF pairs
  <2>3. ofPairs \subseteq ofMatches
    BY <2>1
  <2>4. ofMatches \subseteq ofPairs
    <3> SUFFICES ASSUME NEW r \in matches PROVE r.target \in ofPairs
      OBVIOUS
    <3> QED BY <2>2
  <2> QED BY <2>3, <2>4
<1> HIDE DEF pairs
<1> DEFINE applies == ~configured.issue /\ ~( /\ configured.evidence \in {"configured", "ambiguous"}
                                            /\ configured.score = 100)
<1>3. ValidationWithMemory(configured, matches) = FromPairs(configured, text, pairs)
  <2>1. CASE matches = {} \/ ~applies
    <3>1. ValidationWithMemory(configured, matches) = configured
      BY <2>1 DEF ValidationWithMemory, MemoryApplies
    <3>2. FromPairs(configured, text, pairs) = configured
      BY <1>1, <2>1 DEF FromPairs
    <3> QED BY <3>1, <3>2
  <2>2. CASE matches # {} /\ applies
    <3>1. MemoryApplies(configured, matches)
      BY <2>2 DEF MemoryApplies
    <3> DEFINE named == {r.expression : r \in matches}
    <3>2. ValidationWithMemory(configured, matches)
            = IF Cardinality(ofMatches) = 1
              THEN Answer("accepted", CHOOSE t \in ofMatches : TRUE, 100, "memory",
                          CHOOSE e \in named : TRUE)
              ELSE Answer("abstained", NoTarget, 100, "ambiguous", CHOOSE e \in named : TRUE)
      BY <3>1 DEF ValidationWithMemory
    <3>3. FromPairs(configured, text, pairs)
            = IF Cardinality(ofPairs) = 1
              THEN Answer("accepted", CHOOSE t \in ofPairs : TRUE, 100, "memory", Normalized[text])
              ELSE Answer("abstained", NoTarget, 100, "ambiguous", Normalized[text])
      BY <1>1, <2>2 DEF FromPairs
    <3>4. named = {Normalized[text]}
      BY <2>2
    <3>5. (CHOOSE e \in named : TRUE) = Normalized[text]
      <4> HIDE DEF named
      <4> QED BY <3>4
    <3> HIDE DEF ofPairs, ofMatches, named
    <3> QED BY <1>2, <3>2, <3>3, <3>5
  <2> QED BY <2>1, <2>2
<1> QED BY <1>3 DEF pairs

-----------------------------------------------------------------------------
(* The order of the targets.                                               *)

Reversed == [Round EXCEPT !.targets = Reverse(@)]

Mirror(i) == Len(Round.targets) + 1 - i

LEMMA ReversedRound ==
  /\ Reversed.review = Round.review /\ Reversed.accept = Round.accept
  /\ Reversed.margin = Round.margin
  /\ DOMAIN Reversed.targets = DOMAIN Round.targets
  /\ \A i \in DOMAIN Round.targets :
       /\ Mirror(i) \in DOMAIN Round.targets /\ Mirror(Mirror(i)) = i
       /\ Reversed.targets[i] = Round.targets[Mirror(i)]
<1> DEFINE n == Len(Round.targets)
<1>1. n \in Nat /\ DOMAIN Round.targets = 1 .. n
  BY RoundTypes
<1>2. Reversed.targets = [i \in 1 .. n |-> Round.targets[(n - i) + 1]]
  BY RoundAssumption DEF Reversed, Reverse
<1>3. Reversed.review = Round.review /\ Reversed.accept = Round.accept
      /\ Reversed.margin = Round.margin
  BY RoundAssumption DEF Reversed
<1> HIDE DEF n
<1>4. \A i \in 1 .. n : (n - i) + 1 = n + 1 - i /\ n + 1 - i \in 1 .. n /\ n + 1 - (n + 1 - i) = i
  BY <1>1
<1>5. \A i : Mirror(i) = n + 1 - i
  BY DEF Mirror, n
<1> QED BY <1>1, <1>2, <1>3, <1>4, <1>5

LEMMA ReversedScores ==
  ASSUME NEW text, NEW i \in DOMAIN Round.targets
  PROVE  /\ Score(Reversed, text, i) = Score(Round, text, Mirror(i))
         /\ Score(Reversed, text, Mirror(i)) = Score(Round, text, i)
<1>1. Reversed.targets[i] = Round.targets[Mirror(i)] /\ Reversed.targets[Mirror(i)] = Round.targets[i]
  BY ReversedRound
<1> QED BY <1>1 DEF Score

\* The exact matches are the same targets.
LEMMA ReversedExact ==
  ASSUME NEW text
  PROVE  /\ IsFiniteSet(ExactMatches(Round, text))
         /\ ExactMatches(Reversed, text) = {Mirror(i) : i \in ExactMatches(Round, text)}
         /\ Cardinality(ExactMatches(Reversed, text)) = Cardinality(ExactMatches(Round, text))
<1> DEFINE E == ExactMatches(Round, text)
           f == [i \in E |-> Mirror(i)]
           M == {Mirror(i) : i \in E}
<1>1. E \subseteq DOMAIN Round.targets
  BY DEF ExactMatches
<1>2. IsFiniteSet(E)
  <2>1. IsFiniteSet(DOMAIN Round.targets)
    BY RoundTypes, FS_Interval
  <2> HIDE DEF E
  <2> QED BY <1>1, <2>1, FS_Subset
<1>3. \A i \in DOMAIN Round.targets :
        i \in ExactMatches(Reversed, text) <=> Mirror(i) \in E
  BY ReversedRound DEF ExactMatches
<1>4. ExactMatches(Reversed, text) \subseteq DOMAIN Round.targets
  BY ReversedRound DEF ExactMatches
<1> HIDE DEF E
<1>5. ExactMatches(Reversed, text) = M
  <2>1. ASSUME NEW i \in ExactMatches(Reversed, text) PROVE i \in M
    <3>1. Mirror(i) \in E /\ Mirror(Mirror(i)) = i
      BY <1>3, <1>4, ReversedRound
    <3> QED BY <3>1
  <2>2. ASSUME NEW i \in E PROVE Mirror(i) \in ExactMatches(Reversed, text)
    <3>1. Mirror(i) \in DOMAIN Round.targets /\ Mirror(Mirror(i)) = i
      BY <1>1, ReversedRound
    <3> QED BY <1>3, <3>1
  <2> QED BY <2>1, <2>2
<1>6. f \in Bijection(E, M)
  <2>1. f \in Surjection(E, M)
    BY DEF Surjection
  <2>2. \A i, j \in E : f[i] = f[j] => i = j
    <3> SUFFICES ASSUME NEW i \in E, NEW j \in E, Mirror(i) = Mirror(j)
                 PROVE  i = j
      OBVIOUS
    <3>1. Mirror(Mirror(i)) = i /\ Mirror(Mirror(j)) = j
      BY <1>1, ReversedRound
    <3> QED BY <3>1
  <2> QED BY <2>1, <2>2 DEF Bijection, Injection, Surjection, IsInjective
<1>7. Cardinality(M) = Cardinality(E)
  <2>1. ExistsBijection(E, M)
    BY <1>6 DEF ExistsBijection
  <2> HIDE DEF M, f
  <2> QED BY <1>2, <2>1, FS_Bijection
<1> QED BY <1>2, <1>5, <1>7 DEF E

\* Two answers with the same verdict, which name the same expression unless
\* it was ambiguous.
Alike(a, b) ==
  /\ Projection(a) = Projection(b)
  /\ a.matched = b.matched \/ a.evidence = "ambiguous"

LEMMA AlikeItself ==
  ASSUME NEW a
  PROVE  Alike(a, a)
BY DEF Alike

LEMMA AlikeUnsure ==
  ASSUME NEW score, NEW x, NEW y
  PROVE  Alike(Answer("abstained", NoTarget, score, "ambiguous", x),
               Answer("abstained", NoTarget, score, "ambiguous", y))
BY DEF Alike, Answer, Projection

\* With a margin, a round and its reverse find like answers by likeness:
\* where two targets tie, neither is accepted.
LEMMA ReversedFuzzy ==
  ASSUME NEW s \in Submissions, Round.margin > 0
  PROVE  Alike(ValidateFuzzy(Round, s.text), ValidateFuzzy(Reversed, s.text))
<1> DEFINE D    == DOMAIN Round.targets
           S(i) == Score(Round, s.text, i)
           R(i) == Score(Reversed, s.text, i)
           b    == FirstOf(Round, s.text, D)
           c    == FirstOf(Reversed, s.text, D)
<1>1. \A i \in D : /\ Mirror(i) \in D /\ Mirror(Mirror(i)) = i
                   /\ R(i) = S(Mirror(i)) /\ R(Mirror(i)) = S(i)
                   /\ S(i) \in Nat /\ R(i) \in Nat
  <2> SUFFICES ASSUME NEW i \in D
               PROVE  /\ Mirror(i) \in D /\ Mirror(Mirror(i)) = i
                      /\ R(i) = S(Mirror(i)) /\ R(Mirror(i)) = S(i)
                      /\ S(i) \in Nat /\ R(i) \in Nat
    OBVIOUS
  <2>1. Mirror(i) \in D /\ Mirror(Mirror(i)) = i
    BY ReversedRound
  <2>2. R(i) = S(Mirror(i)) /\ R(Mirror(i)) = S(i)
    BY ReversedScores
  <2>3. S(i) \in Nat /\ S(Mirror(i)) \in Nat
    BY <2>1, ScoreTyped
  <2> QED BY <2>1, <2>2, <2>3
<1>2. PICK n \in Nat \ {0} : D = 1 .. n
  BY RoundTypes
<1>3. D # {} /\ D \in SUBSET (1 .. n)
  <2>1. 1 \in 1 .. n
    BY <1>2
  <2> QED BY <1>2, <2>1
<1>4. \A C \in SUBSET D : C # {} =>
        /\ FirstOf(Round, s.text, C) \in C
        /\ \A j \in C : S(j) <= S(FirstOf(Round, s.text, C))
        /\ FirstOf(Reversed, s.text, C) \in C
        /\ \A j \in C : R(j) <= R(FirstOf(Reversed, s.text, C))
  <2> SUFFICES ASSUME NEW C \in SUBSET D, C # {}
               PROVE  /\ FirstOf(Round, s.text, C) \in C
                      /\ \A j \in C : S(j) <= S(FirstOf(Round, s.text, C))
                      /\ FirstOf(Reversed, s.text, C) \in C
                      /\ \A j \in C : R(j) <= R(FirstOf(Reversed, s.text, C))
    OBVIOUS
  <2>1. C \in SUBSET (1 .. n) /\ n \in Nat
    BY <1>2, <1>3
  <2>2. \A i \in C : Score(Round, s.text, i) \in Nat /\ Score(Reversed, s.text, i) \in Nat
    BY <1>1
  <2> HIDE DEF D, S, R
  <2>3. /\ FirstOf(Round, s.text, C) \in C
        /\ \A j \in C : Score(Round, s.text, j) <= Score(Round, s.text, FirstOf(Round, s.text, C))
    BY <2>1, <2>2, FirstIsBest
  <2>4. /\ FirstOf(Reversed, s.text, C) \in C
        /\ \A j \in C : Score(Reversed, s.text, j) <= Score(Reversed, s.text, FirstOf(Reversed, s.text, C))
    BY <2>1, <2>2, FirstIsBest
  <2> QED BY <2>3, <2>4 DEF S, R
<1>5. Round.review \in Nat /\ Round.margin \in Nat
  BY RoundTypes
<1> DEFINE unsure == Ambiguous(Round, s.text, b, D \ {b})
           doubt  == Ambiguous(Reversed, s.text, c, D \ {c})
           ru     == FirstOf(Round, s.text, D \ {b})
           rd     == FirstOf(Reversed, s.text, D \ {c})
           mb     == CHOOSE x \in Closest(Round, s.text, b) : TRUE
           mc     == CHOOSE x \in Closest(Reversed, s.text, c) : TRUE
<1>6. /\ ValidateFuzzy(Round, s.text) =
           IF Form(s.text) \in Short THEN Rejected(0)
           ELSE IF S(b) < Round.review THEN Rejected(S(b))
           ELSE Answer(IF S(b) >= Round.accept /\ ~unsure THEN "accepted" ELSE "abstained",
                       IF unsure THEN NoTarget ELSE Round.targets[b].id,
                       S(b), IF unsure THEN "ambiguous" ELSE "fuzzy", mb)
      /\ ValidateFuzzy(Reversed, s.text) =
           IF Form(s.text) \in Short THEN Rejected(0)
           ELSE IF R(c) < Round.review THEN Rejected(R(c))
           ELSE Answer(IF R(c) >= Round.accept /\ ~doubt THEN "accepted" ELSE "abstained",
                       IF doubt THEN NoTarget ELSE Reversed.targets[c].id,
                       R(c), IF doubt THEN "ambiguous" ELSE "fuzzy", mc)
  BY ReversedRound DEF ValidateFuzzy
<1>7. /\ unsure <=> /\ D \ {b} # {} /\ S(ru) >= Round.review /\ S(b) - S(ru) < Round.margin
      /\ doubt <=> /\ D \ {c} # {} /\ R(rd) >= Round.review /\ R(c) - R(rd) < Round.margin
  BY ReversedRound DEF Ambiguous
<1>8. /\ b \in D /\ c \in D /\ \A j \in D : S(j) <= S(b) /\ R(j) <= R(c)
      /\ D \ {b} # {} => ru \in D \ {b} /\ \A j \in D \ {b} : S(j) <= S(ru)
      /\ D \ {c} # {} => rd \in D \ {c} /\ \A j \in D \ {c} : R(j) <= R(rd)
  <2>1. D \in SUBSET D /\ D \ {b} \in SUBSET D /\ D \ {c} \in SUBSET D
    OBVIOUS
  <2> HIDE DEF D, S, R
  <2> QED BY <1>3, <1>4, <2>1
<1>9. \A i \in D : Reversed.targets[i] = Round.targets[Mirror(i)]
  BY ReversedRound
<1>13. \A i \in D : R(c) = S(i) /\ Reversed.targets[c] = Round.targets[i]
         => Closest(Reversed, s.text, c) = Closest(Round, s.text, i)
  BY DEF Closest
<1> HIDE DEF D, S, R, b, c, ru, rd, unsure, doubt, mb, mc
<1>10. S(b) = R(c)
  <2>1. S(b) \in Nat /\ R(c) \in Nat /\ R(Mirror(b)) = S(b) /\ S(Mirror(c)) = R(c)
        /\ Mirror(b) \in D /\ Mirror(c) \in D
    BY <1>1, <1>8
  <2>2. R(Mirror(b)) <= R(c) /\ S(Mirror(c)) <= S(b)
    BY <1>8, <2>1
  <2> QED BY <2>1, <2>2
<1>11. CASE S(b) < Round.review
  <2>1. ValidateFuzzy(Round, s.text) = ValidateFuzzy(Reversed, s.text)
    BY <1>6, <1>10, <1>11
  <2> QED BY <2>1, AlikeItself
<1>14. CASE Form(s.text) \in Short
  <2>1. ValidateFuzzy(Round, s.text) = ValidateFuzzy(Reversed, s.text)
    BY <1>6, <1>14
  <2> QED BY <2>1, AlikeItself
<1>15. ASSUME unsure, doubt, ~(S(b) < Round.review), ~(Form(s.text) \in Short)
       PROVE  Alike(ValidateFuzzy(Round, s.text), ValidateFuzzy(Reversed, s.text))
  <2>1. /\ ValidateFuzzy(Round, s.text) = Answer("abstained", NoTarget, S(b), "ambiguous", mb)
        /\ ValidateFuzzy(Reversed, s.text) = Answer("abstained", NoTarget, S(b), "ambiguous", mc)
    BY <1>6, <1>10, <1>15
  <2> QED BY <2>1, AlikeUnsure
<1>12. CASE ~(S(b) < Round.review) /\ ~(Form(s.text) \in Short)
  <2>1. S(b) \in Nat /\ R(c) \in Nat /\ S(b) >= Round.review
    BY <1>1, <1>5, <1>8, <1>12
  <2>2. CASE \E j \in D \ {b} : S(j) = S(b)
    <3>1. PICK j \in D \ {b} : S(j) = S(b)
      BY <2>2
    <3>2. ru \in D /\ S(ru) \in Nat /\ S(ru) = S(b)
      <4>1. ru \in D \ {b} /\ S(j) <= S(ru)
        BY <1>8, <3>1
      <4>2. S(ru) <= S(b) /\ S(ru) \in Nat
        BY <1>1, <1>8, <4>1
      <4> QED BY <2>1, <3>1, <4>1, <4>2
    <3>3. unsure
      BY <1>5, <1>7, <2>1, <3>1, <3>2
    <3>4. \E k \in D \ {c} : R(k) = R(c)
      <4>1. /\ Mirror(b) \in D /\ R(Mirror(b)) = R(c)
            /\ Mirror(j) \in D /\ R(Mirror(j)) = R(c)
            /\ Mirror(b) # Mirror(j)
        BY <1>1, <1>8, <1>10, <3>1
      <4> QED BY <4>1
    <3>5. PICK k \in D \ {c} : R(k) = R(c)
      BY <3>4
    <3>6. rd \in D /\ R(rd) \in Nat /\ R(rd) = R(c)
      <4>1. rd \in D \ {c} /\ R(k) <= R(rd)
        BY <1>8, <3>5
      <4>2. R(rd) <= R(c) /\ R(rd) \in Nat
        BY <1>1, <1>8, <4>1
      <4> QED BY <2>1, <3>5, <4>1, <4>2
    <3>7. doubt
      BY <1>5, <1>7, <1>10, <2>1, <3>5, <3>6
    <3> QED BY <1>12, <1>15, <3>3, <3>7
  <2>3. CASE ~ \E j \in D \ {b} : S(j) = S(b)
    <3>1. b = Mirror(c) /\ c = Mirror(b)
      <4>1. Mirror(c) \in D /\ S(Mirror(c)) = S(b) /\ Mirror(Mirror(c)) = c
        BY <1>1, <1>8, <1>10
      <4> QED BY <2>3, <4>1
    <3>2. Reversed.targets[c] = Round.targets[b]
      BY <1>8, <1>9, <3>1
    <3>3. /\ D \ {b} = {} <=> D \ {c} = {}
          /\ D \ {b} # {} => S(ru) = R(rd)
      <4>1. \A i \in D \ {b} : Mirror(i) \in D \ {c} /\ R(Mirror(i)) = S(i)
        BY <1>1, <1>8, <3>1
      <4>2. \A i \in D \ {c} : Mirror(i) \in D \ {b} /\ S(Mirror(i)) = R(i)
        BY <1>1, <1>8, <3>1
      <4>3. ASSUME D \ {b} # {}, D \ {c} # {} PROVE S(ru) = R(rd)
        <5>1. ru \in D \ {b} /\ rd \in D \ {c}
          BY <1>8, <4>3
        <5>2. S(ru) <= R(rd) /\ R(rd) <= S(ru)
          BY <1>8, <4>1, <4>2, <5>1
        <5>3. S(ru) \in Nat /\ R(rd) \in Nat
          BY <1>1, <5>1
        <5> QED BY <5>2, <5>3
      <4>4. D \ {b} = {} <=> D \ {c} = {}
        BY <4>1, <4>2
      <4> QED BY <4>3, <4>4
    <3>4. unsure <=> doubt
      BY <1>7, <1>10, <3>3
    <3>5. CASE unsure
      BY <1>12, <1>15, <3>4, <3>5
    <3>6. CASE ~unsure
      <4>1. Reversed.targets[c].id = Round.targets[b].id
        BY <3>2
      <4>2. ~(R(c) < Round.review)
        BY <1>10, <1>12
      <4>3. mb = mc
        <5>1. Closest(Reversed, s.text, c) = Closest(Round, s.text, b)
          BY <1>8, <1>10, <1>13, <3>2
        <5> QED BY <5>1 DEF mb, mc
      <4>4. ValidateFuzzy(Round, s.text)
              = Answer(IF S(b) >= Round.accept THEN "accepted" ELSE "abstained",
                       Round.targets[b].id, S(b), "fuzzy", mb)
        BY <1>6, <1>12, <3>6
      <4>5. ~doubt
        BY <3>4, <3>6
      <4>6. ValidateFuzzy(Reversed, s.text)
              = Answer(IF R(c) >= Round.accept THEN "accepted" ELSE "abstained",
                       Reversed.targets[c].id, R(c), "fuzzy", mc)
        BY <1>6, <1>12, <4>2, <4>5
      <4>7. ValidateFuzzy(Reversed, s.text) = ValidateFuzzy(Round, s.text)
        BY <1>10, <4>1, <4>3, <4>4, <4>6
      <4> QED BY <4>7, AlikeItself
    <3> QED BY <3>5, <3>6
  <2> QED BY <2>2, <2>3
<1> QED BY <1>11, <1>12, <1>14

\* With a margin, the order of the targets decides no verdict.
LEMMA ReversedAnswer ==
  ASSUME NEW s \in Submissions, Round.margin > 0
  PROVE  Alike(Validate(Round, s), Validate(Reversed, s))
<1> DEFINE E == ExactMatches(Round, s.text)
           F == ExactMatches(Reversed, s.text)
<1>1. /\ IsFiniteSet(E) /\ F = {Mirror(i) : i \in E} /\ Cardinality(F) = Cardinality(E)
      /\ E \subseteq DOMAIN Round.targets
  BY ReversedExact DEF ExactMatches
<1>2. Alike(ValidateFuzzy(Round, s.text), ValidateFuzzy(Reversed, s.text))
  BY ReversedFuzzy
<1>3. E = {} <=> F = {}
  <2> HIDE DEF E, F
  <2> QED BY <1>1
<1>4. CASE Issue(s)
  <2>1. Validate(Reversed, s) = Validate(Round, s)
    BY <1>4 DEF Validate
  <2> QED BY <2>1, AlikeItself
<1>5. CASE ~Issue(s) /\ E = {}
  BY <1>2, <1>3, <1>5 DEF Validate
<1>6. CASE ~Issue(s) /\ E # {} /\ Cardinality(E) # 1
  <2>1. Validate(Reversed, s) = Validate(Round, s)
    BY <1>1, <1>3, <1>6 DEF Validate
  <2> QED BY <2>1, AlikeItself
<1>7. CASE ~Issue(s) /\ E # {} /\ Cardinality(E) = 1
  <2>1. PICK i : E = {i}
    <3> HIDE DEF E
    <3> QED BY <1>1, <1>7, FS_Singleton
  <2>2. i \in DOMAIN Round.targets /\ F = {Mirror(i)} /\ Mirror(i) \in DOMAIN Round.targets
    <3>1. i \in DOMAIN Round.targets
      BY <1>1, <2>1
    <3>2. F = {Mirror(i)}
      <4> HIDE DEF E, F
      <4> QED BY <1>1, <2>1
    <3> QED BY <3>1, <3>2, ReversedRound
  <2>3. \A x \in Nat : Max({x}) = x
    BY DEF Max
  <2>4. i \in Nat /\ Mirror(i) \in Nat
    BY <2>2, RoundTypes
  <2>5. Max(E) = i /\ Max(F) = Mirror(i)
    <3> HIDE DEF E, F
    <3> QED BY <2>1, <2>2, <2>3, <2>4
  <2>6. Reversed.targets[Mirror(i)] = Round.targets[i]
    BY <2>2, ReversedRound
  <2>7. Validate(Reversed, s) = Validate(Round, s)
    <3> DEFINE Exactly(target) ==
                 Answer("accepted", target.id, 100, "configured",
                        CHOOSE e \in Equals(target, s.text) : TRUE)
    <3>1. Validate(Round, s) = Exactly(Round.targets[Max(E)])
      BY <1>7 DEF Validate
    <3>2. Validate(Reversed, s) = Exactly(Reversed.targets[Max(F)])
      <4>1. F # {} /\ Cardinality(F) = 1
        <5> HIDE DEF E, F
        <5> QED BY <1>1, <1>3, <1>7
      <4> QED BY <1>7, <4>1 DEF Validate
    <3> HIDE DEF E, F, Exactly
    <3> QED BY <2>5, <2>6, <3>1, <3>2
  <2> QED BY <2>7, AlikeItself
<1> QED BY <1>4, <1>5, <1>6, <1>7

-----------------------------------------------------------------------------
(* The inductive invariant.                                                *)

Recording == [submission : Submissions, context : Contexts \cup {NoContext},
              answer : Answers]

MemoryOK ==
  /\ clock \in 0 .. MaxTime /\ nextRow \in 1 .. MaxRows + 1
  /\ Kempt(rows, nextRow)
  /\ OnlyTaughtApplies

Delivery == [submission : Submissions, held : BOOLEAN]

\* Whatever the audit has of a message that is recorded is what is recorded.
RecordedOK ==
  /\ recorded \in Seq(Recording) /\ Len(recorded) <= MaxRecorded
  /\ \A i \in DOMAIN recorded :
       AuditedFor(recorded[i].submission.message) \subseteq
         {AuditRow(recorded[i].submission, recorded[i].context, recorded[i].answer)}

DeliveredOK ==
  /\ delivered \in [SessionContexts -> Seq(Delivery)]
  /\ \A c \in SessionContexts : Len(delivered[c]) <= MaxRecorded

Replied ==
  /\ AnswersAreFresh /\ AuditedAnswerStands /\ MemoryAnswersJustified
  /\ reply # NoReply => reply.submission \in Submissions

LearnInv == MemoryOK /\ RecordedOK /\ DeliveredOK /\ CacheOK(cache) /\ Replied

-----------------------------------------------------------------------------
(* What the transactions of the memory do to the table between them.       *)

LEMMA KemptWhen ==
  ASSUME NEW table, NEW next \in Nat, Kempt(table, next), NEW after, Table(after),
         {r.row : r \in after} \subseteq {r.row : r \in table},
         Cardinality(after) \in Nat, Cardinality(table) \in Nat,
         Cardinality(after) <= Cardinality(table),
         Cardinality(ActiveRows(after)) \in Nat, Cardinality(ActiveRows(table)) \in Nat,
         Cardinality(ActiveRows(after)) <= Cardinality(ActiveRows(table))
  PROVE  Kempt(after, next)
<1>1. \A r \in after : r.row < next
  <2> SUFFICES ASSUME NEW r \in after PROVE r.row < next
    OBVIOUS
  <2>1. r.row \in {q.row : q \in after}
    OBVIOUS
  <2>2. r.row \in {q.row : q \in table}
    BY <2>1
  <2>3. \E q \in table : q.row = r.row
    BY <2>2
  <2> QED BY <2>3 DEF Kempt
<1>2. Cardinality(table) <= Capacity + History /\ Cardinality(ActiveRows(table)) <= Capacity
  BY DEF Kempt
<1>3. Cardinality(after) <= Capacity + History /\ Cardinality(ActiveRows(after)) <= Capacity
  BY <1>2, MemoryPolicyAssumption
<1> QED BY <1>1, <1>3 DEF Kempt

LEMMA KemptExpired ==
  ASSUME NEW table, NEW next \in Nat, Kempt(table, next), NEW now \in Int
  PROVE  /\ Kempt(Expired(table, now), next)
         /\ \A r \in ActiveRows(Expired(table, now)) : r \in ActiveRows(table) /\ now < r.expires
<1> DEFINE after == Expired(table, now)
<1>1. Table(table)
  BY DEF Kempt
<1>2. /\ Table(after)
      /\ Cardinality(after) <= Cardinality(table)
      /\ Cardinality(ActiveRows(after)) <= Cardinality(ActiveRows(table))
      /\ Cardinality(after) \in Nat /\ Cardinality(table) \in Nat
      /\ Cardinality(ActiveRows(after)) \in Nat /\ Cardinality(ActiveRows(table)) \in Nat
      /\ \A r \in ActiveRows(after) : r \in ActiveRows(table) /\ now < r.expires
      /\ {r.row : r \in after} \subseteq {r.row : r \in table}
  BY <1>1, ExpiredTable
<1> HIDE DEF after
<1>3. Kempt(after, next)
  BY <1>2, KemptWhen
<1> QED BY <1>2, <1>3 DEF after

LEMMA KemptMarked ==
  ASSUME NEW table, NEW next \in Nat, Kempt(table, next),
         NEW used, used \subseteq ActiveRows(table), NEW now \in 0 .. MaxTime
  PROVE  /\ Kempt(MarkedUsed(table, used, now), next)
         /\ Within(MarkedUsed(table, used, now), table)
         /\ Lasting(table, MarkedUsed(table, used, now))
<1> DEFINE after == MarkedUsed(table, used, now)
<1>1. Table(table)
  BY DEF Kempt
<1>2. /\ Table(after)
      /\ Cardinality(after) <= Cardinality(table)
      /\ Cardinality(ActiveRows(after)) <= Cardinality(ActiveRows(table))
      /\ Cardinality(after) \in Nat /\ Cardinality(table) \in Nat
      /\ Cardinality(ActiveRows(after)) \in Nat /\ Cardinality(ActiveRows(table)) \in Nat
  BY <1>1, MarkedTable
<1>3. Within(after, table)
  BY <1>1, MarkedTable
<1>4. Lasting(table, after)
  BY <1>1, MarkedTable
<1>5. {r.row : r \in after} \subseteq {r.row : r \in table}
  BY <1>1, MarkedTable
<1> HIDE DEF after
<1>6. Kempt(after, next)
  BY <1>2, <1>5, KemptWhen
<1> QED BY <1>3, <1>4, <1>6 DEF after

LEMMA KemptRevoked ==
  ASSUME NEW table, NEW next \in Nat, Kempt(table, next), NEW row
  PROVE  /\ Kempt(Revoked(table, row), next)
         /\ ActiveRows(Revoked(table, row)) = {r \in ActiveRows(table) : r.row # row}
<1> DEFINE gone  == {r \in table : r.row = row}
           after == ClosedRows(table, gone)
<1>1. Table(table)
  BY DEF Kempt
<1>2. Revoked(table, row) = after
  BY DEF Revoked, ClosedRows
<1> HIDE DEF gone
<1>3. /\ Table(after)
      /\ Cardinality(after) <= Cardinality(table)
      /\ Cardinality(ActiveRows(after)) <= Cardinality(ActiveRows(table))
      /\ Cardinality(after) \in Nat /\ Cardinality(table) \in Nat
      /\ Cardinality(ActiveRows(after)) \in Nat /\ Cardinality(ActiveRows(table)) \in Nat
      /\ ActiveRows(after) = ActiveRows(table) \ gone
      /\ {r.row : r \in after} \subseteq {r.row : r \in table}
  BY <1>1, ClosedTable
<1> HIDE DEF after
<1>4. Kempt(after, next)
  BY <1>3, KemptWhen
<1>5. ActiveRows(table) \ gone = {r \in ActiveRows(table) : r.row # row}
  BY DEF gone, ActiveRows
<1> QED BY <1>2, <1>3, <1>4, <1>5

-----------------------------------------------------------------------------
(* The answer to a new request.                                            *)

\* What the computation reads of the memory.
LEMMA ComputedTable ==
  ASSUME LearnInv, NEW s \in Submissions, NEW context \in Contexts \cup {NoContext}
  PROVE  LET c == Computation(s, context)
         IN  /\ Kempt(c.table, nextRow) /\ ActiveRows(c.table) \subseteq ActiveRows(rows)
             /\ c.matches \subseteq ActiveRows(c.table)
             /\ \A r \in c.matches :
                  /\ r.context = context /\ r.expression = Normalized[s.text]
                  /\ r.row \in Nat \ {0} /\ r.target \in TargetIds /\ clock < r.expires
<1> DEFINE table   == IF LooksUp(context, s.text) THEN Expired(rows, clock) ELSE rows
           matches == MemoryMatches(table, context, s.text)
<1>1. Computation(s, context).table = table /\ Computation(s, context).matches = matches
  BY DEF Computation
<1>2. Kempt(rows, nextRow) /\ nextRow \in Nat /\ clock \in Int
  BY LearningServiceAssumption DEF LearnInv, MemoryOK
<1>3. /\ Kempt(Expired(rows, clock), nextRow)
      /\ \A r \in ActiveRows(Expired(rows, clock)) : r \in ActiveRows(rows) /\ clock < r.expires
  BY <1>2, KemptExpired
<1>4. Kempt(table, nextRow) /\ ActiveRows(table) \subseteq ActiveRows(rows)
  BY <1>2, <1>3
<1>5. LooksUp(context, s.text) => \A r \in ActiveRows(table) : clock < r.expires
  BY <1>3
<1> HIDE DEF table
<1>6. ASSUME NEW r \in matches
      PROVE  /\ r \in ActiveRows(table) /\ LooksUp(context, s.text)
             /\ r.context = context /\ r.expression = Normalized[s.text]
             /\ r.target \in TargetIds
  BY <1>6 DEF MemoryMatches, Matches, LooksUp
<1>7. \A r \in ActiveRows(table) : r.row \in Nat \ {0}
  BY <1>4, RowTypes DEF Kempt, Table, ActiveRows
<1> HIDE DEF matches
<1> QED BY <1>1, <1>4, <1>5, <1>6, <1>7

\* The fresh answer, and its key.
LEMMA ComputedFresh ==
  ASSUME LearnInv, NEW s \in Submissions, NEW context \in Contexts \cup {NoContext}
  PROVE  LET c   == Computation(s, context)
             key == CacheKey(s, context, c.matches)
         IN  /\ key \in Keys /\ key[1] = s.text
             /\ c.fresh \in Answers
             /\ c.fresh = FromPairs(Configured[s], key[1], key[3])
             /\ Holds([key |-> key, age |-> 0, answer |-> c.fresh])
             /\ c.fresh.evidence = "memory" =>
                  /\ c.applied /\ ~Issue(s) /\ ExactMatches(Round, s.text) = {}
                  /\ \E r \in c.matches : r.target = c.fresh.target
<1> DEFINE m     == Computation(s, context).matches
           fresh == Computation(s, context).fresh
           key   == CacheKey(s, context, m)
           conf  == Configured[s]
           T     == {r.target : r \in m}
           M     == {r.expression : r \in m}
           named == CHOOSE e \in M : TRUE
<1>1. /\ fresh = ValidationWithMemory(conf, m)
      /\ Computation(s, context).applied = MemoryApplies(conf, m)
  BY DEF Computation
<1>2. \A r \in m : r.row \in Nat \ {0} /\ r.target \in TargetIds
                  /\ r.expression = Normalized[s.text]
  BY ComputedTable
<1>3. conf = Validate(Round, s)
  BY ConfiguredIs
<1>4. /\ conf \in Answers
      /\ Issue(s) => conf.issue = TRUE /\ conf.evidence = "none"
      /\ ~Issue(s) => conf.issue = FALSE /\ conf.evidence # "memory"
      /\ ~Issue(s) /\ ExactMatches(Round, s.text) # {} =>
           conf.evidence \in {"configured", "ambiguous"} /\ conf.score = 100
  BY <1>3, ValidateTyped
<1> HIDE DEF m, conf
<1>5. s.text \in Texts
  BY DEF Submissions, Texts
<1>6. key \in Keys /\ key[1] = s.text /\ key[3] = {<<r.row, r.target>> : r \in m}
  BY <1>2, <1>5 DEF CacheKey, Keys
<1>7. fresh = FromPairs(conf, key[1], key[3])
  BY <1>1, <1>2, <1>6, MemoryFromPairs
<1>8. \/ fresh = conf
      \/ /\ MemoryApplies(conf, m)
         /\ \/ /\ Cardinality(T) = 1
               /\ fresh = Answer("accepted", CHOOSE t \in T : TRUE, 100, "memory", named)
            \/ fresh = Answer("abstained", NoTarget, 100, "ambiguous", named)
  BY <1>1 DEF ValidationWithMemory
<1>14. m # {} => named \in Matchable
  <2>1. ASSUME m # {} PROVE M = {Normalized[s.text]}
    BY <1>2, <2>1
  <2>2. ASSUME M = {Normalized[s.text]} PROVE named = Normalized[s.text]
    <3> HIDE DEF M
    <3> QED BY <2>2
  <2>3. Normalized[s.text] \in Matchable
    BY <1>5, MatchableHas DEF Expressions
  <2> HIDE DEF M, named
  <2> QED BY <2>1, <2>2, <2>3
<1> HIDE DEF fresh, key, T, named
<1>9. MemoryApplies(conf, m) => ~Issue(s) /\ ExactMatches(Round, s.text) = {} /\ m # {}
  BY <1>4 DEF MemoryApplies
<1>10. m # {} => (CHOOSE t \in T : TRUE) \in T /\ T \subseteq TargetIds
  BY <1>2 DEF T
<1>11. fresh \in Answers
  <2>1. CASE fresh = conf
    BY <1>4, <2>1
  <2>2. CASE /\ MemoryApplies(conf, m)
             /\ fresh = Answer("accepted", CHOOSE t \in T : TRUE, 100, "memory", named)
    BY <1>9, <1>10, <1>14, <2>2 DEF Answer, Answers
  <2>3. CASE /\ MemoryApplies(conf, m)
             /\ fresh = Answer("abstained", NoTarget, 100, "ambiguous", named)
    BY <1>9, <1>14, <2>3 DEF Answer, Answers
  <2> QED BY <1>8, <2>1, <2>2, <2>3
<1>12. ASSUME fresh.evidence = "memory"
       PROVE  /\ MemoryApplies(conf, m) /\ ~Issue(s) /\ ExactMatches(Round, s.text) = {}
              /\ \E r \in m : r.target = fresh.target
  <2>1. fresh # conf
    BY <1>4, <1>12
  <2>2. fresh # Answer("abstained", NoTarget, 100, "ambiguous", named)
    BY <1>12 DEF Answer
  <2>3. /\ MemoryApplies(conf, m)
        /\ fresh = Answer("accepted", CHOOSE t \in T : TRUE, 100, "memory", named)
    BY <1>8, <2>1, <2>2
  <2>4. fresh.target \in T
    BY <1>9, <1>10, <2>3 DEF Answer
  <2> QED BY <1>9, <2>3, <2>4 DEF T
<1>13. Holds([key |-> key, age |-> 0, answer |-> fresh])
  <2>1. CASE Issue(s)
    <3>1. fresh = conf
      BY <1>8, <1>9, <2>1
    <3> QED BY <1>4, <2>1, <3>1 DEF Holds
  <2>2. CASE ~Issue(s)
    <3> SUFFICES ASSUME NEW u \in Submissions, u.text = s.text, u.participant \notin BadParticipants
                 PROVE  fresh = FromPairs(Configured[u], key[1], key[3])
      BY <1>6 DEF Holds
    <3>1. s.participant \notin BadParticipants
      BY <2>2 DEF Issue
    <3>2. Validate(Round, s) = Validate(Round, u)
      BY <3>1, SameText
    <3>3. Configured[u] = conf
      BY <1>3, <3>2, ConfiguredIs
    <3> QED BY <1>7, <3>3
  <2> QED BY <2>1, <2>2
<1> QED BY <1>1, <1>6, <1>7, <1>11, <1>12, <1>13 DEF m, fresh, key, conf

\* The answer that is given, from the cache or not.
LEMMA ComputedAnswer ==
  ASSUME LearnInv, NEW s \in Submissions, NEW context \in Contexts \cup {NoContext}
  PROVE  LET c == Computation(s, context)
         IN  /\ CacheOK(c.cache)
             /\ c.answer \in Answers
             /\ s.participant \notin BadParticipants =>
                  \/ c.answer = c.fresh
                  \/ c.answer.issue = TRUE /\ c.answer.evidence = "none"
<1> DEFINE c    == Computation(s, context)
           key  == CacheKey(s, context, c.matches)
           live == Pruned(cache)
           hit  == Cached(live, key)
<1>1. /\ c.answer = IF hit = {} THEN c.fresh ELSE live[Max(hit)].answer
      /\ c.cache = IF hit = {} THEN Inserted(live, key, c.fresh) ELSE Touched(live, key)
  BY DEF Computation
<1>2. /\ key \in Keys /\ key[1] = s.text
      /\ c.fresh \in Answers
      /\ c.fresh = FromPairs(Configured[s], key[1], key[3])
      /\ Holds([key |-> key, age |-> 0, answer |-> c.fresh])
  BY ComputedFresh
<1>3. CacheOK(live)
  BY PrunedCache DEF LearnInv
<1> HIDE DEF c, key, live
<1>4. CASE hit = {}
  <2>1. CacheOK(c.cache)
    BY <1>1, <1>2, <1>3, <1>4, InsertedCache
  <2>2. c.answer = c.fresh /\ c.answer \in Answers
    BY <1>1, <1>2, <1>4
  <2> QED BY <2>1, <2>2 DEF c
<1>5. CASE hit # {}
  <2>1. CacheOK(c.cache)
    BY <1>1, <1>3, <1>5, TouchedCache
  <2>2. live \in Seq(Entry) /\ hit \subseteq DOMAIN live /\ DOMAIN live = 1 .. Len(live)
        /\ Len(live) \in Nat
    BY <1>3 DEF CacheOK, Cached
  <2>3. IsFiniteSet(hit) /\ hit \in SUBSET Nat
    <3>1. IsFiniteSet(1 .. Len(live))
      BY <2>2, FS_Interval
    <3> HIDE DEF hit
    <3>2. IsFiniteSet(hit)
      BY <2>2, <3>1, FS_Subset
    <3> QED BY <2>2, <3>2
  <2>4. Max(hit) \in hit
    <3> HIDE DEF hit
    <3> QED BY <1>5, <2>3, LargestMember
  <2>5. /\ live[Max(hit)].key = key /\ live[Max(hit)] \in Entry /\ Holds(live[Max(hit)])
    BY <1>3, <2>2, <2>4 DEF Cached, CacheOK
  <2> HIDE DEF hit
  <2> DEFINE e == live[Max(hit)]
  <2>6. c.answer = e.answer /\ e.answer \in Answers /\ e.key = key /\ Holds(e)
    BY <1>1, <1>5, <2>5 DEF Entry
  <2> HIDE DEF e
  <2>7. ASSUME s.participant \notin BadParticipants, ~(e.answer.issue = TRUE /\ e.answer.evidence = "none")
        PROVE  e.answer = c.fresh
    <3>1. \A u \in Submissions :
            u.text = e.key[1] /\ u.participant \notin BadParticipants =>
              e.answer = FromPairs(Configured[u], e.key[1], e.key[3])
      BY <2>6, <2>7 DEF Holds
    <3> QED BY <1>2, <2>6, <2>7, <3>1
  <2>8. /\ c.answer \in Answers
        /\ s.participant \notin BadParticipants =>
             \/ c.answer = c.fresh
             \/ c.answer.issue = TRUE /\ c.answer.evidence = "none"
    BY <2>6, <2>7
  <2> QED BY <2>1, <2>8 DEF c
<1> QED BY <1>4, <1>5

\* The table the memory is left with, whether its uses were marked or not.
LEMMA ComputedUse ==
  ASSUME LearnInv, NEW s \in Submissions, NEW context \in Contexts \cup {NoContext}
  PROVE  LET c == Computation(s, context)
         IN  /\ Kempt(c.table, nextRow) /\ Within(c.table, rows)
             /\ Kempt(UsedTable(c), nextRow) /\ Within(UsedTable(c), rows)
             /\ Lasting(c.table, UsedTable(c))
<1> DEFINE c == Computation(s, context)
<1>1. /\ Kempt(c.table, nextRow) /\ ActiveRows(c.table) \subseteq ActiveRows(rows)
      /\ c.matches \subseteq ActiveRows(c.table)
  BY ComputedTable
<1>2. nextRow \in Nat /\ clock \in 0 .. MaxTime
  BY LearningServiceAssumption DEF LearnInv, MemoryOK
<1> HIDE DEF c
<1> DEFINE marked == MarkedUsed(c.table, c.matches, clock)
<1>3. Kempt(marked, nextRow) /\ Within(marked, c.table) /\ Lasting(c.table, marked)
  BY <1>1, <1>2, KemptMarked
<1> HIDE DEF marked
<1>4. Within(c.table, rows) /\ Within(marked, rows)
  BY <1>1, <1>3 DEF Within
<1>5. Lasting(c.table, c.table)
  BY DEF Lasting
<1>6. UsedTable(c) = marked \/ UsedTable(c) = c.table
  BY DEF UsedTable, marked
<1>7. /\ Kempt(c.table, nextRow) /\ Within(c.table, rows)
      /\ Kempt(UsedTable(c), nextRow) /\ Within(UsedTable(c), rows)
      /\ Lasting(c.table, UsedTable(c))
  BY <1>1, <1>3, <1>4, <1>5, <1>6
<1> QED BY <1>7 DEF c

LEMMA RequestTypes ==
  ASSUME NEW q \in Requests
  PROVE  /\ q.submission \in Submissions
         /\ q.context \in Contexts \cup {NoContext} /\ q.context \in SessionContexts
BY LearningServiceAssumption DEF Submissions, SessionContexts

-----------------------------------------------------------------------------
(* The memory, step by step.                                               *)

LEMMA MemoryKept ==
  ASSUME MemoryOK, Kempt(rows', nextRow), Within(rows', rows),
         nextRow' = nextRow, clock' = clock, aux_taught' = aux_taught
  PROVE  MemoryOK'
<1>1. \A r \in ActiveRows(rows') : <<r.context, r.expression, r.target>> \in aux_taught
  BY DEF Within, MemoryOK, OnlyTaughtApplies
<1> QED BY <1>1 DEF MemoryOK, OnlyTaughtApplies, ActiveRows

LEMMA WithinItself ==
  ASSUME NEW table
  PROVE  Within(table, table)
BY DEF Within

LEMMA MemoryStep ==
  ASSUME LearnInv, [Next]_vars
  PROVE  MemoryOK'
<1>1. MemoryOK /\ Kempt(rows, nextRow) /\ nextRow \in Nat \ {0} /\ clock \in 0 .. MaxTime
      /\ clock \in Int
  BY LearningServiceAssumption DEF LearnInv, MemoryOK
<1>2. ASSUME NEW q \in Requests,
             \/ SubmitAgain(q.submission, q.context)
             \/ ValidateAgain(q.submission, q.context)
             \/ ValidateRefused(q.submission, q.context)
      PROVE  MemoryOK'
  BY <1>1, <1>2, WithinItself, MemoryKept DEF SubmitAgain, ValidateAgain, ValidateRefused
<1>3. ASSUME NEW q \in Requests,
             ValidateNew(q.submission, q.context) \/ ValidateFails(q.submission, q.context)
      PROVE  MemoryOK'
  <2> DEFINE c == Computation(q.submission, q.context)
  <2>1. /\ Kempt(c.table, nextRow) /\ Within(c.table, rows)
        /\ Kempt(UsedTable(c), nextRow) /\ Within(UsedTable(c), rows)
    BY RequestTypes, ComputedUse
  <2>2. /\ rows' = UsedTable(c) \/ rows' = c.table
        /\ clock' = clock /\ nextRow' = nextRow /\ aux_taught' = aux_taught
    BY <1>3 DEF ValidateNew, ValidateFails
  <2> HIDE DEF c
  <2> QED BY <1>1, <2>1, <2>2, MemoryKept
<1>4. ASSUME NEW context \in Contexts, NEW text \in Texts, NEW target \in TargetIds,
             Learn(context, text, target)
      PROVE  MemoryOK'
  <2> DEFINE e     == Normalized[text]
             after == Remembered(rows, nextRow, context, target, e, clock)
             next  == IF \E r \in after : r.row = nextRow THEN nextRow + 1 ELSE nextRow
  <2>1. e \in Expressions
    BY DEF Expressions
  <2>2. /\ rows' = after /\ nextRow' = next /\ clock' = clock
        /\ aux_taught' = aux_taught \cup {<<context, e, target>>}
        /\ nextRow <= MaxRows
    BY <1>4 DEF Learn
  <2> HIDE DEF e
  <2>3. /\ Kempt(after, next)
        /\ \A r \in ActiveRows(after) :
             \/ r \in ActiveRows(rows)
             \/ r.context = context /\ r.target = target /\ r.expression = e
    BY <1>1, <2>1, RememberedTable
  <2>4. next \in 1 .. MaxRows + 1
    BY <1>1, <2>2, LearningServiceAssumption
  <2> HIDE DEF after, next
  <2>5. \A r \in ActiveRows(after) : <<r.context, r.expression, r.target>> \in aux_taught'
    BY <1>1, <2>2, <2>3 DEF MemoryOK, OnlyTaughtApplies
  <2> QED BY <1>1, <2>2, <2>3, <2>4, <2>5 DEF MemoryOK, OnlyTaughtApplies, ActiveRows
<1>5. ASSUME NEW row \in 1 .. MaxRows, RevokeMemory(row)
      PROVE  MemoryOK'
  <2>1. PICK r \in ActiveRows(rows) :
          r.row = row /\ aux_taught' = aux_taught \ {<<r.context, r.expression, r.target>>}
    BY <1>5 DEF RevokeMemory
  <2>2. rows' = Revoked(rows, row) /\ clock' = clock /\ nextRow' = nextRow
    BY <1>5 DEF RevokeMemory
  <2>3. /\ Kempt(Revoked(rows, row), nextRow)
        /\ ActiveRows(Revoked(rows, row)) = {q \in ActiveRows(rows) : q.row # row}
    BY <1>1, KemptRevoked
  <2>4. ASSUME NEW q \in ActiveRows(rows), q.row # row
        PROVE  <<q.context, q.expression, q.target>> \in aux_taught'
    <3>1. ~SameEntry(q, r)
      BY <1>1, <2>1, <2>4 DEF Kempt, Table
    <3>2. <<q.context, q.expression, q.target>> # <<r.context, r.expression, r.target>>
      BY <3>1 DEF SameEntry
    <3>3. <<q.context, q.expression, q.target>> \in aux_taught
      BY <1>1 DEF MemoryOK, OnlyTaughtApplies
    <3> QED BY <2>1, <3>2, <3>3
  <2>5. \A q \in ActiveRows(rows') : <<q.context, q.expression, q.target>> \in aux_taught'
    BY <2>2, <2>3, <2>4
  <2> QED BY <1>1, <2>2, <2>3, <2>5 DEF MemoryOK, OnlyTaughtApplies, ActiveRows
<1>6. ASSUME ListMemory PROVE MemoryOK'
  <2>1. rows' = Expired(rows, clock) /\ nextRow' = nextRow /\ clock' = clock
        /\ aux_taught' = aux_taught
    BY <1>6 DEF ListMemory
  <2>2. /\ Kempt(Expired(rows, clock), nextRow)
        /\ \A r \in ActiveRows(Expired(rows, clock)) : r \in ActiveRows(rows)
    BY <1>1, KemptExpired
  <2>3. Within(Expired(rows, clock), rows)
    BY <2>2 DEF Within
  <2> QED BY <1>1, <2>1, <2>2, <2>3, MemoryKept
<1>7. ASSUME PurgeLocalData PROVE MemoryOK'
  <2>1. rows' = {} /\ nextRow' = nextRow /\ clock' = clock
    BY <1>7 DEF PurgeLocalData
  <2>2. ActiveRows({}) = {} /\ IsFiniteSet({}) /\ Cardinality({}) = 0
    BY FS_EmptySet DEF ActiveRows
  <2>3. Kempt({}, nextRow)
    BY <2>2, MemoryPolicyAssumption DEF Kempt, Table
  <2> QED BY <1>1, <2>1, <2>2, <2>3 DEF MemoryOK, OnlyTaughtApplies, ActiveRows
<1>8. ASSUME Restart PROVE MemoryOK'
  BY <1>1, <1>8, WithinItself, MemoryKept DEF Restart
<1>9. ASSUME Tick PROVE MemoryOK'
  BY <1>1, <1>9, LearningServiceAssumption DEF Tick, MemoryOK, OnlyTaughtApplies, ActiveRows
<1>10. ASSUME ClockBack PROVE MemoryOK'
  BY <1>1, <1>10, LearningServiceAssumption DEF ClockBack, MemoryOK, OnlyTaughtApplies, ActiveRows
<1>11. ASSUME UNCHANGED vars PROVE MemoryOK'
  BY <1>1, <1>11 DEF vars, MemoryOK, OnlyTaughtApplies, ActiveRows
<1>12. ASSUME NEW context \in SessionContexts, StartSession(context) PROVE MemoryOK'
  BY <1>1, <1>12, WithinItself, MemoryKept DEF StartSession
<1> QED
  BY <1>2, <1>3, <1>4, <1>5, <1>6, <1>7, <1>8, <1>9, <1>10, <1>11, <1>12 DEF Next

-----------------------------------------------------------------------------
(* The cache and what is recorded, step by step.                           *)

LEMMA CacheStep ==
  ASSUME LearnInv, [Next]_vars
  PROVE  CacheOK(cache)'
<1>1. CacheOK(cache)
  BY DEF LearnInv
<1>2. CASE cache' = cache
  BY <1>1, <1>2 DEF CacheOK, Holds
<1>3. CASE cache' = Pruned(cache)
  <2>1. CacheOK(cache')
    BY <1>1, <1>3, PrunedCache
  <2> QED BY <2>1 DEF CacheOK, Holds
<1>4. CASE cache' = << >>
  BY <1>4, LearningServiceAssumption DEF CacheOK
<1>5. ASSUME NEW q \in Requests, cache' = Computation(q.submission, q.context).cache
      PROVE  CacheOK(cache)'
  <2>1. CacheOK(cache')
    BY <1>5, RequestTypes, ComputedAnswer
  <2> QED BY <2>1 DEF CacheOK, Holds
<1>6. CASE Tick
  <2>1. CacheOK(cache')
    BY <1>1, <1>6, AgedCache DEF Tick
  <2> QED BY <2>1 DEF CacheOK, Holds
<1>7. \/ cache' = cache \/ cache' = Pruned(cache) \/ cache' = << >> \/ Tick
      \/ \E q \in Requests : cache' = Computation(q.submission, q.context).cache
  BY DEF Next, vars, SubmitAgain, ValidateAgain, ValidateRefused, ValidateNew,
         ValidateFails, StartSession, Learn, RevokeMemory, ListMemory, PurgeLocalData,
         Restart, ClockBack
<1> QED BY <1>2, <1>3, <1>4, <1>5, <1>6, <1>7

\* A bounded queue with one more entry.
LEMMA NewestAppended ==
  ASSUME NEW S, NEW queue \in Seq(S), Len(queue) <= MaxRecorded, NEW new \in S
  PROVE  LET after == Newest(Append(queue, new))
         IN  /\ after \in Seq(S) /\ Len(after) <= MaxRecorded
             /\ \A i \in DOMAIN after :
                  after[i] = new \/ \E j \in DOMAIN queue : after[i] = queue[j]
<1> DEFINE longer == Append(queue, new)
<1>1. Len(queue) \in Nat /\ MaxRecorded \in Nat
  BY LearningServiceAssumption
<1>2. /\ longer \in Seq(S) /\ Len(longer) = Len(queue) + 1
      /\ \A i \in DOMAIN longer :
           longer[i] = new \/ \E j \in DOMAIN queue : longer[i] = queue[j]
  OBVIOUS
<1> HIDE DEF longer
<1>3. CASE Len(longer) > MaxRecorded
  <2>1. Newest(longer) = Tail(longer)
    BY <1>3 DEF Newest
  <2>2. /\ Tail(longer) \in Seq(S) /\ Len(Tail(longer)) = Len(queue)
        /\ \A i \in DOMAIN Tail(longer) :
             i + 1 \in DOMAIN longer /\ Tail(longer)[i] = longer[i + 1]
    BY <1>1, <1>2
  <2> QED BY <1>2, <2>1, <2>2 DEF longer
<1>4. CASE ~(Len(longer) > MaxRecorded)
  <2>1. Newest(longer) = longer
    BY <1>4 DEF Newest
  <2> QED BY <1>1, <1>2, <1>4, <2>1 DEF longer
<1> QED BY <1>3, <1>4

\* What the audit has of a message once it has recorded an answer to it.
LEMMA AuditedRow ==
  ASSUME NEW s, NEW context, NEW answer,
         Auditable(s, context, answer), Audit(s, context, answer)
  PROVE  /\ AuditedFor(s.message)' = {AuditRow(s, context, answer)}
         /\ \A m : m # s.message => AuditedFor(m)' \subseteq AuditedFor(m)
<1> DEFINE row == AuditRow(s, context, answer)
<1>1. row.message = s.message
  BY DEF AuditRow
<1>2. AuditedFor(s.message) \subseteq {row}
  BY DEF Auditable
<1>3. \/ AuditedFor(s.message) # {} /\ audit' = audit
      \/ /\ AuditedFor(s.message) = {}
         /\ \E kept \in SUBSET audit : audit' = kept \cup {row}
  BY DEF Audit
<1> HIDE DEF row
<1>4. CASE AuditedFor(s.message) # {} /\ audit' = audit
  BY <1>2, <1>4 DEF AuditedFor, row
<1>5. CASE /\ AuditedFor(s.message) = {}
           /\ \E kept \in SUBSET audit : audit' = kept \cup {row}
  BY <1>1, <1>5 DEF AuditedFor, row
<1> QED BY <1>3, <1>4, <1>5

LEMMA RecordStep ==
  ASSUME LearnInv, [Next]_vars
  PROVE  RecordedOK'
<1>1. RecordedOK
  BY DEF LearnInv
<1>2. CASE UNCHANGED <<recorded, audit>>
  BY <1>1, <1>2 DEF RecordedOK, AuditedFor
<1>3. CASE recorded' = << >>
  BY <1>3, LearningServiceAssumption DEF RecordedOK
<1>4. ASSUME NEW q \in Requests, ValidateNew(q.submission, q.context)
      PROVE  RecordedOK'
  <2> DEFINE s      == q.submission
             answer == Computation(s, q.context).answer
             new    == [submission |-> s, context |-> q.context, answer |-> answer]
             after  == Newest(Append(recorded, new))
  <2>1. s \in Submissions /\ q.context \in Contexts \cup {NoContext} /\ answer \in Answers
    BY RequestTypes, ComputedAnswer
  <2>2. /\ Auditable(s, q.context, answer) /\ Audit(s, q.context, answer)
        /\ RecordedFor(s.message) = {} /\ recorded' = after
    BY <1>4 DEF ValidateNew
  <2> HIDE DEF answer, s
  <2>3. /\ new \in Recording /\ new.submission = s /\ new.context = q.context
        /\ new.answer = answer
    BY <2>1 DEF Recording
  <2> HIDE DEF new
  <2>4. recorded \in Seq(Recording) /\ Len(recorded) <= MaxRecorded
    BY <1>1 DEF RecordedOK
  <2>5. /\ after \in Seq(Recording) /\ Len(after) <= MaxRecorded
        /\ \A i \in DOMAIN after :
             after[i] = new \/ \E j \in DOMAIN recorded : after[i] = recorded[j]
    BY <2>3, <2>4, NewestAppended
  <2> HIDE DEF after
  <2> DEFINE mine == s.message
             row(r) == AuditRow(r.submission, r.context, r.answer)
             of(m)  == {a \in audit : a.message = m}
             to(m)  == {a \in audit' : a.message = m}
  <2>6. /\ to(mine) = {row(new)}
        /\ \A m : m # mine => to(m) \subseteq of(m)
    BY <2>2, <2>3, AuditedRow DEF AuditedFor
  <2>8. /\ \A i \in DOMAIN recorded :
             of(recorded[i].submission.message) \subseteq {row(recorded[i])}
        /\ \A i \in DOMAIN recorded : recorded[i].submission.message # mine
        /\ new.submission.message = mine
    BY <1>1, <2>2, <2>3 DEF RecordedOK, AuditedFor, RecordedFor
  <2> HIDE DEF row, of, to, mine
  <2>7. ASSUME NEW i \in DOMAIN after
        PROVE  to(after[i].submission.message) \subseteq {row(after[i])}
    <3>1. CASE after[i] = new
      BY <2>6, <2>8, <3>1
    <3>2. CASE \E j \in DOMAIN recorded : after[i] = recorded[j]
      BY <2>6, <2>8, <3>2
    <3> QED BY <2>5, <3>1, <3>2
  <2>9. \A i \in DOMAIN recorded' : to(recorded'[i].submission.message) \subseteq {row(recorded'[i])}
    BY <2>2, <2>7
  <2> QED BY <2>2, <2>5, <2>9 DEF RecordedOK, AuditedFor, AuditRow, Projection, to, row
<1>5. \/ UNCHANGED <<recorded, audit>>
      \/ recorded' = << >>
      \/ \E q \in Requests : ValidateNew(q.submission, q.context)
  BY DEF Next, vars, SubmitAgain, ValidateAgain, ValidateRefused, ValidateFails, StartSession,
         Learn, RevokeMemory, ListMemory, PurgeLocalData, Restart, Tick, ClockBack
<1> QED BY <1>2, <1>3, <1>4, <1>5

\* The deliveries of a session, when an answer is given.
LEMMA DeliverStep ==
  ASSUME DeliveredOK, NEW s \in Submissions, NEW context \in SessionContexts,
         NEW given, given.submission = s, given.context = context, Deliver(given)
  PROVE  /\ DeliveredOK'
         /\ reply' = given \/ reply' = NoReply
<1> DEFINE new   == [submission |-> s, held |-> TRUE]
           after == Newest(Append(delivered[context], new))
<1>1. new \in Delivery /\ delivered[context] \in Seq(Delivery)
      /\ Len(delivered[context]) <= MaxRecorded
  BY DEF Delivery, DeliveredOK
<1> HIDE DEF new
<1>2. after \in Seq(Delivery) /\ Len(after) <= MaxRecorded
  BY <1>1, NewestAppended
<1>3. \/ delivered' = delivered
      \/ delivered' = [delivered EXCEPT ![context] = after]
  BY DEF Deliver, new
<1>4. reply' = given \/ reply' = NoReply
  BY DEF Deliver
<1> HIDE DEF after
<1>5. CASE delivered' = delivered
  BY <1>4, <1>5 DEF DeliveredOK
<1>6. CASE delivered' = [delivered EXCEPT ![context] = after]
  <2>1. /\ delivered' \in [SessionContexts -> Seq(Delivery)]
        /\ \A c \in SessionContexts :
             delivered'[c] = IF c = context THEN after ELSE delivered[c]
    BY <1>2, <1>6 DEF DeliveredOK
  <2>2. DeliveredOK'
    BY <1>2, <2>1 DEF DeliveredOK
  <2> QED BY <1>4, <2>2
<1> QED BY <1>3, <1>5, <1>6

LEMMA DeliveryStep ==
  ASSUME LearnInv, [Next]_vars
  PROVE  DeliveredOK'
<1>1. DeliveredOK /\ MaxRecorded \in Nat
  BY LearningServiceAssumption DEF LearnInv
<1>2. CASE delivered' = delivered
  BY <1>1, <1>2 DEF DeliveredOK
<1>3. ASSUME NEW q \in Requests,
             ValidateAgain(q.submission, q.context) \/ ValidateNew(q.submission, q.context)
      PROVE  DeliveredOK'
  <2>1. q.submission \in Submissions /\ q.context \in SessionContexts
    BY RequestTypes
  <2>2. \E answer, fresh, kind :
          Deliver(Given(q.submission, q.context, answer, fresh, kind))
    BY <1>3 DEF ValidateAgain, ValidateNew
  <2>3. PICK answer, fresh, kind :
          Deliver(Given(q.submission, q.context, answer, fresh, kind))
    BY <2>2
  <2> DEFINE given == Given(q.submission, q.context, answer, fresh, kind)
  <2>4. given.submission = q.submission /\ given.context = q.context
    BY DEF Given
  <2> HIDE DEF given
  <2> QED BY <1>1, <2>1, <2>3, <2>4, DeliverStep DEF given
<1>4. ASSUME NEW c \in SessionContexts, StartSession(c)
      PROVE  DeliveredOK'
  <2>1. delivered' = [delivered EXCEPT ![c] = << >>]
    BY <1>4 DEF StartSession
  <2>2. << >> \in Seq(Delivery) /\ Len(<< >>) = 0
    OBVIOUS
  <2> QED BY <1>1, <2>1, <2>2 DEF DeliveredOK
<1>5. CASE PurgeLocalData
  BY <1>1, <1>5 DEF PurgeLocalData, DeliveredOK
<1>6. CASE Restart
  <2> DEFINE kept(c) == [i \in DOMAIN delivered[c] |-> [delivered[c][i] EXCEPT !.held = FALSE]]
  <2>1. delivered' = [c \in SessionContexts |-> kept(c)]
    BY <1>6 DEF Restart
  <2>2. ASSUME NEW c \in SessionContexts
        PROVE  kept(c) \in Seq(Delivery) /\ Len(kept(c)) <= MaxRecorded
    <3> DEFINE d == delivered[c]
    <3>1. d \in Seq(Delivery) /\ Len(d) \in Nat /\ Len(d) <= MaxRecorded
          /\ DOMAIN d = 1 .. Len(d)
      BY <1>1, <2>2 DEF DeliveredOK
    <3> HIDE DEF d
    <3>2. \A i \in DOMAIN d : [d[i] EXCEPT !.held = FALSE] \in Delivery
      <4>1. \A i \in DOMAIN d : d[i] \in Delivery
        BY <3>1
      <4>2. \A x \in Delivery : [x EXCEPT !.held = FALSE] \in Delivery
        BY DEF Delivery
      <4> QED BY <4>1, <4>2
    <3>3. /\ [i \in DOMAIN d |-> [d[i] EXCEPT !.held = FALSE]] \in Seq(Delivery)
          /\ Len([i \in DOMAIN d |-> [d[i] EXCEPT !.held = FALSE]]) = Len(d)
      BY <3>1, <3>2
    <3> QED BY <3>1, <3>3 DEF d
  <2> HIDE DEF kept
  <2> QED BY <2>1, <2>2 DEF DeliveredOK
<1>7. \/ delivered' = delivered \/ PurgeLocalData \/ Restart
      \/ \E c \in SessionContexts : StartSession(c)
      \/ \E q \in Requests : \/ ValidateAgain(q.submission, q.context)
                             \/ ValidateNew(q.submission, q.context)
  BY DEF Next, vars, SubmitAgain, ValidateRefused, ValidateFails, Learn, RevokeMemory,
         ListMemory, Tick, ClockBack
<1> QED BY <1>2, <1>3, <1>4, <1>5, <1>6, <1>7

-----------------------------------------------------------------------------
(* The answers.                                                            *)

LEMMA ReplyStep ==
  ASSUME LearnInv, [Next]_vars
  PROVE  Replied'
<1>1. Replied /\ RecordedOK /\ DeliveredOK
  BY DEF LearnInv
<1>3. CASE reply' = NoReply
  BY <1>3 DEF Replied, AnswersAreFresh, AuditedAnswerStands, MemoryAnswersJustified
<1>4. CASE UNCHANGED vars
  BY <1>1, <1>4 DEF vars, Replied, AnswersAreFresh, AuditedAnswerStands,
                    MemoryAnswersJustified, AuditedFor, ActiveRows
<1>8. ASSUME NEW q \in Requests, SubmitAgain(q.submission, q.context)
      PROVE  Replied'
  <2> DEFINE s == q.submission
  <2>1. \/ reply' = NoReply
        \/ reply' = Given(s, q.context, Configured[s], Configured[s], "replayed")
    BY <1>8 DEF SubmitAgain
  <2>2. s \in Submissions
    BY RequestTypes
  <2> HIDE DEF s
  <2>3. ASSUME reply' = Given(s, q.context, Configured[s], Configured[s], "replayed")
        PROVE  Replied'
    <3>1. /\ reply'.submission = s /\ reply'.answer = reply'.fresh
          /\ reply'.kind = "replayed"
      BY <2>3 DEF Given
    <3> QED BY <2>2, <3>1 DEF Replied, AnswersAreFresh, AuditedAnswerStands,
                              MemoryAnswersJustified
  <2> QED BY <1>3, <2>1, <2>3
<1>5. ASSUME NEW q \in Requests, ValidateAgain(q.submission, q.context)
      PROVE  Replied'
  <2> DEFINE s == q.submission
  <2>6. s \in Submissions /\ q.context \in SessionContexts
    BY RequestTypes
  <2>1. PICK i \in RecordedFor(s.message) :
          /\ recorded[i].submission = s /\ recorded[i].context = q.context
          /\ Deliver(Given(s, q.context, recorded[i].answer, recorded[i].answer, "repeated"))
    BY <1>5 DEF ValidateAgain
  <2> DEFINE answer == recorded[i].answer
             given  == Given(s, q.context, answer, answer, "repeated")
  <2>2. audit' = audit /\ i \in DOMAIN recorded
    BY <1>5, <2>1 DEF ValidateAgain, RecordedFor
  <2>3. AuditedFor(s.message)' \subseteq {AuditRow(s, q.context, answer)}
    BY <1>1, <2>1, <2>2 DEF RecordedOK, AuditedFor
  <2>4. /\ given.submission = s /\ given.context = q.context /\ given.answer = answer
        /\ given.fresh = answer /\ given.kind = "repeated"
    BY DEF Given
  <2> HIDE DEF s, answer, given
  <2>5. reply' = given \/ reply' = NoReply
    BY <1>1, <2>1, <2>4, <2>6, DeliverStep DEF given, answer
  <2>7. ASSUME reply' = given
        PROVE  Replied'
    <3>1. AnswersAreFresh' /\ MemoryAnswersJustified'
      BY <2>4, <2>7 DEF AnswersAreFresh, MemoryAnswersJustified
    <3>2. AuditedAnswerStands'
      BY <2>3, <2>4, <2>7 DEF AuditedAnswerStands, AuditedFor
    <3> QED BY <2>4, <2>6, <2>7, <3>1, <3>2 DEF Replied
  <2> QED BY <1>3, <2>5, <2>7
<1>6. ASSUME NEW q \in Requests, ValidateNew(q.submission, q.context)
      PROVE  Replied'
  <2> DEFINE s == q.submission
             c == Computation(s, q.context)
             given == Given(s, q.context, c.answer, c.fresh, "new")
  <2>1. /\ Auditable(s, q.context, c.answer) /\ Audit(s, q.context, c.answer)
        /\ rows' = UsedTable(c) /\ clock' = clock
        /\ Deliver(given)
    BY <1>6 DEF ValidateNew
  <2>2. s \in Submissions /\ q.context \in Contexts \cup {NoContext}
        /\ q.context \in SessionContexts
    BY RequestTypes
  <2>3. /\ c.answer \in Answers
        /\ s.participant \notin BadParticipants =>
             c.answer = c.fresh \/ (c.answer.issue = TRUE /\ c.answer.evidence = "none")
    BY <2>2, ComputedAnswer
  <2>4. /\ c.matches \subseteq ActiveRows(c.table)
        /\ \A r \in c.matches :
             r.context = q.context /\ r.expression = Normalized[s.text] /\ clock < r.expires
    BY <2>2, ComputedTable
  <2>5. Lasting(c.table, UsedTable(c))
    BY <2>2, ComputedUse
  <2>6. c.fresh.evidence = "memory" =>
          /\ ~Issue(s) /\ ExactMatches(Round, s.text) = {}
          /\ \E r \in c.matches : r.target = c.fresh.target
    BY <2>2, ComputedFresh
  <2> HIDE DEF c, s
  <2>7. /\ given.submission = s /\ given.context = q.context /\ given.answer = c.answer
        /\ given.fresh = c.fresh /\ given.kind = "new"
    BY DEF Given
  <2> HIDE DEF given
  <2>8. c.answer = c.fresh \/ (c.answer.issue = TRUE /\ c.answer.evidence = "none")
    BY <2>1, <2>3 DEF Auditable
  <2>12. reply' = given \/ reply' = NoReply
    BY <1>1, <2>1, <2>2, <2>7, DeliverStep
  <2>13. ASSUME reply' = given
         PROVE  Replied'
    <3>1. AnswersAreFresh'
      BY <2>7, <2>8, <2>13 DEF AnswersAreFresh
    <3>2. AuditedAnswerStands'
      <4>1. AuditedFor(s.message)' = {AuditRow(s, q.context, c.answer)}
        BY <2>1, AuditedRow
      <4> QED BY <2>7, <2>13, <4>1 DEF AuditedAnswerStands, AuditedFor
    <3>3. MemoryAnswersJustified'
      <4> SUFFICES ASSUME c.answer.evidence = "memory"
                   PROVE  /\ ExactMatches(Round, s.text) = {} /\ ~Issue(s)
                          /\ \E r \in ActiveRows(rows') :
                               /\ r.context = q.context /\ r.target = c.answer.target
                               /\ r.expression = Normalized[s.text] /\ clock < r.expires
        BY <2>1, <2>7, <2>13 DEF MemoryAnswersJustified, ActiveRows
      <4>1. c.answer = c.fresh
        BY <2>8
      <4>2. PICK r \in c.matches : r.target = c.fresh.target
        BY <2>6, <4>1
      <4>3. \E u \in ActiveRows(UsedTable(c)) :
              /\ u.context = r.context /\ u.target = r.target
              /\ u.expression = r.expression /\ u.expires = r.expires
        BY <2>4, <2>5, <4>2 DEF Lasting
      <4> QED BY <2>1, <2>4, <2>6, <4>1, <4>2, <4>3
    <3> QED BY <2>2, <2>7, <2>13, <3>1, <3>2, <3>3 DEF Replied
  <2> QED BY <1>3, <2>12, <2>13
<1>7. \/ reply' = NoReply \/ UNCHANGED vars
      \/ \E q \in Requests : \/ SubmitAgain(q.submission, q.context)
                             \/ ValidateAgain(q.submission, q.context)
                             \/ ValidateNew(q.submission, q.context)
  BY DEF Next, ValidateRefused, ValidateFails, StartSession, Learn,
         RevokeMemory, ListMemory, PurgeLocalData, Restart, Tick, ClockBack
<1> QED BY <1>3, <1>4, <1>5, <1>6, <1>7, <1>8

-----------------------------------------------------------------------------
(* The theorems.                                                           *)

LEMMA LearnStarts == Init => LearnInv
<1> SUFFICES ASSUME Init PROVE LearnInv
  OBVIOUS
<1>1. ActiveRows({}) = {} /\ IsFiniteSet({}) /\ Cardinality({}) = 0
  BY FS_EmptySet DEF ActiveRows
<1>2. Kempt({}, 1)
  BY <1>1, MemoryPolicyAssumption DEF Kempt, Table
<1>3. MemoryOK
  BY <1>1, <1>2, LearningServiceAssumption DEF Init, MemoryOK, OnlyTaughtApplies
<1>4. RecordedOK /\ DeliveredOK
  BY LearningServiceAssumption DEF Init, RecordedOK, DeliveredOK
<1>5. CacheOK(cache)
  BY LearningServiceAssumption DEF Init, CacheOK
<1>6. Replied
  BY DEF Init, Replied, AnswersAreFresh, AuditedAnswerStands, MemoryAnswersJustified
<1> QED BY <1>3, <1>4, <1>5, <1>6 DEF LearnInv

LEMMA LearnInvariant == Spec => []LearnInv
<1>1. LearnInv /\ [Next]_vars => LearnInv'
  <2> SUFFICES ASSUME LearnInv, [Next]_vars PROVE LearnInv'
    OBVIOUS
  <2>1. MemoryOK'
    BY MemoryStep
  <2>2. CacheOK(cache)'
    BY CacheStep
  <2>3. RecordedOK' /\ DeliveredOK'
    BY RecordStep, DeliveryStep
  <2>4. Replied'
    BY ReplyStep
  <2> QED BY <2>1, <2>2, <2>3, <2>4 DEF LearnInv
<1> QED BY <1>1, LearnStarts, PTL DEF Spec

\* The clock, the numbers of the rows, the rows in use, the cache and the
\* recorded validations are what their bounds and policies say.
THEOREM LearningTyped == Spec => []TypeOK
<1>1. LearnInv => TypeOK
  <2> SUFFICES ASSUME LearnInv PROVE TypeOK
    OBVIOUS
  <2>1. MemoryOK /\ Table(rows) /\ nextRow \in Nat
    BY LearningServiceAssumption DEF LearnInv, MemoryOK, Kempt
  <2>2. \A r \in rows : r \in Row /\ r.row < nextRow
    BY <2>1 DEF MemoryOK, Kempt, Table
  <2>3. \A r \in rows : r.row \in 1 .. nextRow - 1 /\ r.state \in {"active", "closed"}
    <3> SUFFICES ASSUME NEW r \in rows
                 PROVE  r.row \in 1 .. nextRow - 1 /\ r.state \in {"active", "closed"}
      OBVIOUS
    <3>1. r.row \in Nat \ {0} /\ r.state \in {"active", "closed"}
      BY <2>2, RowTypes
    <3> QED BY <2>1, <2>2, <3>1
  <2>4. \A r \in ActiveRows(rows) :
          /\ r.context \in Contexts /\ r.target \in TargetIds
          /\ r.lastUsed \in 0 .. MaxTime /\ r.expires \in Ttl .. MaxTime + Ttl
    BY <2>2, RowTypes DEF ActiveRows
  <2>5. /\ Len(cache) <= CacheCapacity
        /\ \A i, j \in DOMAIN cache : cache[i].key = cache[j].key => i = j
    BY DEF LearnInv, CacheOK
  <2>6. /\ Len(recorded) <= MaxRecorded
        /\ \A c \in SessionContexts : Len(delivered[c]) <= MaxRecorded
    BY DEF LearnInv, RecordedOK, DeliveredOK
  <2> QED BY <2>1, <2>3, <2>4, <2>5, <2>6 DEF TypeOK, MemoryOK
<1> QED BY <1>1, LearnInvariant, PTL

\* A cached answer is given only where the recogniser and the memory give the
\* same one at that moment, the verdict InvalidSubmission excepted
\* (take_cached, insert_cache, cache_fingerprint).
THEOREM CachedAnswersFresh == Spec => []AnswersAreFresh
<1>1. LearnInv => AnswersAreFresh
  BY DEF LearnInv, Replied
<1> QED BY <1>1, LearnInvariant, PTL

\* While the audit has a row for a message, validate gives no other answer to
\* it, whatever restarts, retention, the cache and the memory do in between;
\* repetitions that submit answers itself are not validate's (validate,
\* record_validation).
THEOREM AuditedStands == Spec => []AuditedAnswerStands
<1>1. LearnInv => AuditedAnswerStands
  BY DEF LearnInv, Replied
<1> QED BY <1>1, LearnInvariant, PTL

\* The memory has in use only what was taught and not revoked or purged since
\* (remember, revoke, purge_local_data).
THEOREM OnlyTaught == Spec => []OnlyTaughtApplies
<1>1. LearnInv => OnlyTaughtApplies
  BY DEF LearnInv, MemoryOK
<1> QED BY <1>1, LearnInvariant, PTL

\* An answer from the memory rests on an entry that is in use and not due, and
\* never replaces an exact one (validation_with_memory, lookup).
THEOREM MemoryJustified == Spec => []MemoryAnswersJustified
<1>1. LearnInv => MemoryAnswersJustified
  BY DEF LearnInv, Replied
<1> QED BY <1>1, LearnInvariant, PTL

\* The memory stays within its capacity and its history, which are only
\* enforced when an entry is learned (evict_if_full, trim_history).
THEOREM MemoryStaysBounded == Spec => []MemoryBounded
<1>1. LearnInv => MemoryBounded
  BY DEF LearnInv, MemoryOK, Kempt, MemoryBounded
<1> QED BY <1>1, LearnInvariant, PTL

\* Where a round has a margin, the order of its targets decides no verdict,
\* and no expression of the evidence of a verdict that is not ambiguous
\* (validate_fuzzy).
THEOREM OrderIrrelevant == Spec => []TargetOrderIrrelevant
<1>1. LearnInv => TargetOrderIrrelevant
  <2> SUFFICES ASSUME LearnInv, Round.margin > 0, reply # NoReply
               PROVE  Alike(Configured[reply.submission], ConfiguredReversed[reply.submission])
    BY DEF TargetOrderIrrelevant, Alike
  <2> DEFINE s == reply.submission
  <2>1. s \in Submissions
    BY DEF LearnInv, Replied
  <2>2. Configured[s] = Validate(Round, s)
    BY <2>1, ConfiguredIs
  <2>3. ConfiguredReversed[s] = Validate(Reversed, s)
    BY <2>1, ConfiguredIs DEF ConfiguredReversed, Reversed
  <2>4. Alike(Validate(Round, s), Validate(Reversed, s))
    BY <2>1, ReversedAnswer
  <2> QED BY <2>2, <2>3, <2>4
<1> QED BY <1>1, LearnInvariant, PTL
=============================================================================
