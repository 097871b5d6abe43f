-------------------------- MODULE CreativePoolProofs --------------------------
(***************************************************************************)
(* Proofs about CreativePool, for every value of its constants: that       *)
(* memory and table agree, that an ad taken down stays down, that a        *)
(* restart keeps the rotation, that the click counter heals, and that the  *)
(* daemon shows its ads evenly.                                            *)
(***************************************************************************)
EXTENDS CreativePool, FiniteSetTheorems, TLAPS

-----------------------------------------------------------------------------
(* A finite set in a strict total order can be listed. *)

StrictOrder(S, R) ==
  /\ \A a \in S : <<a, a>> \notin R
  /\ \A a, b, c \in S : <<a, b>> \in R /\ <<b, c>> \in R => <<a, c>> \in R
  /\ \A a, b \in S : a # b => <<a, b>> \in R \/ <<b, a>> \in R

Lists(list, S, R) ==
  /\ list \in [1..Cardinality(S) -> S]
  /\ \A i, j \in 1..Cardinality(S) : i < j => <<list[i], list[j]>> \in R

\* Number each member by how many there are before it.
LEMMA Numbered ==
  ASSUME NEW S, IsFiniteSet(S), NEW R, StrictOrder(S, R)
  PROVE  \E f \in Bijection(S, 1..Cardinality(S)) :
           \A a, b \in S : <<a, b>> \in R => f[a] < f[b]
<1> DEFINE n == Cardinality(S)
           below(a) == {b \in S : <<b, a>> \in R}
           f == [a \in S |-> Cardinality(below(a)) + 1]
<1>1. n \in Nat /\ IsFiniteSet(1..n) /\ Cardinality(1..n) = n
  BY FS_CardinalityType, FS_Interval
<1>2. \A a \in S : /\ IsFiniteSet(below(a)) /\ Cardinality(below(a)) \in Nat
                   /\ Cardinality(below(a)) < n
  <2> TAKE a \in S
  <2>1. below(a) \subseteq S /\ a \notin below(a) BY DEF StrictOrder
  <2> HIDE DEF below
  <2>2. /\ IsFiniteSet(below(a)) /\ Cardinality(below(a)) <= n
        /\ Cardinality(below(a)) = n => below(a) = S
    BY <2>1, FS_Subset
  <2>3. Cardinality(below(a)) # n BY <2>1, <2>2
  <2>4. Cardinality(below(a)) \in Nat BY <2>2, FS_CardinalityType
  <2> HIDE DEF n
  <2> QED BY <1>1, <2>2, <2>3, <2>4
<1>3. \A a, b \in S : <<a, b>> \in R => Cardinality(below(a)) < Cardinality(below(b))
  <2> SUFFICES ASSUME NEW a \in S, NEW b \in S, <<a, b>> \in R
               PROVE  Cardinality(below(a)) < Cardinality(below(b))
    OBVIOUS
  <2>1. below(a) \subseteq below(b) /\ a \in below(b) /\ a \notin below(a)
    BY DEF StrictOrder
  <2>2. /\ IsFiniteSet(below(b)) /\ Cardinality(below(a)) \in Nat
        /\ Cardinality(below(b)) \in Nat
    BY <1>2
  <2> HIDE DEF below
  <2>3. /\ Cardinality(below(a)) <= Cardinality(below(b))
        /\ Cardinality(below(a)) = Cardinality(below(b)) => below(a) = below(b)
    BY <2>1, <2>2, FS_Subset
  <2>4. Cardinality(below(a)) # Cardinality(below(b)) BY <2>1, <2>3
  <2> QED BY <2>2, <2>3, <2>4
<1> HIDE DEF n, below
<1>4. f \in [S -> 1..n]
  <2> SUFFICES ASSUME NEW a \in S PROVE Cardinality(below(a)) + 1 \in 1..n OBVIOUS
  <2>1. Cardinality(below(a)) \in Nat /\ Cardinality(below(a)) < n BY <1>2
  <2> QED BY <1>1, <2>1
<1>5. \A a, b \in S : <<a, b>> \in R => f[a] < f[b]
  <2> SUFFICES ASSUME NEW a \in S, NEW b \in S, <<a, b>> \in R PROVE f[a] < f[b] OBVIOUS
  <2>1. /\ Cardinality(below(a)) < Cardinality(below(b))
        /\ Cardinality(below(a)) \in Nat /\ Cardinality(below(b)) \in Nat
    BY <1>2, <1>3
  <2> QED BY <2>1
<1> HIDE DEF f
<1>6. \A a, b \in S : f[a] = f[b] => a = b
  <2> SUFFICES ASSUME NEW a \in S, NEW b \in S, f[a] = f[b], a # b PROVE FALSE OBVIOUS
  <2>1. f[a] < f[b] \/ f[b] < f[a] BY <1>5 DEF StrictOrder
  <2>2. f[a] \in Nat /\ f[b] \in Nat BY <1>4
  <2> QED BY <2>1, <2>2
<1>7. f \in Injection(S, 1..n) BY <1>4, <1>6 DEF Injection, IsInjective
<1>8. f \in Surjection(S, 1..n) BY <1>1, <1>7, FS_Injection DEF n
<1>9. f \in Bijection(S, 1..n) BY <1>7, <1>8 DEF Bijection
<1> QED BY <1>5, <1>9 DEF n

\* What Listed chooses: each member once, in the order.
LEMMA ListedIs ==
  ASSUME NEW S, IsFiniteSet(S), NEW R, StrictOrder(S, R)
  PROVE  /\ Lists(Listed(S, R), S, R)
         /\ Range(Listed(S, R)) = S /\ IsInjective(Listed(S, R))
         /\ Cardinality(S) \in Nat
<1> DEFINE n == Cardinality(S)
           L == Listed(S, R)
<1>1. PICK f \in Bijection(S, 1..n) : \A a, b \in S : <<a, b>> \in R => f[a] < f[b]
  BY Numbered
<1>2. n \in Nat /\ IsFiniteSet(1..n) /\ Cardinality(1..n) = n
  BY FS_CardinalityType, FS_Interval
<1> HIDE DEF n
<1> DEFINE g == [i \in 1..n |-> CHOOSE a \in S : f[a] = i]
<1>3. \A i \in 1..n : g[i] \in S /\ f[g[i]] = i BY <1>1 DEF Bijection, Surjection
<1> HIDE DEF g
<1>4. \A i, j \in 1..n : i < j => <<g[i], g[j]>> \in R
  <2> SUFFICES ASSUME NEW i \in 1..n, NEW j \in 1..n, i < j PROVE <<g[i], g[j]>> \in R
    OBVIOUS
  <2>1. g[i] \in S /\ g[j] \in S /\ f[g[i]] = i /\ f[g[j]] = j BY <1>3
  <2>2. i # j /\ ~(j < i) BY <1>2
  <2>3. g[i] # g[j] BY <2>1, <2>2
  <2>4. <<g[j], g[i]>> \notin R BY <1>1, <2>1, <2>2
  <2> QED BY <2>1, <2>3, <2>4 DEF StrictOrder
<1>5. g \in [1..n -> S] BY <1>3 DEF g
<1>6. Lists(L, S, R) BY <1>4, <1>5 DEF Lists, Listed, n
<1> HIDE DEF L
<1>7. L \in [1..n -> S] /\ \A i, j \in 1..n : i < j => <<L[i], L[j]>> \in R
  BY <1>6 DEF Lists, n
<1>8. \A i, j \in 1..n : L[i] = L[j] => i = j
  <2> SUFFICES ASSUME NEW i \in 1..n, NEW j \in 1..n, L[i] = L[j], i # j PROVE FALSE OBVIOUS
  <2>1. i < j \/ j < i BY <1>2
  <2>2. L[i] \in S BY <1>7
  <2>3. <<L[i], L[i]>> \in R BY <1>7, <2>1
  <2> QED BY <2>2, <2>3 DEF StrictOrder
<1>9. IsInjective(L) BY <1>7, <1>8 DEF IsInjective
<1>10. L \in Injection(1..n, S) BY <1>7, <1>9 DEF Injection
<1>11. L \in Surjection(1..n, S) BY <1>2, <1>10, FS_Injection DEF n
<1>12. Range(L) = S BY <1>7, <1>11 DEF Range, Surjection
<1> QED BY <1>2, <1>6, <1>9, <1>12 DEF L, n

-----------------------------------------------------------------------------
(* The pool a table gives, and what retain leaves of one. *)

RowType == [created : Nat, active : BOOLEAN]

TableOK(table) ==
  /\ DOMAIN table \subseteq Ids /\ IsFiniteSet(DOMAIN table)
  /\ table \in [DOMAIN table -> RowType]

ActiveIn(table) == {i \in DOMAIN table : table[i].active}

LEMMA ActivePoolIs ==
  ASSUME NEW table, TableOK(table)
  PROVE  /\ ActivePool(table) \in Seq(Ids)
         /\ Range(ActivePool(table)) = ActiveIn(table) /\ IsInjective(ActivePool(table))
         /\ \A i, j \in DOMAIN ActivePool(table) :
              i < j => Before(table, ActivePool(table)[i], ActivePool(table)[j])
<1> DEFINE S == ActiveIn(table)
           R == CreationOrder(table)
           L == Listed(S, R)
<1>1. IsFiniteSet(S) /\ S \subseteq DOMAIN table /\ S \subseteq Ids
  BY FS_Subset DEF TableOK, ActiveIn
<1>2. \A a, b \in S : <<a, b>> \in R <=> Before(table, a, b)
  BY <1>1 DEF CreationOrder
<1>3. \A a \in S : a \in Nat /\ table[a].created \in Nat
  BY <1>1, PoolAssumption DEF TableOK, RowType
<1> HIDE DEF S, R
<1>4. StrictOrder(S, R)
  <2>1. \A a \in S : <<a, a>> \notin R BY <1>2, <1>3 DEF Before
  <2>2. \A a, b, c \in S : <<a, b>> \in R /\ <<b, c>> \in R => <<a, c>> \in R
    BY <1>2, <1>3 DEF Before
  <2>3. \A a, b \in S : a # b => <<a, b>> \in R \/ <<b, a>> \in R
    BY <1>2, <1>3 DEF Before
  <2> QED BY <2>1, <2>2, <2>3 DEF StrictOrder
<1>5. Lists(L, S, R) /\ Range(L) = S /\ IsInjective(L) /\ Cardinality(S) \in Nat
  BY <1>1, <1>4, ListedIs
<1>6. ActivePool(table) = L BY DEF ActivePool, S, R, ActiveIn
<1> HIDE DEF L
<1>7. L \in [1..Cardinality(S) -> S] /\ DOMAIN L = 1..Cardinality(S)
      /\ \A i, j \in 1..Cardinality(S) : i < j => <<L[i], L[j]>> \in R
  BY <1>5 DEF Lists
<1>8. L \in Seq(Ids)
  <2> DEFINE n == Cardinality(S)
  <2>1. n \in Nat /\ L \in [1..n -> Ids] BY <1>1, <1>5, <1>7
  <2> HIDE DEF n
  <2> QED BY <2>1
<1>9. \A i, j \in DOMAIN L : i < j => Before(table, L[i], L[j])
  <2> SUFFICES ASSUME NEW i \in DOMAIN L, NEW j \in DOMAIN L, i < j
               PROVE  Before(table, L[i], L[j])
    OBVIOUS
  <2>1. L[i] \in S /\ L[j] \in S /\ <<L[i], L[j]>> \in R BY <1>7
  <2> QED BY <1>2, <2>1
<1> QED BY <1>5, <1>6, <1>8, <1>9 DEF S

LEMMA RetainedIs ==
  ASSUME NEW list \in Seq(Ids), IsInjective(list), NEW id
  PROVE  /\ Retained(list, id) \in Seq(Ids)
         /\ Range(Retained(list, id)) = Range(list) \ {id}
         /\ IsInjective(Retained(list, id))
         /\ \A i, j \in DOMAIN Retained(list, id) : i < j =>
              \E k, l \in DOMAIN list :
                k < l /\ Retained(list, id)[i] = list[k] /\ Retained(list, id)[j] = list[l]
<1> DEFINE S == {k \in DOMAIN list : list[k] # id}
           R == {r \in (DOMAIN list) \X (DOMAIN list) : r[1] < r[2]}
           L == Listed(S, R)
           rest == Retained(list, id)
           n == Cardinality(S)
<1>1. Len(list) \in Nat /\ DOMAIN list = 1..Len(list) OBVIOUS
<1>2. IsFiniteSet(S)
  <2>1. IsFiniteSet(1..Len(list)) BY <1>1, FS_Interval
  <2>2. S \subseteq 1..Len(list) BY <1>1
  <2> QED BY <2>1, <2>2, FS_Subset
<1>3. \A a, b \in DOMAIN list : <<a, b>> \in R <=> a < b OBVIOUS
<1>4. StrictOrder(S, R)
  <2>1. \A a \in S : <<a, a>> \notin R BY <1>1, <1>3
  <2>2. \A a, b, c \in S : <<a, b>> \in R /\ <<b, c>> \in R => <<a, c>> \in R BY <1>1, <1>3
  <2>3. \A a, b \in S : a # b => <<a, b>> \in R \/ <<b, a>> \in R BY <1>1, <1>3
  <2> QED BY <2>1, <2>2, <2>3 DEF StrictOrder
<1>5. Lists(L, S, R) /\ Range(L) = S /\ IsInjective(L) /\ Cardinality(S) \in Nat
  BY <1>2, <1>4, ListedIs
<1>6. rest = [m \in DOMAIN L |-> list[L[m]]] BY DEF Retained
<1> HIDE DEF L, rest, R
<1>7. L \in [1..n -> S] /\ DOMAIN L = 1..n /\ n \in Nat
      /\ \A i, j \in 1..n : i < j => <<L[i], L[j]>> \in R
  BY <1>5 DEF Lists
<1>8. DOMAIN rest = 1..n /\ \A m \in 1..n : rest[m] = list[L[m]] /\ L[m] \in S
  BY <1>6, <1>7
<1>9. \A k \in S : k \in DOMAIN list /\ list[k] # id /\ list[k] \in Ids OBVIOUS
<1>10. \A k \in S : \E m \in 1..n : L[m] = k BY <1>5, <1>7 DEF Range
<1>11. \A k \in DOMAIN list : list[k] # id => k \in S OBVIOUS
<1> HIDE DEF S, n
<1>12. rest \in Seq(Ids)
  <2>1. rest \in [1..n -> Ids]
    <3>1. \A m \in 1..n : rest[m] \in Ids BY <1>8, <1>9
    <3>2. rest = [m \in 1..n |-> rest[m]] BY <1>6, <1>7, <1>8
    <3> QED BY <3>1, <3>2
  <2> QED BY <1>7, <2>1
<1>13. Range(rest) = Range(list) \ {id}
  <2>1. ASSUME NEW x \in Range(rest) PROVE x \in Range(list) \ {id}
    <3>1. PICK m \in 1..n : x = rest[m] BY <1>8, <2>1 DEF Range
    <3>2. x = list[L[m]] /\ L[m] \in DOMAIN list /\ list[L[m]] # id BY <1>8, <1>9, <3>1
    <3> QED BY <3>2 DEF Range
  <2>2. ASSUME NEW x \in Range(list) \ {id} PROVE x \in Range(rest)
    <3>1. PICK k \in DOMAIN list : x = list[k] BY <2>2 DEF Range
    <3>2. k \in S BY <1>11, <2>2, <3>1
    <3>3. PICK m \in 1..n : L[m] = k BY <1>10, <3>2
    <3>4. rest[m] = x /\ m \in DOMAIN rest BY <1>8, <3>1, <3>3
    <3> QED BY <3>4 DEF Range
  <2> QED BY <2>1, <2>2
<1>14. IsInjective(rest)
  <2> SUFFICES ASSUME NEW i \in 1..n, NEW j \in 1..n, rest[i] = rest[j] PROVE i = j
    BY <1>8 DEF IsInjective
  <2>1. list[L[i]] = list[L[j]] /\ L[i] \in DOMAIN list /\ L[j] \in DOMAIN list
    BY <1>8, <1>9
  <2>2. L[i] = L[j] BY <2>1 DEF IsInjective
  <2> QED BY <1>5, <1>7, <2>2 DEF IsInjective
<1>15. ASSUME NEW i \in DOMAIN rest, NEW j \in DOMAIN rest, i < j
       PROVE  \E k, l \in DOMAIN list : k < l /\ rest[i] = list[k] /\ rest[j] = list[l]
  <2>1. L[i] \in DOMAIN list /\ L[j] \in DOMAIN list /\ <<L[i], L[j]>> \in R
    BY <1>7, <1>8, <1>9, <1>15
  <2>2. L[i] < L[j] BY <1>3, <2>1
  <2> QED BY <1>8, <1>15, <2>1, <2>2
<1> QED BY <1>12, <1>13, <1>14, <1>15 DEF rest

LEMMA RangeFinite ==
  ASSUME NEW list \in Seq(Ids)
  PROVE  IsFiniteSet(Range(list)) /\ Range(list) \subseteq Ids
<1>1. Len(list) \in Nat /\ DOMAIN list = 1..Len(list) /\ list \in [1..Len(list) -> Ids]
  OBVIOUS
<1>2. list \in Surjection(1..Len(list), Range(list)) BY <1>1 DEF Surjection, Range
<1>3. IsFiniteSet(1..Len(list)) BY <1>1, FS_Interval
<1> QED BY <1>1, <1>2, <1>3, FS_Surjection DEF Range

LEMMA HouseOnce == IsInjective(House) /\ House \in Seq(Ids) /\ Range(House) # {}
<1>1. House \in Seq(Ids) /\ House # <<>> BY PoolAssumption
<1>2. \A i \in DOMAIN House : House[i] \in Nat
  <2>1. \A i \in DOMAIN House : House[i] \in Ids BY <1>1
  <2> QED BY <2>1, PoolAssumption
<1>3. ASSUME NEW i \in DOMAIN House, NEW j \in DOMAIN House, House[i] = House[j]
      PROVE  i = j
  <2>1. i \in Nat /\ j \in Nat BY <1>1
  <2>2. ~(i < j) /\ ~(j < i) BY <1>2, <1>3, PoolAssumption
  <2> QED BY <2>1, <2>2
<1>4. 1 \in DOMAIN House BY <1>1
<1> QED BY <1>1, <1>3, <1>4 DEF IsInjective, Range

-----------------------------------------------------------------------------
(* Memory and table: the inductive invariant. *)

\* Ads of the table stand in the pool in the order of their creation, but for
\* those created while the clock was behind.
PoolOrder(list, table, behind) ==
  \A i, j \in DOMAIN list :
    i < j /\ list[i] \in DOMAIN table /\ list[j] \in DOMAIN table
      => table[list[i]].created <= table[list[j]].created \/ list[j] \in behind

\* No row is younger than the latest second the clock has shown.  The table is
\* never empty, so the house ads are seeded once; ids are used
\* once; and a deleted ad keeps its inactive row.
Memory ==
  /\ now \in Nat /\ top \in Nat /\ now <= top
  /\ TableOK(rows) /\ DOMAIN rows # {} /\ \A i \in DOMAIN rows : rows[i].created <= top
  /\ pool \in Seq(Ids) /\ PoolMatchesTable /\ PoolOrder(pool, rows, early)
  /\ acked \subseteq Ids /\ DOMAIN rows \subseteq acked
  /\ unsaved \subseteq acked \ DOMAIN rows
  /\ removed \subseteq DOMAIN rows \ ActiveIn(rows)

\* A table the backend may be opened on.
Openable(table) ==
  /\ TableOK(table) /\ DOMAIN table # {} /\ \A i \in DOMAIN table : table[i].created <= top

LEMMA OpenedMemory ==
  ASSUME Memory, NEW table, Openable(table), Reopened(table), acked' \subseteq Ids,
         DOMAIN table \subseteq acked', removed' \subseteq DOMAIN table \ ActiveIn(table)
  PROVE  Memory'
<1>1. /\ rows' = table /\ pool' = ActivePool(table) /\ unsaved' = {} /\ now' = now /\ top' = top
      /\ early' = {}
  BY DEF Reopened, OpenedRows, OpenedPool, Openable, clock
<1>2. TableOK(table) BY DEF Openable
<1>3. /\ pool' \in Seq(Ids) /\ Range(pool') = ActiveIn(rows') /\ IsInjective(pool')
      /\ \A i, j \in DOMAIN pool' : i < j => Before(rows', pool'[i], pool'[j])
  BY <1>1, <1>2, ActivePoolIs
<1>4. PoolMatchesTable' BY <1>1, <1>3 DEF PoolMatchesTable, ActiveIn
<1>5. PoolOrder(pool', rows', early')
  <2> SUFFICES ASSUME NEW i \in DOMAIN pool', NEW j \in DOMAIN pool', i < j,
                      pool'[i] \in DOMAIN rows', pool'[j] \in DOMAIN rows'
               PROVE  rows'[pool'[i]].created <= rows'[pool'[j]].created
    BY DEF PoolOrder
  <2>1. Before(rows', pool'[i], pool'[j]) BY <1>3
  <2>2. rows'[pool'[i]].created \in Nat /\ rows'[pool'[j]].created \in Nat
    BY <1>1, <1>2 DEF TableOK, RowType
  <2> QED BY <2>1, <2>2 DEF Before
<1> QED BY <1>1, <1>3, <1>4, <1>5 DEF Memory, Openable, ActiveIn

\* A new row carries the second of its creation and changes no other.
LEMMA WithRowIs ==
  ASSUME Memory, NEW id \in Fresh
  PROVE  /\ Openable(WithRow(id)) /\ id \in Ids /\ id \notin acked
         /\ DOMAIN WithRow(id) = DOMAIN rows \cup {id}
         /\ WithRow(id)[id] = Row(now)
         /\ \A i \in DOMAIN rows : i # id /\ WithRow(id)[i] = rows[i]
         /\ ActiveIn(WithRow(id)) = ActiveIn(rows) \cup {id}
         /\ Row(now) \in RowType /\ Row(now).created = now
<1> DEFINE t == WithRow(id)
<1>1. id \in Ids /\ id \notin acked /\ id \notin DOMAIN rows BY DEF Fresh, Memory
<1>2. Row(now) \in RowType /\ Row(now).created = now /\ Row(now).active = TRUE
  BY DEF Row, RowType, Memory
<1>3. /\ DOMAIN t = DOMAIN rows \cup {id} /\ t[id] = Row(now)
      /\ \A i \in DOMAIN rows : i # id /\ t[i] = rows[i]
      /\ t = [i \in DOMAIN t |-> t[i]]
  BY <1>1 DEF WithRow
<1> HIDE DEF t
<1>4. IsFiniteSet(DOMAIN t) BY <1>3, FS_AddElement DEF Memory, TableOK
<1>5. t \in [DOMAIN t -> RowType]
  <2>1. \A i \in DOMAIN rows : rows[i] \in RowType BY DEF Memory, TableOK
  <2>2. \A i \in DOMAIN t : t[i] \in RowType BY <1>2, <1>3, <2>1
  <2> QED BY <1>3, <2>2
<1>6. ActiveIn(t) = ActiveIn(rows) \cup {id} BY <1>2, <1>3 DEF ActiveIn
<1>7. \A i \in DOMAIN t : t[i].created <= top BY <1>2, <1>3 DEF Memory
<1>8. Openable(t) BY <1>1, <1>3, <1>4, <1>5, <1>7 DEF Openable, TableOK, Memory
<1> QED BY <1>1, <1>2, <1>3, <1>6, <1>8 DEF t

\* A deleted row stays, inactive.
LEMMA WithoutRowIs ==
  ASSUME Memory, NEW id \in Ids, IsActive(id)
  PROVE  /\ Openable(WithoutRow(id)) /\ DOMAIN WithoutRow(id) = DOMAIN rows
         /\ ActiveIn(WithoutRow(id)) = ActiveIn(rows) \ {id}
         /\ \A i \in DOMAIN rows : WithoutRow(id)[i].created = rows[i].created
         /\ id \in DOMAIN rows
<1> DEFINE t == WithoutRow(id)
<1>1. id \in DOMAIN rows /\ rows \in [DOMAIN rows -> RowType]
  BY DEF IsActive, Memory, TableOK
<1>2. t = [rows EXCEPT ![id].active = FALSE] BY DEF WithoutRow
<1> HIDE DEF t
<1>3. /\ DOMAIN t = DOMAIN rows /\ t \in [DOMAIN rows -> RowType]
      /\ t[id].created = rows[id].created /\ t[id].active = FALSE
      /\ \A i \in DOMAIN rows \ {id} : t[i] = rows[i]
  BY <1>1, <1>2 DEF RowType
<1>4. \A i \in DOMAIN rows : t[i].created = rows[i].created BY <1>3
<1>5. ActiveIn(t) = ActiveIn(rows) \ {id} BY <1>1, <1>3 DEF ActiveIn
<1>6. Openable(t)
  BY <1>3, <1>4 DEF Openable, TableOK, Memory
<1> QED BY <1>1, <1>3, <1>4, <1>5, <1>6 DEF t

LEMMA InitMemory == Init => Memory
<1> SUFFICES ASSUME Init PROVE Memory OBVIOUS
<1>1. /\ now = 0 /\ top = 0 /\ rows = SeededRows /\ pool = House /\ acked = Range(House)
      /\ removed = {} /\ unsaved = {}
  BY DEF Init
<1>2. IsFiniteSet(Range(House)) /\ Range(House) \subseteq Ids
  BY HouseOnce, RangeFinite
<1>3. Row(now) \in RowType /\ Row(now).created = 0 /\ Row(now).active = TRUE
  BY <1>1 DEF Row, RowType
<1>4. DOMAIN rows = Range(House) /\ (\A i \in Range(House) : rows[i] = Row(now))
      /\ rows = [i \in Range(House) |-> rows[i]]
  BY <1>1 DEF SeededRows
<1>5. TableOK(rows) BY <1>2, <1>3, <1>4 DEF TableOK
<1>6. ActiveIn(rows) = Range(House) BY <1>3, <1>4 DEF ActiveIn
<1>7. PoolMatchesTable BY <1>1, <1>6, HouseOnce DEF PoolMatchesTable, ActiveIn
<1>8. PoolOrder(pool, rows, early) BY <1>3, <1>4 DEF PoolOrder
<1>9. \A i \in DOMAIN rows : rows[i].created <= top BY <1>1, <1>3, <1>4
<1> QED BY <1>1, <1>2, <1>4, <1>5, <1>7, <1>8, <1>9, HouseOnce DEF Memory

LEMMA AppendedMemory ==
  ASSUME Memory, NEW id \in Fresh, pool' = Append(pool, id)
  PROVE  /\ pool' \in Seq(Ids) /\ Range(pool') = Range(pool) \cup {id} /\ IsInjective(pool')
         /\ Len(pool') = Len(pool) + 1 /\ pool'[Len(pool) + 1] = id /\ Len(pool) \in Nat
         /\ \A i \in 1..Len(pool) : pool'[i] = pool[i] /\ pool[i] # id
<1>1. id \in Ids /\ id \notin acked BY DEF Fresh
<1>2. pool \in Seq(Ids) /\ Len(pool) \in Nat /\ IsInjective(pool)
      /\ \A i \in 1..Len(pool) : pool[i] \in acked
  <2>1. pool \in Seq(Ids) /\ IsInjective(pool) /\ Range(pool) \subseteq acked
    BY DEF Memory, PoolMatchesTable
  <2> QED BY <2>1 DEF Range
<1>3. /\ pool' \in Seq(Ids) /\ Len(pool') = Len(pool) + 1 /\ pool'[Len(pool) + 1] = id
      /\ \A i \in 1..Len(pool) : pool'[i] = pool[i]
  BY <1>1, <1>2
<1>4. \A i \in 1..Len(pool) : pool[i] # id BY <1>1, <1>2
<1>5. DOMAIN pool' = 1..(Len(pool) + 1) /\ DOMAIN pool = 1..Len(pool) BY <1>2, <1>3
<1>6. \A i : i \in 1..(Len(pool) + 1) <=> i \in 1..Len(pool) \/ i = Len(pool) + 1
  BY <1>2
<1>7. IsInjective(pool')
  <2> SUFFICES ASSUME NEW i \in DOMAIN pool', NEW j \in DOMAIN pool', pool'[i] = pool'[j]
               PROVE  i = j
    BY DEF IsInjective
  <2> QED BY <1>2, <1>3, <1>4, <1>5, <1>6 DEF IsInjective
<1>8. Range(pool') = Range(pool) \cup {id}
  BY <1>3, <1>5, <1>6 DEF Range
<1> QED BY <1>2, <1>3, <1>4, <1>7, <1>8

LEMMA CreateMemory ==
  ASSUME Memory, NEW id \in Ids,
         AdminCreate(id) \/ AdminCreateUnsaved(id) \/ AdminCreateCrash(id)
  PROVE  Memory'
<1>1. CASE AdminCreate(id)
  <2>1. /\ id \in Fresh /\ rows' = WithRow(id) /\ pool' = Append(pool, id)
        /\ acked' = acked \cup {id} /\ UNCHANGED <<now, top, removed, unsaved>>
        /\ early' = IF now < top THEN early \cup {id} ELSE early
    BY <1>1 DEF AdminCreate, clock
  <2>2. /\ Openable(rows') /\ id \notin acked /\ DOMAIN rows' = DOMAIN rows \cup {id}
        /\ rows'[id] = Row(now) /\ \A i \in DOMAIN rows : i # id /\ rows'[i] = rows[i]
        /\ ActiveIn(rows') = ActiveIn(rows) \cup {id} /\ Row(now).created = now
    BY <2>1, WithRowIs
  <2>3. /\ pool' \in Seq(Ids) /\ Range(pool') = Range(pool) \cup {id} /\ IsInjective(pool')
        /\ Len(pool') = Len(pool) + 1 /\ pool'[Len(pool) + 1] = id /\ Len(pool) \in Nat
        /\ \A i \in 1..Len(pool) : pool'[i] = pool[i] /\ pool[i] # id
    BY <2>1, AppendedMemory
  <2>4. PoolMatchesTable'
    BY <2>1, <2>2, <2>3 DEF Memory, PoolMatchesTable, ActiveIn
  <2>5. PoolOrder(pool', rows', early')
    <3> SUFFICES ASSUME NEW i \in DOMAIN pool', NEW j \in DOMAIN pool', i < j,
                        pool'[i] \in DOMAIN rows', pool'[j] \in DOMAIN rows'
                 PROVE  \/ rows'[pool'[i]].created <= rows'[pool'[j]].created
                        \/ pool'[j] \in early'
      BY DEF PoolOrder
    <3>1. i \in 1..Len(pool) /\ (j \in 1..Len(pool) \/ j = Len(pool) + 1)
      BY <2>3
    <3>2. pool'[i] = pool[i] /\ pool[i] \in DOMAIN rows /\ rows'[pool[i]] = rows[pool[i]]
      BY <2>2, <2>3, <3>1
    <3>3. CASE j \in 1..Len(pool)
      <4>1. pool'[j] = pool[j] /\ pool[j] \in DOMAIN rows /\ rows'[pool[j]] = rows[pool[j]]
        BY <2>2, <2>3, <3>3
      <4>2. i \in DOMAIN pool /\ j \in DOMAIN pool BY <3>1, <3>3 DEF Memory
      <4>3. rows[pool[i]].created <= rows[pool[j]].created \/ pool[j] \in early
        BY <3>2, <4>1, <4>2 DEF Memory, PoolOrder
      <4> QED BY <2>1, <3>2, <4>1, <4>3
    <3>4. CASE j = Len(pool) + 1
      <4>1. pool'[j] = id /\ rows'[pool'[j]].created = now BY <2>2, <2>3, <3>4
      <4>2. CASE now < top BY <2>1, <4>1, <4>2
      <4>3. CASE ~(now < top)
        <5>1. now = top BY <4>3 DEF Memory
        <5>2. rows[pool[i]].created <= top BY <3>2 DEF Memory
        <5> QED BY <3>2, <4>1, <5>1, <5>2
      <4> QED BY <4>2, <4>3
    <3> QED BY <3>1, <3>3, <3>4
  <2> QED BY <2>1, <2>2, <2>3, <2>4, <2>5 DEF Memory, Openable
<1>2. CASE AdminCreateUnsaved(id)
  <2>1. /\ id \in Fresh /\ pool' = Append(pool, id) /\ acked' = acked \cup {id}
        /\ unsaved' = unsaved \cup {id} /\ UNCHANGED <<now, top, early, rows, removed>>
    BY <1>2 DEF AdminCreateUnsaved, clock
  <2>2. id \notin DOMAIN rows BY <2>1 DEF Memory, Fresh
  <2>3. /\ pool' \in Seq(Ids) /\ Range(pool') = Range(pool) \cup {id} /\ IsInjective(pool')
        /\ Len(pool') = Len(pool) + 1 /\ pool'[Len(pool) + 1] = id /\ Len(pool) \in Nat
        /\ \A i \in 1..Len(pool) : pool'[i] = pool[i] /\ pool[i] # id
    BY <2>1, AppendedMemory
  <2>4. PoolMatchesTable' BY <2>1, <2>3 DEF Memory, PoolMatchesTable
  <2>5. PoolOrder(pool', rows', early')
    <3> SUFFICES ASSUME NEW i \in DOMAIN pool', NEW j \in DOMAIN pool', i < j,
                        pool'[i] \in DOMAIN rows', pool'[j] \in DOMAIN rows'
                 PROVE  \/ rows'[pool'[i]].created <= rows'[pool'[j]].created
                        \/ pool'[j] \in early'
      BY DEF PoolOrder
    <3>1. j # Len(pool) + 1 BY <2>1, <2>2, <2>3
    <3>2. i \in 1..Len(pool) /\ j \in 1..Len(pool) BY <2>3, <3>1
    <3>3. pool'[i] = pool[i] /\ pool'[j] = pool[j] BY <2>3, <3>2
    <3>4. i \in DOMAIN pool /\ j \in DOMAIN pool BY <3>2 DEF Memory
    <3> QED BY <2>1, <3>3, <3>4 DEF Memory, PoolOrder
  <2> QED BY <2>1, <2>2, <2>3, <2>4, <2>5 DEF Memory
<1>3. CASE AdminCreateCrash(id)
  <2>1. /\ id \in Fresh /\ Reopened(WithRow(id)) /\ acked' = acked \cup {id}
        /\ UNCHANGED removed
    BY <1>3 DEF AdminCreateCrash
  <2> DEFINE t == WithRow(id)
  <2>2. /\ Openable(t) /\ id \notin acked /\ DOMAIN t = DOMAIN rows \cup {id}
        /\ ActiveIn(t) = ActiveIn(rows) \cup {id}
    BY <2>1, WithRowIs
  <2> HIDE DEF t
  <2>3. acked' \subseteq Ids /\ DOMAIN t \subseteq acked' /\ removed' \subseteq DOMAIN t \ ActiveIn(t)
    BY <2>1, <2>2 DEF Memory
  <2> QED BY <2>1, <2>2, <2>3, OpenedMemory DEF t
<1> QED BY <1>1, <1>2, <1>3

LEMMA DeleteMemory ==
  ASSUME Memory, NEW id \in Ids, AdminDelete(id) \/ AdminDeleteCrash(id)
  PROVE  Memory'
<1>1. IsActive(id) BY DEF AdminDelete, AdminDeleteCrash
<1> DEFINE t == WithoutRow(id)
<1>2. /\ Openable(t) /\ DOMAIN t = DOMAIN rows /\ ActiveIn(t) = ActiveIn(rows) \ {id}
      /\ \A i \in DOMAIN rows : t[i].created = rows[i].created
      /\ id \in DOMAIN rows
  BY <1>1, WithoutRowIs
<1>3. removed \cup {id} \subseteq DOMAIN t \ ActiveIn(t) BY <1>2 DEF Memory
<1>4. CASE AdminDelete(id)
  <2>1. /\ rows' = t /\ pool' = Retained(pool, id) /\ removed' = removed \cup {id}
        /\ UNCHANGED <<now, top, early, acked, unsaved>>
    BY <1>4 DEF AdminDelete, clock
  <2> HIDE DEF t
  <2>2. pool \in Seq(Ids) /\ IsInjective(pool) BY DEF Memory, PoolMatchesTable
  <2>3. /\ pool' \in Seq(Ids) /\ Range(pool') = Range(pool) \ {id} /\ IsInjective(pool')
        /\ \A i, j \in DOMAIN pool' : i < j =>
             \E k, l \in DOMAIN pool : k < l /\ pool'[i] = pool[k] /\ pool'[j] = pool[l]
    BY <2>1, <2>2, RetainedIs
  <2>4. PoolMatchesTable'
    <3>1. id \notin unsaved BY <1>2 DEF Memory
    <3>2. Range(pool) = ActiveIn(rows) \cup unsaved BY DEF Memory, PoolMatchesTable, ActiveIn
    <3>3. Range(pool') = ActiveIn(rows') \cup unsaved' BY <1>2, <2>1, <2>3, <3>1, <3>2
    <3> QED BY <2>3, <3>3 DEF PoolMatchesTable, ActiveIn
  <2>5. PoolOrder(pool', rows', early')
    <3> SUFFICES ASSUME NEW i \in DOMAIN pool', NEW j \in DOMAIN pool', i < j,
                        pool'[i] \in DOMAIN rows', pool'[j] \in DOMAIN rows'
                 PROVE  \/ rows'[pool'[i]].created <= rows'[pool'[j]].created
                        \/ pool'[j] \in early'
      BY DEF PoolOrder
    <3>1. PICK k \in DOMAIN pool, l \in DOMAIN pool :
            k < l /\ pool'[i] = pool[k] /\ pool'[j] = pool[l]
      BY <2>3
    <3>2. pool[k] \in DOMAIN rows /\ pool[l] \in DOMAIN rows BY <1>2, <2>1, <3>1
    <3>3. rows[pool[k]].created <= rows[pool[l]].created \/ pool[l] \in early
      BY <3>1, <3>2 DEF Memory, PoolOrder
    <3> QED BY <1>2, <2>1, <3>1, <3>2, <3>3
  <2> QED BY <1>2, <1>3, <2>1, <2>3, <2>4, <2>5 DEF Memory, Openable
<1>5. CASE AdminDeleteCrash(id)
  <2>1. Reopened(t) /\ removed' = removed \cup {id} /\ UNCHANGED acked
    BY <1>5 DEF AdminDeleteCrash
  <2> HIDE DEF t
  <2>2. acked' \subseteq Ids /\ DOMAIN t \subseteq acked' BY <1>2, <2>1 DEF Memory
  <2> QED BY <1>2, <1>3, <2>1, <2>2, OpenedMemory
<1> QED BY <1>4, <1>5

LEMMA RestartMemory ==
  ASSUME Memory, Restart
  PROVE  Memory'
<1>1. Reopened(rows) /\ UNCHANGED <<acked, removed>> BY DEF Restart
<1>2. Openable(rows) BY DEF Memory, Openable
<1>3. acked' \subseteq Ids /\ DOMAIN rows \subseteq acked'
      /\ removed' \subseteq DOMAIN rows \ ActiveIn(rows)
  BY <1>1 DEF Memory
<1> QED BY <1>1, <1>2, <1>3, OpenedMemory

LEMMA MemoryKept ==
  ASSUME Memory, UNCHANGED <<rows, pool, acked, removed, unsaved, early>>,
         now' \in Nat, top' \in Nat, now' <= top', top <= top'
  PROVE  Memory'
<1>1. top \in Nat BY DEF Memory
<1>2. \A i \in DOMAIN rows : rows[i].created \in Nat BY DEF Memory, TableOK, RowType
<1>3. \A i \in DOMAIN rows' : rows'[i].created <= top' BY <1>1, <1>2 DEF Memory
<1>4. PoolMatchesTable' BY DEF Memory, PoolMatchesTable
<1> QED BY <1>1, <1>3, <1>4 DEF Memory

LEMMA NextMemory == Memory /\ [Next]_vars => Memory'
<1> SUFFICES ASSUME Memory, [Next]_vars PROVE Memory' OBVIOUS
<1>0. now \in Nat /\ top \in Nat /\ now <= top BY DEF Memory
<1>1. CASE Tick
  <2>1. now' = now + 1 /\ top' = (IF now' > top THEN now' ELSE top) BY <1>1 DEF Tick
  <2>2. now' \in Nat /\ top' \in Nat /\ now' <= top' /\ top <= top' BY <1>0, <2>1
  <2> QED BY <1>1, <2>2, MemoryKept DEF Tick, server
<1>8. CASE ClockBack
  <2>1. now' \in 0..(now - 1) /\ top' = top BY <1>8 DEF ClockBack
  <2>2. now' \in Nat /\ top' \in Nat /\ now' <= top' /\ top <= top' BY <1>0, <2>1
  <2> QED BY <1>8, <2>2, MemoryKept DEF ClockBack, server
<1>2. CASE Restart BY <1>2, RestartMemory
<1>3. CASE DaemonStart \/ DaemonStartOffline \/ CacheRefresh
  BY <1>0, <1>3, MemoryKept
     DEF DaemonStart, DaemonStartOffline, CacheRefresh, server, clock
<1>4. ASSUME NEW id \in Ids,
             AdminCreate(id) \/ AdminCreateUnsaved(id) \/ AdminCreateCrash(id)
      PROVE  Memory'
  BY <1>4, CreateMemory
<1>5. ASSUME NEW id \in Ids, AdminDelete(id) \/ AdminDeleteCrash(id) PROVE Memory'
  BY <1>5, DeleteMemory
<1>6. ASSUME NEW id \in Ids, Click(id) PROVE Memory'
  BY <1>0, <1>6, MemoryKept DEF Click, clock
<1>7. CASE UNCHANGED vars BY <1>0, <1>7, MemoryKept DEF vars, server, clock
<1> QED BY <1>1, <1>2, <1>3, <1>4, <1>5, <1>6, <1>7, <1>8 DEF Next

\* Memory and table agree after any creations, deletions, failed statements,
\* crashes and restarts (main.rs open, admin_create_creative,
\* admin_delete_creative).
THEOREM ViewIsTable == Spec => []PoolMatchesTable
<1>1. Memory => PoolMatchesTable BY DEF Memory
<1> QED BY <1>1, InitMemory, NextMemory, PTL DEF Spec

\* A deleted ad is never served again, while any other is (db.rs
\* delete_creative; main.rs open, serve).
THEOREM TakenDown == Spec => []TakenDownStaysDown
<1>1. Memory => TakenDownStaysDown
  <2> SUFFICES ASSUME Memory, pool # <<>> PROVE removed \cap Range(Served) = {}
    BY DEF TakenDownStaysDown
  <2>1. Served = pool BY DEF Served
  <2>2. Range(pool) = ActiveIn(rows) \cup unsaved BY DEF Memory, PoolMatchesTable, ActiveIn
  <2> QED BY <2>1, <2>2 DEF Memory
<1> QED BY <1>1, InitMemory, NextMemory, PTL DEF Spec

-----------------------------------------------------------------------------
(* The order of rotation across a restart. *)

OrderKept ==
  \A i, j \in DOMAIN pool : \A k, l \in DOMAIN pool' :
    /\ i < j /\ pool[i] = pool'[k] /\ pool[j] = pool'[l]
    => \/ k < l
       \/ rows[pool[i]].created = rows[pool[j]].created
       \/ pool[j] \in early

LEMMA OpenedKeepsRotation ==
  ASSUME Memory, NEW table, Openable(table), Reopened(table),
         \A i \in DOMAIN rows : i \in DOMAIN table => table[i].created = rows[i].created,
         Range(pool) \cap DOMAIN table \subseteq DOMAIN rows
  PROVE  OrderKept
<1> SUFFICES ASSUME NEW i \in DOMAIN pool, NEW j \in DOMAIN pool,
                    NEW k \in DOMAIN pool', NEW l \in DOMAIN pool',
                    i < j, pool[i] = pool'[k], pool[j] = pool'[l], ~(k < l),
                    rows[pool[i]].created # rows[pool[j]].created, pool[j] \notin early
             PROVE  FALSE
  BY DEF OrderKept
<1>1. pool' = ActivePool(table) BY DEF Reopened, OpenedPool, Openable
<1>2. /\ pool' \in Seq(Ids) /\ Range(pool') = ActiveIn(table)
      /\ \A x, y \in DOMAIN pool' : x < y => Before(table, pool'[x], pool'[y])
  BY <1>1, ActivePoolIs DEF Openable
<1>3. pool[i] \in DOMAIN table /\ pool[j] \in DOMAIN table
  BY <1>2 DEF Range, ActiveIn
<1>4. pool[i] \in DOMAIN rows /\ pool[j] \in DOMAIN rows BY <1>3 DEF Range
<1>5. /\ rows[pool[i]].created \in Nat /\ rows[pool[j]].created \in Nat
      /\ rows[pool[i]].created <= rows[pool[j]].created
  BY <1>4 DEF Memory, PoolOrder, TableOK, RowType
<1>6. pool[i] # pool[j]
  <2>1. IsInjective(pool) /\ pool \in Seq(Ids) BY DEF Memory, PoolMatchesTable
  <2>2. i # j BY <2>1
  <2> QED BY <2>1, <2>2 DEF IsInjective
<1>7. l < k
  <2>1. k \in Nat /\ l \in Nat BY <1>2
  <2>2. k # l BY <1>6
  <2> QED BY <2>1, <2>2
<1>8. Before(table, pool[j], pool[i]) BY <1>2, <1>7
<1>9. table[pool[i]].created = rows[pool[i]].created
      /\ table[pool[j]].created = rows[pool[j]].created
  BY <1>3, <1>4
<1> QED BY <1>5, <1>8, <1>9 DEF Before

LEMMA StepKeepsRotation ==
  ASSUME Memory, Next, restarts' # restarts
  PROVE  OrderKept
<1>1. Range(pool) = ActiveIn(rows) \cup unsaved /\ Range(pool) \subseteq acked
      /\ Openable(rows)
  BY DEF Memory, PoolMatchesTable, ActiveIn, Openable
<1>2. unsaved \cap DOMAIN rows = {} /\ ActiveIn(rows) \subseteq DOMAIN rows
  BY DEF Memory, ActiveIn
<1>3. CASE Restart
  <2>1. Reopened(rows) BY <1>3 DEF Restart
  <2> QED BY <1>1, <2>1, OpenedKeepsRotation
<1>4. ASSUME NEW id \in Ids, AdminCreateCrash(id)
      PROVE  OrderKept
  <2> DEFINE t == WithRow(id)
  <2>1. id \in Fresh /\ Reopened(t) BY <1>4 DEF AdminCreateCrash
  <2>2. /\ Openable(t) /\ id \notin acked /\ DOMAIN t = DOMAIN rows \cup {id}
        /\ \A i \in DOMAIN rows : t[i] = rows[i]
    BY <2>1, WithRowIs
  <2> HIDE DEF t
  <2>3. Range(pool) \cap DOMAIN t \subseteq DOMAIN rows BY <1>1, <2>2
  <2> QED BY <2>1, <2>2, <2>3, OpenedKeepsRotation
<1>5. ASSUME NEW id \in Ids, AdminDeleteCrash(id)
      PROVE  OrderKept
  <2> DEFINE t == WithoutRow(id)
  <2>1. IsActive(id) /\ Reopened(t) BY <1>5 DEF AdminDeleteCrash
  <2>2. /\ Openable(t) /\ DOMAIN t = DOMAIN rows
        /\ \A i \in DOMAIN rows : t[i].created = rows[i].created
    BY <2>1, WithoutRowIs
  <2> HIDE DEF t
  <2>3. Range(pool) \cap DOMAIN t \subseteq DOMAIN rows BY <2>2
  <2> QED BY <2>1, <2>2, <2>3, OpenedKeepsRotation
<1> QED BY <1>3, <1>4, <1>5
        DEF Next, Tick, ClockBack, DaemonStart, DaemonStartOffline, CacheRefresh, AdminCreate,
            AdminCreateUnsaved, AdminDelete, Click

\* A restart keeps the order of rotation, also one that follows a creation or a
\* deletion cut short, whenever the clock is stepped back: only an ad created in
\* an older one's second, or since the last start while the clock was behind,
\* may move before it (db.rs load_creatives).
THEOREM RotationKept == Spec => RestartKeepsRotation
<1>1. Memory /\ [Next]_vars => [restarts' # restarts => OrderKept]_vars BY StepKeepsRotation
<1>2. RestartKeepsRotation <=> [][restarts' # restarts => OrderKept]_vars
  BY DEF RestartKeepsRotation, OrderKept
<1> QED BY <1>1, <1>2, InitMemory, NextMemory, PTL DEF Spec

-----------------------------------------------------------------------------
(* The click counter. *)

\* The stored counter differs from the one in memory only while its last write
\* has failed, over any clicks, crashes and restarts (main.rs click).
THEOREM ClickHeals == Spec => []ClickCountHeals
<1>1. Init => ClickCountHeals BY DEF Init, ClickCountHeals
<1>2. ASSUME ClickCountHeals, [Next]_vars PROVE ClickCountHeals'
  <2>1. ASSUME NEW code \in Ids, Click(code) PROVE ClickCountHeals'
    <3>1. CASE code \in Range(pool) /\ clicksRow' = StoredClicks(clicks')
      BY <3>1 DEF StoredClicks, ClickCountHeals
    <3>2. CASE code \in Range(pool) /\ clickLost' = TRUE
      BY <3>2 DEF ClickCountHeals
    <3>3. CASE UNCHANGED <<clicks, clicksRow, clickLost>>
      BY <1>2, <3>3 DEF ClickCountHeals
    <3> QED BY <2>1, <3>1, <3>2, <3>3 DEF Click
  <2>2. ASSUME NEW table, Reopened(table) PROVE ClickCountHeals'
    BY <2>2 DEF Reopened, ClickCountHeals
  <2>3. CASE Restart BY <2>2, <2>3 DEF Restart
  <2>4. ASSUME NEW id \in Ids, AdminCreateCrash(id) \/ AdminDeleteCrash(id)
        PROVE  ClickCountHeals'
    BY <2>2, <2>4 DEF AdminCreateCrash, AdminDeleteCrash
  <2>5. ASSUME UNCHANGED <<clicks, clicksRow, clickLost>> PROVE ClickCountHeals'
    BY <1>2, <2>5 DEF ClickCountHeals
  <2>6. ASSUME Tick \/ ClockBack \/ DaemonStart \/ DaemonStartOffline \/ CacheRefresh
        PROVE  UNCHANGED <<clicks, clicksRow, clickLost>>
    BY <2>6 DEF Tick, ClockBack, DaemonStart, DaemonStartOffline, CacheRefresh, server
  <2>7. ASSUME NEW id \in Ids, AdminCreate(id) \/ AdminCreateUnsaved(id) \/ AdminDelete(id)
        PROVE  UNCHANGED <<clicks, clicksRow, clickLost>>
    BY <2>7 DEF AdminCreate, AdminCreateUnsaved, AdminDelete
  <2>8. ASSUME UNCHANGED vars PROVE UNCHANGED <<clicks, clicksRow, clickLost>>
    BY <2>8 DEF vars, server
  <2> QED BY <1>2, <2>1, <2>3, <2>4, <2>5, <2>6, <2>7, <2>8 DEF Next
<1> QED BY <1>1, <1>2, PTL DEF Spec

-----------------------------------------------------------------------------
(* The daemon's rotation: after q rounds and r further ads, the first r have
   been cached q + 1 times and the others q times.  It needs the ads to be
   distinct and the index never to be taken modulo no ads. *)

Round(q, r) ==
  /\ featured = q * Len(ads) + r
  /\ \A i \in 1..Len(ads) : shown[ads[i]] = (IF i <= r THEN q + 1 ELSE q)

Turns ==
  /\ ads \in Seq(Ids) /\ IsInjective(ads) /\ shown \in [Ids -> Nat] /\ featured \in Nat
  /\ ads # <<>> => \E q \in Nat : \E r \in 0..(Len(ads) - 1) : Round(q, r)

LEMMA ServedIs ==
  ASSUME Memory
  PROVE  Served \in Seq(Ids) /\ Served # <<>> /\ IsInjective(Served)
<1>1. CASE pool # <<>>
  BY <1>1 DEF Served, Memory, PoolMatchesTable
<1>2. CASE pool = <<>>
  <2>1. Served = <<House[1]>> /\ House[1] \in Ids
    BY <1>2, PoolAssumption DEF Served, Primary
  <2> QED BY <2>1 DEF IsInjective
<1> QED BY <1>1, <1>2

LEMMA TurnsAreEven == Turns => ShownEvenly
<1> SUFFICES ASSUME Turns, NEW i \in DOMAIN ads, NEW j \in DOMAIN ads
             PROVE  shown[ads[i]] - shown[ads[j]] \in -1..1
  BY DEF ShownEvenly
<1>1. DOMAIN ads = 1..Len(ads) /\ ads # <<>> BY DEF Turns
<1>2. PICK q \in Nat, r \in 0..(Len(ads) - 1) : Round(q, r) BY <1>1 DEF Turns
<1>3. /\ shown[ads[i]] = q \/ shown[ads[i]] = q + 1
      /\ shown[ads[j]] = q \/ shown[ads[j]] = q + 1
  BY <1>1, <1>2 DEF Round
<1> QED BY <1>3

\* The index modulo the number of ads.
LEMMA Remainder ==
  ASSUME NEW n \in Nat \ {0}, NEW q \in Nat, NEW r \in 0..(n - 1)
  PROVE  (q * n + r) % n = r
  OBVIOUS

\* One more write of the cache: the next ad of the round, or the last one, which
\* begins a new round.
LEMMA RefreshTurns ==
  ASSUME Turns, ads # <<>>, ads' = ads, WritesCache(ads, featured, shown)
  PROVE  Turns'
<1> DEFINE n == Len(ads)
<1>1. n \in Nat \ {0} /\ DOMAIN ads = 1..n /\ IsInjective(ads)
      /\ \A i \in 1..n : ads[i] \in Ids
  BY DEF Turns
<1>2. PICK q \in Nat, r \in 0..(n - 1) : Round(q, r) BY DEF Turns
<1>3. /\ featured = q * n + r
      /\ \A i \in 1..n : shown[ads[i]] = (IF i <= r THEN q + 1 ELSE q)
  BY <1>2 DEF Round
<1>4. shown \in [Ids -> Nat] /\ featured \in Nat BY DEF Turns
<1>5. r + 1 \in 1..n BY <1>1
<1>6. FeaturedAd(ads, featured) = ads[r + 1]
  <2> HIDE DEF n
  <2>1. featured % n = r BY <1>1, <1>3, Remainder
  <2> QED BY <2>1 DEF FeaturedAd, n
<1>7. /\ featured' = featured + 1
      /\ shown' = [shown EXCEPT ![ads[r + 1]] = @ + 1]
  BY <1>6 DEF WritesCache, NextFeatured
<1> HIDE DEF n
<1>8. /\ shown' \in [Ids -> Nat]
      /\ \A i \in 1..n : shown'[ads[i]] = (IF i <= r + 1 THEN q + 1 ELSE q)
  <2>1. ads[r + 1] \in Ids BY <1>1, <1>5
  <2>2. shown[ads[r + 1]] = q BY <1>1, <1>3, <1>5
  <2>3. shown' \in [Ids -> Nat] /\ shown'[ads[r + 1]] = q + 1
    BY <1>4, <1>7, <2>1, <2>2
  <2>4. ASSUME NEW i \in 1..n PROVE shown'[ads[i]] = (IF i <= r + 1 THEN q + 1 ELSE q)
    <3>1. CASE i = r + 1 BY <2>3, <3>1
    <3>2. CASE i # r + 1
      <4>1. ads[i] # ads[r + 1] BY <1>1, <1>5, <3>2 DEF IsInjective
      <4>2. shown'[ads[i]] = shown[ads[i]] BY <1>1, <1>4, <1>7, <4>1
      <4>3. i <= r <=> i <= r + 1 BY <1>1, <3>2
      <4> QED BY <1>3, <4>2, <4>3
    <3> QED BY <3>1, <3>2
  <2> QED BY <2>3, <2>4
<1>9. \E a \in Nat : \E b \in 0..(n - 1) :
        /\ featured' = a * n + b
        /\ \A i \in 1..n : shown'[ads[i]] = (IF i <= b THEN a + 1 ELSE a)
  <2>1. CASE r + 1 <= n - 1
    <3>1. q * n \in Nat BY <1>1
    <3>2. featured' = q * n + (r + 1) BY <1>3, <1>7, <3>1
    <3>3. r + 1 \in 0..(n - 1) BY <1>1, <2>1
    <3> QED BY <1>8, <3>2, <3>3
  <2>2. CASE ~(r + 1 <= n - 1)
    <3>1. r + 1 = n BY <1>1, <2>2
    <3>2. q * n \in Nat /\ (q + 1) * n = q * n + n BY <1>1
    <3>3. featured' = (q + 1) * n + 0 BY <1>1, <1>3, <1>7, <3>1, <3>2
    <3>4. \A i \in 1..n : shown'[ads[i]] = (IF i <= 0 THEN (q + 1) + 1 ELSE q + 1)
      BY <1>1, <1>8, <3>1
    <3>5. q + 1 \in Nat /\ 0 \in 0..(n - 1) BY <1>1
    <3> QED BY <3>3, <3>4, <3>5
  <2> QED BY <2>1, <2>2
<1>10. featured' \in Nat BY <1>4, <1>7
<1> QED BY <1>8, <1>9, <1>10 DEF Turns, Round, n

\* A new daemon begins the first round on the ads it is served.
LEMMA StartTurns ==
  ASSUME Memory, DaemonStart
  PROVE  Turns'
<1> DEFINE none == [i \in Ids |-> 0]
           n == Len(ads')
<1>1. ads' = Served /\ featured' = 1 /\ shown' = [none EXCEPT ![FeaturedAd(ads', 0)] = @ + 1]
  BY DEF DaemonStart, WritesCache, NextFeatured
<1>2. ads' \in Seq(Ids) /\ ads' # <<>> /\ IsInjective(ads') BY <1>1, ServedIs
<1>3. n \in Nat \ {0} /\ DOMAIN ads' = 1..n /\ \A i \in 1..n : ads'[i] \in Ids BY <1>2
<1> HIDE DEF n
<1>4. FeaturedAd(ads', 0) = ads'[1] /\ 1 \in 1..n
  <2>1. (0 * n + 0) % n = 0 BY <1>3, Remainder
  <2>2. 0 % n = 0 BY <1>3, <2>1
  <2> QED BY <1>3, <2>2 DEF FeaturedAd, n
<1>5. ads'[1] \in Ids BY <1>3, <1>4
<1>6. shown' \in [Ids -> Nat] /\ shown'[ads'[1]] = 1
      /\ \A i \in Ids : i # ads'[1] => shown'[i] = 0
  BY <1>1, <1>4, <1>5
<1>7. \A i \in 1..n : shown'[ads'[i]] = (IF i <= 1 THEN 1 ELSE 0)
  <2> TAKE i \in 1..n
  <2>1. i = 1 \/ ads'[i] # ads'[1] BY <1>2, <1>3, <1>4 DEF IsInjective
  <2>2. i <= 1 <=> i = 1 BY <1>3
  <2> QED BY <1>3, <1>6, <2>1, <2>2
<1>8. \E a \in Nat : \E b \in 0..(n - 1) :
        /\ featured' = a * n + b
        /\ \A i \in 1..n : shown'[ads'[i]] = (IF i <= b THEN a + 1 ELSE a)
  <2>1. CASE n = 1
    <3>1. featured' = 1 * n + 0 BY <1>1, <2>1
    <3>2. \A i \in 1..n : shown'[ads'[i]] = (IF i <= 0 THEN 1 + 1 ELSE 1)
      BY <1>7, <2>1
    <3>3. 1 \in Nat /\ 0 \in 0..(n - 1) BY <1>3
    <3> QED BY <3>1, <3>2, <3>3
  <2>2. CASE n # 1
    <3>1. featured' = 0 * n + 1 /\ 0 \in Nat /\ 1 \in 0..(n - 1) BY <1>1, <1>3, <2>2
    <3>2. \A i \in 1..n : shown'[ads'[i]] = (IF i <= 1 THEN 0 + 1 ELSE 0) BY <1>7
    <3> QED BY <3>1, <3>2
  <2> QED BY <2>1, <2>2
<1> QED BY <1>1, <1>2, <1>6, <1>8 DEF Turns, Round, n

LEMMA StepTurns == Memory /\ Turns /\ [Next]_vars => Turns'
<1> SUFFICES ASSUME Memory, Turns, [Next]_vars PROVE Turns' OBVIOUS
<1>1. CASE DaemonStart BY <1>1, StartTurns
<1>2. CASE DaemonStartOffline
  <2>1. ads' = <<>> /\ featured' = 0 /\ shown' = [i \in Ids |-> 0]
    BY <1>2 DEF DaemonStartOffline
  <2> QED BY <2>1 DEF Turns, IsInjective
<1>3. CASE CacheRefresh BY <1>3, RefreshTurns DEF CacheRefresh
<1>4. ASSUME UNCHANGED daemon PROVE Turns'
  BY <1>4 DEF daemon, Turns, Round
<1>5. CASE Tick \/ ClockBack \/ Restart \/ UNCHANGED vars
  BY <1>4, <1>5 DEF Tick, ClockBack, Restart, Reopened, vars
<1>6. ASSUME NEW id \in Ids,
             \/ AdminCreate(id) \/ AdminCreateUnsaved(id) \/ AdminCreateCrash(id)
             \/ AdminDelete(id) \/ AdminDeleteCrash(id) \/ Click(id)
      PROVE  Turns'
  BY <1>4, <1>6
     DEF AdminCreate, AdminCreateUnsaved, AdminCreateCrash, AdminDelete, AdminDeleteCrash,
         Click, Reopened
<1> QED BY <1>1, <1>2, <1>3, <1>5, <1>6 DEF Next

\* Each of the daemon's ads is cached as often as any other, give or take one,
\* however many heartbeats and Stops turn the rotation and whatever happens to
\* the pool after the daemon fetched it (spnrd main.rs featured_ad).
THEOREM ShownTurns == Spec => []ShownEvenly
<1>1. Init => Turns BY DEF Init, Turns, IsInjective
<1> QED BY <1>1, InitMemory, NextMemory, StepTurns, TurnsAreEven, PTL DEF Spec
=============================================================================
