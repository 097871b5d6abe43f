------------------------- MODULE LedgerServerProofs -------------------------
(***************************************************************************)
(* Proofs about LedgerServer.  Under CrashSpec, where the process may die  *)
(* between any two SQL statements: types, no event paid twice, no balance  *)
(* below zero, and every spend split without loss.  Under Spec, where it   *)
(* stops only between requests: the tables hold the view, the balances are *)
(* the sum of the ledger, tallies and redemption ids are right.            *)
(***************************************************************************)
EXTENDS LedgerServer, FiniteSetTheorems, SequenceTheorems, WellFoundedInduction, TLAPS

-----------------------------------------------------------------------------
(* The inductive invariant. *)

OpType ==
  {Idle} \cup [kind : {"register"}, device : Devices]
         \cup [kind : {"accept", "accept_other"}, device : Devices, event : Events]
         \cup [kind : {"reject"}]
         \cup [kind : {"redeem"}, device : Devices, amount : Nat, id : Nat]

\* The handler in progress and the place it has reached.
HandlerTyped ==
  /\ op \in OpType
  /\ batch \in Seq([device : Devices, event : Events])
  /\ op # Idle => step \in 1..Len(Statements(op.kind))

\* Redemption ids are bounded by the counter, in the view, on disk and on the way.
IdsBelow(store, next) == \A i \in DOMAIN store.redemptions : store.redemptions[i].id < next
IdsBelowNext ==
  /\ IdsBelow(mem, nextRedemption) /\ IdsBelow(disk, nextRedemption)
  /\ op.kind = "redeem" => op.id < nextRedemption

Typed == TypeOK /\ HandlerTyped /\ IdsBelowNext

\* The rows that pay for the event with this id.
EarnRows(ledger, id) ==
  {i \in DOMAIN ledger : ledger[i].kind = "imp_earn" /\ ledger[i].reference = id}

\* What is paid is in the set of ids that stops it from being paid again.
PaidIsSeen(store) == \A id \in Ids : EarnRows(store.ledger, id) # {} => id \in store.seen

\* While an accept is written through, its id is in the view; it is on disk
\* before the earn row is written, and the earn row before the house row.
AcceptUnderWay ==
  op.kind \in {"accept", "accept_other"} =>
    /\ op.event.id \in mem.seen
    /\ op.kind = "accept" =>
         /\ step > 2 => op.event.id \in disk.seen
         /\ step < 4 => EarnRows(disk.ledger, op.event.id) = {}
         /\ step = 4 => \E i \in EarnRows(disk.ledger, op.event.id) :
                          disk.ledger[i].amount = DevEarn(op.event.n)

DedupGuards ==
  /\ PaidIsSeen(mem) /\ PaidIsSeen(disk)
  /\ disk.seen \subseteq mem.seen
  /\ AcceptUnderWay

MoneySafe == DedupGuards /\ CreditedOnce /\ BalancesNonNegative /\ SpendSplit

IInv == Typed /\ MoneySafe

-----------------------------------------------------------------------------
(* Lemmas on values and on the ledger. *)

\* An event is worth a whole, non-negative share, and the house keeps the rest.
LEMMA EarnValue ==
  ASSUME NEW n \in Nat
  PROVE  /\ DevEarn(n) \in Nat /\ HouseKeep(n) \in Int
         /\ HouseKeep(n) + DevEarn(n) = PRICE_PER_IMP_MICROS * n
<1> DEFINE spend == PRICE_PER_IMP_MICROS * n
<1>1. spend \in Nat BY LedgerAssumption
<1>2. spend * DEV_SHARE_NUM \in Nat
  <2> HIDE DEF spend
  <2> QED BY <1>1, LedgerAssumption
<1>3. (spend * DEV_SHARE_NUM) \div DEV_SHARE_DEN \in Nat
  <2> DEFINE part == spend * DEV_SHARE_NUM
  <2> HIDE DEF part
  <2> SUFFICES part \div DEV_SHARE_DEN \in Nat BY DEF part
  <2> QED BY <1>2, LedgerAssumption DEF part
<1>4. DevEarn(n) \in Nat BY <1>3 DEF DevEarn, Spend
<1>5. HouseKeep(n) = spend - DevEarn(n) BY DEF HouseKeep, Spend
<1> HIDE DEF spend
<1> QED BY <1>1, <1>4, <1>5 DEF spend

LEMMA EventTypes ==
  ASSUME NEW e \in Events
  PROVE  /\ e.id \in Ids /\ e.digest \in Digests /\ e.prev \in Digests
         /\ e.key \in Keys /\ e.ctr \in Nat /\ e.n \in Nat
  BY LedgerAssumption DEF Ids, Digests

LEMMA RowTypes ==
  ASSUME NEW d \in Devices, NEW e \in Events, NEW amount \in Nat, NEW id \in Nat
  PROVE  /\ EarnRow(d, e) \in Row /\ HouseRow(e) \in Row /\ RedeemRow(d, amount, id) \in Row
         /\ EarnRow(d, e).kind = "imp_earn" /\ EarnRow(d, e).reference = e.id
         /\ EarnRow(d, e).amount = DevEarn(e.n)
         /\ HouseRow(e).kind = "ad_spend_house" /\ HouseRow(e).reference = e.id
         /\ HouseRow(e).amount = HouseKeep(e.n)
         /\ RedeemRow(d, amount, id).kind = "redeem"
<1>1. e.id \in Ids /\ DevEarn(e.n) \in Int /\ HouseKeep(e.n) \in Int
  BY EventTypes, EarnValue
<1> QED BY <1>1 DEF Row, EarnRow, HouseRow, RedeemRow

\* One more row at the end of a ledger.
LEMMA AppendRow ==
  ASSUME NEW L \in Seq(Row), NEW r \in Row
  PROVE  LET M == Append(L, r) IN
         /\ M \in Seq(Row)
         /\ \A i \in DOMAIN L : i \in DOMAIN M /\ M[i] = L[i]
         /\ \A id : EarnRows(M, id) = EarnRows(L, id) \cup
              (IF r.kind = "imp_earn" /\ r.reference = id THEN {Len(L) + 1} ELSE {})
<1> DEFINE M == Append(L, r)
<1>1. /\ M \in Seq(Row) /\ DOMAIN L = 1..Len(L) /\ Len(L) \in Nat
      /\ DOMAIN M = 1..(Len(L) + 1)
      /\ \A i \in 1..Len(L) : M[i] = L[i]
      /\ M[Len(L) + 1] = r
  BY AppendProperties, LenProperties
<1> HIDE DEF M
<1>2. ASSUME NEW id
      PROVE  EarnRows(M, id) = EarnRows(L, id) \cup
               (IF r.kind = "imp_earn" /\ r.reference = id THEN {Len(L) + 1} ELSE {})
  BY <1>1 DEF EarnRows
<1> QED BY <1>1, <1>2 DEF M

LEMMA AppendKeepsPaidOnce ==
  ASSUME NEW L \in Seq(Row), NEW r \in Row, PaidOnce(L),
         r.kind = "imp_earn" => EarnRows(L, r.reference) = {}
  PROVE  PaidOnce(Append(L, r))
<1> DEFINE M == Append(L, r)
<1>1. /\ DOMAIN L = 1..Len(L) /\ Len(L) \in Nat
      /\ DOMAIN M = 1..(Len(L) + 1)
      /\ \A i \in 1..Len(L) : M[i] = L[i]
      /\ M[Len(L) + 1] = r
  BY AppendProperties, LenProperties
<1> HIDE DEF M
<1> SUFFICES PaidOnce(M) BY DEF M
<1> QED BY <1>1 DEF PaidOnce, EarnRows

LEMMA AppendKeepsSplit ==
  ASSUME NEW L \in Seq(Row), NEW r \in Row, SplitIn(L),
         r.kind = "ad_spend_house" =>
           \E j \in EarnRows(L, r.reference), e \in Events :
             e.id = r.reference /\ r.amount + L[j].amount = PRICE_PER_IMP_MICROS * e.n
  PROVE  SplitIn(Append(L, r))
<1> DEFINE M == Append(L, r)
<1>1. /\ DOMAIN L = 1..Len(L) /\ Len(L) \in Nat
      /\ DOMAIN M = 1..(Len(L) + 1)
      /\ \A i \in 1..Len(L) : M[i] = L[i]
      /\ M[Len(L) + 1] = r
  BY AppendProperties, LenProperties
<1> HIDE DEF M
<1> SUFFICES ASSUME NEW i \in DOMAIN M, M[i].kind = "ad_spend_house"
             PROVE  \E j \in 1..(i - 1), e \in Events :
                      /\ M[j].kind = "imp_earn"
                      /\ M[j].reference = M[i].reference
                      /\ e.id = M[i].reference
                      /\ M[i].amount + M[j].amount = PRICE_PER_IMP_MICROS * e.n
  BY DEF SplitIn, M
<1>2. CASE i \in 1..Len(L)
  <2>1. PICK j \in 1..(i - 1), e \in Events :
          /\ L[j].kind = "imp_earn"
          /\ L[j].reference = L[i].reference
          /\ e.id = L[i].reference
          /\ L[i].amount + L[j].amount = PRICE_PER_IMP_MICROS * e.n
    BY <1>1, <1>2 DEF SplitIn
  <2>2. j \in 1..Len(L) /\ M[j] = L[j] /\ M[i] = L[i] BY <1>1, <1>2
  <2> QED BY <2>1, <2>2
<1>3. CASE i = Len(L) + 1
  <2>1. PICK j \in EarnRows(L, r.reference), e \in Events :
          e.id = r.reference /\ r.amount + L[j].amount = PRICE_PER_IMP_MICROS * e.n
    BY <1>1, <1>3
  <2>2. /\ j \in 1..Len(L) /\ j \in 1..(i - 1) /\ M[j] = L[j] /\ M[i] = r
        /\ L[j].kind = "imp_earn" /\ L[j].reference = r.reference
    BY <1>1, <1>3, <2>1 DEF EarnRows
  <2> QED BY <2>1, <2>2
<1> QED BY <1>1, <1>2, <1>3

LEMMA TwoRows ==
  ASSUME NEW L \in Seq(Row), NEW a \in Row, NEW b \in Row
  PROVE  L \o <<a, b>> = Append(Append(L, a), b)
<1> DEFINE M == Append(Append(L, a), b)
           N == L \o <<a, b>>
<1>1. <<a, b>> \in Seq(Row) /\ Len(<<a, b>>) = 2 OBVIOUS
<1>2. N \in Seq(Row) /\ Len(N) = Len(L) + 2 BY <1>1, ConcatProperties
<1>3. M \in Seq(Row) /\ Len(M) = Len(L) + 2 BY AppendProperties, LenProperties
<1>4. ASSUME NEW i \in 1..(Len(L) + 2) PROVE N[i] = M[i]
  BY <1>4, LenProperties
<1> HIDE DEF M, N
<1>5. Len(L) \in Nat BY LenProperties
<1>6. M = N BY <1>2, <1>3, <1>4, <1>5, SeqEqual
<1> QED BY <1>6 DEF M, N

\* Among finite sets there is always a smallest one.
LEMMA SmallestSet ==
  ASSUME NEW U, IsFiniteSet(U), NEW C, C \subseteq SUBSET U, C # {}
  PROVE  \E x \in C : \A y \in C : ~(y \subseteq x /\ y # x)
<1>1. FiniteSubsetsOf(U) = SUBSET U BY FS_FiniteSubsetsOfFinite
<1>2. IsWellFoundedOn(StrictSubsetOrdering(U), FiniteSubsetsOf(U))
  BY FS_StrictSubsetOrderingWellFounded
<1>3. \E x \in C : \A y \in C : <<y, x>> \notin StrictSubsetOrdering(U)
  BY <1>1, <1>2, WFMin
<1> QED BY <1>3 DEF StrictSubsetOrdering

\* A bounded, non-empty set of numbers has a greatest one.
LEMMA Greatest ==
  ASSUME NEW S, S \subseteq Nat, S # {}, NEW n \in Nat, \A x \in S : x < n
  PROVE  \E x \in S : \A y \in S : y <= x
<1> DEFINE U == 0..n
           C == {x..n : x \in S}
<1>1. IsFiniteSet(U) BY FS_Interval
<1>2. C \subseteq SUBSET U /\ C # {}
  <2>1. ASSUME NEW x \in S PROVE x..n \in SUBSET (0..n)
    <3>1. x \in Nat /\ x < n OBVIOUS
    <3> QED BY <3>1
  <2> QED BY <2>1
<1> HIDE DEF C, U
<1>3. PICK c \in C : \A d \in C : ~(d \subseteq c /\ d # c)
  BY <1>1, <1>2, SmallestSet
<1>4. PICK x \in S : c = x..n BY <1>3 DEF C
<1>5. ASSUME NEW y \in S, ~(y <= x) PROVE FALSE
  <2>1. y..n \in C BY DEF C
  <2>2. x \in Nat /\ y \in Nat /\ x < y /\ y < n BY <1>5
  <2>3. y..n \subseteq x..n /\ x \in x..n /\ x \notin y..n BY <2>2
  <2>4. y..n \subseteq c /\ y..n # c BY <1>4, <2>3
  <2> QED BY <1>3, <2>1, <2>4
<1> QED BY <1>4, <1>5

-----------------------------------------------------------------------------
(* The statements of each handler. *)

\* Where a handler stands and which statement is next.
LEMMA NextStatement ==
  ASSUME HandlerTyped, op # Idle
  PROVE  /\ op.kind \in {"register", "accept", "accept_other", "reject", "redeem"}
         /\ step \in Nat /\ Len(Statements(op.kind)) \in Nat
         /\ step >= 1 /\ step <= Len(Statements(op.kind))
         /\ op.kind = "register" => Statements(op.kind)[step] = "device"
         /\ op.kind = "reject" => Statements(op.kind)[step] = "rejected"
         /\ op.kind = "accept_other" =>
              /\ Len(Statements(op.kind)) = 3
              /\ Statements(op.kind)[step] \in {"device_head", "seen_event", "accepted"}
         /\ op.kind = "redeem" =>
              Statements(op.kind)[step] \in {"redeem_row", "redemption", "balance"}
         /\ op.kind = "accept" =>
              /\ Len(Statements(op.kind)) = 7
              /\ step = 1 => Statements(op.kind)[step] = "device_head"
              /\ step = 2 => Statements(op.kind)[step] = "seen_event"
              /\ step = 3 => Statements(op.kind)[step] = "earn_row"
              /\ step = 4 => Statements(op.kind)[step] = "house_row"
              /\ step = 5 => Statements(op.kind)[step] = "balance"
              /\ step = 6 => Statements(op.kind)[step] = "impressions"
              /\ step = 7 => Statements(op.kind)[step] = "accepted"
<1>1. /\ op.kind \in {"register", "accept", "accept_other", "reject", "redeem"}
      /\ step \in 1..Len(Statements(op.kind))
  BY DEF HandlerTyped, OpType, Idle
<1>2. CASE op.kind = "register"
  <2>1. Statements(op.kind) = <<"device">> BY <1>2 DEF Statements
  <2> QED BY <1>1, <1>2, <2>1
<1>3. CASE op.kind = "reject"
  <2>1. Statements(op.kind) = <<"rejected">> BY <1>3 DEF Statements
  <2> QED BY <1>1, <1>3, <2>1
<1>4. CASE op.kind = "accept_other"
  <2>1. Statements(op.kind) = <<"device_head", "seen_event", "accepted">>
    BY <1>4 DEF Statements
  <2> QED BY <1>1, <1>4, <2>1
<1>5. CASE op.kind = "redeem"
  <2>1. Statements(op.kind) = <<"redeem_row", "redemption", "balance">>
    BY <1>5 DEF Statements
  <2> QED BY <1>1, <1>5, <2>1
<1>6. CASE op.kind = "accept"
  <2>1. Statements(op.kind) = <<"device_head", "seen_event", "earn_row", "house_row",
                                "balance", "impressions", "accepted">>
    BY <1>6 DEF Statements, AcceptStatements
  <2> QED BY <1>1, <1>6, <2>1
<1> QED BY <1>1, <1>2, <1>3, <1>4, <1>5, <1>6

\* Every handler that writes has a first statement.
LEMMA FirstStatement ==
  ASSUME NEW kind \in {"register", "accept", "accept_other", "reject", "redeem"}
  PROVE  1 \in 1..Len(Statements(kind))
<1>1. /\ Len(Statements("register")) = 1 /\ Len(Statements("reject")) = 1
      /\ Len(Statements("accept")) = 7 /\ Len(Statements("accept_other")) = 3
      /\ Len(Statements("redeem")) = 3
  BY DEF Statements, AcceptStatements
<1>2. Len(Statements(kind)) \in {1, 3, 7} BY <1>1, Zenon
<1> QED BY <1>2

\* What a handler in progress carries.
LEMMA HandlerFields ==
  ASSUME op \in OpType
  PROVE  /\ op.kind \in {"register", "accept", "accept_other", "redeem"} => op.device \in Devices
         /\ op.kind \in {"accept", "accept_other"} => op.event \in Events
         /\ op.kind = "redeem" => op.amount \in Nat /\ op.id \in Nat
  BY DEF OpType, Idle

-----------------------------------------------------------------------------
(* Stores stay stores. *)

DeviceType == [key : Keys \cup {NoKey}, head : Digests, ctr : Int]

LEMMA DeviceTypes ==
  ASSUME NEW k \in Keys \cup {NoKey}, NEW dev \in DeviceType, NEW e \in Events
  PROVE  NewDevice(k) \in DeviceType /\ Advanced(dev, e) \in DeviceType
<1>1. e.digest \in Digests /\ e.ctr \in Int
  <2>1. e.digest \in Digests /\ e.ctr \in Nat BY EventTypes
  <2> QED BY <2>1
<1>0. GENESIS_PREV \in Digests BY DEF Digests
<1>2. NewDevice(k) \in DeviceType BY <1>0 DEF DeviceType, NewDevice, NoCtr
<1>3. Advanced(dev, e) \in DeviceType
  BY <1>1 DEF DeviceType, Advanced
<1> QED BY <1>2, <1>3

LEMMA InitStore == EmptyStore \in Store
<1>1. GENESIS_PREV \in Digests BY DEF Digests
<1>2. NewDevice(NoKey) \in DeviceType BY <1>1 DEF DeviceType, NewDevice, NoCtr
<1>3. [d \in Devices |-> NewDevice(NoKey)] \in [Devices -> DeviceType] BY <1>2
<1> QED BY <1>3 DEF EmptyStore, Store, DeviceType

\* The view after the in-memory half of an accept.
LEMMA AcceptedStore ==
  ASSUME NEW d \in Devices, NEW e \in Events, mem \in Store, Accept(d, e)
  PROVE  /\ mem' \in Store
         /\ mem'.seen = mem.seen \cup {e.id}
         /\ mem'.ledger = IF e.n > 0
                          THEN Append(Append(mem.ledger, EarnRow(d, e)), HouseRow(e))
                          ELSE mem.ledger
         /\ mem'.balances = [mem.balances EXCEPT ![d] = IF e.n > 0 THEN @ + DevEarn(e.n) ELSE @]
         /\ mem'.redemptions = mem.redemptions
         /\ mem'.devices = [mem.devices EXCEPT ![d] = Advanced(@, e)]
         /\ mem'.impressions = [mem.impressions EXCEPT ![d] = @ + e.n]
         /\ mem'.accepted = mem.accepted + 1 /\ mem'.rejected = mem.rejected
<1>1. /\ e.id \in Ids /\ e.n \in Nat /\ DevEarn(e.n) \in Nat
      /\ EarnRow(d, e) \in Row /\ HouseRow(e) \in Row
  BY EventTypes, EarnValue, RowTypes
<1>2. /\ mem.devices \in [Devices -> DeviceType] /\ mem.seen \in SUBSET Ids
      /\ mem.ledger \in Seq(Row) /\ mem.balances \in [Devices -> Int]
      /\ mem.impressions \in [Devices -> Nat]
      /\ mem.accepted \in Nat /\ mem.rejected \in Nat
      /\ mem.redemptions \in Seq([id : Nat, amount : Int])
  BY DEF Store, DeviceType
<1>3. /\ mem' = [mem EXCEPT
           !.devices = [mem.devices EXCEPT ![d] = Advanced(@, e)],
           !.seen = mem.seen \cup {e.id},
           !.ledger = IF e.n > 0 THEN mem.ledger \o <<EarnRow(d, e), HouseRow(e)>> ELSE mem.ledger,
           !.balances = [mem.balances EXCEPT ![d] = IF e.n > 0 THEN @ + DevEarn(e.n) ELSE @],
           !.impressions = [mem.impressions EXCEPT ![d] = @ + e.n],
           !.accepted = mem.accepted + 1]
  BY DEF Accept, Store
<1>4. [mem.devices EXCEPT ![d] = Advanced(@, e)] \in [Devices -> DeviceType]
  BY <1>2, DeviceTypes
<1>5. mem.ledger \o <<EarnRow(d, e), HouseRow(e)>>
        = Append(Append(mem.ledger, EarnRow(d, e)), HouseRow(e))
  BY <1>1, <1>2, TwoRows
<1>6. Append(Append(mem.ledger, EarnRow(d, e)), HouseRow(e)) \in Seq(Row)
  BY <1>1, <1>2, AppendProperties
<1>7. [mem.balances EXCEPT ![d] = IF e.n > 0 THEN @ + DevEarn(e.n) ELSE @] \in [Devices -> Int]
  BY <1>1, <1>2
<1>8. [mem.impressions EXCEPT ![d] = @ + e.n] \in [Devices -> Nat] BY <1>1, <1>2
<1> DEFINE devices == [mem.devices EXCEPT ![d] = Advanced(@, e)]
           balances == [mem.balances EXCEPT ![d] = IF e.n > 0 THEN @ + DevEarn(e.n) ELSE @]
           impressions == [mem.impressions EXCEPT ![d] = @ + e.n]
           ledger == IF e.n > 0 THEN mem.ledger \o <<EarnRow(d, e), HouseRow(e)>> ELSE mem.ledger
           seen == mem.seen \cup {e.id}
<1>9. /\ devices \in [Devices -> DeviceType] /\ balances \in [Devices -> Int]
      /\ impressions \in [Devices -> Nat] /\ ledger \in Seq(Row) /\ seen \in SUBSET Ids
  BY <1>1, <1>2, <1>4, <1>5, <1>6, <1>7, <1>8
<1>10. ledger = IF e.n > 0
                THEN Append(Append(mem.ledger, EarnRow(d, e)), HouseRow(e))
                ELSE mem.ledger
  BY <1>5
<1>11. mem' = [mem EXCEPT !.devices = devices, !.seen = seen, !.ledger = ledger,
                          !.balances = balances, !.impressions = impressions,
                          !.accepted = mem.accepted + 1]
  BY <1>3
<1> HIDE DEF devices, balances, impressions, ledger, seen
<1>12. mem.accepted + 1 \in Nat BY <1>2
<1>13. mem' \in Store BY <1>9, <1>11, <1>12 DEF Store, DeviceType
<1>14. /\ mem'.seen = seen /\ mem'.ledger = ledger /\ mem'.balances = balances
       /\ mem'.redemptions = mem.redemptions
       /\ mem'.devices = devices /\ mem'.impressions = impressions
       /\ mem'.accepted = mem.accepted + 1 /\ mem'.rejected = mem.rejected
  BY <1>11 DEF Store
<1> QED BY <1>10, <1>13, <1>14 DEF balances, seen, devices, impressions

\* The view after the in-memory half of a redeem.
LEMMA RedeemedStore ==
  ASSUME NEW d \in Devices, NEW asked \in Amounts, mem \in Store,
         nextRedemption \in Nat, Redeem(d, asked)
  PROVE  \E amount \in Nat :
           /\ mem' \in Store /\ amount > 0 /\ amount <= mem.balances[d]
           /\ op' = [kind |-> "redeem", device |-> d, amount |-> amount, id |-> nextRedemption]
           /\ mem'.seen = mem.seen
           /\ mem'.ledger = Append(mem.ledger, RedeemRow(d, amount, nextRedemption))
           /\ mem'.balances = [mem.balances EXCEPT ![d] = @ - amount]
           /\ mem'.redemptions =
                Append(mem.redemptions, [id |-> nextRedemption, amount |-> amount])
           /\ mem'.devices = mem.devices /\ mem'.impressions = mem.impressions
           /\ mem'.accepted = mem.accepted /\ mem'.rejected = mem.rejected
<1> DEFINE amount == IF asked > 0 THEN asked ELSE mem.balances[d]
           ledger == Append(mem.ledger, RedeemRow(d, amount, nextRedemption))
           balances == [mem.balances EXCEPT ![d] = @ - amount]
           redemptions == Append(mem.redemptions, [id |-> nextRedemption, amount |-> amount])
<1>1. /\ mem.ledger \in Seq(Row) /\ mem.balances \in [Devices -> Int]
      /\ mem.redemptions \in Seq([id : Nat, amount : Int]) /\ mem.balances[d] \in Int
  BY DEF Store
<1>2. amount \in Nat /\ amount > 0 /\ amount <= mem.balances[d]
  <2>1. asked \in Nat /\ mem.balances[d] > 0 /\ asked <= mem.balances[d]
    BY LedgerAssumption DEF Redeem, Redeemable
  <2> QED BY <1>1, <2>1
<1>3. /\ mem' = [mem EXCEPT !.ledger = ledger, !.balances = balances, !.redemptions = redemptions]
      /\ op' = [kind |-> "redeem", device |-> d, amount |-> amount, id |-> nextRedemption]
  BY DEF Redeem, Store
<1> HIDE DEF amount
<1>4. RedeemRow(d, amount, nextRedemption) \in Row
      /\ [id |-> nextRedemption, amount |-> amount] \in [id : Nat, amount : Int]
  BY <1>2 DEF Row, RedeemRow
<1>5. ledger \in Seq(Row) /\ redemptions \in Seq([id : Nat, amount : Int])
  BY <1>1, <1>4, AppendProperties
<1>6. balances \in [Devices -> Int] BY <1>1, <1>2
<1> HIDE DEF ledger, balances, redemptions
<1>7. mem' \in Store BY <1>3, <1>5, <1>6 DEF Store
<1>8. /\ mem'.seen = mem.seen /\ mem'.ledger = ledger /\ mem'.balances = balances
      /\ mem'.redemptions = redemptions
      /\ mem'.devices = mem.devices /\ mem'.impressions = mem.impressions
      /\ mem'.accepted = mem.accepted /\ mem'.rejected = mem.rejected
  BY <1>3 DEF Store
<1> QED BY <1>2, <1>3, <1>7, <1>8 DEF ledger, balances, redemptions

\* The view after the in-memory half of a registration or a refusal.
LEMMA OtherStores ==
  ASSUME mem \in Store,
         \/ \E d \in Devices, k \in Keys : Register(d, k)
         \/ Reject
  PROVE  /\ mem' \in Store
         /\ mem'.seen = mem.seen /\ mem'.ledger = mem.ledger
         /\ mem'.balances = mem.balances /\ mem'.redemptions = mem.redemptions
         /\ mem'.accepted = mem.accepted
<1>1. mem.devices \in [Devices -> DeviceType] BY DEF Store, DeviceType
<1>2. ASSUME NEW d \in Devices, NEW k \in Keys, Register(d, k)
      PROVE  /\ mem' \in Store
             /\ mem'.seen = mem.seen /\ mem'.ledger = mem.ledger
             /\ mem'.balances = mem.balances /\ mem'.redemptions = mem.redemptions
             /\ mem'.accepted = mem.accepted
  <2> DEFINE devices == [mem.devices EXCEPT ![d] = NewDevice(k)]
  <2>1. NewDevice(k) \in DeviceType
    <3>1. GENESIS_PREV \in Digests BY DEF Digests
    <3> QED BY <3>1 DEF DeviceType, NewDevice, NoCtr
  <2>2. devices \in [Devices -> DeviceType] BY <1>1, <2>1
  <2>3. mem' = [mem EXCEPT !.devices = devices] BY <1>2 DEF Register, Store
  <2> HIDE DEF devices
  <2> QED BY <2>2, <2>3 DEF Store, DeviceType
<1>3. CASE Reject
  <2>1. mem' = [mem EXCEPT !.rejected = mem.rejected + 1] BY <1>3 DEF Reject
  <2>2. mem.rejected + 1 \in Nat BY DEF Store
  <2> QED BY <2>1, <2>2 DEF Store
<1> QED BY <1>2, <1>3

\* The tables after one statement.
LEMMA QuietStatement ==
  ASSUME disk \in Store, mem \in Store, NEW t,
         \/ op.device \in Devices /\ t = Executed("device")
         \/ op.device \in Devices /\ op.event \in Events /\ t = Executed("device_head")
         \/ op.device \in Devices /\ t = Executed("impressions")
         \/ t = Executed("accepted") \/ t = Executed("rejected")
  PROVE  /\ t \in Store /\ t.seen = disk.seen /\ t.ledger = disk.ledger
         /\ t.balances = disk.balances /\ t.redemptions = disk.redemptions
<1>0. /\ disk.devices \in [Devices -> DeviceType] /\ mem.devices \in [Devices -> DeviceType]
      /\ disk.impressions \in [Devices -> Nat] /\ mem.impressions \in [Devices -> Nat]
      /\ mem.accepted \in Nat /\ mem.rejected \in Nat
  BY DEF Store, DeviceType
<1>1. CASE op.device \in Devices /\ t = Executed("device")
  <2> DEFINE devices == [disk.devices EXCEPT ![op.device] = mem.devices[op.device]]
  <2>1. devices \in [Devices -> DeviceType] BY <1>0, <1>1
  <2>2. t = [disk EXCEPT !.devices = devices] BY <1>1 DEF Executed, Store
  <2> HIDE DEF devices
  <2> QED BY <2>1, <2>2 DEF Store, DeviceType
<1>2. CASE op.device \in Devices /\ op.event \in Events /\ t = Executed("device_head")
  <2> DEFINE devices == [disk.devices EXCEPT ![op.device].head = op.event.digest,
                                             ![op.device].ctr = op.event.ctr]
  <2>1. op.event.digest \in Digests /\ op.event.ctr \in Int
    <3>1. op.event.digest \in Digests /\ op.event.ctr \in Nat BY <1>2, EventTypes
    <3> QED BY <3>1
  <2>2. disk.devices[op.device] \in DeviceType BY <1>0, <1>2
  <2>3. [disk.devices[op.device] EXCEPT !.head = op.event.digest, !.ctr = op.event.ctr]
          \in DeviceType
    BY <2>1, <2>2 DEF DeviceType
  <2>4. devices = [disk.devices EXCEPT ![op.device] =
                     [disk.devices[op.device] EXCEPT !.head = op.event.digest,
                                                     !.ctr = op.event.ctr]]
    BY <1>0, <1>2
  <2>5. devices \in [Devices -> DeviceType] BY <1>0, <1>2, <2>3, <2>4
  <2>6. t = disk \/ t = [disk EXCEPT !.devices = devices] BY <1>2 DEF Executed, Store
  <2> HIDE DEF devices
  <2> QED BY <2>5, <2>6 DEF Store, DeviceType
<1>3. CASE op.device \in Devices /\ t = Executed("impressions")
  <2> DEFINE impressions == [disk.impressions EXCEPT ![op.device] = mem.impressions[op.device]]
  <2>1. impressions \in [Devices -> Nat] BY <1>0, <1>3
  <2>2. t = [disk EXCEPT !.impressions = impressions] BY <1>3 DEF Executed, Store
  <2> HIDE DEF impressions
  <2> QED BY <2>1, <2>2 DEF Store
<1>4. CASE t = Executed("accepted")
  <2>1. t = [disk EXCEPT !.accepted = mem.accepted] BY <1>4 DEF Executed
  <2> QED BY <1>0, <2>1 DEF Store
<1>5. CASE t = Executed("rejected")
  <2>1. t = [disk EXCEPT !.rejected = mem.rejected] BY <1>5 DEF Executed
  <2> QED BY <1>0, <2>1 DEF Store
<1> QED BY <1>1, <1>2, <1>3, <1>4, <1>5

LEMMA SeenStatement ==
  ASSUME disk \in Store, op.event \in Events, NEW t, t = Executed("seen_event")
  PROVE  /\ t \in Store /\ t.seen = disk.seen \cup {op.event.id} /\ t.ledger = disk.ledger
         /\ t.balances = disk.balances /\ t.redemptions = disk.redemptions
<1>1. op.event.id \in Ids BY EventTypes
<1>2. t = [disk EXCEPT !.seen = disk.seen \cup {op.event.id}] BY DEF Executed
<1> QED BY <1>1, <1>2 DEF Store

LEMMA RowStatement ==
  ASSUME disk \in Store, NEW r \in Row, NEW t,
         t = [disk EXCEPT !.ledger = Append(disk.ledger, r)]
  PROVE  /\ t \in Store /\ t.seen = disk.seen /\ t.ledger = Append(disk.ledger, r)
         /\ t.balances = disk.balances /\ t.redemptions = disk.redemptions
<1> DEFINE ledger == Append(disk.ledger, r)
<1>1. ledger \in Seq(Row)
  <2>1. disk.ledger \in Seq(Row) BY DEF Store
  <2> QED BY <2>1, AppendProperties
<1>2. t = [disk EXCEPT !.ledger = ledger] OBVIOUS
<1> HIDE DEF ledger
<1>3. t \in Store /\ t.ledger = ledger BY <1>1, <1>2 DEF Store
<1>4. /\ t.seen = disk.seen /\ t.balances = disk.balances
      /\ t.redemptions = disk.redemptions
  BY <1>2 DEF Store
<1> QED BY <1>3, <1>4 DEF ledger

LEMMA LedgerStatement ==
  /\ Executed("earn_row") = [disk EXCEPT !.ledger =
                               Append(disk.ledger, EarnRow(op.device, op.event))]
  /\ Executed("house_row") = [disk EXCEPT !.ledger = Append(disk.ledger, HouseRow(op.event))]
  /\ Executed("redeem_row") = [disk EXCEPT !.ledger =
                                 Append(disk.ledger, RedeemRow(op.device, op.amount, op.id))]
  BY DEF Executed

LEMMA HeadStatement ==
  ASSUME disk \in Store, disk.devices[op.device].key # NoKey
  PROVE  Executed("device_head") =
           [disk EXCEPT !.devices = [disk.devices EXCEPT ![op.device].head = op.event.digest,
                                                         ![op.device].ctr = op.event.ctr]]
<1>1. Executed("device_head") = [disk EXCEPT !.devices[op.device].head = op.event.digest,
                                             !.devices[op.device].ctr = op.event.ctr]
  BY DEF Executed
<1> QED BY <1>1 DEF Store

LEMMA BalanceStatement ==
  ASSUME disk \in Store, mem \in Store, op.device \in Devices, NEW t, t = Executed("balance")
  PROVE  /\ t \in Store /\ t.seen = disk.seen /\ t.ledger = disk.ledger
         /\ t.balances = [disk.balances EXCEPT ![op.device] = mem.balances[op.device]]
         /\ t.redemptions = disk.redemptions
<1> DEFINE balances == [disk.balances EXCEPT ![op.device] = mem.balances[op.device]]
<1>1. balances \in [Devices -> Int] BY DEF Store
<1>2. t = [disk EXCEPT !.balances = balances] BY DEF Executed, Store
<1> HIDE DEF balances
<1>3. /\ t \in Store /\ t.seen = disk.seen /\ t.ledger = disk.ledger
      /\ t.balances = balances /\ t.redemptions = disk.redemptions
  BY <1>1, <1>2 DEF Store
<1> QED BY <1>3 DEF balances

LEMMA RedemptionStatement ==
  ASSUME disk \in Store, op.amount \in Nat, op.id \in Nat, NEW t, t = Executed("redemption")
  PROVE  /\ t \in Store /\ t.seen = disk.seen /\ t.ledger = disk.ledger
         /\ t.balances = disk.balances
         /\ t.redemptions = Append(disk.redemptions, [id |-> op.id, amount |-> op.amount])
<1> DEFINE redemptions == Append(disk.redemptions, [id |-> op.id, amount |-> op.amount])
<1>1. redemptions \in Seq([id : Nat, amount : Int])
  <2>1. disk.redemptions \in Seq([id : Nat, amount : Int]) BY DEF Store
  <2>2. [id |-> op.id, amount |-> op.amount] \in [id : Nat, amount : Int] OBVIOUS
  <2> QED BY <2>1, <2>2, AppendProperties
<1>2. t = [disk EXCEPT !.redemptions = redemptions] BY DEF Executed
<1> HIDE DEF redemptions
<1>3. /\ t \in Store /\ t.seen = disk.seen /\ t.ledger = disk.ledger
      /\ t.balances = disk.balances /\ t.redemptions = redemptions
  BY <1>1, <1>2 DEF Store
<1> QED BY <1>3 DEF redemptions

\* One more redemption, with an id the counter has passed.
LEMMA AppendKeepsIdsBelow ==
  ASSUME NEW s, NEW t, NEW x \in [id : Nat, amount : Int], NEW next \in Nat,
         s.redemptions \in Seq([id : Nat, amount : Int]),
         t.redemptions = Append(s.redemptions, x),
         IdsBelow(s, next), x.id < next
  PROVE  IdsBelow(t, next)
<1>1. /\ DOMAIN s.redemptions = 1..Len(s.redemptions) /\ Len(s.redemptions) \in Nat
      /\ DOMAIN t.redemptions = 1..(Len(s.redemptions) + 1)
      /\ \A i \in 1..Len(s.redemptions) : t.redemptions[i] = s.redemptions[i]
      /\ t.redemptions[Len(s.redemptions) + 1] = x
  BY AppendProperties, LenProperties
<1> QED BY <1>1 DEF IdsBelow

\* AppState::open never reuses an id that the table holds.
LEMMA LoadedId ==
  ASSUME NEW s \in Store, NEW n \in Nat, IdsBelow(s, n)
  PROVE  LoadedRedemptionId(s) \in Nat \ {0} /\ IdsBelow(s, LoadedRedemptionId(s))
<1> DEFINE ids == {s.redemptions[i].id : i \in DOMAIN s.redemptions}
           greatest == CHOOSE x \in ids : \A y \in ids : y <= x
<1>1. s.redemptions \in Seq([id : Nat, amount : Int]) BY DEF Store
<1>2. \A i \in DOMAIN s.redemptions : s.redemptions[i].id \in Nat
  <2>1. ASSUME NEW i \in DOMAIN s.redemptions PROVE s.redemptions[i].id \in Nat
    <3>1. i \in 1..Len(s.redemptions) BY <1>1, LenProperties
    <3>2. s.redemptions[i] \in [id : Nat, amount : Int] BY <1>1, <3>1, ElementOfSeq
    <3> QED BY <3>2
  <2> QED BY <2>1
<1>3. CASE ids = {}
  <2>1. LoadedRedemptionId(s) = 1 BY <1>3 DEF LoadedRedemptionId
  <2>2. DOMAIN s.redemptions = {} BY <1>3
  <2> QED BY <2>1, <2>2 DEF IdsBelow
<1>4. CASE ids # {}
  <2>1. ids \subseteq Nat /\ \A x \in ids : x < n BY <1>2 DEF IdsBelow
  <2>2. \E x \in ids : \A y \in ids : y <= x
    <3> HIDE DEF ids
    <3> QED BY <1>4, <2>1, Greatest
  <2>3. greatest \in ids /\ \A y \in ids : y <= greatest
    <3> HIDE DEF ids
    <3> QED BY <2>2
  <2>4. LoadedRedemptionId(s) = greatest + 1 BY <1>4 DEF LoadedRedemptionId
  <2> HIDE DEF greatest
  <2>5. greatest \in Nat BY <2>1, <2>3
  <2>6. \A i \in DOMAIN s.redemptions : s.redemptions[i].id < greatest + 1
    BY <1>2, <2>3, <2>5
  <2> QED BY <2>4, <2>5, <2>6 DEF IdsBelow
<1> QED BY <1>3, <1>4

-----------------------------------------------------------------------------
(* Type correctness. *)

LEMMA InitTyped == Init => Typed
<1> SUFFICES ASSUME Init PROVE Typed OBVIOUS
<1>1. mem \in Store /\ disk \in Store /\ mem = EmptyStore /\ disk = EmptyStore
  BY InitStore DEF Init
<1>2. TypeOK BY <1>1 DEF TypeOK, Init
<1>3. HandlerTyped BY DEF HandlerTyped, Init, OpType
<1>4. IdsBelow(mem, nextRedemption) /\ IdsBelow(disk, nextRedemption)
  BY <1>1 DEF IdsBelow, EmptyStore
<1>5. op.kind # "redeem" BY DEF Init, Idle
<1> QED BY <1>2, <1>3, <1>4, <1>5 DEF Typed, IdsBelowNext

LEMMA RegisterTyped ==
  ASSUME Typed, NEW d \in Devices, NEW k \in Keys, Register(d, k)
  PROVE  Typed'
<1>1. /\ mem' \in Store /\ mem'.redemptions = mem.redemptions
  BY OtherStores DEF Typed, TypeOK
<1>2. /\ UNCHANGED <<disk, nextRedemption, batch>> /\ requests' = requests + 1 /\ step' = 1
      /\ op' = [kind |-> "register", device |-> d]
  BY DEF Register
<1>3. TypeOK' BY <1>1, <1>2 DEF Typed, TypeOK
<1>4. HandlerTyped'
  <2>1. op'.kind = "register" /\ op' \in OpType BY <1>2 DEF OpType
  <2>2. step' \in 1..Len(Statements(op'.kind)) BY <1>2, <2>1, FirstStatement
  <2> QED BY <1>2, <2>1, <2>2 DEF Typed, HandlerTyped
<1>5. IdsBelowNext' BY <1>1, <1>2 DEF Typed, IdsBelowNext, IdsBelow
<1> QED BY <1>3, <1>4, <1>5 DEF Typed

LEMMA IngestTyped ==
  ASSUME Typed, NEW d \in Devices, NEW b \in Batches, Ingest(d, b)
  PROVE  Typed'
<1>1. /\ UNCHANGED <<mem, disk, nextRedemption, op, step>> /\ requests' = requests + 1
      /\ batch' = [i \in DOMAIN b |-> [device |-> d, event |-> b[i]]]
  BY DEF Ingest
<1>2. PICK n \in Nat : b \in [1..n -> Events]
  BY LedgerAssumption DEF Batches
<1>3. batch' \in [1..n -> [device : Devices, event : Events]] BY <1>1, <1>2
<1>4. batch' \in Seq([device : Devices, event : Events])
  <2> DEFINE E == [device : Devices, event : Events]
  <2> HIDE DEF E
  <2>1. \A f : f \in [1..n -> E] => f \in Seq(E) OBVIOUS
  <2> QED BY <1>3, <2>1 DEF E
<1>5. TypeOK' BY <1>1 DEF Typed, TypeOK
<1>6. HandlerTyped' BY <1>1, <1>4 DEF Typed, HandlerTyped
<1>7. IdsBelowNext' BY <1>1 DEF Typed, IdsBelowNext
<1> QED BY <1>5, <1>6, <1>7 DEF Typed

\* An event at the head of the batch is judged: accepted or refused.
LEMMA JudgeCases ==
  ASSUME Typed, JudgeEvent
  PROVE  /\ step' = 1 /\ UNCHANGED <<disk, nextRedemption, requests>>
         /\ batch' \in Seq([device : Devices, event : Events])
         /\ \/ Reject
            \/ \E d \in Devices, e \in Events : Judged(d, e) = "accepted" /\ Accept(d, e)
<1> DEFINE d == Head(batch).device
           e == Head(batch).event
<1>1. batch \in Seq([device : Devices, event : Events]) /\ batch # <<>>
  BY DEF Typed, HandlerTyped, JudgeEvent
<1>2. Head(batch) \in [device : Devices, event : Events]
      /\ Tail(batch) \in Seq([device : Devices, event : Events])
  BY <1>1, HeadTailProperties
<1>3. d \in Devices /\ e \in Events BY <1>2
<1>4. \/ Reject
      \/ Judged(d, e) = "accepted" /\ Accept(d, e)
  BY DEF JudgeEvent
<1>5. step' = 1 /\ UNCHANGED <<disk, nextRedemption, requests>> /\ batch' = Tail(batch)
  BY DEF JudgeEvent
<1> HIDE DEF d, e
<1> QED BY <1>2, <1>3, <1>4, <1>5

LEMMA JudgeTyped ==
  ASSUME Typed, JudgeEvent
  PROVE  Typed'
<1>1. /\ step' = 1 /\ UNCHANGED <<disk, nextRedemption, requests>>
      /\ batch' \in Seq([device : Devices, event : Events])
  BY JudgeCases
<1>2. /\ mem' \in Store /\ mem'.redemptions = mem.redemptions
      /\ op' \in OpType /\ op'.kind \in {"accept", "accept_other", "reject"}
  <2>1. CASE Reject
    <3>1. op' = [kind |-> "reject"] BY <2>1 DEF Reject
    <3>2. mem' \in Store /\ mem'.redemptions = mem.redemptions
      BY <2>1, OtherStores DEF Typed, TypeOK
    <3> QED BY <3>1, <3>2 DEF OpType
  <2>2. ASSUME NEW d \in Devices, NEW e \in Events, Accept(d, e)
        PROVE  /\ mem' \in Store /\ mem'.redemptions = mem.redemptions
               /\ op' \in OpType /\ op'.kind \in {"accept", "accept_other"}
    <3>1. op' = [kind |-> IF e.n > 0 THEN "accept" ELSE "accept_other", device |-> d, event |-> e]
      BY <2>2 DEF Accept
    <3>2. mem' \in Store /\ mem'.redemptions = mem.redemptions
      BY <2>2, AcceptedStore DEF Typed, TypeOK
    <3> QED BY <3>1, <3>2 DEF OpType
  <2> QED BY <2>1, <2>2, JudgeCases
<1>3. TypeOK' BY <1>1, <1>2 DEF Typed, TypeOK
<1>4. HandlerTyped'
  <2>1. step' \in 1..Len(Statements(op'.kind)) BY <1>1, <1>2, FirstStatement
  <2> QED BY <1>1, <1>2, <2>1 DEF HandlerTyped
<1>5. IdsBelowNext' BY <1>1, <1>2 DEF Typed, IdsBelowNext, IdsBelow
<1> QED BY <1>3, <1>4, <1>5 DEF Typed

LEMMA RedeemTyped ==
  ASSUME Typed, NEW d \in Devices, NEW a \in Amounts, Redeem(d, a)
  PROVE  Typed'
<1>1. /\ mem \in Store /\ nextRedemption \in Nat \ {0} /\ requests \in Nat
      /\ mem.redemptions \in Seq([id : Nat, amount : Int])
  BY DEF Typed, TypeOK, Store
<1>2. PICK amount \in Nat :
        /\ mem' \in Store
        /\ op' = [kind |-> "redeem", device |-> d, amount |-> amount, id |-> nextRedemption]
        /\ mem'.redemptions = Append(mem.redemptions, [id |-> nextRedemption, amount |-> amount])
  BY <1>1, RedeemedStore
<1>3. /\ nextRedemption' = nextRedemption + 1 /\ requests' = requests + 1 /\ step' = 1
      /\ UNCHANGED <<disk, batch>>
  BY DEF Redeem
<1>4. TypeOK' BY <1>1, <1>2, <1>3 DEF Typed, TypeOK
<1>5. HandlerTyped'
  <2>1. op'.kind = "redeem" /\ op' \in OpType BY <1>1, <1>2 DEF OpType
  <2>2. step' \in 1..Len(Statements(op'.kind)) BY <1>3, <2>1, FirstStatement
  <2> QED BY <1>3, <2>1, <2>2 DEF Typed, HandlerTyped
<1>6. IdsBelow(mem, nextRedemption + 1) /\ IdsBelow(disk, nextRedemption + 1)
  <2>1. ASSUME NEW s \in Store, IdsBelow(s, nextRedemption)
        PROVE  IdsBelow(s, nextRedemption + 1)
    <3>1. s.redemptions \in Seq([id : Nat, amount : Int]) BY DEF Store
    <3>2. ASSUME NEW i \in DOMAIN s.redemptions
          PROVE  s.redemptions[i].id < nextRedemption + 1
      <4>1. i \in 1..Len(s.redemptions) BY <3>1, LenProperties
      <4>2. s.redemptions[i] \in [id : Nat, amount : Int] BY <3>1, <4>1, ElementOfSeq
      <4>3. s.redemptions[i].id \in Nat /\ s.redemptions[i].id < nextRedemption
        BY <2>1, <4>2 DEF IdsBelow
      <4> QED BY <1>1, <4>3
    <3> QED BY <3>2 DEF IdsBelow
  <2> QED BY <1>1, <2>1 DEF Typed, IdsBelowNext, TypeOK
<1>7. IdsBelow(mem', nextRedemption + 1)
  <2>1. /\ [id |-> nextRedemption, amount |-> amount] \in [id : Nat, amount : Int]
        /\ nextRedemption + 1 \in Nat /\ nextRedemption < nextRedemption + 1
    BY <1>1
  <2> QED BY <1>1, <1>2, <1>6, <2>1, AppendKeepsIdsBelow
<1>8. IdsBelowNext' BY <1>1, <1>2, <1>3, <1>6, <1>7 DEF IdsBelowNext, IdsBelow
<1> QED BY <1>4, <1>5, <1>8 DEF Typed

\* What one statement does to the tables, and how the handler moves on.
LEMMA WriteCases ==
  ASSUME Typed, WriteThrough
  PROVE  /\ UNCHANGED <<mem, nextRedemption, batch, requests>>
         /\ disk' \in Store
         /\ \/ op' = op /\ step' = step + 1 /\ step < Len(Statements(op.kind))
            \/ op' = Idle /\ step' = 1
         /\ \/ /\ UNCHANGED <<disk.seen, disk.ledger, disk.balances, disk.redemptions>>
               /\ op.kind = "accept" => step \notin {2, 3, 4, 5}
            \/ /\ op.kind \in {"accept", "accept_other"} /\ op.event \in Events
               /\ disk'.seen = disk.seen \cup {op.event.id}
               /\ op.kind = "accept" => step = 2
               /\ UNCHANGED <<disk.ledger, disk.balances, disk.redemptions>>
            \/ /\ op.kind = "accept" /\ step = 3 /\ op.event \in Events /\ op.device \in Devices
               /\ disk'.ledger = Append(disk.ledger, EarnRow(op.device, op.event))
               /\ UNCHANGED <<disk.seen, disk.balances, disk.redemptions>>
            \/ /\ op.kind = "accept" /\ step = 4 /\ op.event \in Events
               /\ disk'.ledger = Append(disk.ledger, HouseRow(op.event))
               /\ UNCHANGED <<disk.seen, disk.balances, disk.redemptions>>
            \/ /\ op.device \in Devices
               /\ op.kind = "redeem" \/ (op.kind = "accept" /\ step = 5)
               /\ disk'.balances = [disk.balances EXCEPT ![op.device] = mem.balances[op.device]]
               /\ UNCHANGED <<disk.seen, disk.ledger, disk.redemptions>>
            \/ /\ op.kind = "redeem" /\ op.device \in Devices /\ op.amount \in Nat /\ op.id \in Nat
               /\ disk'.ledger = Append(disk.ledger, RedeemRow(op.device, op.amount, op.id))
               /\ UNCHANGED <<disk.seen, disk.balances, disk.redemptions>>
            \/ /\ op.kind = "redeem" /\ op.amount \in Nat /\ op.id \in Nat
               /\ disk'.redemptions = Append(disk.redemptions, [id |-> op.id, amount |-> op.amount])
               /\ UNCHANGED <<disk.seen, disk.ledger, disk.balances>>
<1> DEFINE s == Statements(op.kind)[step]
<1>1. /\ disk' = Executed(s) /\ UNCHANGED <<mem, nextRedemption, batch, requests>>
      /\ \/ op' = op /\ step' = step + 1 /\ step < Len(Statements(op.kind))
         \/ op' = Idle /\ step' = 1
      /\ op # Idle
  BY DEF WriteThrough, Proceed
<1>2. mem \in Store /\ disk \in Store /\ op \in OpType /\ HandlerTyped
  BY DEF Typed, TypeOK, HandlerTyped
<1> USE <1>1, <1>2
<1>3. CASE op.kind = "register"
  <2>1. s = "device" /\ op.device \in Devices BY <1>3, NextStatement, HandlerFields
  <2> QED BY <1>3, <2>1, QuietStatement
<1>4. CASE op.kind = "reject"
  <2>1. s = "rejected" BY <1>4, NextStatement
  <2> QED BY <1>4, <2>1, QuietStatement
<1>5. CASE op.kind = "accept_other"
  <2>1. s \in {"device_head", "seen_event", "accepted"} BY <1>5, NextStatement
  <2>2. op.device \in Devices /\ op.event \in Events BY <1>5, HandlerFields
  <2>3. CASE s = "seen_event" BY <1>5, <2>2, <2>3, SeenStatement
  <2>4. CASE s \in {"device_head", "accepted"} BY <1>5, <2>2, <2>4, QuietStatement
  <2> QED BY <2>1, <2>3, <2>4
<1>6. CASE op.kind = "redeem"
  <2>1. s \in {"redeem_row", "redemption", "balance"} BY <1>6, NextStatement
  <2>2. op.device \in Devices /\ op.amount \in Nat /\ op.id \in Nat BY <1>6, HandlerFields
  <2>3. CASE s = "redeem_row"
    <3>1. RedeemRow(op.device, op.amount, op.id) \in Row BY <2>2 DEF Row, RedeemRow
    <3>2. disk' = [disk EXCEPT !.ledger =
                     Append(disk.ledger, RedeemRow(op.device, op.amount, op.id))]
      BY <2>3, LedgerStatement
    <3> QED BY <1>6, <2>2, <3>1, <3>2, RowStatement
  <2>4. CASE s = "redemption" BY <1>6, <2>2, <2>4, RedemptionStatement
  <2>5. CASE s = "balance" BY <1>6, <2>2, <2>5, BalanceStatement
  <2> QED BY <2>1, <2>3, <2>4, <2>5
<1>7. CASE op.kind = "accept"
  <2>1. op.device \in Devices /\ op.event \in Events BY <1>7, HandlerFields
  <2>2. EarnRow(op.device, op.event) \in Row /\ HouseRow(op.event) \in Row
    BY <2>1, RowTypes
  <2>3. CASE step \in {1, 6, 7}
    <3>1. s \in {"device_head", "impressions", "accepted"} BY <1>7, <2>3, NextStatement
    <3> QED BY <1>7, <2>1, <2>3, <3>1, QuietStatement
  <2>4. CASE step = 2
    <3>1. s = "seen_event" BY <1>7, <2>4, NextStatement
    <3> QED BY <1>7, <2>1, <2>4, <3>1, SeenStatement
  <2>5. CASE step = 3
    <3>1. s = "earn_row" BY <1>7, <2>5, NextStatement
    <3>2. disk' = [disk EXCEPT !.ledger = Append(disk.ledger, EarnRow(op.device, op.event))]
      BY <3>1, LedgerStatement
    <3> QED BY <1>7, <2>1, <2>2, <2>5, <3>2, RowStatement
  <2>6. CASE step = 4
    <3>1. s = "house_row" BY <1>7, <2>6, NextStatement
    <3>2. disk' = [disk EXCEPT !.ledger = Append(disk.ledger, HouseRow(op.event))]
      BY <3>1, LedgerStatement
    <3> QED BY <1>7, <2>1, <2>2, <2>6, <3>2, RowStatement
  <2>7. CASE step = 5
    <3>1. s = "balance" BY <1>7, <2>7, NextStatement
    <3> QED BY <1>7, <2>1, <2>7, <3>1, BalanceStatement
  <2>8. step \in {1, 2, 3, 4, 5, 6, 7} BY <1>7, NextStatement
  <2> QED BY <2>3, <2>4, <2>5, <2>6, <2>7, <2>8
<1> QED BY <1>3, <1>4, <1>5, <1>6, <1>7, NextStatement

LEMMA WriteTyped ==
  ASSUME Typed, WriteThrough
  PROVE  Typed'
<1>1. /\ UNCHANGED <<mem, nextRedemption, batch, requests>> /\ disk' \in Store
      /\ \/ op' = op /\ step' = step + 1 /\ step < Len(Statements(op.kind))
         \/ op' = Idle /\ step' = 1
  BY WriteCases
<1>2. /\ mem \in Store /\ disk \in Store /\ nextRedemption \in Nat \ {0}
      /\ step \in Nat \ {0} /\ requests \in Nat
  BY DEF Typed, TypeOK
<1>3. TypeOK' BY <1>1, <1>2 DEF TypeOK
<1>4. HandlerTyped'
  <2>1. op \in OpType /\ batch \in Seq([device : Devices, event : Events])
    BY DEF Typed, HandlerTyped
  <2>2. CASE op' = op /\ step' = step + 1 /\ step < Len(Statements(op.kind))
    <3>1. op # Idle BY DEF WriteThrough
    <3>2. Len(Statements(op.kind)) \in Nat BY <3>1, NextStatement DEF Typed
    <3>3. step' \in 1..Len(Statements(op'.kind)) BY <1>2, <2>2, <3>2
    <3> QED BY <1>1, <2>1, <2>2, <3>3 DEF HandlerTyped
  <2>3. CASE op' = Idle /\ step' = 1
    <3>1. op' \in OpType BY <2>3 DEF OpType
    <3> QED BY <1>1, <2>1, <2>3, <3>1 DEF HandlerTyped
  <2> QED BY <1>1, <2>2, <2>3
<1>5. IdsBelowNext'
  <2>1. /\ IdsBelow(mem, nextRedemption) /\ IdsBelow(disk, nextRedemption)
        /\ op.kind = "redeem" => op.id < nextRedemption
    BY DEF Typed, IdsBelowNext
  <2>2. IdsBelow(disk', nextRedemption)
    <3>1. CASE disk'.redemptions = disk.redemptions BY <2>1, <3>1 DEF IdsBelow
    <3>2. CASE /\ op.kind = "redeem" /\ op.amount \in Nat /\ op.id \in Nat
               /\ disk'.redemptions = Append(disk.redemptions, [id |-> op.id, amount |-> op.amount])
      <4> DEFINE x == [id |-> op.id, amount |-> op.amount]
      <4>1. x \in [id : Nat, amount : Int] /\ x.id < nextRedemption BY <2>1, <3>2
      <4>2. disk.redemptions \in Seq([id : Nat, amount : Int]) BY <1>2 DEF Store
      <4>3. disk'.redemptions = Append(disk.redemptions, x) BY <3>2
      <4> HIDE DEF x
      <4> QED BY <1>2, <2>1, <4>1, <4>2, <4>3, AppendKeepsIdsBelow
    <3> QED BY <3>1, <3>2, WriteCases
  <2>3. op'.kind = "redeem" => op'.id < nextRedemption
    BY <1>1, <2>1 DEF Idle
  <2> QED BY <1>1, <2>1, <2>2, <2>3 DEF IdsBelowNext
<1> QED BY <1>3, <1>4, <1>5 DEF Typed

LEMMA RestartTyped ==
  ASSUME Typed, Restart
  PROVE  Typed'
<1>1. /\ mem' = disk /\ UNCHANGED <<disk, requests>>
      /\ nextRedemption' = LoadedRedemptionId(disk)
      /\ op' = Idle /\ step' = 1 /\ batch' = <<>>
  BY DEF Restart
<1>2. disk \in Store /\ nextRedemption \in Nat /\ IdsBelow(disk, nextRedemption) /\ requests \in Nat
  BY DEF Typed, TypeOK, IdsBelowNext
<1>3. nextRedemption' \in Nat \ {0} /\ IdsBelow(disk, nextRedemption')
  BY <1>1, <1>2, LoadedId
<1>4. TypeOK' BY <1>1, <1>2, <1>3 DEF TypeOK
<1>5. HandlerTyped' BY <1>1 DEF HandlerTyped, OpType
<1>6. IdsBelowNext' BY <1>1, <1>3 DEF IdsBelowNext, Idle
<1> QED BY <1>4, <1>5, <1>6 DEF Typed

LEMMA StutterTyped == Typed /\ UNCHANGED vars => Typed'
  BY DEF Typed, TypeOK, HandlerTyped, IdsBelowNext, vars

LEMMA StepTyped ==
  ASSUME Typed, [CrashNext]_vars
  PROVE  Typed'
<1>1. CASE Requests
  BY <1>1, RegisterTyped, IngestTyped, RedeemTyped DEF Requests
<1>2. CASE JudgeEvent BY <1>2, JudgeTyped
<1>3. CASE WriteThrough BY <1>3, WriteTyped
<1>4. CASE Restart BY <1>4, RestartTyped
<1>5. CASE UNCHANGED vars BY <1>5, StutterTyped
<1> QED BY <1>1, <1>2, <1>3, <1>4, <1>5 DEF CrashNext

\* Stopping between requests is one of the ways to crash.
LEMMA NextIsCrashNext == [Next]_vars => [CrashNext]_vars
  BY DEF Next, CrashNext

\* View and tables have their types in every state of the backend, and the
\* redemption counter is a number that the table's ids stay below, wherever the
\* process dies (main.rs:116-213; db.rs:223-353).
THEOREM TypesUnderCrash == CrashSpec => []TypeOK
<1>1. Typed /\ [CrashNext]_vars => Typed' BY StepTyped
<1>2. Typed => TypeOK BY DEF Typed
<1> QED BY InitTyped, <1>1, <1>2, PTL DEF CrashSpec

\* The same when the server only stops between requests.
THEOREM Types == Spec => []TypeOK
<1>1. Typed /\ [Next]_vars => Typed' BY StepTyped, NextIsCrashNext
<1>2. Typed => TypeOK BY DEF Typed
<1> QED BY InitTyped, <1>1, <1>2, PTL DEF Spec

-----------------------------------------------------------------------------
(* The money. *)

\* The developer's row of an event that no row pays yet.
LEMMA EarnAppended ==
  ASSUME NEW L \in Seq(Row), PaidOnce(L), SplitIn(L), NEW d \in Devices, NEW e \in Events,
         EarnRows(L, e.id) = {}
  PROVE  LET M == Append(L, EarnRow(d, e)) IN
         /\ M \in Seq(Row) /\ PaidOnce(M) /\ SplitIn(M)
         /\ \A id : id # e.id => EarnRows(M, id) = EarnRows(L, id)
         /\ \E i \in EarnRows(M, e.id) : M[i].amount = DevEarn(e.n)
<1> DEFINE r == EarnRow(d, e)
           M == Append(L, r)
<1>1. r \in Row /\ r.kind = "imp_earn" /\ r.reference = e.id /\ r.amount = DevEarn(e.n)
  BY RowTypes
<1> HIDE DEF r
<1>2. M \in Seq(Row) /\ M[Len(L) + 1] = r BY <1>1, AppendProperties
<1>3. PaidOnce(M) BY <1>1, AppendKeepsPaidOnce
<1>4. SplitIn(M) BY <1>1, AppendKeepsSplit
<1>5. \A id : EarnRows(M, id) = EarnRows(L, id) \cup
                (IF r.kind = "imp_earn" /\ r.reference = id THEN {Len(L) + 1} ELSE {})
  BY <1>1, AppendRow
<1> HIDE DEF M
<1>6. Len(L) + 1 \in EarnRows(M, e.id) BY <1>1, <1>5
<1>7. \A id : id # e.id => EarnRows(M, id) = EarnRows(L, id) BY <1>1, <1>5
<1> QED BY <1>1, <1>2, <1>3, <1>4, <1>6, <1>7 DEF M, r

\* The house's row, behind the developer's row of the same event.
LEMMA HouseAppended ==
  ASSUME NEW L \in Seq(Row), PaidOnce(L), SplitIn(L), NEW e \in Events,
         \E i \in EarnRows(L, e.id) : L[i].amount = DevEarn(e.n)
  PROVE  LET M == Append(L, HouseRow(e)) IN
         /\ M \in Seq(Row) /\ PaidOnce(M) /\ SplitIn(M)
         /\ \A id : EarnRows(M, id) = EarnRows(L, id)
<1> DEFINE r == HouseRow(e)
           M == Append(L, r)
<1>0. e.id \in Ids /\ HouseKeep(e.n) \in Int BY EventTypes, EarnValue
<1>1. r \in Row /\ r.kind = "ad_spend_house" /\ r.reference = e.id /\ r.amount = HouseKeep(e.n)
  BY <1>0 DEF HouseRow, Row
<1> HIDE DEF r
<1>2. M \in Seq(Row) BY <1>1, AppendProperties
<1>3. PaidOnce(M) BY <1>1, AppendKeepsPaidOnce
<1>4. SplitIn(M)
  <2>1. PICK i \in EarnRows(L, e.id) : L[i].amount = DevEarn(e.n) OBVIOUS
  <2>2. HouseKeep(e.n) + DevEarn(e.n) = PRICE_PER_IMP_MICROS * e.n
    BY EventTypes, EarnValue
  <2>3. r.amount + L[i].amount = PRICE_PER_IMP_MICROS * e.n BY <1>1, <2>1, <2>2
  <2>4. i \in EarnRows(L, r.reference) /\ e.id = r.reference BY <1>1, <2>1
  <2> QED BY <1>1, <2>3, <2>4, AppendKeepsSplit
<1>5. \A id : EarnRows(M, id) = EarnRows(L, id)
  <2>1. \A id : EarnRows(M, id) = EarnRows(L, id) \cup
                  (IF r.kind = "imp_earn" /\ r.reference = id THEN {Len(L) + 1} ELSE {})
    BY <1>1, AppendRow
  <2> HIDE DEF M
  <2> QED BY <1>1, <2>1
<1> QED BY <1>2, <1>3, <1>4, <1>5 DEF r

\* The row of a redemption.
LEMMA RedeemAppended ==
  ASSUME NEW L \in Seq(Row), PaidOnce(L), SplitIn(L), NEW d \in Devices,
         NEW amount \in Nat, NEW x \in Nat
  PROVE  LET M == Append(L, RedeemRow(d, amount, x)) IN
         /\ PaidOnce(M) /\ SplitIn(M)
         /\ \A id : EarnRows(M, id) = EarnRows(L, id)
<1> DEFINE r == RedeemRow(d, amount, x)
           M == Append(L, r)
<1>1. r \in Row /\ r.kind = "redeem" BY DEF RedeemRow, Row
<1> HIDE DEF r
<1>2. PaidOnce(M) BY <1>1, AppendKeepsPaidOnce
<1>3. SplitIn(M) BY <1>1, AppendKeepsSplit
<1>4. \A id : EarnRows(M, id) = EarnRows(L, id)
  <2>1. \A id : EarnRows(M, id) = EarnRows(L, id) \cup
                  (IF r.kind = "imp_earn" /\ r.reference = id THEN {Len(L) + 1} ELSE {})
    BY <1>1, AppendRow
  <2> HIDE DEF M
  <2> QED BY <1>1, <2>1
<1> QED BY <1>2, <1>3, <1>4 DEF r

\* An event is accepted only if its id is new, and an id that is new is unpaid.
LEMMA AcceptedIsUnpaid ==
  ASSUME DedupGuards, NEW d \in Devices, NEW e \in Events, Judged(d, e) = "accepted"
  PROVE  /\ e.id \notin mem.seen
         /\ EarnRows(mem.ledger, e.id) = {} /\ EarnRows(disk.ledger, e.id) = {}
<1>1. Verdict(mem.devices[d], mem.seen, e) = "accepted" BY DEF Judged
<1>2. e.id \notin mem.seen BY <1>1 DEF Verdict
<1>3. e.id \in Ids BY EventTypes
<1> QED BY <1>2, <1>3 DEF DedupGuards, PaidIsSeen

LEMMA InitMoney == Init => MoneySafe
<1> SUFFICES ASSUME Init PROVE MoneySafe OBVIOUS
<1>1. /\ mem.ledger = <<>> /\ disk.ledger = <<>> /\ mem.seen = {} /\ disk.seen = {}
      /\ mem.balances = [d \in Devices |-> 0] /\ disk.balances = [d \in Devices |-> 0]
      /\ op.kind = "idle"
  BY DEF Init, EmptyStore, Idle
<1>2. DedupGuards BY <1>1 DEF DedupGuards, PaidIsSeen, EarnRows, AcceptUnderWay
<1>3. CreditedOnce BY <1>1 DEF CreditedOnce, PaidOnce
<1>4. SpendSplit BY <1>1 DEF SpendSplit, SplitIn
<1>5. BalancesNonNegative BY <1>1 DEF BalancesNonNegative
<1> QED BY <1>2, <1>3, <1>4, <1>5 DEF MoneySafe

\* A step that leaves the money of both stores alone and starts no accept.
LEMMA QuietMoney ==
  ASSUME MoneySafe,
         mem'.seen = mem.seen, mem'.ledger = mem.ledger, mem'.balances = mem.balances,
         disk'.seen = disk.seen, disk'.ledger = disk.ledger, disk'.balances = disk.balances,
         \/ op'.kind \notin {"accept", "accept_other"}
         \/ UNCHANGED <<op, step>>
  PROVE  MoneySafe'
<1>1. PaidIsSeen(mem)' /\ PaidIsSeen(disk)' /\ (disk.seen \subseteq mem.seen)'
  BY DEF MoneySafe, DedupGuards, PaidIsSeen
<1>2. AcceptUnderWay' BY DEF MoneySafe, DedupGuards, AcceptUnderWay
<1>3. CreditedOnce' BY DEF MoneySafe, CreditedOnce
<1>4. SpendSplit' BY DEF MoneySafe, SpendSplit
<1>5. BalancesNonNegative' BY DEF MoneySafe, BalancesNonNegative
<1> QED BY <1>1, <1>2, <1>3, <1>4, <1>5 DEF MoneySafe, DedupGuards

LEMMA AcceptMoney ==
  ASSUME Typed, MoneySafe, NEW d \in Devices, NEW e \in Events,
         Judged(d, e) = "accepted", Accept(d, e), step' = 1, UNCHANGED disk
  PROVE  MoneySafe'
<1>1. /\ mem \in Store /\ mem.ledger \in Seq(Row) /\ mem.balances \in [Devices -> Int]
      /\ PaidOnce(mem.ledger) /\ SplitIn(mem.ledger)
      /\ PaidIsSeen(mem) /\ PaidIsSeen(disk) /\ disk.seen \subseteq mem.seen
  BY DEF Typed, TypeOK, Store, MoneySafe, DedupGuards, CreditedOnce, SpendSplit
<1>2. /\ EarnRows(mem.ledger, e.id) = {} /\ EarnRows(disk.ledger, e.id) = {}
      /\ e.id \in Ids /\ DevEarn(e.n) \in Nat
  BY AcceptedIsUnpaid, EventTypes, EarnValue DEF MoneySafe
<1> DEFINE earned == Append(mem.ledger, EarnRow(d, e))
           paid == Append(earned, HouseRow(e))
<1>3. /\ mem'.seen = mem.seen \cup {e.id}
      /\ mem'.ledger = IF e.n > 0 THEN paid ELSE mem.ledger
      /\ mem'.balances = [mem.balances EXCEPT ![d] = IF e.n > 0 THEN @ + DevEarn(e.n) ELSE @]
  BY <1>1, AcceptedStore
<1>4. op' = [kind |-> IF e.n > 0 THEN "accept" ELSE "accept_other", device |-> d, event |-> e]
  BY DEF Accept
<1>5. /\ earned \in Seq(Row) /\ PaidOnce(earned) /\ SplitIn(earned)
      /\ \A id : id # e.id => EarnRows(earned, id) = EarnRows(mem.ledger, id)
      /\ \E i \in EarnRows(earned, e.id) : earned[i].amount = DevEarn(e.n)
  BY <1>1, <1>2, EarnAppended
<1> HIDE DEF earned
<1>6. /\ PaidOnce(paid) /\ SplitIn(paid)
      /\ \A id : EarnRows(paid, id) = EarnRows(earned, id)
  BY <1>5, HouseAppended
<1> HIDE DEF paid
<1>7. DedupGuards'
  <2>1. PaidIsSeen(mem)'
    <3> SUFFICES ASSUME NEW id \in Ids, EarnRows(mem'.ledger, id) # {}
                 PROVE  id \in mem'.seen
      BY DEF PaidIsSeen
    <3>1. CASE id = e.id BY <1>3, <3>1
    <3>2. CASE id # e.id
      <4>1. EarnRows(mem'.ledger, id) = EarnRows(mem.ledger, id)
        BY <1>3, <1>5, <1>6, <3>2
      <4> QED BY <1>1, <1>3, <4>1 DEF PaidIsSeen
    <3> QED BY <3>1, <3>2
  <2>2. PaidIsSeen(disk)' /\ (disk.seen \subseteq mem.seen)'
    BY <1>1, <1>3 DEF PaidIsSeen
  <2>3. AcceptUnderWay'
    <3>1. op'.event = e /\ e.id \in mem'.seen BY <1>3, <1>4
    <3>2. EarnRows(disk'.ledger, e.id) = {} BY <1>2
    <3> QED BY <3>1, <3>2 DEF AcceptUnderWay
  <2> QED BY <2>1, <2>2, <2>3 DEF DedupGuards
<1>8. CreditedOnce' BY <1>1, <1>3, <1>6 DEF MoneySafe, CreditedOnce
<1>9. SpendSplit' BY <1>1, <1>3, <1>6 DEF MoneySafe, SpendSplit
<1>10. BalancesNonNegative'
  BY <1>1, <1>2, <1>3 DEF MoneySafe, BalancesNonNegative
<1> QED BY <1>7, <1>8, <1>9, <1>10 DEF MoneySafe

LEMMA RedeemMoney ==
  ASSUME Typed, MoneySafe, NEW d \in Devices, NEW a \in Amounts, Redeem(d, a)
  PROVE  MoneySafe'
<1>1. /\ mem \in Store /\ mem.ledger \in Seq(Row) /\ mem.balances \in [Devices -> Int]
      /\ nextRedemption \in Nat /\ PaidOnce(mem.ledger) /\ SplitIn(mem.ledger)
      /\ PaidIsSeen(mem) /\ PaidIsSeen(disk) /\ disk.seen \subseteq mem.seen
  BY DEF Typed, TypeOK, Store, MoneySafe, DedupGuards, CreditedOnce, SpendSplit
<1>2. PICK amount \in Nat :
        /\ amount <= mem.balances[d]
        /\ op' = [kind |-> "redeem", device |-> d, amount |-> amount, id |-> nextRedemption]
        /\ mem'.seen = mem.seen
        /\ mem'.ledger = Append(mem.ledger, RedeemRow(d, amount, nextRedemption))
        /\ mem'.balances = [mem.balances EXCEPT ![d] = @ - amount]
  BY <1>1, RedeemedStore
<1>3. UNCHANGED disk BY DEF Redeem
<1>4. /\ PaidOnce(mem'.ledger) /\ SplitIn(mem'.ledger)
      /\ \A id : EarnRows(mem'.ledger, id) = EarnRows(mem.ledger, id)
  BY <1>1, <1>2, RedeemAppended
<1>5. DedupGuards'
  <2>1. PaidIsSeen(mem)' /\ PaidIsSeen(disk)' /\ (disk.seen \subseteq mem.seen)'
    BY <1>1, <1>2, <1>3, <1>4 DEF PaidIsSeen
  <2>2. AcceptUnderWay' BY <1>2 DEF AcceptUnderWay
  <2> QED BY <2>1, <2>2 DEF DedupGuards
<1>6. CreditedOnce' /\ SpendSplit'
  BY <1>3, <1>4 DEF MoneySafe, CreditedOnce, SpendSplit
<1>7. BalancesNonNegative'
  <2> SUFFICES ASSUME NEW x \in Devices PROVE mem'.balances[x] >= 0 /\ disk'.balances[x] >= 0
    BY DEF BalancesNonNegative
  <2>1. mem.balances[x] >= 0 /\ disk.balances[x] >= 0 BY DEF MoneySafe, BalancesNonNegative
  <2>2. mem.balances[d] \in Int BY <1>1
  <2>3. mem'.balances[x] = IF x = d THEN mem.balances[d] - amount ELSE mem.balances[x]
    BY <1>1, <1>2
  <2> QED BY <1>2, <1>3, <2>1, <2>2, <2>3
<1> QED BY <1>5, <1>6, <1>7 DEF MoneySafe

LEMMA RestartMoney ==
  ASSUME MoneySafe, Restart
  PROVE  MoneySafe'
<1>1. mem' = disk /\ UNCHANGED disk /\ op' = Idle BY DEF Restart
<1>2. op'.kind = "idle" BY <1>1 DEF Idle
<1>3. DedupGuards' BY <1>1, <1>2 DEF MoneySafe, DedupGuards, PaidIsSeen, AcceptUnderWay
<1>4. CreditedOnce' /\ SpendSplit' /\ BalancesNonNegative'
  BY <1>1 DEF MoneySafe, CreditedOnce, SpendSplit, BalancesNonNegative
<1> QED BY <1>3, <1>4 DEF MoneySafe

\* One statement of a handler: the dedup id goes to disk before the row it
\* guards, and the developer's row before the house's.
LEMMA WriteMoney ==
  ASSUME Typed, MoneySafe, WriteThrough
  PROVE  MoneySafe'
<1>1. /\ UNCHANGED mem
      /\ \/ op' = op /\ step' = step + 1
         \/ op' = Idle
  BY WriteCases
<1>2. /\ disk.ledger \in Seq(Row) /\ disk.balances \in [Devices -> Int]
      /\ PaidOnce(disk.ledger) /\ SplitIn(disk.ledger)
      /\ PaidOnce(mem.ledger) /\ SplitIn(mem.ledger)
      /\ PaidIsSeen(mem) /\ PaidIsSeen(disk) /\ disk.seen \subseteq mem.seen
      /\ step \in Nat
  BY DEF Typed, TypeOK, Store, MoneySafe, DedupGuards, CreditedOnce, SpendSplit
<1>3. /\ op.kind \in {"accept", "accept_other"} => op.event.id \in mem.seen
      /\ op.kind = "accept" =>
           /\ step > 2 => op.event.id \in disk.seen
           /\ step < 4 => EarnRows(disk.ledger, op.event.id) = {}
           /\ step = 4 => \E i \in EarnRows(disk.ledger, op.event.id) :
                            disk.ledger[i].amount = DevEarn(op.event.n)
  BY DEF MoneySafe, DedupGuards, AcceptUnderWay
<1>4. Idle.kind \notin {"accept", "accept_other"} BY DEF Idle
<1>5. ASSUME PaidIsSeen(disk'), disk'.seen \subseteq mem.seen, PaidOnce(disk'.ledger),
             SplitIn(disk'.ledger), \A d \in Devices : disk'.balances[d] >= 0,
             op.kind = "accept" /\ op' = op /\ step' = step + 1 =>
               /\ step > 1 => op.event.id \in disk'.seen
               /\ step < 3 => EarnRows(disk'.ledger, op.event.id) = {}
               /\ step = 3 => \E i \in EarnRows(disk'.ledger, op.event.id) :
                                disk'.ledger[i].amount = DevEarn(op.event.n)
      PROVE  MoneySafe'
  <2>1. AcceptUnderWay'
    <3>1. CASE op' = Idle BY <1>4, <3>1 DEF AcceptUnderWay
    <3>2. CASE op' = op /\ step' = step + 1
      BY <1>1, <1>2, <1>3, <1>5, <3>2 DEF AcceptUnderWay
    <3> QED BY <1>1, <3>1, <3>2
  <2>2. DedupGuards' BY <1>1, <1>2, <1>5, <2>1 DEF DedupGuards, PaidIsSeen
  <2>3. CreditedOnce' /\ SpendSplit' BY <1>1, <1>2, <1>5 DEF CreditedOnce, SpendSplit
  <2>4. BalancesNonNegative' BY <1>1, <1>5 DEF MoneySafe, BalancesNonNegative
  <2> QED BY <2>2, <2>3, <2>4 DEF MoneySafe
<1>6. \A d \in Devices : mem.balances[d] >= 0 /\ disk.balances[d] >= 0
  BY DEF MoneySafe, BalancesNonNegative
<1>7. CASE /\ UNCHANGED <<disk.seen, disk.ledger, disk.balances>>
           /\ op.kind = "accept" => step \notin {2, 3, 4, 5}
  <2>1. PaidIsSeen(disk') BY <1>2, <1>7 DEF PaidIsSeen
  <2>2. op.kind = "accept" /\ step > 1 => step > 2 BY <1>2, <1>7
  <2>3. step < 3 => step < 4 BY <1>2
  <2> QED BY <1>2, <1>3, <1>5, <1>6, <1>7, <2>1, <2>2, <2>3
<1>8. CASE /\ op.kind \in {"accept", "accept_other"} /\ op.event \in Events
           /\ disk'.seen = disk.seen \cup {op.event.id}
           /\ op.kind = "accept" => step = 2
           /\ UNCHANGED <<disk.ledger, disk.balances>>
  <2>1. PaidIsSeen(disk') BY <1>2, <1>8 DEF PaidIsSeen
  <2>2. disk'.seen \subseteq mem.seen BY <1>2, <1>3, <1>8
  <2> QED BY <1>2, <1>3, <1>5, <1>6, <1>8, <2>1, <2>2
<1>9. CASE /\ op.kind = "accept" /\ step = 3 /\ op.event \in Events /\ op.device \in Devices
           /\ disk'.ledger = Append(disk.ledger, EarnRow(op.device, op.event))
           /\ UNCHANGED <<disk.seen, disk.balances>>
  <2>1. op.event.id \in disk.seen /\ EarnRows(disk.ledger, op.event.id) = {}
    BY <1>3, <1>9
  <2>2. /\ PaidOnce(disk'.ledger) /\ SplitIn(disk'.ledger)
        /\ \A id : id # op.event.id => EarnRows(disk'.ledger, id) = EarnRows(disk.ledger, id)
        /\ \E i \in EarnRows(disk'.ledger, op.event.id) :
             disk'.ledger[i].amount = DevEarn(op.event.n)
    <3> DEFINE L == disk.ledger
               d == op.device
               e == op.event
               M == Append(L, EarnRow(d, e))
    <3>1. L \in Seq(Row) /\ PaidOnce(L) /\ SplitIn(L) /\ d \in Devices /\ e \in Events
          /\ EarnRows(L, e.id) = {}
      BY <1>2, <1>9, <2>1
    <3> HIDE DEF L, d, e
    <3>2. /\ PaidOnce(M) /\ SplitIn(M)
          /\ \A id : id # e.id => EarnRows(M, id) = EarnRows(L, id)
          /\ \E i \in EarnRows(M, e.id) : M[i].amount = DevEarn(e.n)
      BY <3>1, EarnAppended
    <3> HIDE DEF M
    <3> QED BY <1>9, <3>2 DEF L, d, e, M
  <2>3. PaidIsSeen(disk') BY <1>2, <1>9, <2>1, <2>2 DEF PaidIsSeen
  <2>4. disk'.seen \subseteq mem.seen /\ \A d \in Devices : disk'.balances[d] >= 0
    BY <1>2, <1>6, <1>9
  <2>5. step > 1 => op.event.id \in disk'.seen BY <1>9, <2>1
  <2>6. ~(step < 3) BY <1>9
  <2> QED BY <1>5, <2>2, <2>3, <2>4, <2>5, <2>6
<1>10. CASE /\ op.kind = "accept" /\ step = 4 /\ op.event \in Events
            /\ disk'.ledger = Append(disk.ledger, HouseRow(op.event))
            /\ UNCHANGED <<disk.seen, disk.balances>>
  <2>1. /\ op.event.id \in disk.seen
        /\ \E i \in EarnRows(disk.ledger, op.event.id) :
             disk.ledger[i].amount = DevEarn(op.event.n)
    BY <1>3, <1>10
  <2>2. /\ PaidOnce(disk'.ledger) /\ SplitIn(disk'.ledger)
        /\ \A id : EarnRows(disk'.ledger, id) = EarnRows(disk.ledger, id)
    BY <1>2, <1>10, <2>1, HouseAppended
  <2>3. PaidIsSeen(disk') BY <1>2, <1>10, <2>2 DEF PaidIsSeen
  <2> QED BY <1>2, <1>5, <1>6, <1>10, <2>1, <2>2, <2>3
<1>11. CASE /\ op.device \in Devices
            /\ op.kind = "redeem" \/ (op.kind = "accept" /\ step = 5)
            /\ disk'.balances = [disk.balances EXCEPT ![op.device] = mem.balances[op.device]]
            /\ UNCHANGED <<disk.seen, disk.ledger>>
  <2>1. PaidIsSeen(disk') BY <1>2, <1>11 DEF PaidIsSeen
  <2>2. \A d \in Devices : disk'.balances[d] >= 0 BY <1>2, <1>6, <1>11
  <2> QED BY <1>2, <1>3, <1>5, <1>11, <2>1, <2>2
<1>12. CASE /\ op.kind = "redeem" /\ op.device \in Devices /\ op.amount \in Nat /\ op.id \in Nat
            /\ disk'.ledger = Append(disk.ledger, RedeemRow(op.device, op.amount, op.id))
            /\ UNCHANGED <<disk.seen, disk.balances>>
  <2>1. /\ PaidOnce(disk'.ledger) /\ SplitIn(disk'.ledger)
        /\ \A id : EarnRows(disk'.ledger, id) = EarnRows(disk.ledger, id)
    BY <1>2, <1>12, RedeemAppended
  <2>2. PaidIsSeen(disk') BY <1>2, <1>12, <2>1 DEF PaidIsSeen
  <2> QED BY <1>2, <1>5, <1>6, <1>12, <2>1, <2>2
<1>13. op.kind = "redeem" => op.kind # "accept" OBVIOUS
<1> QED BY <1>7, <1>8, <1>9, <1>10, <1>11, <1>12, <1>13, WriteCases

LEMMA StepMoney ==
  ASSUME Typed, MoneySafe, [CrashNext]_vars
  PROVE  MoneySafe'
<1>1. ASSUME NEW d \in Devices, NEW k \in Keys, Register(d, k) PROVE MoneySafe'
  <2>1. /\ mem'.seen = mem.seen /\ mem'.ledger = mem.ledger /\ mem'.balances = mem.balances
    BY <1>1, OtherStores DEF Typed, TypeOK
  <2>2. UNCHANGED disk /\ op'.kind = "register" BY <1>1 DEF Register
  <2> QED BY <2>1, <2>2, QuietMoney
<1>2. ASSUME NEW d \in Devices, NEW b \in Batches, Ingest(d, b) PROVE MoneySafe'
  <2>1. UNCHANGED <<mem, disk, op, step>> BY <1>2 DEF Ingest
  <2> QED BY <2>1, QuietMoney
<1>3. CASE Requests BY <1>1, <1>2, <1>3, RedeemMoney DEF Requests
<1>4. CASE JudgeEvent
  <2>1. CASE Reject
    <3>1. /\ mem'.seen = mem.seen /\ mem'.ledger = mem.ledger /\ mem'.balances = mem.balances
      BY <2>1, OtherStores DEF Typed, TypeOK
    <3>2. UNCHANGED disk BY <1>4, JudgeCases
    <3>3. op'.kind = "reject" BY <2>1 DEF Reject
    <3> QED BY <3>1, <3>2, <3>3, QuietMoney
  <2>2. CASE \E d \in Devices, e \in Events : Judged(d, e) = "accepted" /\ Accept(d, e)
    <3>1. step' = 1 /\ UNCHANGED disk BY <1>4, JudgeCases
    <3> QED BY <2>2, <3>1, AcceptMoney
  <2> QED BY <1>4, <2>1, <2>2, JudgeCases
<1>5. CASE WriteThrough BY <1>5, WriteMoney
<1>6. CASE Restart BY <1>6, RestartMoney
<1>7. CASE UNCHANGED vars
  <2>1. UNCHANGED <<mem, disk, op, step>> BY <1>7 DEF vars
  <2> QED BY <2>1, QuietMoney
<1> QED BY <1>3, <1>4, <1>5, <1>6, <1>7 DEF CrashNext

\* The invariant is inductive, and it holds of the backend whenever it dies.
LEMMA Invariance == CrashSpec => []IInv
<1>1. Init => IInv BY InitTyped, InitMoney DEF IInv
<1>2. IInv /\ [CrashNext]_vars => IInv' BY StepTyped, StepMoney DEF IInv
<1> QED BY <1>1, <1>2, PTL DEF CrashSpec

\* No event is ever paid twice, in the view or on disk, for any set of devices
\* and events, however often it is sent, whatever device is registered again,
\* and wherever the process dies: insert_seen_event runs before insert_ledger
\* (main.rs:883-947).
THEOREM PaidAtMostOnce == CrashSpec => []CreditedOnce
<1>1. IInv => CreditedOnce BY DEF IInv, MoneySafe
<1> QED BY <1>1, Invariance, PTL

\* No redemption takes more than the account holds, whatever stale balance a
\* crash between two statements of redeem or accept_event left in the tables
\* (main.rs:1015-1069).
THEOREM NeverOverdrawn == CrashSpec => []BalancesNonNegative
<1>1. IInv => BalancesNonNegative BY DEF IInv, MoneySafe
<1> QED BY <1>1, Invariance, PTL

\* Each house row follows the developer's row of its event and adds up with it
\* to the event's whole price, for every price and share: the integer division
\* of accept_event loses nothing (main.rs:905-923).
THEOREM SpendIsSplit == CrashSpec => []SpendSplit
<1>1. IInv => SpendSplit BY DEF IInv, MoneySafe
<1> QED BY <1>1, Invariance, PTL

\* The same three facts of a server that only stops between requests.
THEOREM MoneyWithoutCrashes == Spec => [](CreditedOnce /\ BalancesNonNegative /\ SpendSplit)
<1>1. Init => IInv BY InitTyped, InitMoney DEF IInv
<1>2. IInv /\ [Next]_vars => IInv' BY StepTyped, StepMoney, NextIsCrashNext DEF IInv
<1>3. IInv => CreditedOnce /\ BalancesNonNegative /\ SpendSplit BY DEF IInv, MoneySafe
<1> QED BY <1>1, <1>2, <1>3, PTL DEF Spec

-----------------------------------------------------------------------------
(* The inductive invariant of a server that stops only between requests. *)

\* The statements of the handler in progress that are still to run, table by table.
DevicePending == op.kind \in {"register", "accept", "accept_other"} /\ step = 1
SeenPending == op.kind \in {"accept", "accept_other"} /\ step <= 2
EarnPending == op.kind = "accept" /\ step <= 3
HousePending == op.kind = "accept" /\ step <= 4
BalancePending == (op.kind = "accept" /\ step <= 5) \/ op.kind = "redeem"
ImpressionsPending == op.kind = "accept" /\ step <= 6
AcceptedPending == op.kind \in {"accept", "accept_other"}
RejectedPending == op.kind = "reject"
RedeemRowPending == op.kind = "redeem" /\ step = 1
RedemptionPending == op.kind = "redeem" /\ step <= 2

\* Each table is the view, but for what the pending statements will write.
DevicesLag ==
  /\ \A d \in Devices : mem.devices[d] # disk.devices[d] => DevicePending /\ d = op.device
  /\ DevicePending /\ op.kind # "register" =>
       /\ disk.devices[op.device].key # NoKey
       /\ mem.devices[op.device] = Advanced(disk.devices[op.device], op.event)
SeenLag == mem.seen = IF SeenPending THEN disk.seen \cup {op.event.id} ELSE disk.seen
LedgerLag ==
  mem.ledger =
    IF EarnPending
      THEN Append(Append(disk.ledger, EarnRow(op.device, op.event)), HouseRow(op.event))
    ELSE IF HousePending THEN Append(disk.ledger, HouseRow(op.event))
    ELSE IF RedeemRowPending
      THEN Append(disk.ledger, RedeemRow(op.device, op.amount, op.id))
    ELSE disk.ledger
BalancesLag ==
  \A d \in Devices : mem.balances[d] # disk.balances[d] => BalancePending /\ d = op.device
ImpressionsLag ==
  \A d \in Devices :
    mem.impressions[d] # disk.impressions[d] => ImpressionsPending /\ d = op.device
RedemptionsLag ==
  mem.redemptions =
    IF RedemptionPending
      THEN Append(disk.redemptions, [id |-> op.id, amount |-> op.amount])
      ELSE disk.redemptions
TalliesLag ==
  /\ mem.accepted # disk.accepted => AcceptedPending
  /\ mem.rejected # disk.rejected => RejectedPending

Lag ==
  /\ DevicesLag /\ SeenLag /\ LedgerLag /\ BalancesLag
  /\ ImpressionsLag /\ RedemptionsLag /\ TalliesLag

CounterLoads == nextRedemption = LoadedRedemptionId(mem)

-----------------------------------------------------------------------------
(* What each statement does to the tables, and to what is left to run. *)

Tables == {"devices", "seen", "ledger", "balances", "impressions",
           "redemptions", "accepted", "rejected"}

LEMMA OneTable ==
  ASSUME NEW s \in Store, NEW f \in Tables, NEW v, NEW t, t = [s EXCEPT ![f] = v]
  PROVE  t[f] = v /\ \A g \in Tables \ {f} : t[g] = s[g]
<1>1. DOMAIN s = Tables BY DEF Store, Tables
<1> QED BY <1>1

LEMMA SameTables ==
  ASSUME NEW s \in Store, NEW t \in Store,
         t.devices = s.devices, t.seen = s.seen, t.ledger = s.ledger,
         t.balances = s.balances, t.impressions = s.impressions,
         t.redemptions = s.redemptions, t.accepted = s.accepted, t.rejected = s.rejected
  PROVE  s = t
<1>1. ASSUME NEW r \in Store
      PROVE  r = [devices |-> r.devices, seen |-> r.seen, ledger |-> r.ledger,
                  balances |-> r.balances, impressions |-> r.impressions,
                  redemptions |-> r.redemptions, accepted |-> r.accepted,
                  rejected |-> r.rejected]
  BY DEF Store
<1> QED BY <1>1, Zenon

\* Only the table f is written.
Writes(f) == \A g \in Tables \ {f} : disk'[g] = disk[g]

Current == Statements(op.kind)[step]

LEMMA StatementEffect ==
  ASSUME Typed, WriteThrough
  PROVE  /\ Current \in {"device", "device_head", "seen_event", "earn_row", "house_row", "balance",
                         "impressions", "accepted", "rejected", "redeem_row", "redemption"}
         /\ Current = "device" =>
              /\ disk'.devices = [disk.devices EXCEPT ![op.device] = mem.devices[op.device]]
              /\ Writes("devices")
         /\ Current = "device_head" =>
              /\ disk.devices[op.device].key # NoKey =>
                   disk'.devices = [disk.devices EXCEPT ![op.device] = Advanced(@, op.event)]
              /\ Writes("devices")
         /\ Current = "seen_event" =>
              disk'.seen = disk.seen \cup {op.event.id} /\ Writes("seen")
         /\ Current = "earn_row" =>
              /\ disk'.ledger = Append(disk.ledger, EarnRow(op.device, op.event))
              /\ Writes("ledger")
         /\ Current = "house_row" =>
              disk'.ledger = Append(disk.ledger, HouseRow(op.event)) /\ Writes("ledger")
         /\ Current = "redeem_row" =>
              /\ disk'.ledger = Append(disk.ledger, RedeemRow(op.device, op.amount, op.id))
              /\ Writes("ledger")
         /\ Current = "balance" =>
              /\ disk'.balances = [disk.balances EXCEPT ![op.device] = mem.balances[op.device]]
              /\ Writes("balances")
         /\ Current = "impressions" =>
              /\ disk'.impressions =
                   [disk.impressions EXCEPT ![op.device] = mem.impressions[op.device]]
              /\ Writes("impressions")
         /\ Current = "accepted" => disk'.accepted = mem.accepted /\ Writes("accepted")
         /\ Current = "rejected" => disk'.rejected = mem.rejected /\ Writes("rejected")
         /\ Current = "redemption" =>
              /\ disk'.redemptions =
                   Append(disk.redemptions, [id |-> op.id, amount |-> op.amount])
              /\ Writes("redemptions")
<1> DEFINE s == Current
<1>1. disk' = Executed(s) /\ op # Idle /\ disk \in Store /\ HandlerTyped
  BY DEF WriteThrough, Typed, TypeOK, Current
<1>0. disk.devices \in [Devices -> DeviceType] BY <1>1 DEF Store, DeviceType
<1>2. s \in {"device", "device_head", "seen_event", "earn_row", "house_row", "balance",
             "impressions", "accepted", "rejected", "redeem_row", "redemption"}
  <2>1. CASE op.kind = "accept"
    <3>0. /\ Len(Statements(op.kind)) = 7 /\ step \in Nat
          /\ step >= 1 /\ step <= Len(Statements(op.kind))
      BY <1>1, <2>1, NextStatement
    <3>1. step \in {1, 2, 3, 4, 5, 6, 7} BY <3>0
    <3> QED BY <1>1, <2>1, <3>1, NextStatement DEF Current
  <2> QED BY <1>1, <2>1, NextStatement DEF Current
<1> HIDE DEF s
<1>3. CASE s = "device"
  <2> DEFINE v == [disk.devices EXCEPT ![op.device] = mem.devices[op.device]]
  <2>1. disk' = [disk EXCEPT !.devices = v] BY <1>1, <1>3 DEF Executed
  <2> HIDE DEF v
  <2>2. disk'.devices = v /\ Writes("devices") BY <1>1, <2>1, OneTable DEF Writes, Tables
  <2> QED BY <1>2, <1>3, <2>2 DEF v, s
<1>4. CASE s = "device_head"
  <2>1. CASE disk.devices[op.device].key = NoKey
    <3>1. disk' = disk BY <1>1, <1>4, <2>1 DEF Executed
    <3> QED BY <1>2, <1>4, <2>1, <3>1 DEF Writes, s
  <2>2. CASE disk.devices[op.device].key # NoKey
    <3> DEFINE v == [disk.devices EXCEPT ![op.device].head = op.event.digest,
                                         ![op.device].ctr = op.event.ctr]
    <3>1. disk' = [disk EXCEPT !.devices = v] BY <1>1, <1>4, <2>2, HeadStatement
    <3>2. v = [disk.devices EXCEPT ![op.device] = Advanced(@, op.event)]
      BY <1>0 DEF Advanced
    <3> HIDE DEF v
    <3>3. disk'.devices = v /\ Writes("devices") BY <1>1, <3>1, OneTable DEF Writes, Tables
    <3> QED BY <1>2, <1>4, <3>2, <3>3 DEF s
  <2> QED BY <2>1, <2>2
<1>5. CASE s = "seen_event"
  <2> DEFINE v == disk.seen \cup {op.event.id}
  <2>1. disk' = [disk EXCEPT !.seen = v] BY <1>1, <1>5 DEF Executed
  <2> HIDE DEF v
  <2>2. disk'.seen = v /\ Writes("seen") BY <1>1, <2>1, OneTable DEF Writes, Tables
  <2> QED BY <1>2, <1>5, <2>2 DEF v, s
<1>6. CASE s = "earn_row"
  <2> DEFINE v == Append(disk.ledger, EarnRow(op.device, op.event))
  <2>1. disk' = [disk EXCEPT !.ledger = v] BY <1>1, <1>6, LedgerStatement
  <2> HIDE DEF v
  <2>2. disk'.ledger = v /\ Writes("ledger") BY <1>1, <2>1, OneTable DEF Writes, Tables
  <2> QED BY <1>2, <1>6, <2>2 DEF v, s
<1>7. CASE s = "house_row"
  <2> DEFINE v == Append(disk.ledger, HouseRow(op.event))
  <2>1. disk' = [disk EXCEPT !.ledger = v] BY <1>1, <1>7, LedgerStatement
  <2> HIDE DEF v
  <2>2. disk'.ledger = v /\ Writes("ledger") BY <1>1, <2>1, OneTable DEF Writes, Tables
  <2> QED BY <1>2, <1>7, <2>2 DEF v, s
<1>8. CASE s = "redeem_row"
  <2> DEFINE v == Append(disk.ledger, RedeemRow(op.device, op.amount, op.id))
  <2>1. disk' = [disk EXCEPT !.ledger = v] BY <1>1, <1>8, LedgerStatement
  <2> HIDE DEF v
  <2>2. disk'.ledger = v /\ Writes("ledger") BY <1>1, <2>1, OneTable DEF Writes, Tables
  <2> QED BY <1>2, <1>8, <2>2 DEF v, s
<1>9. CASE s = "balance"
  <2> DEFINE v == [disk.balances EXCEPT ![op.device] = mem.balances[op.device]]
  <2>1. disk' = [disk EXCEPT !.balances = v] BY <1>1, <1>9 DEF Executed
  <2> HIDE DEF v
  <2>2. disk'.balances = v /\ Writes("balances") BY <1>1, <2>1, OneTable DEF Writes, Tables
  <2> QED BY <1>2, <1>9, <2>2 DEF v, s
<1>10. CASE s = "impressions"
  <2> DEFINE v == [disk.impressions EXCEPT ![op.device] = mem.impressions[op.device]]
  <2>1. disk' = [disk EXCEPT !.impressions = v] BY <1>1, <1>10 DEF Executed
  <2> HIDE DEF v
  <2>2. disk'.impressions = v /\ Writes("impressions")
    BY <1>1, <2>1, OneTable DEF Writes, Tables
  <2> QED BY <1>2, <1>10, <2>2 DEF v, s
<1>11. CASE s = "accepted"
  <2>1. disk' = [disk EXCEPT !.accepted = mem.accepted] BY <1>1, <1>11 DEF Executed
  <2>2. disk'.accepted = mem.accepted /\ Writes("accepted")
    BY <1>1, <2>1, OneTable DEF Writes, Tables
  <2> QED BY <1>2, <1>11, <2>2 DEF s
<1>12. CASE s = "rejected"
  <2>1. disk' = [disk EXCEPT !.rejected = mem.rejected] BY <1>1, <1>12 DEF Executed
  <2>2. disk'.rejected = mem.rejected /\ Writes("rejected")
    BY <1>1, <2>1, OneTable DEF Writes, Tables
  <2> QED BY <1>2, <1>12, <2>2 DEF s
<1>13. CASE s = "redemption"
  <2> DEFINE v == Append(disk.redemptions, [id |-> op.id, amount |-> op.amount])
  <2>1. disk' = [disk EXCEPT !.redemptions = v] BY <1>1, <1>13 DEF Executed
  <2> HIDE DEF v
  <2>2. disk'.redemptions = v /\ Writes("redemptions")
    BY <1>1, <2>1, OneTable DEF Writes, Tables
  <2> QED BY <1>2, <1>13, <2>2 DEF v, s
<1> QED BY <1>2, <1>3, <1>4, <1>5, <1>6, <1>7, <1>8, <1>9, <1>10, <1>11, <1>12, <1>13

\* The statement at each place of each handler, and how it moves on.
LEMMA Places ==
  ASSUME Typed, WriteThrough
  PROVE  \/ op.kind = "register" /\ step = 1 /\ Current = "device" /\ op'.kind = "idle"
         \/ op.kind = "reject" /\ step = 1 /\ Current = "rejected" /\ op'.kind = "idle"
         \/ /\ op.kind = "accept"
            /\ \/ step = 1 /\ Current = "device_head" /\ op' = op /\ step' = 2
               \/ step = 2 /\ Current = "seen_event" /\ op' = op /\ step' = 3
               \/ step = 3 /\ Current = "earn_row" /\ op' = op /\ step' = 4
               \/ step = 4 /\ Current = "house_row" /\ op' = op /\ step' = 5
               \/ step = 5 /\ Current = "balance" /\ op' = op /\ step' = 6
               \/ step = 6 /\ Current = "impressions" /\ op' = op /\ step' = 7
               \/ step = 7 /\ Current = "accepted" /\ op'.kind = "idle"
         \/ /\ op.kind = "accept_other"
            /\ \/ step = 1 /\ Current = "device_head" /\ op' = op /\ step' = 2
               \/ step = 2 /\ Current = "seen_event" /\ op' = op /\ step' = 3
               \/ step = 3 /\ Current = "accepted" /\ op'.kind = "idle"
         \/ /\ op.kind = "redeem"
            /\ \/ step = 1 /\ Current = "redeem_row" /\ op' = op /\ step' = 2
               \/ step = 2 /\ Current = "redemption" /\ op' = op /\ step' = 3
               \/ step = 3 /\ Current = "balance" /\ op'.kind = "idle"
<1> DEFINE n == Len(Statements(op.kind))
<1>1. /\ op.kind \in {"register", "accept", "accept_other", "reject", "redeem"}
      /\ step \in 1..n
  BY DEF Typed, HandlerTyped, OpType, Idle, WriteThrough
<1>2. /\ step < n => op' = op /\ step' = step + 1
      /\ ~(step < n) => op'.kind = "idle"
  BY DEF WriteThrough, Proceed, Idle
<1>3. CASE op.kind = "register"
  <2>1. Statements(op.kind) = <<"device">> BY <1>3 DEF Statements
  <2>2. n = 1 /\ step = 1 BY <1>1, <2>1
  <2>3. Current = "device" BY <2>1, <2>2 DEF Current
  <2> HIDE DEF n
  <2> QED BY <1>2, <1>3, <2>2, <2>3
<1>4. CASE op.kind = "reject"
  <2>1. Statements(op.kind) = <<"rejected">> BY <1>4 DEF Statements
  <2>2. n = 1 /\ step = 1 BY <1>1, <2>1
  <2>3. Current = "rejected" BY <2>1, <2>2 DEF Current
  <2> HIDE DEF n
  <2> QED BY <1>2, <1>4, <2>2, <2>3
<1>5. CASE op.kind = "accept_other"
  <2>1. Statements(op.kind) = <<"device_head", "seen_event", "accepted">>
    BY <1>5 DEF Statements
  <2>2. n = 3 /\ step \in {1, 2, 3} BY <1>1, <2>1
  <2>3. /\ step = 1 => Current = "device_head"
        /\ step = 2 => Current = "seen_event"
        /\ step = 3 => Current = "accepted"
    BY <2>1, <2>2 DEF Current
  <2> HIDE DEF n
  <2> QED BY <1>2, <1>5, <2>2, <2>3
<1>6. CASE op.kind = "redeem"
  <2>1. Statements(op.kind) = <<"redeem_row", "redemption", "balance">>
    BY <1>6 DEF Statements
  <2>2. n = 3 /\ step \in {1, 2, 3} BY <1>1, <2>1
  <2>3. /\ step = 1 => Current = "redeem_row"
        /\ step = 2 => Current = "redemption"
        /\ step = 3 => Current = "balance"
    BY <2>1, <2>2 DEF Current
  <2> HIDE DEF n
  <2> QED BY <1>2, <1>6, <2>2, <2>3
<1>7. CASE op.kind = "accept"
  <2>1. op # Idle /\ HandlerTyped BY DEF WriteThrough, Typed
  <2>2. n = 7 BY <1>7, <2>1, NextStatement
  <2>3. step \in {1, 2, 3, 4, 5, 6, 7} BY <1>1, <2>2
  <2> HIDE DEF n
  <2> QED BY <1>2, <1>7, <2>1, <2>2, <2>3, NextStatement DEF Current
<1> QED BY <1>1, <1>3, <1>4, <1>5, <1>6, <1>7

-----------------------------------------------------------------------------
(* The tables follow the view. *)

LEMMA DevicesFollow ==
  ASSUME Typed, DevicesLag, WriteThrough
  PROVE  DevicesLag'
<1>1. mem' = mem /\ mem \in Store /\ disk \in Store BY DEF WriteThrough, Typed, TypeOK
<1>2. mem.devices \in [Devices -> DeviceType] /\ disk.devices \in [Devices -> DeviceType]
  BY <1>1 DEF Store, DeviceType
<1>3. ~DevicePending'
  BY Places DEF DevicePending
<1>4. \A d \in Devices : mem.devices[d] = disk'.devices[d]
  <2>1. CASE DevicePending /\ op.kind = "register"
    <3>1. Current = "device" BY <2>1, Places DEF DevicePending
    <3>2. disk'.devices = [disk.devices EXCEPT ![op.device] = mem.devices[op.device]]
      BY <3>1, StatementEffect
    <3> QED BY <1>2, <3>2 DEF DevicesLag
  <2>2. CASE DevicePending /\ op.kind # "register"
    <3>1. Current = "device_head" BY <2>2, Places DEF DevicePending
    <3>2. /\ disk.devices[op.device].key # NoKey
          /\ mem.devices[op.device] = Advanced(disk.devices[op.device], op.event)
      BY <2>2 DEF DevicesLag
    <3>3. disk'.devices = [disk.devices EXCEPT ![op.device] = Advanced(@, op.event)]
      BY <3>1, <3>2, StatementEffect
    <3> QED BY <1>2, <3>2, <3>3 DEF DevicesLag
  <2>3. CASE ~DevicePending
    <3>1. Current \notin {"device", "device_head"} BY <2>3, Places DEF DevicePending
    <3>2. disk'.devices = disk.devices BY <3>1, StatementEffect DEF Writes, Tables
    <3> QED BY <2>3, <3>2 DEF DevicesLag
  <2> QED BY <2>1, <2>2, <2>3
<1> QED BY <1>1, <1>3, <1>4 DEF DevicesLag

LEMMA SeenFollows ==
  ASSUME Typed, SeenLag, WriteThrough
  PROVE  SeenLag'
<1>1. mem' = mem BY DEF WriteThrough
<1>2. CASE Current = "seen_event"
  <2>1. SeenPending /\ ~SeenPending' BY <1>2, Places DEF SeenPending
  <2>2. disk'.seen = disk.seen \cup {op.event.id} BY <1>2, StatementEffect
  <2> QED BY <1>1, <2>1, <2>2 DEF SeenLag
<1>3. CASE Current # "seen_event"
  <2>1. disk'.seen = disk.seen BY <1>3, StatementEffect DEF Writes, Tables
  <2>2. CASE SeenPending
    <3>1. SeenPending' /\ op' = op BY <1>3, <2>2, Places DEF SeenPending
    <3> QED BY <1>1, <2>1, <2>2, <3>1 DEF SeenLag
  <2>3. CASE ~SeenPending
    <3>1. ~SeenPending' BY <2>3, Places DEF SeenPending
    <3> QED BY <1>1, <2>1, <2>3, <3>1 DEF SeenLag
  <2> QED BY <2>2, <2>3
<1> QED BY <1>2, <1>3

LEMMA LedgerFollows ==
  ASSUME Typed, LedgerLag, WriteThrough
  PROVE  LedgerLag'
<1>1. mem' = mem BY DEF WriteThrough
<1>2. CASE Current = "earn_row"
  <2>1. EarnPending /\ ~EarnPending' /\ HousePending' /\ op' = op
    BY <1>2, Places DEF EarnPending, HousePending
  <2>2. disk'.ledger = Append(disk.ledger, EarnRow(op.device, op.event))
    BY <1>2, StatementEffect
  <2> QED BY <1>1, <2>1, <2>2 DEF LedgerLag
<1>3. CASE Current = "house_row"
  <2>1. /\ ~EarnPending /\ HousePending
        /\ ~EarnPending' /\ ~HousePending' /\ ~RedeemRowPending'
    BY <1>3, Places DEF EarnPending, HousePending, RedeemRowPending
  <2>2. disk'.ledger = Append(disk.ledger, HouseRow(op.event)) BY <1>3, StatementEffect
  <2> QED BY <1>1, <2>1, <2>2 DEF LedgerLag
<1>4. CASE Current = "redeem_row"
  <2>1. /\ ~EarnPending /\ ~HousePending /\ RedeemRowPending
        /\ ~EarnPending' /\ ~HousePending' /\ ~RedeemRowPending'
    BY <1>4, Places DEF EarnPending, HousePending, RedeemRowPending
  <2>2. disk'.ledger = Append(disk.ledger, RedeemRow(op.device, op.amount, op.id))
    BY <1>4, StatementEffect
  <2> QED BY <1>1, <2>1, <2>2 DEF LedgerLag
<1>5. CASE Current \notin {"earn_row", "house_row", "redeem_row"}
  <2>1. disk'.ledger = disk.ledger BY <1>5, StatementEffect DEF Writes, Tables
  <2>2. CASE EarnPending
    <3>1. EarnPending' /\ op' = op BY <1>5, <2>2, Places DEF EarnPending
    <3> QED BY <1>1, <2>1, <2>2, <3>1 DEF LedgerLag
  <2>3. CASE ~EarnPending
    <3>1. ~HousePending /\ ~RedeemRowPending
      BY <1>5, <2>3, Places DEF EarnPending, HousePending, RedeemRowPending
    <3>2. ~EarnPending' /\ ~HousePending' /\ ~RedeemRowPending'
      BY <1>5, <2>3, Places DEF EarnPending, HousePending, RedeemRowPending
    <3> QED BY <1>1, <2>1, <2>3, <3>1, <3>2 DEF LedgerLag
  <2> QED BY <2>2, <2>3
<1> QED BY <1>2, <1>3, <1>4, <1>5

LEMMA BalancesFollow ==
  ASSUME Typed, BalancesLag, WriteThrough
  PROVE  BalancesLag'
<1>1. mem' = mem /\ mem \in Store /\ disk \in Store BY DEF WriteThrough, Typed, TypeOK
<1>2. mem.balances \in [Devices -> Int] /\ disk.balances \in [Devices -> Int]
  BY <1>1 DEF Store
<1>3. CASE Current = "balance"
  <2>1. disk'.balances = [disk.balances EXCEPT ![op.device] = mem.balances[op.device]]
    BY <1>3, StatementEffect
  <2>2. \A d \in Devices : mem.balances[d] = disk'.balances[d]
    BY <1>2, <2>1 DEF BalancesLag
  <2> QED BY <1>1, <2>2 DEF BalancesLag
<1>4. CASE Current # "balance"
  <2>1. disk'.balances = disk.balances BY <1>4, StatementEffect DEF Writes, Tables
  <2>2. BalancePending => BalancePending' /\ op' = op BY <1>4, Places DEF BalancePending
  <2> QED BY <1>1, <2>1, <2>2 DEF BalancesLag
<1> QED BY <1>3, <1>4

LEMMA ImpressionsFollow ==
  ASSUME Typed, ImpressionsLag, WriteThrough
  PROVE  ImpressionsLag'
<1>1. mem' = mem /\ mem \in Store /\ disk \in Store BY DEF WriteThrough, Typed, TypeOK
<1>2. mem.impressions \in [Devices -> Nat] /\ disk.impressions \in [Devices -> Nat]
  BY <1>1 DEF Store
<1>3. CASE Current = "impressions"
  <2>1. disk'.impressions = [disk.impressions EXCEPT ![op.device] = mem.impressions[op.device]]
    BY <1>3, StatementEffect
  <2>2. \A d \in Devices : mem.impressions[d] = disk'.impressions[d]
    BY <1>2, <2>1 DEF ImpressionsLag
  <2> QED BY <1>1, <2>2 DEF ImpressionsLag
<1>4. CASE Current # "impressions"
  <2>1. disk'.impressions = disk.impressions BY <1>4, StatementEffect DEF Writes, Tables
  <2>2. ImpressionsPending => ImpressionsPending' /\ op' = op
    BY <1>4, Places DEF ImpressionsPending
  <2> QED BY <1>1, <2>1, <2>2 DEF ImpressionsLag
<1> QED BY <1>3, <1>4

LEMMA RedemptionsFollow ==
  ASSUME Typed, RedemptionsLag, WriteThrough
  PROVE  RedemptionsLag'
<1>1. mem' = mem BY DEF WriteThrough
<1>2. CASE Current = "redemption"
  <2>1. RedemptionPending /\ ~RedemptionPending' BY <1>2, Places DEF RedemptionPending
  <2>2. disk'.redemptions = Append(disk.redemptions, [id |-> op.id, amount |-> op.amount])
    BY <1>2, StatementEffect
  <2> QED BY <1>1, <2>1, <2>2 DEF RedemptionsLag
<1>3. CASE Current # "redemption"
  <2>1. disk'.redemptions = disk.redemptions BY <1>3, StatementEffect DEF Writes, Tables
  <2>2. CASE RedemptionPending
    <3>1. RedemptionPending' /\ op' = op BY <1>3, <2>2, Places DEF RedemptionPending
    <3> QED BY <1>1, <2>1, <2>2, <3>1 DEF RedemptionsLag
  <2>3. CASE ~RedemptionPending
    <3>1. ~RedemptionPending' BY <2>3, Places DEF RedemptionPending
    <3> QED BY <1>1, <2>1, <2>3, <3>1 DEF RedemptionsLag
  <2> QED BY <2>2, <2>3
<1> QED BY <1>2, <1>3

LEMMA TalliesFollow ==
  ASSUME Typed, TalliesLag, WriteThrough
  PROVE  TalliesLag'
<1>1. mem' = mem BY DEF WriteThrough
<1>2. mem.accepted # disk'.accepted => AcceptedPending'
  <2>1. CASE Current = "accepted" BY <2>1, StatementEffect
  <2>2. CASE Current # "accepted"
    <3>1. disk'.accepted = disk.accepted BY <2>2, StatementEffect DEF Writes, Tables
    <3>2. AcceptedPending => AcceptedPending' BY <2>2, Places DEF AcceptedPending
    <3> QED BY <3>1, <3>2 DEF TalliesLag
  <2> QED BY <2>1, <2>2
<1>3. mem.rejected # disk'.rejected => RejectedPending'
  <2>1. CASE Current = "rejected" BY <2>1, StatementEffect
  <2>2. CASE Current # "rejected"
    <3>1. disk'.rejected = disk.rejected BY <2>2, StatementEffect DEF Writes, Tables
    <3>2. ~RejectedPending BY <2>2, Places DEF RejectedPending
    <3> QED BY <3>1, <3>2 DEF TalliesLag
  <2> QED BY <2>1, <2>2
<1> QED BY <1>1, <1>2, <1>3 DEF TalliesLag

LEMMA WriteLag ==
  ASSUME Typed, Lag, WriteThrough
  PROVE  Lag'
  BY DevicesFollow, SeenFollows, LedgerFollows, BalancesFollow, ImpressionsFollow,
     RedemptionsFollow, TalliesFollow DEF Lag

-----------------------------------------------------------------------------
(* A handler starts from tables that hold the view. *)

LEMMA IdleAgrees ==
  ASSUME Typed, Lag, op = Idle
  PROVE  mem = disk
<1>1. op.kind = "idle" BY DEF Idle
<1>2. mem \in Store /\ disk \in Store BY DEF Typed, TypeOK
<1>3. /\ mem.devices \in [Devices -> DeviceType] /\ disk.devices \in [Devices -> DeviceType]
      /\ mem.balances \in [Devices -> Int] /\ disk.balances \in [Devices -> Int]
      /\ mem.impressions \in [Devices -> Nat] /\ disk.impressions \in [Devices -> Nat]
  BY <1>2 DEF Store, DeviceType
<1>4. \A d \in Devices : mem.devices[d] = disk.devices[d]
  BY <1>1 DEF Lag, DevicesLag, DevicePending
<1>5. \A d \in Devices : mem.balances[d] = disk.balances[d]
  BY <1>1 DEF Lag, BalancesLag, BalancePending
<1>6. \A d \in Devices : mem.impressions[d] = disk.impressions[d]
  BY <1>1 DEF Lag, ImpressionsLag, ImpressionsPending
<1>7. /\ mem.devices = disk.devices /\ mem.balances = disk.balances
      /\ mem.impressions = disk.impressions
  BY <1>3, <1>4, <1>5, <1>6
<1>8. mem.seen = disk.seen BY <1>1 DEF Lag, SeenLag, SeenPending
<1>9. mem.ledger = disk.ledger
  BY <1>1 DEF Lag, LedgerLag, EarnPending, HousePending, RedeemRowPending
<1>10. mem.redemptions = disk.redemptions
  BY <1>1 DEF Lag, RedemptionsLag, RedemptionPending
<1>11. mem.accepted = disk.accepted /\ mem.rejected = disk.rejected
  BY <1>1 DEF Lag, TalliesLag, AcceptedPending, RejectedPending
<1> QED BY <1>2, <1>7, <1>8, <1>9, <1>10, <1>11, SameTables

LEMMA InitLag == Init => Lag
<1> SUFFICES ASSUME Init PROVE Lag OBVIOUS
<1>1. mem = disk /\ op.kind = "idle" BY DEF Init, Idle
<1>2. DevicesLag /\ BalancesLag /\ ImpressionsLag /\ TalliesLag
  BY <1>1 DEF DevicesLag, DevicePending, BalancesLag, ImpressionsLag, TalliesLag
<1>3. SeenLag /\ LedgerLag /\ RedemptionsLag
  BY <1>1 DEF SeenLag, SeenPending, LedgerLag, EarnPending, HousePending, RedeemRowPending,
              RedemptionsLag, RedemptionPending
<1> QED BY <1>2, <1>3 DEF Lag

LEMMA RegisterLag ==
  ASSUME Typed, Lag, NEW d \in Devices, NEW k \in Keys, Register(d, k)
  PROVE  Lag'
<1>1. /\ mem = disk /\ disk' = disk /\ mem \in Store
      /\ op' = [kind |-> "register", device |-> d] /\ step' = 1
  BY IdleAgrees DEF Register, Unlocked, Typed, TypeOK
<1> DEFINE devices == [mem.devices EXCEPT ![d] = NewDevice(k)]
<1>2. mem' = [mem EXCEPT !.devices = devices] BY DEF Register
<1>3. mem.devices \in [Devices -> DeviceType] BY <1>1 DEF Store, DeviceType
<1>4. \A x \in Devices : devices[x] # mem.devices[x] => x = d BY <1>3
<1> HIDE DEF devices
<1>5. mem'.devices = devices /\ \A g \in Tables \ {"devices"} : mem'[g] = mem[g]
  BY <1>1, <1>2, OneTable DEF Tables
<1>6. DevicesLag' BY <1>1, <1>4, <1>5 DEF DevicesLag, DevicePending
<1>7. SeenLag' /\ LedgerLag' /\ RedemptionsLag'
  BY <1>1, <1>5 DEF Tables, SeenLag, SeenPending, LedgerLag, EarnPending, HousePending,
                    RedeemRowPending, RedemptionsLag, RedemptionPending
<1>8. BalancesLag' /\ ImpressionsLag' /\ TalliesLag'
  BY <1>1, <1>5 DEF Tables, BalancesLag, ImpressionsLag, TalliesLag
<1> QED BY <1>6, <1>7, <1>8 DEF Lag

LEMMA RejectLag ==
  ASSUME Typed, Lag, op = Idle, Reject, UNCHANGED disk, step' = 1
  PROVE  Lag'
<1>1. mem = disk /\ mem \in Store /\ op' = [kind |-> "reject"]
  BY IdleAgrees DEF Reject, Typed, TypeOK
<1>2. mem' = [mem EXCEPT !.rejected = mem.rejected + 1] BY DEF Reject
<1>3. \A g \in Tables \ {"rejected"} : mem'[g] = mem[g]
  BY <1>1, <1>2, OneTable DEF Tables
<1>4. DevicesLag' /\ BalancesLag' /\ ImpressionsLag'
  BY <1>1, <1>3 DEF Tables, DevicesLag, DevicePending, BalancesLag, ImpressionsLag
<1>5. SeenLag' /\ LedgerLag' /\ RedemptionsLag'
  BY <1>1, <1>3 DEF Tables, SeenLag, SeenPending, LedgerLag, EarnPending, HousePending,
                    RedeemRowPending, RedemptionsLag, RedemptionPending
<1>6. TalliesLag' BY <1>1, <1>3 DEF Tables, TalliesLag, RejectedPending
<1> QED BY <1>4, <1>5, <1>6 DEF Lag

LEMMA AcceptLag ==
  ASSUME Typed, Lag, op = Idle, NEW d \in Devices, NEW e \in Events,
         Judged(d, e) = "accepted", Accept(d, e), UNCHANGED disk, step' = 1
  PROVE  Lag'
<1>1. /\ mem = disk /\ mem \in Store
      /\ op' = [kind |-> IF e.n > 0 THEN "accept" ELSE "accept_other", device |-> d, event |-> e]
  BY IdleAgrees DEF Accept, Typed, TypeOK
<1>2. /\ mem'.devices = [mem.devices EXCEPT ![d] = Advanced(@, e)]
      /\ mem'.seen = mem.seen \cup {e.id}
      /\ mem'.ledger = IF e.n > 0
                       THEN Append(Append(mem.ledger, EarnRow(d, e)), HouseRow(e))
                       ELSE mem.ledger
      /\ mem'.balances = [mem.balances EXCEPT ![d] = IF e.n > 0 THEN @ + DevEarn(e.n) ELSE @]
      /\ mem'.impressions = [mem.impressions EXCEPT ![d] = @ + e.n]
      /\ mem'.redemptions = mem.redemptions /\ mem'.rejected = mem.rejected
  BY <1>1, AcceptedStore
<1>3. /\ mem.devices \in [Devices -> DeviceType] /\ mem.balances \in [Devices -> Int]
      /\ mem.impressions \in [Devices -> Nat] /\ e.n \in Nat
  BY <1>1, EventTypes DEF Store, DeviceType
<1>4. /\ op'.kind \in {"accept", "accept_other"} /\ op'.device = d /\ op'.event = e
      /\ e.n > 0 => op'.kind = "accept"
      /\ ~(e.n > 0) => op'.kind = "accept_other"
  BY <1>1
<1>5. DevicesLag'
  <2>1. mem.devices[d].key # NoKey BY DEF Judged
  <2>2. /\ mem'.devices[d] = Advanced(disk.devices[d], e)
        /\ \A x \in Devices : mem'.devices[x] # disk.devices[x] => x = d
    BY <1>1, <1>2, <1>3
  <2> QED BY <1>1, <1>4, <2>1, <2>2 DEF DevicesLag, DevicePending
<1>6. SeenLag' BY <1>1, <1>2, <1>4 DEF SeenLag, SeenPending
<1>7. LedgerLag'
  BY <1>1, <1>2, <1>4 DEF LedgerLag, EarnPending, HousePending, RedeemRowPending
<1>8. BalancesLag'
  <2>1. \A x \in Devices : mem'.balances[x] # disk.balances[x] => x = d /\ e.n > 0
    BY <1>1, <1>2, <1>3
  <2> QED BY <1>4, <2>1 DEF BalancesLag, BalancePending
<1>9. ImpressionsLag'
  <2>1. \A x \in Devices : mem'.impressions[x] # disk.impressions[x] => x = d /\ e.n > 0
    BY <1>1, <1>2, <1>3
  <2> QED BY <1>4, <2>1 DEF ImpressionsLag, ImpressionsPending
<1>10. RedemptionsLag' BY <1>1, <1>2, <1>4 DEF RedemptionsLag, RedemptionPending
<1>11. TalliesLag' BY <1>1, <1>2, <1>4 DEF TalliesLag, AcceptedPending
<1> QED BY <1>5, <1>6, <1>7, <1>8, <1>9, <1>10, <1>11 DEF Lag

LEMMA RedeemLag ==
  ASSUME Typed, Lag, NEW d \in Devices, NEW a \in Amounts, Redeem(d, a)
  PROVE  Lag'
<1>1. /\ mem = disk /\ disk' = disk /\ mem \in Store /\ nextRedemption \in Nat /\ step' = 1
  BY IdleAgrees DEF Redeem, Unlocked, Typed, TypeOK
<1>2. PICK amount \in Nat :
        /\ op' = [kind |-> "redeem", device |-> d, amount |-> amount, id |-> nextRedemption]
        /\ mem'.seen = mem.seen
        /\ mem'.ledger = Append(mem.ledger, RedeemRow(d, amount, nextRedemption))
        /\ mem'.balances = [mem.balances EXCEPT ![d] = @ - amount]
        /\ mem'.redemptions =
             Append(mem.redemptions, [id |-> nextRedemption, amount |-> amount])
        /\ mem'.devices = mem.devices /\ mem'.impressions = mem.impressions
        /\ mem'.accepted = mem.accepted /\ mem'.rejected = mem.rejected
  BY <1>1, RedeemedStore
<1>3. /\ op'.kind = "redeem" /\ op'.device = d
      /\ op'.amount = amount /\ op'.id = nextRedemption
  BY <1>2
<1>4. DevicesLag' /\ ImpressionsLag' /\ TalliesLag'
  BY <1>1, <1>2, <1>3 DEF DevicesLag, DevicePending, ImpressionsLag, TalliesLag
<1>5. SeenLag' BY <1>1, <1>2, <1>3 DEF SeenLag, SeenPending
<1>6. LedgerLag'
  BY <1>1, <1>2, <1>3 DEF LedgerLag, EarnPending, HousePending, RedeemRowPending
<1>7. RedemptionsLag' BY <1>1, <1>2, <1>3 DEF RedemptionsLag, RedemptionPending
<1>8. BalancesLag'
  <2>1. mem.balances \in [Devices -> Int] BY <1>1 DEF Store
  <2>2. \A x \in Devices : mem'.balances[x] # disk.balances[x] => x = d BY <1>1, <1>2, <2>1
  <2>3. BalancePending' BY <1>3 DEF BalancePending
  <2> QED BY <1>1, <1>3, <2>2, <2>3 DEF BalancesLag
<1> QED BY <1>4, <1>5, <1>6, <1>7, <1>8 DEF Lag

LEMMA StillLag ==
  ASSUME Lag, UNCHANGED <<mem, disk, op, step>>
  PROVE  Lag'
<1>1. DevicesLag' BY DEF Lag, DevicesLag, DevicePending
<1>2. SeenLag' BY DEF Lag, SeenLag, SeenPending
<1>3. LedgerLag' BY DEF Lag, LedgerLag, EarnPending, HousePending, RedeemRowPending
<1>4. BalancesLag' /\ ImpressionsLag'
  BY DEF Lag, BalancesLag, BalancePending, ImpressionsLag, ImpressionsPending
<1>5. RedemptionsLag' BY DEF Lag, RedemptionsLag, RedemptionPending
<1>6. TalliesLag' BY DEF Lag, TalliesLag, AcceptedPending, RejectedPending
<1> QED BY <1>1, <1>2, <1>3, <1>4, <1>5, <1>6 DEF Lag

\* A restart between requests finds the view it left.
LEMMA CleanRestart ==
  ASSUME Typed, Lag, Unlocked, Restart
  PROVE  /\ UNCHANGED <<mem, disk, op>>
         /\ nextRedemption' = LoadedRedemptionId(mem)
<1>1. mem = disk BY IdleAgrees DEF Unlocked
<1> QED BY <1>1 DEF Restart, Unlocked

LEMMA RestartLag ==
  ASSUME Typed, Lag, Unlocked, Restart
  PROVE  Lag'
<1>1. /\ mem = disk /\ mem' = mem /\ disk' = disk /\ op'.kind = "idle"
  BY CleanRestart, IdleAgrees DEF Unlocked, Idle
<1>2. DevicesLag' /\ BalancesLag' /\ ImpressionsLag' /\ TalliesLag'
  BY <1>1 DEF DevicesLag, DevicePending, BalancesLag, ImpressionsLag, TalliesLag
<1>3. SeenLag' /\ LedgerLag' /\ RedemptionsLag'
  BY <1>1 DEF SeenLag, SeenPending, LedgerLag, EarnPending, HousePending, RedeemRowPending,
              RedemptionsLag, RedemptionPending
<1> QED BY <1>2, <1>3 DEF Lag

LEMMA StepLag ==
  ASSUME Typed, Lag, [Next]_vars
  PROVE  Lag'
<1>1. CASE Requests
  <2>1. ASSUME NEW d \in Devices, NEW b \in Batches, Ingest(d, b) PROVE Lag'
    <3>1. UNCHANGED <<mem, disk, op, step>> BY <2>1 DEF Ingest
    <3> QED BY <3>1, StillLag
  <2> QED BY <1>1, <2>1, RegisterLag, RedeemLag DEF Requests
<1>2. CASE JudgeEvent
  <2>1. op = Idle BY <1>2 DEF JudgeEvent
  <2> QED BY <1>2, <2>1, JudgeCases, RejectLag, AcceptLag
<1>3. CASE WriteThrough BY <1>3, WriteLag
<1>4. CASE Unlocked /\ Restart BY <1>4, RestartLag
<1>5. CASE UNCHANGED vars
  <2>1. UNCHANGED <<mem, disk, op, step>> BY <1>5 DEF vars
  <2> QED BY <2>1, StillLag
<1> QED BY <1>1, <1>2, <1>3, <1>4, <1>5 DEF Next

-----------------------------------------------------------------------------
(* The redemption counter. *)

\* After a redemption the counter is what AppState::open would load.
LEMMA LoadedAfter ==
  ASSUME NEW s, NEW t, NEW n \in Nat, NEW amount \in Int,
         s.redemptions \in Seq([id : Nat, amount : Int]), IdsBelow(s, n),
         t.redemptions = Append(s.redemptions, [id |-> n, amount |-> amount])
  PROVE  LoadedRedemptionId(t) = n + 1
<1> DEFINE ids == {t.redemptions[i].id : i \in DOMAIN t.redemptions}
           r == [id |-> n, amount |-> amount]
           L == Len(s.redemptions)
<1>1. /\ DOMAIN s.redemptions = 1..L /\ L \in Nat
      /\ DOMAIN t.redemptions = 1..(L + 1)
      /\ \A i \in 1..L : t.redemptions[i] = s.redemptions[i]
      /\ t.redemptions[L + 1] = r
  <2>1. r \in [id : Nat, amount : Int] /\ t.redemptions = Append(s.redemptions, r) OBVIOUS
  <2> HIDE DEF r
  <2> QED BY <2>1, AppendProperties, LenProperties
<1>2. t.redemptions[L + 1].id = n BY <1>1
<1>3. ASSUME NEW i \in 1..L PROVE t.redemptions[i].id \in Nat /\ t.redemptions[i].id < n
  <2>1. s.redemptions[i] \in [id : Nat, amount : Int] BY <1>1, ElementOfSeq
  <2> QED BY <1>1, <2>1 DEF IdsBelow
<1> HIDE DEF r, L
<1>4. n \in ids
  <2>1. L + 1 \in DOMAIN t.redemptions BY <1>1
  <2> QED BY <1>1, <1>2, <2>1
<1>5. \A x \in ids : x \in Nat /\ x <= n
  <2>0. n <= n /\ \A x \in Nat : x < n => x <= n OBVIOUS
  <2>1. ASSUME NEW i \in 1..(L + 1) PROVE t.redemptions[i].id \in Nat /\ t.redemptions[i].id <= n
    <3>1. CASE i = L + 1
      <4>1. t.redemptions[i].id = n BY <1>2, <3>1
      <4> QED BY <2>0, <4>1, Zenon
    <3>2. CASE i # L + 1
      <4>1. i \in 1..L BY <1>1, <3>2
      <4> QED BY <1>3, <2>0, <4>1, Zenon
    <3> QED BY <3>1, <3>2
  <2> QED BY <1>1, <2>1
<1>6. LoadedRedemptionId(t) =
        IF ids = {} THEN 1 ELSE (CHOOSE x \in ids : \A y \in ids : y <= x) + 1
  BY DEF LoadedRedemptionId
<1> HIDE DEF ids
<1>7. (CHOOSE x \in ids : \A y \in ids : y <= x) = n
  <2> DEFINE P(x) == x \in ids /\ \A y \in ids : y <= x
  <2>1. P(n) BY <1>4, <1>5
  <2>2. \A x : P(x) => x = n BY <1>4, <1>5
  <2> QED BY <2>1, <2>2
<1> QED BY <1>4, <1>6, <1>7

LEMMA InitCounter == Init => CounterLoads
<1> SUFFICES ASSUME Init PROVE CounterLoads OBVIOUS
<1> DEFINE ids == {mem.redemptions[i].id : i \in DOMAIN mem.redemptions}
<1>1. mem.redemptions = <<>> /\ nextRedemption = 1 BY DEF Init, EmptyStore
<1>2. ids = {} BY <1>1
<1> QED BY <1>1, <1>2 DEF CounterLoads, LoadedRedemptionId

LEMMA SameLoaded ==
  ASSUME NEW s, NEW t, s.redemptions = t.redemptions
  PROVE  LoadedRedemptionId(s) = LoadedRedemptionId(t)
  BY DEF LoadedRedemptionId

LEMMA StepCounter ==
  ASSUME Typed, Lag, CounterLoads, [Next]_vars
  PROVE  CounterLoads'
<1>1. /\ mem \in Store /\ nextRedemption \in Nat /\ IdsBelow(mem, nextRedemption)
      /\ mem.redemptions \in Seq([id : Nat, amount : Int])
  BY DEF Typed, TypeOK, IdsBelowNext, Store
<1>2. ASSUME NEW d \in Devices, NEW a \in Amounts, Redeem(d, a) PROVE CounterLoads'
  <2>1. PICK amount \in Nat :
          mem'.redemptions = Append(mem.redemptions, [id |-> nextRedemption, amount |-> amount])
    BY <1>1, <1>2, RedeemedStore
  <2>2. LoadedRedemptionId(mem') = nextRedemption + 1
    BY <1>1, <2>1, LoadedAfter
  <2> QED BY <1>2, <2>2 DEF Redeem, CounterLoads
<1>3. ASSUME mem'.redemptions = mem.redemptions, UNCHANGED nextRedemption PROVE CounterLoads'
  BY <1>3, SameLoaded DEF CounterLoads
<1>4. CASE Requests
  <2>1. ASSUME NEW d \in Devices, NEW k \in Keys, Register(d, k) PROVE CounterLoads'
    <3>1. mem'.redemptions = mem.redemptions BY <1>1, <2>1, OtherStores
    <3>2. UNCHANGED nextRedemption BY <2>1 DEF Register
    <3> QED BY <1>3, <3>1, <3>2
  <2>2. ASSUME NEW d \in Devices, NEW b \in Batches, Ingest(d, b) PROVE CounterLoads'
    <3>1. UNCHANGED <<mem, nextRedemption>> BY <2>2 DEF Ingest
    <3> QED BY <1>3, <3>1
  <2> QED BY <1>2, <1>4, <2>1, <2>2 DEF Requests
<1>5. CASE JudgeEvent
  <2>1. UNCHANGED nextRedemption BY <1>5 DEF JudgeEvent
  <2>2. CASE Reject
    <3>1. mem'.redemptions = mem.redemptions BY <1>1, <2>2, OtherStores
    <3> QED BY <1>3, <2>1, <3>1
  <2>3. ASSUME NEW d \in Devices, NEW e \in Events, Accept(d, e) PROVE CounterLoads'
    <3>1. mem'.redemptions = mem.redemptions BY <1>1, <2>3, AcceptedStore
    <3> QED BY <1>3, <2>1, <3>1
  <2> QED BY <1>5, <2>2, <2>3, JudgeCases
<1>6. CASE WriteThrough
  <2>1. UNCHANGED <<mem, nextRedemption>> BY <1>6 DEF WriteThrough
  <2> QED BY <1>3, <2>1
<1>7. CASE Unlocked /\ Restart
  <2>1. mem' = mem /\ nextRedemption' = LoadedRedemptionId(mem) BY <1>7, CleanRestart
  <2> QED BY <2>1 DEF CounterLoads
<1>8. CASE UNCHANGED vars
  <2>1. UNCHANGED <<mem, nextRedemption>> BY <1>8 DEF vars
  <2> QED BY <1>3, <2>1
<1> QED BY <1>4, <1>5, <1>6, <1>7, <1>8 DEF Next

\* A server that only stops between requests runs in this invariant.
CleanInv == Typed /\ Lag /\ CounterLoads

LEMMA CleanInvariance == Spec => []CleanInv
<1>1. Init => CleanInv BY InitTyped, InitLag, InitCounter DEF CleanInv
<1>2. CleanInv /\ [Next]_vars => CleanInv'
  BY StepTyped, NextIsCrashNext, StepLag, StepCounter DEF CleanInv
<1> QED BY <1>1, <1>2, PTL DEF Spec

\* Whenever the mutex is free the tables hold the view, field for field, and the
\* counter is the one AppState::open would load, for any set of devices, keys,
\* events and amounts: every handler runs the statements for every field it
\* changes, so a restart between requests forgets nothing
\* (main.rs:846-1075; db.rs:3-6, 223-353).
THEOREM RestartForgetsNothing == Spec => []ViewMatchesDisk
<1>1. CleanInv => ViewMatchesDisk
  BY IdleAgrees DEF CleanInv, ViewMatchesDisk, Unlocked, CounterLoads
<1> QED BY <1>1, CleanInvariance, PTL

-----------------------------------------------------------------------------
(* Tallies and redemption ids. *)

\* The steps that change what the view counts, and the ones that do not.
LEMMA ViewSteps ==
  ASSUME CleanInv, [Next]_vars
  PROVE  \/ /\ mem'.seen = mem.seen /\ mem'.ledger = mem.ledger
            /\ mem'.balances = mem.balances /\ mem'.accepted = mem.accepted
            /\ nextRedemption' = nextRedemption
         \/ /\ \E d \in Devices, e \in Events : Judged(d, e) = "accepted" /\ Accept(d, e)
            /\ nextRedemption' = nextRedemption
         \/ \E d \in Devices, a \in Amounts : Redeem(d, a)
<1>0. Typed /\ Lag /\ CounterLoads /\ mem \in Store BY DEF CleanInv, Typed, TypeOK
<1>1. CASE Requests
  <2>1. ASSUME NEW d \in Devices, NEW k \in Keys, Register(d, k)
        PROVE  /\ mem'.seen = mem.seen /\ mem'.ledger = mem.ledger
               /\ mem'.balances = mem.balances /\ mem'.accepted = mem.accepted
               /\ nextRedemption' = nextRedemption
    BY <1>0, <2>1, OtherStores DEF Register
  <2>2. ASSUME NEW d \in Devices, NEW b \in Batches, Ingest(d, b)
        PROVE  mem' = mem /\ nextRedemption' = nextRedemption
    BY <2>2 DEF Ingest
  <2> QED BY <1>1, <2>1, <2>2 DEF Requests
<1>2. CASE JudgeEvent
  <2>1. nextRedemption' = nextRedemption BY <1>2 DEF JudgeEvent
  <2>2. Reject => /\ mem'.seen = mem.seen /\ mem'.ledger = mem.ledger
                  /\ mem'.balances = mem.balances /\ mem'.accepted = mem.accepted
    BY <1>0, OtherStores
  <2> QED BY <1>0, <1>2, <2>1, <2>2, JudgeCases
<1>3. CASE WriteThrough BY <1>3 DEF WriteThrough
<1>4. CASE Unlocked /\ Restart
  BY <1>0, <1>4, CleanRestart DEF CounterLoads
<1>5. CASE UNCHANGED vars BY <1>5 DEF vars
<1> QED BY <1>1, <1>2, <1>3, <1>4, <1>5 DEF Next

TalliesInv == IsFiniteSet(mem.seen) /\ TalliesMatch

LEMMA InitTallies == Init => TalliesInv
<1> SUFFICES ASSUME Init PROVE TalliesInv OBVIOUS
<1>1. mem.seen = {} /\ mem.accepted = 0 BY DEF Init, EmptyStore
<1> QED BY <1>1, FS_EmptySet DEF TalliesInv, TalliesMatch

LEMMA StepTallies == CleanInv /\ TalliesInv /\ [Next]_vars => TalliesInv'
<1> SUFFICES ASSUME CleanInv, TalliesInv, [Next]_vars PROVE TalliesInv' OBVIOUS
<1>1. mem \in Store /\ nextRedemption \in Nat BY DEF CleanInv, Typed, TypeOK
<1>2. CASE mem'.seen = mem.seen /\ mem'.accepted = mem.accepted
  BY <1>2 DEF TalliesInv, TalliesMatch
<1>3. ASSUME NEW d \in Devices, NEW e \in Events,
             Judged(d, e) = "accepted", Accept(d, e)
      PROVE  TalliesInv'
  <2>1. mem'.seen = mem.seen \cup {e.id} /\ mem'.accepted = mem.accepted + 1
    BY <1>1, <1>3, AcceptedStore
  <2>2. Verdict(mem.devices[d], mem.seen, e) = "accepted" BY <1>3 DEF Judged
  <2>3. e.id \notin mem.seen BY <2>2 DEF Verdict
  <2>4. /\ IsFiniteSet(mem.seen \cup {e.id})
        /\ Cardinality(mem.seen \cup {e.id}) = Cardinality(mem.seen) + 1
    BY <2>3, FS_AddElement DEF TalliesInv
  <2> QED BY <2>1, <2>4 DEF TalliesInv, TalliesMatch
<1>4. ASSUME NEW d \in Devices, NEW a \in Amounts, Redeem(d, a) PROVE TalliesInv'
  <2>1. mem'.seen = mem.seen /\ mem'.accepted = mem.accepted
    BY <1>1, <1>4, RedeemedStore
  <2> QED BY <1>2, <2>1
<1> QED BY <1>2, <1>3, <1>4, ViewSteps

\* The tally of accepted events is the number of ids the server deduplicates
\* on, whatever is registered, resent, refused or restarted: accept_event counts
\* only after it has checked the id (main.rs:871-893).
THEOREM TallyCountsIds == Spec => []TalliesMatch
<1>1. Init => TalliesInv BY InitTallies
<1>2. CleanInv /\ TalliesInv /\ [Next]_vars => TalliesInv' BY StepTallies
<1>3. TalliesInv => TalliesMatch BY DEF TalliesInv
<1> QED BY <1>1, <1>2, <1>3, CleanInvariance, PTL DEF Spec

\* The rows that carry a redemption id are below the counter and differ.
Below(ledger, next) ==
  \A i \in DOMAIN ledger :
    ledger[i].kind = "redeem" => ledger[i].reference \in Nat /\ ledger[i].reference < next
Distinct(ledger) ==
  \A i, j \in DOMAIN ledger :
    ledger[i].kind = "redeem" /\ ledger[j].kind = "redeem"
    /\ ledger[i].reference = ledger[j].reference => i = j
IdsInv == Below(mem.ledger, nextRedemption) /\ Distinct(mem.ledger)

LEMMA AppendOther ==
  ASSUME NEW L \in Seq(Row), NEW r \in Row, NEW n \in Nat,
         Below(L, n), Distinct(L), r.kind # "redeem"
  PROVE  Below(Append(L, r), n) /\ Distinct(Append(L, r))
<1> DEFINE M == Append(L, r)
<1>1. /\ DOMAIN L = 1..Len(L) /\ Len(L) \in Nat
      /\ DOMAIN M = 1..(Len(L) + 1)
      /\ \A i \in 1..Len(L) : M[i] = L[i]
      /\ M[Len(L) + 1] = r
  BY AppendProperties, LenProperties
<1> HIDE DEF M
<1>2. ASSUME NEW i \in DOMAIN M, M[i].kind = "redeem" PROVE i \in DOMAIN L /\ M[i] = L[i]
  BY <1>1, <1>2
<1>3. Below(M, n) BY <1>2 DEF Below
<1>4. Distinct(M) BY <1>2 DEF Distinct
<1> QED BY <1>3, <1>4 DEF M

LEMMA AppendRedeem ==
  ASSUME NEW L \in Seq(Row), NEW r \in Row, NEW n \in Nat,
         Below(L, n), Distinct(L), r.reference = n
  PROVE  Below(Append(L, r), n + 1) /\ Distinct(Append(L, r))
<1> DEFINE M == Append(L, r)
<1>1. /\ DOMAIN L = 1..Len(L) /\ Len(L) \in Nat
      /\ DOMAIN M = 1..(Len(L) + 1)
      /\ \A i \in 1..Len(L) : M[i] = L[i]
      /\ M[Len(L) + 1] = r
  BY AppendProperties, LenProperties
<1> HIDE DEF M
<1>2. n < n + 1 /\ \A x \in Nat : x < n => x < n + 1 /\ x # n OBVIOUS
<1>3. ASSUME NEW i \in DOMAIN M, M[i].kind = "redeem"
      PROVE  \/ i = Len(L) + 1 /\ M[i].reference = n
             \/ i \in DOMAIN L /\ M[i] = L[i] /\ M[i].reference \in Nat /\ M[i].reference < n
  BY <1>1, <1>3 DEF Below
<1>4. Below(M, n + 1) BY <1>2, <1>3 DEF Below
<1>5. Distinct(M) BY <1>2, <1>3 DEF Distinct
<1> QED BY <1>4, <1>5 DEF M

LEMMA StepIds == CleanInv /\ IdsInv /\ [Next]_vars => IdsInv'
<1> SUFFICES ASSUME CleanInv, IdsInv, [Next]_vars PROVE IdsInv' OBVIOUS
<1>1. /\ mem \in Store /\ nextRedemption \in Nat /\ mem.ledger \in Seq(Row)
      /\ Below(mem.ledger, nextRedemption) /\ Distinct(mem.ledger)
  BY DEF CleanInv, Typed, TypeOK, Store, IdsInv
<1>2. CASE mem'.ledger = mem.ledger /\ nextRedemption' = nextRedemption
  BY <1>2 DEF IdsInv
<1>3. ASSUME NEW d \in Devices, NEW e \in Events, Accept(d, e), nextRedemption' = nextRedemption
      PROVE  IdsInv'
  <2> DEFINE earned == Append(mem.ledger, EarnRow(d, e))
             paid == Append(earned, HouseRow(e))
  <2>1. mem'.ledger = IF e.n > 0 THEN paid ELSE mem.ledger
    BY <1>1, <1>3, AcceptedStore
  <2>2. /\ EarnRow(d, e) \in Row /\ EarnRow(d, e).kind # "redeem"
        /\ HouseRow(e) \in Row /\ HouseRow(e).kind # "redeem"
    BY RowTypes
  <2>3. earned \in Seq(Row) BY <1>1, <2>2, AppendProperties
  <2>4. Below(earned, nextRedemption) /\ Distinct(earned) BY <1>1, <2>2, AppendOther
  <2> HIDE DEF earned
  <2>5. Below(paid, nextRedemption) /\ Distinct(paid) BY <1>1, <2>2, <2>3, <2>4, AppendOther
  <2> HIDE DEF paid
  <2> QED BY <1>1, <1>3, <2>1, <2>5 DEF IdsInv
<1>4. ASSUME NEW d \in Devices, NEW a \in Amounts, Redeem(d, a) PROVE IdsInv'
  <2>1. PICK amount \in Nat :
          mem'.ledger = Append(mem.ledger, RedeemRow(d, amount, nextRedemption))
    BY <1>1, <1>4, RedeemedStore
  <2>2. /\ RedeemRow(d, amount, nextRedemption) \in Row
        /\ RedeemRow(d, amount, nextRedemption).reference = nextRedemption
    BY <1>1 DEF RedeemRow, Row
  <2>3. nextRedemption' = nextRedemption + 1 BY <1>4 DEF Redeem
  <2> QED BY <1>1, <2>1, <2>2, <2>3, AppendRedeem DEF IdsInv
<1> QED BY <1>2, <1>3, <1>4, ViewSteps

\* No two redemptions get the same id over any number of restarts between
\* requests: the id AppState::open loads is above every id in the table
\* (main.rs:1043-1069; db.rs:311-352).
THEOREM RedemptionIdsDiffer == Spec => []RedemptionIdsUnique
<1>1. Init => IdsInv
  BY DEF Init, EmptyStore, IdsInv, Below, Distinct
<1>2. CleanInv /\ IdsInv /\ [Next]_vars => IdsInv' BY StepIds
<1>3. IdsInv => RedemptionIdsUnique BY DEF IdsInv, Distinct, RedemptionIdsUnique
<1> QED BY <1>1, <1>2, <1>3, CleanInvariance, PTL DEF Spec

-----------------------------------------------------------------------------
(* The balance the ledger implies.  Net runs over the ledger; its values    *)
(* are reached by a least counterexample in the number of rows.             *)

\* Every non-empty set of numbers has a least one.
LEMMA LeastOf ==
  ASSUME NEW T \in SUBSET Nat, T # {}
  PROVE  \E x \in T : \A y \in T : x <= y
<1> DEFINE R == OpToRel(<, Nat)
<1>1. IsWellFoundedOn(R, Nat) BY NatLessThanWellFounded
<1>2. PICK x \in T : \A y \in T : ~ (<<y, x>> \in R)
  <2> HIDE DEF R
  <2> QED BY <1>1, WFMin
<1>3. \A y \in T : ~(y < x) BY <1>2 DEF OpToRel
<1> QED BY <1>3

\* Induction up to n, for a property given as the set of numbers that have it.
LEMMA UpTo ==
  ASSUME NEW n \in Nat, NEW T, 0 \in T,
         \A i \in 0..(n - 1) : i \in T => i + 1 \in T
  PROVE  \A i \in 0..n : i \in T
<1> SUFFICES ASSUME (0..n) \ T # {} PROVE FALSE
  OBVIOUS
<1>1. (0..n) \ T \in SUBSET Nat OBVIOUS
<1>2. PICK x \in (0..n) \ T : \A y \in (0..n) \ T : x <= y BY <1>1, LeastOf
<1>3. x # 0 /\ x - 1 \in 0..(n - 1) BY <1>2
<1>4. x - 1 \in T BY <1>2, <1>3
<1> QED BY <1>2, <1>3, <1>4

LEMMA TotalSteps ==
  ASSUME NEW a, Len(a) \in Nat
  PROVE  \E sum : /\ sum[0] = 0
                  /\ \A i \in 1..Len(a) : sum[i] = sum[i - 1] + a[i]
                  /\ Total(a) = sum[Len(a)]
<1> DEFINE N == Len(a)
           Def(f, n) == [i \in 0..n |-> IF i = 0 THEN 0 ELSE f[i - 1] + a[i]]
           T == {n \in 0..N : \E f : f = Def(f, n)}
<1>1. N \in Nat OBVIOUS
<1>2. 0 \in T
  <2> DEFINE g == [i \in 0..0 |-> 0]
  <2>1. \A i \in 0..0 : i = 0 OBVIOUS
  <2>2. g = Def(g, 0) BY <2>1
  <2>3. 0 \in 0..N OBVIOUS
  <2> HIDE DEF g, Def, N
  <2> QED BY <2>2, <2>3
<1>3. ASSUME NEW n \in 0..(N - 1), n \in T PROVE n + 1 \in T
  <2>1. PICK f : f = Def(f, n) BY <1>3
  <2> DEFINE g == [i \in 0..(n + 1) |-> IF i <= n THEN f[i] ELSE f[n] + a[n + 1]]
  <2>2. \A i \in 0..(n + 1) : g[i] = IF i = 0 THEN 0 ELSE g[i - 1] + a[i]
    <3> TAKE i \in 0..(n + 1)
    <3>1. CASE i = 0 BY <2>1, <3>1
    <3>2. CASE i # 0 /\ i <= n
      <4>1. g[i] = f[i] /\ g[i - 1] = f[i - 1] BY <3>2
      <4>2. f[i] = f[i - 1] + a[i] BY <2>1, <3>2
      <4> HIDE DEF g
      <4> QED BY <3>2, <4>1, <4>2
    <3>3. CASE i = n + 1
      <4>1. g[i] = f[n] + a[n + 1] /\ g[i - 1] = f[n] BY <3>3
      <4> HIDE DEF g
      <4> QED BY <3>3, <4>1
    <3> QED BY <3>1, <3>2, <3>3
  <2>3. g = Def(g, n + 1)
    <3>1. g = [i \in 0..(n + 1) |-> g[i]] OBVIOUS
    <3> HIDE DEF g
    <3> QED BY <2>2, <3>1
  <2>4. n + 1 \in 0..N BY <1>1, <1>3
  <2> HIDE DEF g
  <2> QED BY <2>3, <2>4
<1>4. N \in T
  <2> HIDE DEF T, N
  <2>1. \A n \in 0..(N - 1) : n \in T => n + 1 \in T BY <1>3
  <2>2. \A n \in 0..N : n \in T BY <1>1, <1>2, <2>1, UpTo
  <2> QED BY <1>1, <2>2
<1>5. PICK f : f = Def(f, N) BY <1>4
<1> DEFINE sum == CHOOSE h : h = Def(h, N)
<1>6. sum = Def(sum, N) BY <1>5
<1>7. Total(a) = sum[N] BY DEF Total
<1> HIDE DEF sum
<1>8. sum[0] = 0 BY <1>1, <1>6
<1>9. \A i \in 1..N : sum[i] = sum[i - 1] + a[i] BY <1>1, <1>6
<1> QED BY <1>7, <1>8, <1>9

\* One more amount at the end.
LEMMA TotalNext ==
  ASSUME NEW a, NEW b, NEW N \in Nat, Len(a) = N, Len(b) = N + 1,
         \A i \in 1..N : b[i] = a[i]
  PROVE  Total(b) = Total(a) + b[N + 1]
<1>1. PICK f : /\ f[0] = 0
               /\ \A i \in 1..Len(a) : f[i] = f[i - 1] + a[i]
               /\ Total(a) = f[Len(a)]
  BY TotalSteps
<1>2. Len(b) \in Nat OBVIOUS
<1>3. PICK g : /\ g[0] = 0
               /\ \A i \in 1..Len(b) : g[i] = g[i - 1] + b[i]
               /\ Total(b) = g[Len(b)]
  BY <1>2, TotalSteps
<1> DEFINE T == {i \in 0..N : f[i] = g[i]}
<1>4. 0 \in T BY <1>1, <1>3
<1>5. ASSUME NEW i \in 0..(N - 1), i \in T PROVE i + 1 \in T
  <2>1. i + 1 \in 1..N /\ i + 1 \in 1..(N + 1) /\ (i + 1) - 1 = i /\ i + 1 \in 0..N OBVIOUS
  <2>2. f[i + 1] = f[i] + a[i + 1] BY <1>1, <2>1
  <2>3. g[i + 1] = g[i] + a[i + 1] BY <1>3, <2>1
  <2> QED BY <1>5, <2>1, <2>2, <2>3
<1>6. f[N] = g[N]
  <2> HIDE DEF T
  <2>1. \A i \in 0..(N - 1) : i \in T => i + 1 \in T BY <1>5
  <2>2. \A i \in 0..N : i \in T BY <1>4, <2>1, UpTo
  <2>3. N \in T BY <2>2
  <2> QED BY <2>3 DEF T
<1>7. g[N + 1] = g[N] + b[N + 1]
  <2>1. N + 1 \in 1..(N + 1) /\ (N + 1) - 1 = N OBVIOUS
  <2> QED BY <1>3, <2>1
<1> QED BY <1>1, <1>3, <1>6, <1>7

\* What one more row adds to the sums over a ledger.
LEMMA OneMoreRow ==
  ASSUME NEW L \in Seq(Row), NEW r \in Row, NEW d
  PROVE  /\ Net(Append(L, r), d) = Net(L, d) + Moved(r, d)
         /\ Owed(Append(L, r), d) = Owed(L, d) + Due(r, d)
         /\ Redeemed(Append(L, r), d) = Redeemed(L, d) + PaidBy(r, d)
<1> DEFINE M == Append(L, r)
           N == Len(L)
<1>1. /\ N \in Nat /\ Len(M) = N + 1
      /\ \A i \in 1..N : M[i] = L[i]
      /\ M[N + 1] = r
      /\ DOMAIN L = 1..N /\ DOMAIN M = 1..(N + 1)
  BY AppendProperties, LenProperties
<1> HIDE DEF M, N
<1>2. Net(M, d) = Net(L, d) + Moved(r, d)
  <2> DEFINE a == [i \in DOMAIN L |-> Moved(L[i], d)]
             b == [i \in DOMAIN M |-> Moved(M[i], d)]
  <2>1. Len(a) = N /\ Len(b) = N + 1 BY <1>1
  <2>2. (\A i \in 1..N : b[i] = a[i]) /\ b[N + 1] = Moved(r, d) BY <1>1
  <2> HIDE DEF a, b
  <2>3. Total(b) = Total(a) + b[N + 1] BY <1>1, <2>1, <2>2, TotalNext
  <2> QED BY <2>2, <2>3 DEF Net, a, b
<1>3. Owed(M, d) = Owed(L, d) + Due(r, d)
  <2> DEFINE a == [i \in DOMAIN L |-> Due(L[i], d)]
             b == [i \in DOMAIN M |-> Due(M[i], d)]
  <2>1. Len(a) = N /\ Len(b) = N + 1 BY <1>1
  <2>2. (\A i \in 1..N : b[i] = a[i]) /\ b[N + 1] = Due(r, d) BY <1>1
  <2> HIDE DEF a, b
  <2>3. Total(b) = Total(a) + b[N + 1] BY <1>1, <2>1, <2>2, TotalNext
  <2> QED BY <2>2, <2>3 DEF Owed, a, b
<1>4. Redeemed(M, d) = Redeemed(L, d) + PaidBy(r, d)
  <2> DEFINE a == [i \in DOMAIN L |-> PaidBy(L[i], d)]
             b == [i \in DOMAIN M |-> PaidBy(M[i], d)]
  <2>1. Len(a) = N /\ Len(b) = N + 1 BY <1>1
  <2>2. (\A i \in 1..N : b[i] = a[i]) /\ b[N + 1] = PaidBy(r, d) BY <1>1
  <2> HIDE DEF a, b
  <2>3. Total(b) = Total(a) + b[N + 1] BY <1>1, <2>1, <2>2, TotalNext
  <2> QED BY <2>2, <2>3 DEF Redeemed, a, b
<1> QED BY <1>2, <1>3, <1>4 DEF M

LEMMA NoRows ==
  ASSUME NEW d
  PROVE  Net(<<>>, d) = 0 /\ Owed(<<>>, d) = 0 /\ Redeemed(<<>>, d) = 0
<1> DEFINE a == [i \in DOMAIN <<>> |-> Moved(<<>>[i], d)]
           o == [i \in DOMAIN <<>> |-> Due(<<>>[i], d)]
           p == [i \in DOMAIN <<>> |-> PaidBy(<<>>[i], d)]
<1>1. Len(a) = 0 /\ Len(o) = 0 /\ Len(p) = 0 OBVIOUS
<1> HIDE DEF a, o, p
<1>2. ASSUME NEW s, Len(s) = 0 PROVE Total(s) = 0
  <2>1. Len(s) \in Nat BY <1>2
  <2>2. PICK sum : sum[0] = 0 /\ Total(s) = sum[Len(s)] BY <2>1, TotalSteps
  <2> QED BY <1>2, <2>2
<1> QED BY <1>1, <1>2 DEF Net, Owed, Redeemed, a, o, p

\* Accounts only devices have.
Other == Devices \ {House, Payout}

\* What an event and a redemption move for the account of a device.
LEMMA EventMoves ==
  ASSUME NEW L \in Seq(Row), NEW d \in Devices, NEW e \in Events, NEW x \in Devices,
         Owed(L, x) \in Int, Redeemed(L, x) \in Int,
         x \in Other => Net(L, x) = Owed(L, x)
  PROVE  LET M == Append(Append(L, EarnRow(d, e)), HouseRow(e)) IN
         /\ Owed(M, x) = IF x = d THEN Owed(L, x) + DevEarn(e.n) ELSE Owed(L, x)
         /\ Redeemed(M, x) = Redeemed(L, x)
         /\ x \in Other => Net(M, x) = Owed(M, x)
<1> DEFINE K == Append(L, EarnRow(d, e))
           w == DevEarn(e.n)
           n == Net(L, x)
           o == Owed(L, x)
           p == Redeemed(L, x)
<1>0. e.n \in Nat /\ w \in Nat BY EventTypes, EarnValue
<1>1. EarnRow(d, e) \in Row /\ HouseRow(e) \in Row /\ w \in Int BY <1>0, RowTypes
<1>2. K \in Seq(Row) BY <1>1, AppendProperties
<1>3. /\ Net(K, x) = n + Moved(EarnRow(d, e), x)
      /\ Owed(K, x) = o + Due(EarnRow(d, e), x)
      /\ Redeemed(K, x) = p + PaidBy(EarnRow(d, e), x)
  BY <1>1, OneMoreRow
<1>5. o \in Int /\ p \in Int /\ (x \in Other => n = o) OBVIOUS
<1> HIDE DEF K, n, o, p
<1> DEFINE M == Append(K, HouseRow(e))
<1>4. /\ Net(M, x) = Net(K, x) + Moved(HouseRow(e), x)
      /\ Owed(M, x) = Owed(K, x) + Due(HouseRow(e), x)
      /\ Redeemed(M, x) = Redeemed(K, x) + PaidBy(HouseRow(e), x)
  BY <1>1, <1>2, OneMoreRow
<1>6. PaidBy(EarnRow(d, e), x) = 0 /\ PaidBy(HouseRow(e), x) = 0
  BY DEF PaidBy, EarnRow, HouseRow
<1>7. /\ Due(EarnRow(d, e), x) = IF x = d THEN w ELSE 0
      /\ Due(HouseRow(e), x) = 0
  BY <1>1, <1>6 DEF Due, EarnRow, HouseRow
<1>8. x \in Other => /\ Moved(EarnRow(d, e), x) = IF x = d THEN w ELSE 0
                     /\ Moved(HouseRow(e), x) = 0
  BY <1>1 DEF Moved, EarnRow, HouseRow, Other
<1> HIDE DEF w, M
<1>9. Owed(M, x) = IF x = d THEN o + w ELSE o BY <1>1, <1>3, <1>4, <1>5, <1>7
<1>10. Redeemed(M, x) = p BY <1>3, <1>4, <1>5, <1>6
<1>11. x \in Other => Net(M, x) = IF x = d THEN o + w ELSE o
  BY <1>1, <1>3, <1>4, <1>5, <1>8
<1> QED BY <1>9, <1>10, <1>11 DEF M, K, n, o, p, w

LEMMA RedemptionMoves ==
  ASSUME NEW L \in Seq(Row), NEW d \in Devices, NEW amount \in Nat, NEW id \in Nat,
         NEW x \in Devices, Owed(L, x) \in Int, Redeemed(L, x) \in Int,
         x \in Other => Net(L, x) = Owed(L, x)
  PROVE  LET M == Append(L, RedeemRow(d, amount, id)) IN
         /\ Owed(M, x) = IF x = d THEN Owed(L, x) - amount ELSE Owed(L, x)
         /\ Redeemed(M, x) = IF x = d THEN Redeemed(L, x) + amount ELSE Redeemed(L, x)
         /\ x \in Other => Net(M, x) = Owed(M, x)
<1> DEFINE r == RedeemRow(d, amount, id)
           M == Append(L, r)
           n == Net(L, x)
           o == Owed(L, x)
           p == Redeemed(L, x)
<1>1. /\ r \in Row /\ r.debit = d /\ r.credit = Payout /\ r.amount = amount
      /\ r.kind = "redeem"
  BY DEF RedeemRow, Row
<1> HIDE DEF r
<1>2. /\ Net(M, x) = n + Moved(r, x)
      /\ Owed(M, x) = o + Due(r, x)
      /\ Redeemed(M, x) = p + PaidBy(r, x)
  BY <1>1, OneMoreRow
<1>3. o \in Int /\ p \in Int /\ (x \in Other => n = o) OBVIOUS
<1>4. PaidBy(r, x) = IF x = d THEN amount ELSE 0 BY <1>1 DEF PaidBy
<1>5. Due(r, x) = IF x = d THEN 0 - amount ELSE 0 BY <1>1, <1>4 DEF Due
<1>6. x \in Other => Moved(r, x) = IF x = d THEN 0 - amount ELSE 0
  BY <1>1 DEF Moved, Other
<1> HIDE DEF M, n, o, p
<1>7. Owed(M, x) = IF x = d THEN o - amount ELSE o BY <1>2, <1>3, <1>5
<1>8. Redeemed(M, x) = IF x = d THEN p + amount ELSE p BY <1>2, <1>3, <1>4
<1>9. x \in Other => Net(M, x) = IF x = d THEN o - amount ELSE o BY <1>2, <1>3, <1>6
<1> QED BY <1>7, <1>8, <1>9 DEF M, r, n, o, p

\* The balances follow the ledger, and what is paid out is a number.
SumsAt(x) ==
  /\ mem.balances[x] = Owed(mem.ledger, x)
  /\ Redeemed(mem.ledger, x) \in Int
  /\ x \in Other => Net(mem.ledger, x) = Owed(mem.ledger, x)
SumsInv == \A x \in Devices : SumsAt(x)

\* How the sums and the balances change, step by step.
LEMMA SumsMove ==
  ASSUME CleanInv, SumsInv, NEW x \in Devices
  PROVE  /\ \A d \in Devices, e \in Events : Accept(d, e) =>
              /\ SumsAt(x)'
              /\ Redeemed(mem'.ledger, x) = Redeemed(mem.ledger, x)
         /\ \A d \in Devices, amount \in Nat :
              /\ mem'.ledger = Append(mem.ledger, RedeemRow(d, amount, nextRedemption))
              /\ mem'.balances = [mem.balances EXCEPT ![d] = @ - amount]
              => /\ SumsAt(x)'
                 /\ Redeemed(mem'.ledger, x) =
                      IF x = d THEN Redeemed(mem.ledger, x) + amount ELSE Redeemed(mem.ledger, x)
<1>1. /\ mem \in Store /\ nextRedemption \in Nat /\ mem.ledger \in Seq(Row)
      /\ mem.balances \in [Devices -> Int]
  BY DEF CleanInv, Typed, TypeOK, Store
<1>2. /\ mem.balances[x] = Owed(mem.ledger, x) /\ Owed(mem.ledger, x) \in Int
      /\ Redeemed(mem.ledger, x) \in Int
      /\ x \in Other => Net(mem.ledger, x) = Owed(mem.ledger, x)
  BY <1>1 DEF SumsInv, SumsAt
<1>3. ASSUME NEW d \in Devices, NEW e \in Events, Accept(d, e)
      PROVE  SumsAt(x)' /\ Redeemed(mem'.ledger, x) = Redeemed(mem.ledger, x)
  <2> DEFINE paid == Append(Append(mem.ledger, EarnRow(d, e)), HouseRow(e))
             earned == DevEarn(e.n)
  <2>1. /\ mem'.ledger = IF e.n > 0 THEN paid ELSE mem.ledger
        /\ mem'.balances = [mem.balances EXCEPT ![d] = IF e.n > 0 THEN @ + earned ELSE @]
    BY <1>1, <1>3, AcceptedStore
  <2>2. /\ Owed(paid, x) = IF x = d THEN Owed(mem.ledger, x) + earned ELSE Owed(mem.ledger, x)
        /\ Redeemed(paid, x) = Redeemed(mem.ledger, x)
        /\ x \in Other => Net(paid, x) = Owed(paid, x)
    BY <1>1, <1>2, EventMoves
  <2> HIDE DEF paid, earned
  <2>3. mem'.balances[x] = Owed(mem'.ledger, x) BY <1>1, <1>2, <2>1, <2>2
  <2>4. /\ Redeemed(mem'.ledger, x) = Redeemed(mem.ledger, x)
        /\ x \in Other => Net(mem'.ledger, x) = Owed(mem'.ledger, x)
    BY <1>2, <2>1, <2>2
  <2> QED BY <1>2, <2>3, <2>4 DEF SumsAt
<1>4. ASSUME NEW d \in Devices, NEW amount \in Nat,
             mem'.ledger = Append(mem.ledger, RedeemRow(d, amount, nextRedemption)),
             mem'.balances = [mem.balances EXCEPT ![d] = @ - amount]
      PROVE  /\ SumsAt(x)'
             /\ Redeemed(mem'.ledger, x) =
                  IF x = d THEN Redeemed(mem.ledger, x) + amount ELSE Redeemed(mem.ledger, x)
  <2>1. /\ Owed(mem'.ledger, x) = IF x = d THEN Owed(mem.ledger, x) - amount ELSE Owed(mem.ledger, x)
        /\ Redeemed(mem'.ledger, x) =
             IF x = d THEN Redeemed(mem.ledger, x) + amount ELSE Redeemed(mem.ledger, x)
        /\ x \in Other => Net(mem'.ledger, x) = Owed(mem'.ledger, x)
    BY <1>1, <1>2, <1>4, RedemptionMoves
  <2>2. mem'.balances[x] = Owed(mem'.ledger, x) BY <1>1, <1>2, <1>4, <2>1
  <2> DEFINE paid == Redeemed(mem.ledger, x)
  <2>3. paid \in Int /\ paid + amount \in Int BY <1>2
  <2>4. Redeemed(mem'.ledger, x) \in Int
    <3>1. Redeemed(mem'.ledger, x) = IF x = d THEN paid + amount ELSE paid BY <2>1
    <3> HIDE DEF paid
    <3> QED BY <2>3, <3>1
  <2> QED BY <2>1, <2>2, <2>4 DEF SumsAt
<1> QED BY <1>3, <1>4

LEMMA StepSums == CleanInv /\ SumsInv /\ [Next]_vars => SumsInv'
<1> SUFFICES ASSUME CleanInv, SumsInv, [Next]_vars, NEW x \in Devices PROVE SumsAt(x)'
  BY DEF SumsInv
<1>1. SumsAt(x) BY DEF SumsInv
<1>2. CASE mem'.ledger = mem.ledger /\ mem'.balances = mem.balances BY <1>1, <1>2 DEF SumsAt
<1>3. ASSUME NEW d \in Devices, NEW e \in Events, Accept(d, e) PROVE SumsAt(x)'
  BY <1>3, SumsMove
<1>4. ASSUME NEW d \in Devices, NEW a \in Amounts, Redeem(d, a) PROVE SumsAt(x)'
  <2>0. mem \in Store /\ nextRedemption \in Nat BY DEF CleanInv, Typed, TypeOK
  <2>1. PICK amount \in Nat :
          /\ mem'.ledger = Append(mem.ledger, RedeemRow(d, amount, nextRedemption))
          /\ mem'.balances = [mem.balances EXCEPT ![d] = @ - amount]
    BY <1>4, <2>0, RedeemedStore
  <2> QED BY <2>1, SumsMove
<1> QED BY <1>2, <1>3, <1>4, ViewSteps

LEMMA SumsInvariance == Spec => [](CleanInv /\ SumsInv)
<1>1. Init => SumsInv
  BY NoRows DEF Init, EmptyStore, SumsInv, SumsAt
<1>2. CleanInv /\ SumsInv /\ [Next]_vars => SumsInv' BY StepSums
<1> QED BY <1>1, <1>2, CleanInvariance, PTL DEF Spec

\* The balances table is what the ledger adds up to, after any sequence of
\* requests and restarts between them, for any devices (also one registered
\* as the house or as the payout account), prices, shares and amounts:
\* accept_event and redeem change a balance by exactly the rows they insert
\* (main.rs:895-947, 1043-1069; db.rs:3-14).
THEOREM LedgerAddsUp == Spec => []BalanceMatchesLedger
<1>1. SumsInv => BalanceMatchesLedger
  BY DEF SumsInv, SumsAt, Other, BalanceMatchesLedger
<1> QED BY <1>1, SumsInvariance, PTL

-----------------------------------------------------------------------------
(* The backend implements the book of credits. *)


CreditsOf(ledger) == {ledger[i].reference :
                        i \in {j \in DOMAIN ledger : ledger[j].kind = "imp_earn"}}

\* One more row credits one more id, if it is a developer's row.
LEMMA CreditsAppend ==
  ASSUME NEW L \in Seq(Row), NEW r \in Row
  PROVE  /\ r.kind = "imp_earn" => CreditsOf(Append(L, r)) = CreditsOf(L) \cup {r.reference}
         /\ r.kind # "imp_earn" => CreditsOf(Append(L, r)) = CreditsOf(L)
<1> DEFINE M == Append(L, r)
           E(S) == {j \in DOMAIN S : S[j].kind = "imp_earn"}
<1>1. /\ DOMAIN L = 1..Len(L) /\ Len(L) \in Nat
      /\ DOMAIN M = 1..(Len(L) + 1)
      /\ \A i \in 1..Len(L) : M[i] = L[i]
      /\ M[Len(L) + 1] = r
  BY AppendProperties, LenProperties
<1> HIDE DEF M
<1>2. \A i \in E(L) : M[i] = L[i] BY <1>1
<1>3. CASE r.kind = "imp_earn"
  <2> DEFINE k == Len(L) + 1
  <2>1. E(M) = E(L) \cup {k} BY <1>1, <1>3
  <2>2. M[k] = r BY <1>1
  <2>3. CreditsOf(M) = {M[i].reference : i \in E(M)} BY DEF CreditsOf
  <2>4. CreditsOf(L) = {L[i].reference : i \in E(L)} BY DEF CreditsOf
  <2> HIDE DEF E, k
  <2>5. CreditsOf(M) = CreditsOf(L) \cup {r.reference} BY <1>2, <2>1, <2>2, <2>3, <2>4
  <2> QED BY <1>3, <2>5 DEF M
<1>4. CASE r.kind # "imp_earn"
  <2>1. E(M) = E(L) BY <1>1, <1>4
  <2>2. CreditsOf(M) = {M[i].reference : i \in E(M)} BY DEF CreditsOf
  <2>3. CreditsOf(L) = {L[i].reference : i \in E(L)} BY DEF CreditsOf
  <2> HIDE DEF E
  <2>4. CreditsOf(M) = CreditsOf(L) BY <1>2, <2>1, <2>2, <2>3
  <2> QED BY <1>4, <2>4 DEF M
<1> QED BY <1>3, <1>4

LEMMA UncreditedAre ==
  ASSUME IInv, NEW d \in Devices, NEW e \in Events, Judged(d, e) = "accepted"
  PROVE  e.id \notin CreditedIds
<1>1. EarnRows(mem.ledger, e.id) = {} BY AcceptedIsUnpaid DEF IInv, MoneySafe
<1> QED BY <1>1 DEF CreditedIds, EarnRows

LEMMA InitBook == Init => Book!Init
<1> SUFFICES ASSUME Init PROVE Book!Init OBVIOUS
<1>1. mem.ledger = <<>> /\ mem.balances = [d \in Devices |-> 0] BY DEF Init, EmptyStore
<1>2. CreditedIds = {} BY <1>1 DEF CreditedIds
<1>3. \A d \in Devices : Redeemed(mem.ledger, d) = 0 BY <1>1, NoRows
<1> QED BY <1>1, <1>2, <1>3 DEF Book!Init

LEMMA NextBook ==
  IInv /\ CleanInv /\ SumsInv /\ [Next]_vars => [Book!Next]_(Book!book)
<1> SUFFICES ASSUME IInv, CleanInv, SumsInv, [Next]_vars PROVE [Book!Next]_(Book!book)
  OBVIOUS
<1>1. /\ mem \in Store /\ mem' \in Store /\ nextRedemption \in Nat
      /\ mem.ledger \in Seq(Row) /\ mem.balances \in [Devices -> Int]
  BY StepTyped, NextIsCrashNext DEF CleanInv, Typed, TypeOK, Store
<1>2. CASE mem'.ledger = mem.ledger /\ mem'.balances = mem.balances
  BY <1>2 DEF Book!book, CreditedIds
<1>3. ASSUME NEW d \in Devices, NEW e \in Events, Judged(d, e) = "accepted", Accept(d, e)
      PROVE  [Book!Next]_(Book!book)
  <2>1. /\ mem'.ledger = IF e.n > 0
                         THEN Append(Append(mem.ledger, EarnRow(d, e)), HouseRow(e))
                         ELSE mem.ledger
        /\ mem'.balances = [mem.balances EXCEPT ![d] = IF e.n > 0 THEN @ + DevEarn(e.n) ELSE @]
    BY <1>1, <1>3, AcceptedStore
  <2>2. CASE ~(e.n > 0)
    <3>1. mem'.balances = mem.balances BY <1>1, <2>1, <2>2
    <3> QED BY <1>2, <2>1, <2>2, <3>1
  <2>3. CASE e.n > 0
    <3>1. e.id \notin CreditedIds BY <1>3, UncreditedAre
    <3>2. CreditedIds' = CreditedIds \cup {e.id}
      <4>1. /\ EarnRow(d, e) \in Row /\ HouseRow(e) \in Row
            /\ EarnRow(d, e).kind = "imp_earn" /\ EarnRow(d, e).reference = e.id
            /\ HouseRow(e).kind # "imp_earn"
        BY RowTypes
      <4> DEFINE K == Append(mem.ledger, EarnRow(d, e))
      <4>2. K \in Seq(Row) /\ CreditsOf(K) = CreditsOf(mem.ledger) \cup {e.id}
        BY <1>1, <4>1, CreditsAppend, AppendProperties
      <4> HIDE DEF K
      <4>3. CreditsOf(Append(K, HouseRow(e))) = CreditsOf(K) BY <4>1, <4>2, CreditsAppend
      <4>4. mem'.ledger = Append(K, HouseRow(e)) BY <2>1, <2>3 DEF K
      <4> QED BY <4>2, <4>3, <4>4 DEF CreditedIds, CreditsOf
    <3>3. mem'.balances = [mem.balances EXCEPT ![d] = @ + DevEarn(e.n)] BY <2>1, <2>3
    <3>4. \A x \in Devices : Redeemed(mem'.ledger, x) = Redeemed(mem.ledger, x)
      BY <1>3, SumsMove
    <3>5. Book!Credit(d, e) BY <2>3, <3>1, <3>2, <3>3, <3>4 DEF Book!Credit
    <3> QED BY <3>5 DEF Book!Next
  <2> QED BY <2>2, <2>3
<1>4. ASSUME NEW d \in Devices, NEW a \in Amounts, Redeem(d, a)
      PROVE  [Book!Next]_(Book!book)
  <2>1. PICK amount \in Nat :
          /\ amount > 0 /\ amount <= mem.balances[d]
          /\ mem'.balances = [mem.balances EXCEPT ![d] = @ - amount]
          /\ mem'.ledger = Append(mem.ledger, RedeemRow(d, amount, nextRedemption))
    BY <1>1, <1>4, RedeemedStore
  <2>2. CreditedIds' = CreditedIds
    <3> DEFINE r == RedeemRow(d, amount, nextRedemption)
    <3>1. r \in Row /\ r.kind # "imp_earn" BY <1>1 DEF RedeemRow, Row
    <3>2. mem'.ledger = Append(mem.ledger, r) BY <2>1
    <3> HIDE DEF r
    <3>3. CreditsOf(mem'.ledger) = CreditsOf(mem.ledger) BY <1>1, <3>1, <3>2, CreditsAppend
    <3> QED BY <3>3 DEF CreditedIds, CreditsOf
  <2>3. \A x \in Devices :
          Redeemed(mem'.ledger, x) =
            IF x = d THEN Redeemed(mem.ledger, x) + amount ELSE Redeemed(mem.ledger, x)
    BY <2>1, SumsMove
  <2>4. Book!Pay(d, amount) BY <2>1, <2>2, <2>3 DEF Book!Pay
  <2>5. amount \in 1..mem.balances[d] BY <1>1, <2>1
  <2> QED BY <2>4, <2>5 DEF Book!Next
<1> QED BY <1>2, <1>3, <1>4, ViewSteps

\* The backend implements the book for any devices, events, prices and amounts:
\* whatever is registered again, resent, refused, redeemed or restarted between
\* requests, the view changes by crediting one new event what it is worth, by
\* paying an account what it holds, or not at all (main.rs:846-1075).
THEOREM Refinement == Spec => ImplementsBook
<1>1. IInv /\ [Next]_vars => IInv' BY StepTyped, StepMoney, NextIsCrashNext DEF IInv
<1>2. Init => IInv BY InitTyped, InitMoney DEF IInv
<1>3. Spec => [](IInv /\ CleanInv /\ SumsInv)
  BY <1>1, <1>2, SumsInvariance, PTL DEF Spec
<1> QED BY <1>3, InitBook, NextBook, PTL DEF Spec, ImplementsBook, Book!Spec
=============================================================================
