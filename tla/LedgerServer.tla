---------------------------- MODULE LedgerServer ----------------------------
(***************************************************************************)
(* The backend of server/spnr-server: registration, event ingest, the      *)
(* double-entry ledger, balances and redemptions (main.rs), written        *)
(* through to SQLite (db.rs).                                              *)
(*                                                                         *)
(* A handler holds the AppState mutex from its first line to its last.  It *)
(* changes the in-memory view first and then runs one autocommitted SQL    *)
(* statement after another, so a crash can fall between any two of them.   *)
(* `op` is the handler's step whose statements are being run and `step`    *)
(* the next of them; `batch` holds the events of the ingest request that   *)
(* are still to be judged.  All three are empty when the mutex is free.    *)
(*                                                                         *)
(* An account that has no balances row has balance zero, in the code as    *)
(* here, so balances and impressions are total functions and the           *)
(* statements ensure_balance and ensure_impressions change nothing.        *)
(***************************************************************************)
EXTENDS SignedChain, FiniteSets

CONSTANTS
  Devices,           \* device ids; a device id also names its account
                     \* (register takes any id, so House and Payout may be among them)
  Keys, NoKey,       \* public keys, and the absence of one
  Events,            \* the signed events clients may send
  House, Payout,     \* ledger parties: acct:house (also the advertiser), acct:payout
  PRICE_PER_IMP_MICROS, DEV_SHARE_NUM, DEV_SHARE_DEN,
  Amounts,           \* redeem amounts clients ask for; 0 is "not given"
  MaxBatch,          \* bound: events in one ingest request
  MaxRequests        \* bound: requests served

ASSUME LedgerAssumption ==
  /\ NoKey \notin Keys
  /\ \A e \in Events : e.key \in Keys /\ e.ctr \in Nat /\ e.n \in Nat
  /\ PRICE_PER_IMP_MICROS \in Nat /\ DEV_SHARE_NUM \in Nat /\ DEV_SHARE_DEN \in Nat \ {0}
  /\ DEV_SHARE_NUM <= DEV_SHARE_DEN
  /\ Amounts \subseteq Nat /\ MaxBatch \in Nat /\ MaxRequests \in Nat

VARIABLES
  mem,             \* AppState: the materialized view
  disk,            \* the SQLite tables, with the same fields
  nextRedemption,  \* AppState::next_redemption_id
  op, step, batch, \* the handler in progress
  requests         \* requests served so far

vars == <<mem, disk, nextRedemption, op, step, batch, requests>>

Ids == {e.id : e \in Events}
Digests == {GENESIS_PREV} \cup {e.digest : e \in Events} \cup {e.prev : e \in Events}
Row == [kind : {"imp_earn", "ad_spend_house", "redeem"},
        debit : Devices \cup {House}, credit : Devices \cup {House, Payout},
        amount : Int, reference : Ids \cup Nat]
Store ==
  [devices : [Devices -> [key : Keys \cup {NoKey}, head : Digests, ctr : Int]],
   seen : SUBSET Ids, ledger : Seq(Row),
   balances : [Devices -> Int], impressions : [Devices -> Nat],
   redemptions : Seq([id : Nat, amount : Int]),
   accepted : Nat, rejected : Nat]

Idle == [kind |-> "idle"]
EmptyStore ==
  [devices |-> [d \in Devices |-> NewDevice(NoKey)], seen |-> {}, ledger |-> <<>>,
   balances |-> [d \in Devices |-> 0], impressions |-> [d \in Devices |-> 0],
   redemptions |-> <<>>, accepted |-> 0, rejected |-> 0]

Init ==
  /\ mem = EmptyStore /\ disk = EmptyStore /\ nextRedemption = 1
  /\ op = Idle /\ step = 1 /\ batch = <<>> /\ requests = 0

Unlocked == op = Idle /\ batch = <<>>

-----------------------------------------------------------------------------
(* What one impression event is worth. *)

Spend(n) == PRICE_PER_IMP_MICROS * n
DevEarn(n) == (Spend(n) * DEV_SHARE_NUM) \div DEV_SHARE_DEN
Bug_HouseKeepRounded(n) == (Spend(n) * (DEV_SHARE_DEN - DEV_SHARE_NUM)) \div DEV_SHARE_DEN
HouseKeep(n) == Spend(n) - DevEarn(n)

EarnRow(d, e) == [kind |-> "imp_earn", debit |-> House, credit |-> d,
                  amount |-> DevEarn(e.n), reference |-> e.id]
HouseRow(e) == [kind |-> "ad_spend_house", debit |-> House, credit |-> House,
                amount |-> HouseKeep(e.n), reference |-> e.id]
RedeemRow(d, amount, id) == [kind |-> "redeem", debit |-> d, credit |-> Payout,
                             amount |-> amount, reference |-> id]

-----------------------------------------------------------------------------
(* The handlers: the in-memory half. *)

\* POST /v1/register: replaces the device record, also of a known device.
Register(d, k) ==
  /\ Unlocked /\ requests < MaxRequests
  /\ requests' = requests + 1
  /\ mem' = [mem EXCEPT !.devices[d] = NewDevice(k)]
  /\ op' = [kind |-> "register", device |-> d] /\ step' = 1
  /\ UNCHANGED <<disk, nextRedemption, batch>>

\* POST /v1/ingest takes the mutex for all of its events.
Ingest(d, events) ==
  /\ Unlocked /\ requests < MaxRequests
  /\ requests' = requests + 1
  /\ batch' = [i \in DOMAIN events |-> [device |-> d, event |-> events[i]]]
  /\ UNCHANGED <<mem, disk, nextRedemption, op, step>>

Judged(d, e) ==
  IF mem.devices[d].key = NoKey THEN "unknown device"
  ELSE Verdict(mem.devices[d], mem.seen, e)

\* accept_event for an event that passes every check.
Accept(d, e) ==
  /\ mem' = [mem EXCEPT
       !.devices[d] = Advanced(@, e),
       !.seen = @ \cup {e.id},
       !.ledger = IF e.n > 0 THEN @ \o <<EarnRow(d, e), HouseRow(e)>> ELSE @,
       !.balances[d] = IF e.n > 0 THEN @ + DevEarn(e.n) ELSE @,
       !.impressions[d] = @ + e.n,
       !.accepted = @ + 1]
  /\ op' = [kind |-> IF e.n > 0 THEN "accept" ELSE "accept_other", device |-> d, event |-> e]

Reject ==
  /\ mem' = [mem EXCEPT !.rejected = @ + 1]
  /\ op' = [kind |-> "reject"]

JudgeEvent ==
  /\ op = Idle /\ batch # <<>>
  /\ LET d == Head(batch).device
         e == Head(batch).event
     IN  IF Judged(d, e) = "accepted" THEN Accept(d, e) ELSE Reject
  /\ batch' = Tail(batch) /\ step' = 1
  /\ UNCHANGED <<disk, nextRedemption, requests>>

\* POST /v1/redeem pays from the account with the largest balance.
Bug_RedeemUnchecked(d, asked) == mem.balances[d] > 0
Redeemable(d, asked) == mem.balances[d] > 0 /\ asked <= mem.balances[d]

Redeem(d, asked) ==
  LET amount == IF asked > 0 THEN asked ELSE mem.balances[d]
  IN  /\ Unlocked /\ requests < MaxRequests
      /\ \A x \in Devices : mem.balances[x] <= mem.balances[d]
      /\ Redeemable(d, asked)
      /\ requests' = requests + 1
      /\ mem' = [mem EXCEPT
           !.ledger = Append(@, RedeemRow(d, amount, nextRedemption)),
           !.balances[d] = @ - amount,
           !.redemptions = Append(@, [id |-> nextRedemption, amount |-> amount])]
      /\ nextRedemption' = nextRedemption + 1
      /\ op' = [kind |-> "redeem", device |-> d, amount |-> amount, id |-> nextRedemption]
      /\ step' = 1
      /\ UNCHANGED <<disk, batch>>

-----------------------------------------------------------------------------
(* The handlers: the write-through half. *)

\* The statements each handler step runs, in order.
Bug_LedgerBeforeSeen ==
  <<"earn_row", "house_row", "device_head", "seen_event", "balance", "impressions", "accepted">>
Bug_BalanceNotWritten ==
  <<"device_head", "seen_event", "earn_row", "house_row", "impressions", "accepted">>
AcceptStatements ==
  <<"device_head", "seen_event", "earn_row", "house_row", "balance", "impressions", "accepted">>
Statements(kind) ==
  CASE kind = "accept"       -> AcceptStatements
    [] kind = "accept_other" -> <<"device_head", "seen_event", "accepted">>
    [] kind = "reject"       -> <<"rejected">>
    [] kind = "register"     -> <<"device">>
    [] kind = "redeem"       -> <<"redeem_row", "redemption", "balance">>

\* The tables after one statement of the current handler step.  The view does
\* not change while the mutex is held, so absolute values are read from it.
Executed(s) ==
  CASE s = "device"      -> [disk EXCEPT !.devices[op.device] = mem.devices[op.device]]
    [] s = "device_head" ->
         IF disk.devices[op.device].key = NoKey THEN disk       \* UPDATE ... WHERE
         ELSE [disk EXCEPT !.devices[op.device].head = op.event.digest,
                           !.devices[op.device].ctr = op.event.ctr]
    [] s = "seen_event"  -> [disk EXCEPT !.seen = @ \cup {op.event.id}]
    [] s = "earn_row"    -> [disk EXCEPT !.ledger = Append(@, EarnRow(op.device, op.event))]
    [] s = "house_row"   -> [disk EXCEPT !.ledger = Append(@, HouseRow(op.event))]
    [] s = "balance"     -> [disk EXCEPT !.balances[op.device] = mem.balances[op.device]]
    [] s = "impressions" -> [disk EXCEPT !.impressions[op.device] = mem.impressions[op.device]]
    [] s = "accepted"    -> [disk EXCEPT !.accepted = mem.accepted]
    [] s = "rejected"    -> [disk EXCEPT !.rejected = mem.rejected]
    [] s = "redeem_row"  -> [disk EXCEPT !.ledger =
                               Append(@, RedeemRow(op.device, op.amount, op.id))]
    [] s = "redemption"  -> [disk EXCEPT !.redemptions =
                               Append(@, [id |-> op.id, amount |-> op.amount])]

Proceed ==
  IF step < Len(Statements(op.kind))
    THEN step' = step + 1 /\ UNCHANGED op
    ELSE step' = 1 /\ op' = Idle

WriteThrough ==
  /\ op # Idle
  /\ disk' = Executed(Statements(op.kind)[step])
  /\ Proceed
  /\ UNCHANGED <<mem, nextRedemption, batch, requests>>

\* The process stops and starts: AppState::open rebuilds the view from the
\* tables, and the next redemption id from the redemptions table.
Bug_LastRedemptionId(store) ==
  LET ids == {store.redemptions[i].id : i \in DOMAIN store.redemptions}
  IN  IF ids = {} THEN 0 ELSE CHOOSE x \in ids : \A y \in ids : y <= x
LoadedRedemptionId(store) ==
  LET ids == {store.redemptions[i].id : i \in DOMAIN store.redemptions}
  IN  IF ids = {} THEN 1 ELSE (CHOOSE x \in ids : \A y \in ids : y <= x) + 1

Restart ==
  /\ mem' = disk
  /\ nextRedemption' = LoadedRedemptionId(disk)
  /\ op' = Idle /\ step' = 1 /\ batch' = <<>>
  /\ UNCHANGED <<disk, requests>>

-----------------------------------------------------------------------------
Batches == UNION {[1..k -> Events] : k \in 1..MaxBatch}

Requests ==
  \/ \E d \in Devices, k \in Keys : Register(d, k)
  \/ \E d \in Devices, b \in Batches : Ingest(d, b)
  \/ \E d \in Devices, a \in Amounts : Redeem(d, a)

\* The server stops only between requests and every statement succeeds.
Next == Requests \/ JudgeEvent \/ WriteThrough \/ (Unlocked /\ Restart)
Spec == Init /\ [][Next]_vars

\* The process may also die between any two statements.
CrashNext == Requests \/ JudgeEvent \/ WriteThrough \/ Restart
CrashSpec == Init /\ [][CrashNext]_vars

-----------------------------------------------------------------------------
(* PROPERTIES *)

TypeOK ==
  /\ mem \in Store /\ disk \in Store
  /\ nextRedemption \in Nat \ {0} /\ step \in Nat \ {0} /\ requests \in Nat

\* No event is ever paid twice, in the view or on disk, whatever is resent,
\* whatever device is registered again and wherever the process dies: the dedup
\* id is on disk before the money is (main.rs:883-947).
PaidOnce(ledger) ==
  \A i, j \in DOMAIN ledger :
    /\ ledger[i].kind = "imp_earn" /\ ledger[j].kind = "imp_earn"
    /\ ledger[i].reference = ledger[j].reference
    => i = j
CreditedOnce == PaidOnce(mem.ledger) /\ PaidOnce(disk.ledger)

\* No redemption takes more than the account holds, even when the balance row
\* a crash left behind is stale (main.rs:1015-1055).
BalancesNonNegative == \A d \in Devices : mem.balances[d] >= 0 /\ disk.balances[d] >= 0

\* The house row of an event never stands without the developer's row, and the
\* two are the whole spend: the division loses no micro-dollar (main.rs:905-923).
SplitIn(ledger) ==
  \A i \in DOMAIN ledger :
    ledger[i].kind = "ad_spend_house" =>
      \E j \in 1..(i - 1), e \in Events :
        /\ ledger[j].kind = "imp_earn"
        /\ ledger[j].reference = ledger[i].reference
        /\ e.id = ledger[i].reference
        /\ ledger[i].amount + ledger[j].amount = PRICE_PER_IMP_MICROS * e.n
SpendSplit == SplitIn(mem.ledger) /\ SplitIn(disk.ledger)

\* The sum of a sequence of amounts.
Total(amounts) ==
  LET sum[i \in 0..Len(amounts)] == IF i = 0 THEN 0 ELSE sum[i - 1] + amounts[i]
  IN  sum[Len(amounts)]

\* What one row moves into an account, what of it is a device's earnings less
\* its redemptions, and what it redeems.
Moved(row, d) == (IF row.credit = d THEN row.amount ELSE 0)
                 - (IF row.debit = d THEN row.amount ELSE 0)
PaidBy(row, d) == IF row.kind = "redeem" /\ row.debit = d THEN row.amount ELSE 0
Due(row, d) == (IF row.kind = "imp_earn" /\ row.credit = d THEN row.amount ELSE 0)
               - PaidBy(row, d)

\* Their sums over a ledger.
Net(ledger, d) == Total([i \in DOMAIN ledger |-> Moved(ledger[i], d)])
Owed(ledger, d) == Total([i \in DOMAIN ledger |-> Due(ledger[i], d)])
Redeemed(ledger, d) == Total([i \in DOMAIN ledger |-> PaidBy(ledger[i], d)])

\* The balances table is what the ledger adds up to: for every account its
\* earnings less its redemptions, also for a device registered under the name
\* of the house or of the payout account, and for every other account the net
\* of all rows that name it (main.rs:895-947, 1043-1069; db.rs:3-14).
BalanceMatchesLedger ==
  \A d \in Devices :
    /\ mem.balances[d] = Owed(mem.ledger, d)
    /\ d \notin {House, Payout} => mem.balances[d] = Net(mem.ledger, d)

\* Whenever the mutex is free the tables hold exactly the view, so a restart
\* between requests changes nothing (db.rs:3-6, 223-353).
ViewMatchesDisk ==
  Unlocked => mem = disk /\ nextRedemption = LoadedRedemptionId(disk)

\* The tally of accepted events counts the events it deduplicates on.
TalliesMatch == mem.accepted = Cardinality(mem.seen)

\* No two redemptions ever get the same id, over any restart between requests
\* (main.rs:1043-1069; db.rs:311-352).
RedemptionIdsUnique ==
  \A i, j \in DOMAIN mem.ledger :
    /\ mem.ledger[i].kind = "redeem" /\ mem.ledger[j].kind = "redeem"
    /\ mem.ledger[i].reference = mem.ledger[j].reference
    => i = j

\* The view as the abstract book of credits: as long as it stops only between
\* requests, the backend implements the book.  Every request credits one new
\* event, pays from a balance, or changes nothing of it, and a restart forgets
\* none of it (main.rs:846-1075; db.rs:1-14).
CreditedIds == {mem.ledger[i].reference :
                  i \in {j \in DOMAIN mem.ledger : mem.ledger[j].kind = "imp_earn"}}
Book == INSTANCE CreditBook WITH
  Accounts <- Devices, Entries <- Events, Worth <- DevEarn,
  credited <- CreditedIds,
  balance  <- mem.balances,
  paid     <- [d \in Devices |-> Redeemed(mem.ledger, d)]
ImplementsBook == Book!Spec

(* What the documents say and the code does not do. *)

\* db.rs:3-6: a restart never loses data, so an event that the server has taken
\* is paid (and docs/03-protocol-SAP1.md:350 leaves nothing to a replay).
TakenIsPaid ==
  Unlocked => \A e \in Events :
    e.id \in mem.seen /\ e.n > 0 =>
      \E i \in DOMAIN mem.ledger :
        mem.ledger[i].kind = "imp_earn" /\ mem.ledger[i].reference = e.id
=============================================================================
