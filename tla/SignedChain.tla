----------------------------- MODULE SignedChain -----------------------------
(***************************************************************************)
(* Events, the per-device hash chain and the rule by which the server      *)
(* accepts them: crates/spnr-proto (event.rs, chain.rs, key.rs) and the    *)
(* verification half of accept_event in server/spnr-server/src/main.rs.    *)
(*                                                                         *)
(* Ed25519 and BLAKE3 are modelled by what the code relies on: an event    *)
(* verifies under the key that signed it and under no other, and different *)
(* events have different digests.  An event carries its digest; a daemon   *)
(* signs each counter value once, so the pair of its key and the counter   *)
(* serves as the digest and as the ULID of an event it makes.              *)
(***************************************************************************)
EXTENDS Integers, Sequences

GENESIS_PREV == <<>>       \* the chain head before the first event
NoCtr == -1                \* ctr_head = None

\* Event as Daemon::emit_impressions builds it, with its chain_next digest.
NewEvent(key, ctr, prev, n) ==
  [id |-> <<key, ctr>>, key |-> key, ctr |-> ctr, prev |-> prev, n |-> n,
   digest |-> <<key, ctr>>]

\* DeviceRec as register creates it.
NewDevice(key) == [key |-> key, head |-> GENESIS_PREV, ctr |-> NoCtr]

\* The checks of accept_event, in its order.
Bug_NoChainCheck(dev, seen, e) ==
  CASE e.key # dev.key     -> "bad signature"
    [] e.id \in seen       -> "duplicate event id"
    [] OTHER               -> "accepted"
Bug_NoDedup(dev, seen, e) ==
  CASE e.key # dev.key     -> "bad signature"
    [] e.prev # dev.head   -> "chain fork/gap"
    [] e.ctr # dev.ctr + 1 -> "ctr not monotonic"
    [] OTHER               -> "accepted"
Verdict(dev, seen, e) ==
  CASE e.key # dev.key     -> "bad signature"
    [] e.prev # dev.head   -> "chain fork/gap"
    [] e.ctr # dev.ctr + 1 -> "ctr not monotonic"
    [] e.id \in seen       -> "duplicate event id"
    [] OTHER               -> "accepted"

\* The device record after an accept.
Bug_HeadIsNext(dev, e) == [dev EXCEPT !.head = e.digest, !.ctr = e.ctr + 1]
Advanced(dev, e) == [dev EXCEPT !.head = e.digest, !.ctr = e.ctr]
=============================================================================
