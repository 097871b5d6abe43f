------------------------------ MODULE MCLedger ------------------------------
(***************************************************************************)
(* LedgerServer for TLC: the chain of key k1 with a fork of its second     *)
(* event, and the chain of key k2.                                         *)
(***************************************************************************)
EXTENDS LedgerServer

CONSTANTS k1, k2, a0, a1, fork, b0

Honest(id, key, ctr, prev, n) ==
  [id |-> id, key |-> key, ctr |-> ctr, prev |-> prev, n |-> n, digest |-> <<key, id>>]

AllEvents ==
  { Honest(a0, k1, 0, GENESIS_PREV, 1), Honest(a1, k1, 1, <<k1, a0>>, 1),
    Honest(fork, k1, 1, <<k1, a0>>, 0), Honest(b0, k2, 0, GENESIS_PREV, 2) }
OneChain == {e \in AllEvents : e.id \in {a0, a1}}
=============================================================================
