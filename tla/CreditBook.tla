----------------------------- MODULE CreditBook -----------------------------
(***************************************************************************)
(* What the backend promises about money, with no requests, no tables and  *)
(* no restarts in sight: an event is credited at most once, to the account *)
(* of the device that sent it, for what it is worth; and an account is     *)
(* paid out of what it holds.                                              *)
(***************************************************************************)
EXTENDS Integers

CONSTANTS Accounts, Entries, Worth(_)   \* Entries: the events, with id and n

VARIABLES
  credited,    \* ids of the events credited so far
  balance,     \* what each account holds
  paid         \* what each account was paid

book == <<credited, balance, paid>>

Init ==
  /\ credited = {}
  /\ balance = [a \in Accounts |-> 0] /\ paid = [a \in Accounts |-> 0]

Credit(a, e) ==
  /\ e.id \notin credited /\ e.n > 0
  /\ credited' = credited \cup {e.id}
  /\ balance' = [balance EXCEPT ![a] = @ + Worth(e.n)]
  /\ UNCHANGED paid

Pay(a, amount) ==
  /\ amount > 0 /\ amount <= balance[a]
  /\ balance' = [balance EXCEPT ![a] = @ - amount]
  /\ paid' = [paid EXCEPT ![a] = @ + amount]
  /\ UNCHANGED credited

Next ==
  \E a \in Accounts :
    \/ \E e \in Entries : Credit(a, e)
    \/ \E amount \in 1..balance[a] : Pay(a, amount)

Spec == Init /\ [][Next]_book
=============================================================================
