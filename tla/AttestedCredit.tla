--------------------------- MODULE AttestedCredit ---------------------------
(***************************************************************************)
(* What the path from daemon to ledger promises about each device, with no *)
(* channel, request or chain in sight: the events of a device are credited *)
(* in the order it made them, none is skipped and none is credited twice.  *)
(***************************************************************************)
EXTENDS Integers, Sequences

CONSTANTS Makers

VARIABLES
  made,        \* per maker, how many events it made; they are numbered from 0
  credited     \* per maker, the numbers credited, in order

credit == <<made, credited>>

Init == made = [m \in Makers |-> 0] /\ credited = [m \in Makers |-> <<>>]

Make(m) ==
  /\ made' = [made EXCEPT ![m] = @ + 1]
  /\ UNCHANGED credited

\* One request may credit several events at once.
Credit(m) ==
  /\ \E n \in (Len(credited[m]) + 1)..made[m] :
       credited' = [credited EXCEPT ![m] = [i \in 1..n |-> i - 1]]
  /\ UNCHANGED made

Next == \E m \in Makers : Make(m) \/ Credit(m)

Spec == Init /\ [][Next]_credit
=============================================================================
