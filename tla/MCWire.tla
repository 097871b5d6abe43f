-------------------------------- MODULE MCWire --------------------------------
(* Strings that are empty, plain, the name of a key, escaped, wide, and one   *)
(* byte too long for a length, cut between or inside characters.              *)
EXTENDS Wire

Plain(n) == [i \in 1..n |-> "n"]
MCStrings ==
  {<<>>, <<"n">>, <<"s">>, <<"nl">>, <<"wide">>, Plain(4), Plain(6), Plain(4) \o <<"wide">>}
===============================================================================
