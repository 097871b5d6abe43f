------------------------------- MODULE MCQueue -------------------------------
(* QueueLog for TLC: an empty record, a short one, and one that looks like a *)
(* frame of its own.                                                         *)
EXTENDS QueueLog

SmallPayloads == { <<>>, <<1>>, <<0, 1>> }
=============================================================================
