----------------------------- MODULE MCServing -----------------------------
(***************************************************************************)
(* HttpServing for TLC.  One tick is 5 s: 15 s and 10 s for the write      *)
(* timeout and a pool call, 5, 2, 5 and 10 s for the shutdown, the 2 s     *)
(* rounded up to a tick and the 10 s with them.                            *)
(***************************************************************************)
EXTENDS HttpServing
=============================================================================
