------------------------------ MODULE MCIngest ------------------------------
(***************************************************************************)
(* EventIngest for TLC: two good batches with the same events in opposite  *)
(* order, one sent with the previous token and one with the current, one   *)
(* that validation accepts and PostgreSQL refuses, one with a bad event    *)
(* and one with a foreign token.                                           *)
(***************************************************************************)
EXTENDS EventIngest, TLC

CONSTANTS b1, b2, b3, b4, b5, e1, e2, e3, e4, current, previous, foreign

MCContent ==
    b1 :> <<e1, e2>> @@ b2 :> <<e2, e1>> @@ b3 :> <<e1, e3>> @@ b4 :> <<e1, e4>> @@ b5 :> <<e4>>
MCDefect == b1 :> "none" @@ b2 :> "none" @@ b3 :> "none" @@ b4 :> "event" @@ b5 :> "none"
MCPresented ==
    b1 :> current @@ b2 :> previous @@ b3 :> current @@ b4 :> current @@ b5 :> foreign
=============================================================================
