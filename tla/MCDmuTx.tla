------------------------------ MODULE MCDmuTx ------------------------------
(* Instances of DmuTx.                                                     *)
EXTENDS DmuTx, TLC

CONSTANTS t1, t2, d1, d2

\* Two threads that meet on both dnodes in opposite orders.
CrossHolds == (t1 :> <<d1, d2>>) @@ (t2 :> <<d2, d1>>)
CrossHow == (t1 :> "WAIT") @@ (t2 :> "NOWAIT")

\* Two transactions each without a fault, or one each with one.
NoFault == [ops |-> 2, erestart |-> 0, edquot |-> 0, suspend |-> 0]
AnyFault == {NoFault, [NoFault EXCEPT !.ops = 1, !.erestart = 1, !.edquot = 1],
             [NoFault EXCEPT !.ops = 1, !.suspend = 1]}
=============================================================================
