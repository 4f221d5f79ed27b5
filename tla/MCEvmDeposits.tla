--------------------------- MODULE MCEvmDeposits ---------------------------
(***************************************************************************)
(* Values for the constants of EvmDeposits.  Two orders share account a1,  *)
(* and the second also owns a2; t1 and t2 pay a1, once as a native payment *)
(* and once as a token log, t3 pays a2.                                    *)
(***************************************************************************)
EXTENDS EvmDeposits, TLC

CONSTANTS w1, w2, o1, o2, a1, a2, x1, x2, t1, t2, t3

MCAccountAddress == (a1 :> x1) @@ (a2 :> x2)
MCTo == [t \in Transfers |-> IF t = t3 THEN x2 ELSE x1]

Body(native, logs) == [native |-> native, logs |-> logs]
Empty == Body(<<>>, <<>>)

\* Both orders share a1.
SharedAccounts == (o1 :> {a1}) @@ (o2 :> {a1, a2})
SharedBodies == {Body(<<t1>>, <<t2>>), Body(<<>>, <<t3>>)}

\* Each order has an account of its own.
OwnAccounts == (o1 :> {a1}) @@ (o2 :> {a2})
TwoPayments == {Body(<<t1>>, <<t3>>)}
OnePayment == {Empty, Body(<<>>, <<t1>>)}

\* One order, for the runs that are about the cursor alone.
OneOrder == o1 :> {a1}
EmptyBodies == {Empty}

WorkerSymmetry == Permutations(Workers)
=============================================================================
