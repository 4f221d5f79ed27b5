-------------------------- MODULE MCAccountPoller --------------------------
(***************************************************************************)
(* Values for the constants of AccountPoller.  Alice has an account on     *)
(* every chain.  b1 is paid.  s1 is paid a coin and sends a token, which   *)
(* goes from its token account p1 to a stranger's, p2.  t1 pays a stranger *)
(* in the coin, is paid in its token, and is paid back in the coin by a    *)
(* transfer that another program stores under its signature.               *)
(***************************************************************************)
EXTENDS AccountPoller, TLC

CONSTANTS kb, ks1, ks2, kt, alice, b1, b2, s1, s2, p1, p2, t1, t2

MCChainOf == [k \in Consumers |-> IF k = kb THEN "BTC" ELSE IF k = kt THEN "TRX" ELSE "SOL"]

Holds(chain, addr, currency) ==
  [chain |-> chain, user |-> alice, addr |-> addr, currency |-> currency,
   deleted |-> FALSE, balance |-> 0]
Pays(chain, kind, from, to) ==
  [chain |-> chain, kind |-> kind, from |-> from, to |-> to, mentions |-> {}]
Uses(from, to, mentions) ==
  [chain |-> "SOL", kind |-> "coin", from |-> from, to |-> to, mentions |-> mentions]

AllAccounts ==
  <<Holds("BTC", b1, "coin"), Holds("SOL", s1, "coin"), Holds("TRX", t1, "token")>>
PaidBack == Pays("TRX", "coin", t2, t1)
AllSigned == {PaidBack}
AllTransfers ==
  {Pays("BTC", "coin", b2, b1),
   Uses(s2, s1, {s1, s2}), Uses(p1, p2, {s1, p1, p2}),
   Pays("TRX", "coin", t1, t2), Pays("TRX", "token", t2, t1), PaidBack}

MCLimit == [l \in Chains \X Kinds |-> IF l[1] = "SOL" THEN 1 ELSE 2]
MCPoolSize == [c \in Chains |-> IF c = "TRX" THEN 1 ELSE 2]
=============================================================================
