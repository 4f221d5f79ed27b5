----------------------------- MODULE MCUseCases -----------------------------
(* Constants of the run of UseCases. *)
EXTENDS UseCases, TLC

CONSTANTS q1, q2, eth, usdt, btc, mine

MCChainOf == [c \in Currencies |-> IF c = btc THEN "bitcoin" ELSE "ethereum"]
MCImports == {<<[addr |-> mine, cur |-> eth]>>,
              <<[addr |-> mine, cur |-> None], [addr |-> mine, cur |-> usdt]>>}
MCOps == {[name |-> "merge", with |-> [status |-> "PENDING", amount |-> 0, stamped |-> {}]],
          [name |-> "merge", with |-> [status |-> None, amount |-> 1, stamped |-> {"CREATED"}]],
          [name |-> "fields", status |-> None, amount |-> 0],
          [name |-> "status", status |-> "PENDING"],
          [name |-> "delete"]}
MCSymmetry == Permutations(Requests)
=============================================================================
