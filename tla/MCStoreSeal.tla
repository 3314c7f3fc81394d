----------------------------- MODULE MCStoreSeal -----------------------------
(* Small instances of StoreSeal for TLC: a first key, its successor, and an *)
(* engine that was given none.                                              *)
EXTENDS StoreSeal, TLC

CONSTANTS first, second

Engines == Permutations(Engine)

MCDelivery == {[key |-> NoKey,  retired |-> {}],
               [key |-> first,  retired |-> {}],
               [key |-> second, retired |-> {first}],
               [key |-> second, retired |-> {}]}
=============================================================================
