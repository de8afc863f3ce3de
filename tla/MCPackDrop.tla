----------------------------- MODULE MCPackDrop -----------------------------
EXTENDS PackDrop
CONSTANTS alice, bob, d1, d2, k1, k2
\* One drop with a last pack and one with two.
MCStock == [d \in Drops |-> IF d = d1 THEN 1 ELSE 2]
\* Two users for the last pack; one user in two drops with one key or with two keys;
\* one user in one drop with two keys.
MCSales == {[user |-> alice, drop |-> d1, key |-> k1], [user |-> bob, drop |-> d1, key |-> k1],
            [user |-> alice, drop |-> d2, key |-> k1], [user |-> alice, drop |-> d2, key |-> k2]}
=============================================================================
