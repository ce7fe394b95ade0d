---------------------------- MODULE MCTieredStore ----------------------------
\* Model-checking definitions for TieredStore.
EXTENDS TieredStore, TLC

CallSymmetry == Permutations(Ops)
\* Two keys that hash to one slot, and a second slot.
OneSlot == [k \in Keys |-> CHOOSE s \in Slots : TRUE]
\* The responses under k1 expire, the others do not.
K1Expires == [k \in Keys |-> IF k = "k1" THEN {1} ELSE {0}]
NoneExpires == [k \in Keys |-> {0}]
==============================================================================
