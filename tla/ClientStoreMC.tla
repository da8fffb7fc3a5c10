---------------------------- MODULE ClientStoreMC ----------------------------
(* Small instances of ClientStore for TLC. *)
EXTENDS ClientStore, TLC

CONSTANTS t1, t2, t3, c1, c2, c3

SmallLimits == [client |-> 2, total |-> 4]
TightLimits == [client |-> 2, total |-> 2]
OneLimit == {SmallLimits}
BothLimits == {SmallLimits, TightLimits}

SessionAccesses == {"LIVE", "START", "RETAINED", "READ"}
CreatingAccesses == {"START", "CACHE"}

Alike == Permutations(Threads) \cup Permutations(Ids)
=============================================================================
