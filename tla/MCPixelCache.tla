---------------------------- MODULE MCPixelCache ----------------------------
(* CacheHistory on a small instance: four keys, of which one is derived,   *)
(* and values of three sizes, the largest too large for a tight budget.    *)
EXTENDS CacheHistory, TLC

CONSTANTS a, b, c, d   \* cache keys; d is a derived one

MCKey == {a, b, c, d}
MCDerivedKey == {d}
MCValue == {"small", "wide", "huge"}
MCSizeOf == [small |-> 1, wide |-> 2, huge |-> 4]
MCBudgets == {0, 3, 5}
=============================================================================
