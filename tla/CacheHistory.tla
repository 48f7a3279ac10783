----------------------------- MODULE CacheHistory -----------------------------
(***************************************************************************)
(* PixelCache with two things observed on the side that the cache itself   *)
(* does not keep: when each key was last used, and how many entries ever   *)
(* entered or were cleared.                                                *)
(***************************************************************************)
EXTENDS PixelCache

CONSTANT MaxOps   \* bound on the operations of a behaviour

ASSUME MaxOpsAssumption == MaxOps \in Nat

VARIABLES
  clock,    \* operations performed so far
  lastUse,  \* the operation that last looked up or inserted each key
  entered,  \* entries that were ever inserted
  cleared   \* entries dropped by clear

history == <<clock, lastUse, entered, cleared>>
hvars == <<vars, history>>

HInit ==
  /\ Init
  /\ clock = 0
  /\ lastUse = [k \in Key |-> 0]
  /\ entered = 0 /\ cleared = 0

Tick == clock < MaxOps /\ clock' = clock + 1
Use(k) == lastUse' = [lastUse EXCEPT ![k] = clock']

HNext ==
  /\ Tick
  /\ \/ \E k \in Key :
          Get(k) /\ Use(k) /\ UNCHANGED <<entered, cleared>>
     \/ \E k \in Key, v \in Value :
          /\ InsertOrGet(k, v)
          /\ Use(k)
          /\ entered' = entered + (IF k \notin Resident /\ k \in Resident' THEN 1 ELSE 0)
          /\ UNCHANGED cleared
     \/ Clear /\ cleared' = cleared + Len(lru) /\ UNCHANGED <<lastUse, entered>>
     \/ \E limit \in Budgets :
          SetBudget(limit) /\ UNCHANGED <<lastUse, entered, cleared>>

HSpec == HInit /\ [][HNext]_hvars

(* The list's order is the order of last use, so that what an eviction     *)
(* pops is indeed the entry nobody asked for the longest (get promotes,    *)
(* cache.rs:283-285, and so does the losing side of insert_or_get).        *)
RecencyOrder ==
  \A i, j \in DOMAIN lru : i < j => lastUse[lru[i].key] < lastUse[lru[j].key]

(* Every entry that ever entered is resident, counted as an eviction, or   *)
(* was dropped by a clear; none is lost and none is counted twice          *)
(* (evictions, cache.rs:226, 275; clear, 304-310).                         *)
NothingLost == entered = Len(lru) + evictions + cleared
=============================================================================
