------------------------------ MODULE PixelCache ------------------------------
(***************************************************************************)
(* The byte-budgeted LRU cache of decoded pixels and tile directories,     *)
(* struct PixelCache of src/src/cache.rs.  Every method runs under the     *)
(* pixel mutex, so each is one action here.  Keys and values are opaque:   *)
(* of a value only its accounted size matters (CacheValue::size), of a key *)
(* only whether it belongs to the derived chain (CacheKey::Derived), which *)
(* is booked a second time.                                                *)
(***************************************************************************)
EXTENDS Integers, SequencesExt

CONSTANTS
  Key,          \* the cache keys, CacheKey
  DerivedKey,   \* those of the variant CacheKey::Derived
  Value,        \* the cached values, CacheValue
  SizeOf,       \* accounted bytes of each value, overhead included
  Budgets       \* the budgets a host may open with or set

ASSUME KeyAssumption == DerivedKey \subseteq Key
\* size() adds ENTRY_OVERHEAD, so no entry is free.
ASSUME SizeAssumption == SizeOf \in [Value -> Nat \ {0}]
ASSUME BudgetAssumption == Budgets \subseteq Nat

VARIABLES
  lru,             \* entries in recency order, least recently used first
  bytes,           \* accounted size of the resident entries
  budget,          \* upper bound on bytes
  evictions,       \* entries evicted to make room, ever
  oversized,       \* values refused because they alone exceed the budget
  derivedEntries,  \* resident derived entries
  derivedBytes     \* and their accounted bytes

vars == <<lru, bytes, budget, evictions, oversized, derivedEntries, derivedBytes>>

Entry == [key : Key, value : Value]

-----------------------------------------------------------------------------
(* What is resident. *)

Resident == {lru[i].key : i \in DOMAIN lru}
IndexOf(k) == CHOOSE i \in DOMAIN lru : lru[i].key = k
ValueOf(k) == lru[IndexOf(k)].value

(* The three books account() keeps, as weights of an entry. *)

Sizes == [e \in Entry |-> SizeOf[e.value]]
DerivedSizes == [e \in Entry |-> IF e.key \in DerivedKey THEN SizeOf[e.value] ELSE 0]
DerivedOnes == [e \in Entry |-> IF e.key \in DerivedKey THEN 1 ELSE 0]

(* The sum of weight over the entries of s. *)
Total(weight, s) ==
  LET sum[n \in 0..Len(s)] == IF n = 0 THEN 0 ELSE sum[n - 1] + weight[s[n]]
  IN  sum[Len(s)]

-----------------------------------------------------------------------------
(* Slip: a derived entry that leaves keeps its bytes booked. *)
AccountLeavingForgotten(left, entered) ==
  /\ bytes' = bytes - Total(Sizes, left) + Total(Sizes, entered)
  /\ derivedEntries' = derivedEntries - Total(DerivedOnes, left) + Total(DerivedOnes, entered)
  /\ derivedBytes' = derivedBytes + Total(DerivedSizes, entered)

(* account(), once per entry of left leaving and of entered entering. *)
Account(left, entered) ==
  /\ bytes' = bytes - Total(Sizes, left) + Total(Sizes, entered)
  /\ derivedEntries' = derivedEntries - Total(DerivedOnes, left) + Total(DerivedOnes, entered)
  /\ derivedBytes' = derivedBytes - Total(DerivedSizes, left) + Total(DerivedSizes, entered)

(* Slip: a full cache counts as an overfull one. *)
FitsStrictly(n, room, limit) == bytes - Total(Sizes, SubSeq(lru, 1, n)) + room < limit

(* evict_for()'s loop condition is false once n entries are popped. *)
Fits(n, room, limit) == bytes - Total(Sizes, SubSeq(lru, 1, n)) + room <= limit

(* How many entries evict_for() pops: it stops as soon as room fits, or    *)
(* when nothing is left.                                                   *)
Pops(room, limit) ==
  CHOOSE n \in 0..Len(lru) :
    /\ Fits(n, room, limit) \/ n = Len(lru)
    /\ \A m \in 0..(n - 1) : ~Fits(m, room, limit)

Popped(n) == SubSeq(lru, 1, n)

(* Slip: the wrong end of the list is popped. *)
KeptOldest(n) == SubSeq(lru, 1, Len(lru) - n)

Kept(n) == SubSeq(lru, n + 1, Len(lru))

(* Slip: a lookup peeks without promoting. *)
TouchNothing(k) == lru' = lru

(* A looked-up entry becomes the most recently used one. *)
MovedToEnd(s, i) == Append(RemoveAt(s, i), s[i])
Touch(k) == lru' = MovedToEnd(lru, IndexOf(k))

-----------------------------------------------------------------------------
(* PixelCache::new. *)
Init ==
  /\ lru = << >>
  /\ budget \in Budgets
  /\ bytes = 0 /\ evictions = 0 /\ oversized = 0
  /\ derivedEntries = 0 /\ derivedBytes = 0

(* get: a miss changes nothing. *)
Get(k) ==
  /\ k \in Resident
  /\ Touch(k)
  /\ UNCHANGED <<bytes, budget, evictions, oversized, derivedEntries, derivedBytes>>

(* insert_or_get, when a racing thread already inserted the key. *)
InsertLost(k) == Get(k)

(* insert_or_get, when the value alone exceeds the budget. *)
InsertOversized(k, v) ==
  /\ k \notin Resident
  /\ SizeOf[v] > budget
  /\ oversized' = oversized + 1
  /\ UNCHANGED <<lru, bytes, budget, evictions, derivedEntries, derivedBytes>>

(* insert_or_get, evicting as many entries as the new one needs. *)
InsertNew(k, v) ==
  /\ k \notin Resident
  /\ SizeOf[v] <= budget
  /\ LET n == Pops(SizeOf[v], budget)
         e == [key |-> k, value |-> v]
     IN  /\ lru' = Append(Kept(n), e)
         /\ Account(Popped(n), <<e>>)
         /\ evictions' = evictions + n
  /\ UNCHANGED <<budget, oversized>>

(* Slip: the newcomer replaces what is resident. *)
InsertReplacing(k, v) ==
  \/ /\ k \in Resident
     /\ LET e == [key |-> k, value |-> v]
        IN  /\ lru' = Append(RemoveAt(lru, IndexOf(k)), e)
            /\ Account(<<lru[IndexOf(k)]>>, <<e>>)
     /\ UNCHANGED <<budget, evictions, oversized>>
  \/ InsertOversized(k, v)
  \/ InsertNew(k, v)

InsertOrGet(k, v) == InsertLost(k) \/ InsertOversized(k, v) \/ InsertNew(k, v)

(* What insert_or_get hands back: the resident value wins over v. *)
Winner(k, v) == IF k \in Resident THEN ValueOf(k) ELSE v

(* clear: the statistics are kept. *)
Clear ==
  /\ lru' = << >>
  /\ bytes' = 0 /\ derivedEntries' = 0 /\ derivedBytes' = 0
  /\ UNCHANGED <<budget, evictions, oversized>>

(* Slips: the next insertion is left to shrink the cache; and it is shrunk *)
(* at once, but by another loop, that does not count.                      *)
SetBudgetLazily(b) ==
  /\ budget' = b
  /\ UNCHANGED <<lru, bytes, evictions, oversized, derivedEntries, derivedBytes>>

SetBudgetUncounted(b) ==
  /\ budget' = b
  /\ LET n == Pops(0, b)
     IN  lru' = Kept(n) /\ Account(Popped(n), << >>)
  /\ UNCHANGED <<evictions, oversized>>

(* set_budget, evicting at once if it shrank. *)
SetBudget(b) ==
  /\ budget' = b
  /\ LET n == Pops(0, b)
     IN  /\ lru' = Kept(n)
         /\ Account(Popped(n), << >>)
         /\ evictions' = evictions + n
  /\ UNCHANGED oversized

Next ==
  \/ \E k \in Key : Get(k)
  \/ \E k \in Key, v \in Value : InsertOrGet(k, v)
  \/ Clear
  \/ \E b \in Budgets : SetBudget(b)

Spec == Init /\ [][Next]_vars

-----------------------------------------------------------------------------
(* Types of the seven fields; the counters never go below zero, so none of *)
(* the unsigned subtractions in account() wraps.                           *)
TypeOK ==
  /\ lru \in Seq(Entry)
  /\ bytes \in Nat
  /\ budget \in Nat
  /\ evictions \in Nat
  /\ oversized \in Nat
  /\ derivedEntries \in Nat
  /\ derivedBytes \in Nat

(* No key is resident twice (cache.rs:288-302): two threads that both      *)
(* missed and both decoded leave one entry behind, not two.                *)
UniqueKeys ==
  \A i, j \in DOMAIN lru : lru[i].key = lru[j].key => i = j

(* The three books agree with the entries actually resident, whatever mix  *)
(* of insertions, evictions, clears and budget changes came before         *)
(* (account, cache.rs:252-267).                                            *)
Accounted ==
  /\ bytes = Total(Sizes, lru)
  /\ derivedEntries = Total(DerivedOnes, lru)
  /\ derivedBytes = Total(DerivedSizes, lru)

(* Together: the list holds one entry a key, the books are about that      *)
(* list, and no unsigned subtraction of account() went below zero.         *)
BooksKept == TypeOK /\ UniqueKeys /\ Accounted

(* The budget is a hard bound at every moment the mutex is free, also just *)
(* after it was lowered (evict_for and set_budget, cache.rs:270-280, 313). *)
WithinBudget == bytes <= budget

(* What a thread was handed for a key is what every later reader is        *)
(* handed for as long as the key stays resident: an insertion never        *)
(* replaces (insert_or_get, cache.rs:289-291).                             *)
FirstValueWins ==
  [][\A k \in Resident \cap Resident' : ValueOf(k)' = ValueOf(k)]_vars

(* Pressure takes the least recently used entries only: whatever an        *)
(* eviction leaves behind was used after everything it took                *)
(* (evict_for, cache.rs:270-280).                                          *)
EvictsLeastRecent ==
  [][evictions' > evictions =>
       \A i, j \in DOMAIN lru :
         lru[i].key \notin Resident' /\ lru[j].key \in Resident' => i < j]_vars

(* and no more of them than needed: had the last entry evicted stayed, the *)
(* budget would have been exceeded.                                        *)
EvictsNoMoreThanNeeded ==
  [][evictions' > evictions =>
       bytes' + SizeOf[lru[evictions' - evictions].value] > budget']_vars
=============================================================================
