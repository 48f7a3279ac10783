----------------------------- MODULE DerivedChain -----------------------------
(***************************************************************************)
(* A host's derived mip chain, installed on a reader that other threads    *)
(* are already reading through clones of it (with_derived, get_derived of  *)
(* src/src/cache.rs).  The chain is a once-cell all clones share; the      *)
(* levels it produces live in the pixel cache under keys that do not name  *)
(* the host.  Reading the base from the file is one step here, taken apart *)
(* in SharedReader.                                                        *)
(***************************************************************************)
EXTENDS Integers, FiniteSetsExt

CONSTANTS
  Thread,      \* the threads that hold a clone of the reader
  Host,        \* the chains that may be installed
  Face,
  BaseRes,     \* host -> face -> the resolution its chain starts at
  Level,       \* the levels callers ask for
  ByteSize,    \* accounted size of a derived level, given its resolution
  Budgets,     \* cache budgets the host opens with or sets
  MaxCalls,    \* bound on the calls of a thread
  MaxFaults,   \* bound on failing reads of a base
  MaxAdmin,    \* bound on clear_cache and set_cache_budget calls
  None         \* nothing installed, no call

ASSUME NoneAssumption == None \notin Host
ASSUME LevelAssumption == Level \subseteq Nat
\* base_res answers with a resolution, the same one whenever it is asked.
ASSUME BaseAssumption == BaseRes \in [Host -> [Face -> [u : Nat, v : Nat]]]

VARIABLES
  lru, bytes, budget, evictions, oversized, derivedEntries, derivedBytes,
  derived,   \* the once-cell: the chain installed
  call,      \* the call each thread is in
  pc,        \* where in it the thread is
  base,      \* the base resolution it was told
  level,     \* the level its data is
  data,      \* what it has derived so far
  reply,     \* the outcome of its last call
  made,      \* calls made so far, by each thread
  faults, admin

cacheVars == <<lru, bytes, budget, evictions, oversized, derivedEntries, derivedBytes>>
locals == <<call, pc, base, level, data, reply>>
vars == <<cacheVars, derived, locals, made, faults, admin>>

Greater(a, b) == IF a >= b THEN a ELSE b

(* Halved on each axis, to a floor of one texel; resolutions as logarithms.*)
Halve(r, k) == [u |-> Greater(r.u - k, 0), v |-> Greater(r.v - k, 0)]

(* Levels a chain holds: until both axes have reached one texel. *)
NumLevels(r) == Greater(r.u, r.v) + 1

Derived(f, k) == [face |-> f, level |-> k]
DerivedKey == {Derived(f, k) : f \in Face, k \in Level}

(* What the bytes of a level are depends on the hosts that had a hand in   *)
(* them, and on whether each was told the resolution it was given.         *)
Res == UNION {{Halve(BaseRes[h][f], k) : k \in Level \cup {0}} : h \in Host, f \in Face}

\* An entry costs its overhead, whatever its pixels take (CacheValue::size).
ASSUME SizeAssumption == \A r \in Res : ByteSize[r] \in Nat \ {0}
ASSUME BudgetAssumption == Budgets \subseteq Nat

Pixels == [by : SUBSET Host, face : Face, level : Level \cup {0}, res : Res, told : BOOLEAN]

Decoded(h, f, r) == [by |-> {h}, face |-> f, level |-> 0, res |-> r, told |-> TRUE]
DerivedFrom(h, d, k, parentRes) ==
  [by |-> d.by \cup {h}, face |-> d.face, level |-> k,
   res |-> Halve(d.res, 1), told |-> d.told /\ parentRes = d.res]

Cache == INSTANCE PixelCache
           WITH Key <- DerivedKey, DerivedKey <- DerivedKey, Value <- Pixels,
                SizeOf <- [d \in Pixels |-> ByteSize[d.res]]

-----------------------------------------------------------------------------
At(t, p) == call[t] # None /\ pc[t] = p
Goto(t, p) == pc' = [pc EXCEPT ![t] = p]
Request(t) == Derived(call[t].face, call[t].level)

(* The call returns. *)
Return(t, outcome, block) ==
  /\ reply' = [reply EXCEPT ![t] = [to |-> call[t], outcome |-> outcome, block |-> block]]
  /\ call' = [call EXCEPT ![t] = None]
  /\ Goto(t, "idle")

Call(t, c) ==
  /\ call[t] = None
  /\ made[t] < MaxCalls
  /\ made' = [made EXCEPT ![t] = @ + 1]
  /\ call' = [call EXCEPT ![t] = c]
  /\ Goto(t, "start")
  /\ UNCHANGED <<cacheVars, derived, base, level, data, reply, faults, admin>>

(* Slip: the chain is a cell that can be set again. *)
InstallAgain(t) ==
  /\ At(t, "start") /\ call[t].api = "with_derived"
  /\ derived' = call[t].host
  /\ Return(t, "installed", None)
  /\ UNCHANGED <<cacheVars, base, level, data, made, faults, admin>>

(* with_derived: the cell takes the first chain and refuses the others. *)
Install(t) ==
  /\ At(t, "start") /\ call[t].api = "with_derived"
  /\ \/ derived = None /\ derived' = call[t].host /\ Return(t, "installed", None)
     \/ derived # None /\ UNCHANGED derived /\ Return(t, "refused", None)
  /\ UNCHANGED <<cacheVars, base, level, data, made, faults, admin>>

(* get_derived looks the chain up, and its base a second time through      *)
(* derived_base_res.                                                       *)
FindChain(t) ==
  /\ At(t, "start") /\ call[t].api = "get_derived"
  /\ \/ derived = None /\ Return(t, "refused", None)
     \/ derived # None /\ Goto(t, "base") /\ UNCHANGED <<call, reply>>
  /\ UNCHANGED <<cacheVars, derived, base, level, data, made, faults, admin>>

AskBase(t) ==
  /\ At(t, "base")
  /\ LET r == BaseRes[derived][call[t].face]
     IN  /\ base' = [base EXCEPT ![t] = r]
         /\ \/ call[t].level >= NumLevels(r) /\ Return(t, "refused", None)
            \/ call[t].level < NumLevels(r) /\ Goto(t, "lookup") /\ UNCHANGED <<call, reply>>
  /\ UNCHANGED <<cacheVars, derived, level, data, made, faults, admin>>

Lookup(t) ==
  /\ At(t, "lookup")
  /\ \/ /\ Cache!Get(Request(t))
        /\ Return(t, "pixels", Cache!ValueOf(Request(t)))
     \/ /\ Request(t) \notin Cache!Resident
        /\ Goto(t, "probe")
        /\ UNCHANGED <<cacheVars, call, reply>>
  /\ UNCHANGED <<derived, base, level, data, made, faults, admin>>

Ancestors(t) ==
  {j \in Level : j < call[t].level /\ Derived(call[t].face, j) \in Cache!Resident}

(* The deepest resident ancestor, found and promoted under one lock. *)
Probe(t) ==
  /\ At(t, "probe")
  /\ \/ /\ Ancestors(t) # {}
        /\ LET k == Derived(call[t].face, Max(Ancestors(t)))
           IN  /\ Cache!Get(k)
               /\ level' = [level EXCEPT ![t] = k.level]
               /\ data' = [data EXCEPT ![t] = Cache!ValueOf(k)]
        /\ Goto(t, "derive")
     \/ /\ Ancestors(t) = {}
        /\ Goto(t, "read")
        /\ UNCHANGED <<cacheVars, level, data>>
  /\ UNCHANGED <<derived, call, base, reply, made, faults, admin>>

(* derived_base_pixels, then the host's decode. *)
DecodeBase(t) ==
  /\ At(t, "read")
  /\ level' = [level EXCEPT ![t] = 0]
  /\ data' = [data EXCEPT ![t] = Decoded(derived, call[t].face, base[t])]
  /\ Goto(t, "derive")
  /\ UNCHANGED <<cacheVars, derived, call, base, reply, made, faults, admin>>

Fault(t) ==
  /\ At(t, "read")
  /\ faults < MaxFaults
  /\ faults' = faults + 1
  /\ Return(t, "err", None)
  /\ UNCHANGED <<cacheVars, derived, base, level, data, made, admin>>

(* One turn of the loop that derives a level from its parent. *)
Derive(t) ==
  /\ At(t, "derive") /\ level[t] < call[t].level
  /\ data' = [data EXCEPT ![t] =
                DerivedFrom(derived, @, level[t] + 1, Halve(base[t], level[t]))]
  /\ level' = [level EXCEPT ![t] = @ + 1]
  /\ UNCHANGED <<cacheVars, derived, call, pc, base, reply, made, faults, admin>>

(* Slip: a level too large to keep is made again. *)
StoreUntilKept(t) ==
  /\ At(t, "derive") /\ level[t] = call[t].level
  /\ IF ByteSize[data[t].res] <= budget
     THEN /\ Cache!InsertOrGet(Request(t), data[t])
          /\ Return(t, "pixels", Cache!Winner(Request(t), data[t]))
     ELSE Goto(t, "lookup") /\ UNCHANGED <<cacheVars, call, reply>>
  /\ UNCHANGED <<derived, base, level, data, made, faults, admin>>

Store(t) ==
  /\ At(t, "derive") /\ level[t] = call[t].level
  /\ Cache!InsertOrGet(Request(t), data[t])
  /\ Return(t, "pixels", Cache!Winner(Request(t), data[t]))
  /\ UNCHANGED <<derived, base, level, data, made, faults, admin>>

(* clear_cache and set_cache_budget, from any thread at any time. *)
Administer ==
  /\ admin < MaxAdmin
  /\ admin' = admin + 1
  /\ Cache!Clear \/ \E b \in Budgets : Cache!SetBudget(b)
  /\ UNCHANGED <<derived, locals, made, faults>>

-----------------------------------------------------------------------------
Calls ==
  [api : {"with_derived"}, host : Host]
    \cup [api : {"get_derived"}, face : Face, level : Level]

Init ==
  /\ Cache!Init
  /\ derived = None
  /\ call = [t \in Thread |-> None]
  /\ pc = [t \in Thread |-> "idle"]
  /\ base = [t \in Thread |-> None]
  /\ level = [t \in Thread |-> 0]
  /\ data = [t \in Thread |-> None]
  /\ reply = [t \in Thread |-> None]
  /\ made = [t \in Thread |-> 0]
  /\ faults = 0 /\ admin = 0

Step(t) ==
  \/ Install(t) \/ FindChain(t) \/ AskBase(t) \/ Lookup(t) \/ Probe(t)
  \/ DecodeBase(t) \/ Derive(t) \/ Store(t)

AllDone ==
  /\ \A t \in Thread : call[t] = None /\ made[t] = MaxCalls
  /\ UNCHANGED vars

Next ==
  \/ \E t \in Thread : Step(t) \/ Fault(t) \/ \E c \in Calls : Call(t, c)
  \/ Administer
  \/ AllDone

(* A running thread keeps running: nothing here waits. *)
Fairness == \A t \in Thread : WF_vars(Step(t))

Spec == Init /\ [][Next]_vars /\ Fairness

-----------------------------------------------------------------------------
(* Level k of face f as host h makes it from the file alone. *)
LevelOf(h, f, k) ==
  [by |-> {h}, face |-> f, level |-> k, res |-> Halve(BaseRes[h][f], k), told |-> TRUE]

(* One host answers for the reader's derived keys: whatever is resident    *)
(* under them, in the hands of a thread or was returned to one, is the     *)
(* level the key names, made by the one chain that is installed, from a    *)
(* parent whose resolution it was told.  A second chain on another clone   *)
(* would answer for the same keys (with_derived's doc, cache.rs:895-899).  *)
OneHostAnswers ==
  /\ \A i \in DOMAIN lru :
       /\ derived # None
       /\ lru[i].value = LevelOf(derived, lru[i].key.face, lru[i].key.level)
  /\ \A t \in Thread :
       /\ pc[t] = "derive" => data[t] = LevelOf(derived, call[t].face, level[t])
       /\ reply[t] # None /\ reply[t].outcome = "pixels" =>
            reply[t].block = LevelOf(derived, reply[t].to.face, reply[t].to.level)

(* Every call returns, however small the cache is and whoever clears it    *)
(* (a block too large for the budget is returned uncached, cache.rs:948).  *)
CallsReturn == \A t \in Thread : call[t] # None ~> call[t] = None
=============================================================================
