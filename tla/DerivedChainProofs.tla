--------------------------- MODULE DerivedChainProofs ---------------------------
(***************************************************************************)
(* One host answers for a reader's derived keys: proved for any threads,   *)
(* chains, faces, levels and budgets.                                      *)
(***************************************************************************)
EXTENDS DerivedChain, SequenceTheorems, TLAPS

(* What PixelCacheProofs observes beside the cache plays no part here.     *)
CacheProofs == INSTANCE PixelCacheProofs
                 WITH Key <- DerivedKey, DerivedKey <- DerivedKey, Value <- Pixels,
                      SizeOf <- [d \in Pixels |-> ByteSize[d.res]],
                      MaxOps <- 0, clock <- 0, lastUse <- 0, entered <- 0, cleared <- 0

-----------------------------------------------------------------------------
(* The cache here is one the proofs about PixelCache speak of.             *)

LEMMA CacheAssumptions ==
  /\ DerivedKey \subseteq DerivedKey
  /\ [d \in Pixels |-> ByteSize[d.res]] \in [Pixels -> Nat \ {0}]
  /\ Budgets \subseteq Nat
<1>1. \A d \in Pixels : d.res \in Res
  BY DEF Pixels
<1> QED
  BY <1>1, SizeAssumption, BudgetAssumption

LEMMA SameCache ==
  /\ Cache!Resident = CacheProofs!Resident
  /\ \A k : Cache!IndexOf(k) = CacheProofs!IndexOf(k)
  /\ \A k : Cache!Get(k) <=> CacheProofs!Get(k)
  /\ \A k, v : Cache!InsertOrGet(k, v) <=> CacheProofs!InsertOrGet(k, v)
  /\ Cache!Clear <=> CacheProofs!Clear
  /\ \A b : Cache!SetBudget(b) <=> CacheProofs!SetBudget(b)
BY DEF Cache!Resident, CacheProofs!Resident, Cache!IndexOf,
       CacheProofs!IndexOf, Cache!Get, CacheProofs!Get, Cache!InsertOrGet,
       CacheProofs!InsertOrGet, Cache!InsertLost, CacheProofs!InsertLost,
       Cache!InsertNew, CacheProofs!InsertNew, Cache!InsertOversized,
       CacheProofs!InsertOversized, Cache!Clear, CacheProofs!Clear,
       Cache!SetBudget, CacheProofs!SetBudget, Cache!Touch,
       CacheProofs!Touch, Cache!MovedToEnd, CacheProofs!MovedToEnd,
       Cache!RemoveAt, CacheProofs!RemoveAt, Cache!Account,
       CacheProofs!Account, Cache!Pops, CacheProofs!Pops, Cache!Fits,
       CacheProofs!Fits, Cache!Popped, CacheProofs!Popped, Cache!Kept,
       CacheProofs!Kept, Cache!Total, CacheProofs!Total, Cache!Sizes,
       CacheProofs!Sizes, Cache!DerivedSizes, CacheProofs!DerivedSizes,
       Cache!DerivedOnes, CacheProofs!DerivedOnes, Cache!Entry,
       CacheProofs!Entry

(* A resident key is found where the list holds it.                        *)
LEMMA ResidentEntry ==
  ASSUME NEW S, lru \in Seq(S), NEW k \in Cache!Resident
  PROVE  /\ lru[Cache!IndexOf(k)] \in S
         /\ lru[Cache!IndexOf(k)].key = k
BY CacheProofs!ResidentEntry, CacheAssumptions, SameCache

(* A lookup reorders the entries, an insertion adds the one it was given   *)
(* or nothing, and clearing and a change of budget only remove.            *)
LEMMA GetKeeps ==
  ASSUME NEW S, lru \in Seq(S), NEW k, Cache!Get(k)
  PROVE  lru' \in Seq(S)
BY CacheProofs!GetKeeps, CacheAssumptions, SameCache

LEMMA InsertKeeps ==
  ASSUME NEW S, lru \in Seq(S), NEW k, NEW v, [key |-> k, value |-> v] \in S,
         Cache!InsertOrGet(k, v)
  PROVE  lru' \in Seq(S)
BY CacheProofs!InsertKeeps, CacheAssumptions, SameCache

LEMMA AdministerKeeps ==
  ASSUME NEW S, lru \in Seq(S), Administer
  PROVE  lru' \in Seq(S)
<1>1. CacheProofs!Clear \/ \E b \in Budgets : CacheProofs!SetBudget(b)
  BY SameCache DEF Administer
<1> QED
  BY <1>1, CacheProofs!RemovingKeeps, CacheAssumptions

-----------------------------------------------------------------------------
(* The inductive invariant: besides OneHostAnswers, that a chain is there  *)
(* whenever something was made by one, and what each place of get_derived  *)
(* knows of its call.                                                      *)

DerivedCalls == [api : {"get_derived"}, face : Face, level : Level]

Good(h) == {[key |-> Derived(f, k), value |-> LevelOf(h, f, k)] : f \in Face, k \in Level}

InChain == {"base", "lookup", "probe", "read", "derive"}

ThreadInv(t) ==
  /\ call[t] \in Calls \cup {None}
  /\ pc[t] \in InChain => call[t] \in DerivedCalls /\ derived \in Host
  /\ pc[t] \in InChain \ {"base"} => base[t] = BaseRes[derived][call[t].face]
  /\ pc[t] = "derive" =>
       level[t] \in Nat /\ data[t] = LevelOf(derived, call[t].face, level[t])
  /\ reply[t] # None /\ reply[t].outcome = "pixels" =>
       /\ derived \in Host
       /\ reply[t].block = LevelOf(derived, reply[t].to.face, reply[t].to.level)

IsFunctionOfThreads(f) == f = [t \in Thread |-> f[t]]

ChainInv ==
  /\ lru \in Seq(Good(derived))
  /\ derived \in Host \cup {None}
  /\ derived \notin Host => lru = << >>
  /\ IsFunctionOfThreads(call) /\ IsFunctionOfThreads(pc) /\ IsFunctionOfThreads(base)
  /\ IsFunctionOfThreads(level) /\ IsFunctionOfThreads(data) /\ IsFunctionOfThreads(reply)
  /\ \A t \in Thread : ThreadInv(t)

(* It contains the property.                                               *)
LEMMA ChainInvAnswers ==
  ASSUME ChainInv
  PROVE  OneHostAnswers
<1>1. ASSUME NEW i \in DOMAIN lru
      PROVE  /\ derived # None
             /\ lru[i].value = LevelOf(derived, lru[i].key.face, lru[i].key.level)
  <2>1. lru[i] \in Good(derived) /\ lru # << >>
    BY LenProperties, ElementOfSeq DEF ChainInv
  <2> QED BY <2>1, NoneAssumption DEF ChainInv, Good, Derived
<1> QED
  BY <1>1, NoneAssumption DEF OneHostAnswers, ChainInv, ThreadInv, InChain

(* A resident level is the one its key names.                              *)
LEMMA ResidentIsGood ==
  ASSUME ChainInv, NEW f, NEW k, Derived(f, k) \in Cache!Resident
  PROVE  Cache!ValueOf(Derived(f, k)) = LevelOf(derived, f, k)
<1> DEFINE e == lru[Cache!IndexOf(Derived(f, k))]
<1>1. e \in Good(derived) /\ e.key = Derived(f, k)
  BY ResidentEntry DEF ChainInv
<1>2. PICK g \in Face, j \in Level :
        e = [key |-> Derived(g, j), value |-> LevelOf(derived, g, j)]
  BY <1>1 DEF Good
<1>3. g = f /\ j = k
  BY <1>1, <1>2 DEF Derived
<1> QED
  BY <1>2, <1>3 DEF Cache!ValueOf

(* A level of a chain, derived from the one above it.                      *)
LEMMA NextLevel ==
  ASSUME NEW h \in Host, NEW f \in Face, NEW j \in Nat
  PROVE  DerivedFrom(h, LevelOf(h, f, j), j + 1, Halve(BaseRes[h][f], j)) = LevelOf(h, f, j + 1)
<1>1. PICK u \in Nat, v \in Nat : BaseRes[h][f] = [u |-> u, v |-> v]
  BY BaseAssumption
<1>2. Halve(Halve(BaseRes[h][f], j), 1) = Halve(BaseRes[h][f], j + 1)
  BY <1>1 DEF Halve, Greater
<1>3. {h} \cup {h} = {h}
  OBVIOUS
<1> QED
  BY <1>2, <1>3 DEF DerivedFrom, LevelOf

(* and the base, as decoded.                                               *)
LEMMA BaseLevel ==
  ASSUME NEW h \in Host, NEW f \in Face
  PROVE  Decoded(h, f, BaseRes[h][f]) = LevelOf(h, f, 0)
<1>1. PICK u \in Nat, v \in Nat : BaseRes[h][f] = [u |-> u, v |-> v]
  BY BaseAssumption
<1>2. Halve(BaseRes[h][f], 0) = BaseRes[h][f]
  BY <1>1 DEF Halve, Greater
<1> QED
  BY <1>2 DEF Decoded, LevelOf

(* The deepest of some levels is one of them.                              *)
LEMMA DeepestIsOne ==
  ASSUME NEW k \in Nat, NEW S \in SUBSET (0..k), S # {}
  PROVE  Max(S) \in S
<1>1. \E n \in S : \A m \in S : n >= m
  BY CacheProofs!GreatestNatural, CacheAssumptions
<1> QED
  BY <1>1 DEF Max

-----------------------------------------------------------------------------
(* The steps. *)

(* Only t moves, the chain stays, and the cache keeps its levels.          *)
OnlyMoves(t) ==
  /\ IsFunctionOfThreads(call') /\ IsFunctionOfThreads(pc') /\ IsFunctionOfThreads(base')
  /\ IsFunctionOfThreads(level') /\ IsFunctionOfThreads(data') /\ IsFunctionOfThreads(reply')
  /\ \A s \in Thread \ {t} :
       /\ call'[s] = call[s] /\ pc'[s] = pc[s] /\ base'[s] = base[s]
       /\ level'[s] = level[s] /\ data'[s] = data[s] /\ reply'[s] = reply[s]

LEMMA MovePreserves ==
  ASSUME ChainInv, NEW t \in Thread, OnlyMoves(t), ThreadInv(t)',
         derived' = derived, lru' \in Seq(Good(derived)), lru = << >> /\ derived \notin Host => lru' = << >>
  PROVE  ChainInv'
<1>1. ASSUME NEW s \in Thread, s # t PROVE ThreadInv(s)'
  BY <1>1 DEF ChainInv, ThreadInv, OnlyMoves
<1>2. Good(derived)' = Good(derived)
  BY DEF Good, LevelOf
<1> QED
  BY <1>1, <1>2 DEF ChainInv, OnlyMoves

(* A thread that returns is out of the chain, and its answer is what it    *)
(* returns.                                                                *)
LEMMA ReturnMoves ==
  ASSUME ChainInv, NEW t \in Thread, NEW outcome, NEW block, Return(t, outcome, block),
         UNCHANGED <<base, level, data>>
  PROVE  /\ OnlyMoves(t)
         /\ call'[t] = None /\ pc'[t] = "idle"
         /\ reply'[t] = [to |-> call[t], outcome |-> outcome, block |-> block]
BY DEF ChainInv, OnlyMoves, IsFunctionOfThreads, Return, Goto

LEMMA CallPreserves ==
  ASSUME ChainInv, NEW t \in Thread, NEW c \in Calls, Call(t, c)
  PROVE  ChainInv'
<1>1. OnlyMoves(t) /\ call'[t] = c /\ pc'[t] = "start" /\ reply'[t] = reply[t]
      /\ derived' = derived /\ lru' = lru
  BY DEF Call, Goto, ChainInv, OnlyMoves, IsFunctionOfThreads, cacheVars
<1>2. ThreadInv(t)'
  BY <1>1 DEF ChainInv, ThreadInv, InChain, LevelOf
<1> QED
  BY <1>1, <1>2, MovePreserves DEF ChainInv

(* Before a chain is installed nothing is made of one; afterwards it is    *)
(* not replaced.                                                           *)
LEMMA InstallPreserves ==
  ASSUME ChainInv, NEW t \in Thread, Install(t)
  PROVE  ChainInv'
<1>1. PICK outcome \in {"installed", "refused"} : Return(t, outcome, None)
  BY DEF Install
<1>2. /\ OnlyMoves(t) /\ call'[t] = None /\ pc'[t] = "idle"
      /\ reply'[t] = [to |-> call[t], outcome |-> outcome, block |-> None]
      /\ lru' = lru
  BY <1>1, ReturnMoves DEF Install, cacheVars
<1>3. ThreadInv(t)'
  BY <1>2 DEF ThreadInv, InChain
<1>4. CASE derived' = derived
  BY <1>2, <1>3, <1>4, MovePreserves DEF ChainInv
<1>5. CASE derived = None /\ derived' = call[t].host
  <2>1. derived' \in Host /\ derived \notin Host
    <3>1. call[t] \in Calls /\ call[t].api = "with_derived"
      BY DEF Install, At, ChainInv, ThreadInv
    <3> QED BY <1>5, <3>1, NoneAssumption DEF Calls
  <2>2. lru' = << >> /\ lru' \in Seq(Good(derived)')
    BY <1>2, <2>1, EmptySeq DEF ChainInv
  <2>3. ASSUME NEW s \in Thread, s # t PROVE ThreadInv(s)'
    <3>1. /\ call[s] \in Calls \cup {None}
          /\ pc[s] \notin InChain
          /\ ~ (reply[s] # None /\ reply[s].outcome = "pixels")
      BY <2>1 DEF ChainInv, ThreadInv
    <3>2. call'[s] = call[s] /\ pc'[s] = pc[s] /\ reply'[s] = reply[s]
      BY <1>2, <2>3 DEF OnlyMoves
    <3> QED BY <3>1, <3>2 DEF ThreadInv, InChain
  <2> QED BY <1>2, <1>3, <2>1, <2>2, <2>3 DEF ChainInv, OnlyMoves
<1> QED
  BY <1>4, <1>5 DEF Install

(* A call that is answered without pixels.                                 *)
LEMMA NoPixelsPreserves ==
  ASSUME ChainInv, NEW t \in Thread, NEW outcome, outcome # "pixels",
         Return(t, outcome, None), IsFunctionOfThreads(base'), UNCHANGED <<level, data>>,
         \A s \in Thread \ {t} : base'[s] = base[s],
         derived' = derived, lru' = lru
  PROVE  ChainInv'
<1>1. /\ OnlyMoves(t) /\ call'[t] = None /\ pc'[t] = "idle"
      /\ reply'[t] = [to |-> call[t], outcome |-> outcome, block |-> None]
  BY DEF ChainInv, OnlyMoves, IsFunctionOfThreads, Return, Goto
<1>2. ThreadInv(t)'
  BY <1>1 DEF ThreadInv, InChain
<1> QED
  BY <1>1, <1>2, MovePreserves DEF ChainInv

(* and one that is answered with the level it asked for.                   *)
LEMMA PixelsPreserve ==
  ASSUME ChainInv, NEW t \in Thread, NEW block,
         Return(t, "pixels", block), UNCHANGED <<base, level, data, derived>>,
         derived \in Host, lru' \in Seq(Good(derived)),
         block = LevelOf(derived, call[t].face, call[t].level)
  PROVE  ChainInv'
<1>1. /\ OnlyMoves(t) /\ call'[t] = None /\ pc'[t] = "idle"
      /\ reply'[t] = [to |-> call[t], outcome |-> "pixels", block |-> block]
  BY ReturnMoves
<1>2. reply'[t].block = LevelOf(derived', reply'[t].to.face, reply'[t].to.level) /\ derived' \in Host
  BY <1>1
<1>3. ThreadInv(t)'
  BY <1>1, <1>2 DEF ThreadInv, InChain
<1> QED
  BY <1>1, <1>3, MovePreserves

LEMMA FindChainPreserves ==
  ASSUME ChainInv, NEW t \in Thread, FindChain(t)
  PROVE  ChainInv'
<1>1. CASE Return(t, "refused", None)
  BY <1>1, NoPixelsPreserves DEF FindChain, ChainInv, cacheVars
<1>2. CASE derived # None /\ Goto(t, "base") /\ UNCHANGED <<call, reply>>
  <2>1. OnlyMoves(t) /\ call' = call /\ pc'[t] = "base" /\ reply' = reply
        /\ derived' = derived /\ lru' = lru
    BY <1>2 DEF FindChain, Goto, ChainInv, OnlyMoves, IsFunctionOfThreads, cacheVars
  <2>2. call[t] \in DerivedCalls /\ derived \in Host
    BY <1>2 DEF FindChain, At, ChainInv, ThreadInv, Calls, DerivedCalls
  <2>3. ThreadInv(t)'
    BY <2>1, <2>2 DEF ChainInv, ThreadInv, InChain
  <2> QED BY <2>1, <2>3, MovePreserves DEF ChainInv
<1> QED
  BY <1>1, <1>2 DEF FindChain

LEMMA AskBasePreserves ==
  ASSUME ChainInv, NEW t \in Thread, AskBase(t)
  PROVE  ChainInv'
<1>1. /\ base' = [base EXCEPT ![t] = BaseRes[derived][call[t].face]]
      /\ derived' = derived /\ lru' = lru /\ UNCHANGED <<level, data>>
      /\ call[t] \in DerivedCalls /\ derived \in Host
  BY DEF AskBase, At, ChainInv, ThreadInv, InChain, cacheVars
<1>2. CASE Return(t, "refused", None)
  BY <1>1, <1>2, NoPixelsPreserves DEF ChainInv, IsFunctionOfThreads
<1>3. CASE Goto(t, "lookup") /\ UNCHANGED <<call, reply>>
  <2>1. OnlyMoves(t) /\ call' = call /\ pc'[t] = "lookup" /\ reply' = reply
        /\ base'[t] = BaseRes[derived][call[t].face]
    BY <1>1, <1>3 DEF Goto, ChainInv, OnlyMoves, IsFunctionOfThreads
  <2>2. ThreadInv(t)'
    BY <1>1, <2>1 DEF ChainInv, ThreadInv, InChain
  <2> QED BY <1>1, <2>1, <2>2, MovePreserves DEF ChainInv
<1> QED
  BY <1>2, <1>3 DEF AskBase

LEMMA LookupPreserves ==
  ASSUME ChainInv, NEW t \in Thread, Lookup(t)
  PROVE  ChainInv'
<1>1. /\ derived' = derived /\ UNCHANGED <<base, level, data>>
      /\ call[t] \in DerivedCalls /\ derived \in Host /\ pc[t] = "lookup"
      /\ base[t] = BaseRes[derived][call[t].face]
  BY DEF Lookup, At, ChainInv, ThreadInv, InChain
<1>2. CASE Cache!Get(Request(t)) /\ Return(t, "pixels", Cache!ValueOf(Request(t)))
  <2>1. lru' \in Seq(Good(derived))
    BY <1>2, GetKeeps DEF ChainInv
  <2>2. Request(t) \in Cache!Resident
    BY <1>2 DEF Cache!Get
  <2>3. Cache!ValueOf(Request(t)) = LevelOf(derived, call[t].face, call[t].level)
    BY <2>2, ResidentIsGood DEF Request
  <2> QED BY <1>1, <1>2, <2>1, <2>3, PixelsPreserve
<1>3. CASE Goto(t, "probe") /\ UNCHANGED <<cacheVars, call, reply>>
  <2>1. OnlyMoves(t) /\ call' = call /\ pc'[t] = "probe" /\ reply' = reply /\ lru' = lru
    BY <1>1, <1>3 DEF Goto, ChainInv, OnlyMoves, IsFunctionOfThreads, cacheVars
  <2>2. ThreadInv(t)'
    BY <1>1, <2>1 DEF ChainInv, ThreadInv, InChain
  <2> QED BY <1>1, <2>1, <2>2, MovePreserves DEF ChainInv
<1> QED
  BY <1>2, <1>3 DEF Lookup

(* The deepest resident ancestor is a level of the same chain.             *)
LEMMA ProbePreserves ==
  ASSUME ChainInv, NEW t \in Thread, Probe(t)
  PROVE  ChainInv'
<1>1. /\ derived' = derived /\ UNCHANGED <<call, base, reply>>
      /\ call[t] \in DerivedCalls /\ derived \in Host /\ pc[t] = "probe"
      /\ base[t] = BaseRes[derived][call[t].face]
  BY DEF Probe, At, ChainInv, ThreadInv, InChain
<1>2. CASE Ancestors(t) = {}
  <2>1. OnlyMoves(t) /\ pc'[t] = "read" /\ lru' = lru
    BY <1>1, <1>2 DEF Probe, Goto, ChainInv, OnlyMoves, IsFunctionOfThreads, cacheVars
  <2>2. ThreadInv(t)'
    BY <1>1, <2>1 DEF ChainInv, ThreadInv, InChain
  <2> QED BY <1>1, <2>1, <2>2, MovePreserves DEF ChainInv
<1>3. CASE Ancestors(t) # {}
  <2> DEFINE f == call[t].face
             j == Max(Ancestors(t))
  <2>1. call[t].level \in Nat /\ Ancestors(t) \in SUBSET (0..call[t].level)
    <3>1. call[t].level \in Nat
      BY <1>1, LevelAssumption DEF DerivedCalls
    <3>2. ASSUME NEW i \in Ancestors(t) PROVE i \in 0..call[t].level
      <4>1. i \in Nat /\ i < call[t].level
        BY LevelAssumption DEF Ancestors
      <4> QED BY <3>1, <4>1
    <3> QED BY <3>1, <3>2
  <2>2. j \in Ancestors(t)
    BY <1>3, <2>1, DeepestIsOne
  <2>3. j \in Nat /\ Derived(f, j) \in Cache!Resident
    BY <2>2, LevelAssumption DEF Ancestors
  <2>4. /\ Cache!Get(Derived(f, j))
        /\ level' = [level EXCEPT ![t] = Derived(f, j).level]
        /\ data' = [data EXCEPT ![t] = Cache!ValueOf(Derived(f, j))]
        /\ Goto(t, "derive")
    BY <1>3 DEF Probe
  <2>5. Derived(f, j).level = j /\ Cache!ValueOf(Derived(f, j)) = LevelOf(derived, f, j)
    BY <2>3, ResidentIsGood DEF Derived
  <2> HIDE DEF j
  <2>6. lru' \in Seq(Good(derived))
    BY <2>4, GetKeeps DEF ChainInv
  <2>7. OnlyMoves(t) /\ pc'[t] = "derive" /\ level'[t] = j /\ data'[t] = LevelOf(derived, f, j)
    BY <1>1, <2>4, <2>5 DEF Goto, ChainInv, OnlyMoves, IsFunctionOfThreads
  <2>8. ThreadInv(t)'
    BY <1>1, <2>3, <2>7 DEF ChainInv, ThreadInv, InChain
  <2> QED BY <1>1, <2>6, <2>7, <2>8, MovePreserves
<1> QED
  BY <1>2, <1>3

LEMMA DecodeBasePreserves ==
  ASSUME ChainInv, NEW t \in Thread, DecodeBase(t)
  PROVE  ChainInv'
<1>1. /\ derived' = derived /\ UNCHANGED <<call, base, reply>> /\ lru' = lru
      /\ call[t] \in DerivedCalls /\ derived \in Host
      /\ base[t] = BaseRes[derived][call[t].face]
  BY DEF DecodeBase, At, ChainInv, ThreadInv, InChain, cacheVars
<1>2. Decoded(derived, call[t].face, base[t]) = LevelOf(derived, call[t].face, 0)
  BY <1>1, BaseLevel DEF DerivedCalls
<1>3. OnlyMoves(t) /\ pc'[t] = "derive" /\ level'[t] = 0
      /\ data'[t] = LevelOf(derived, call[t].face, 0)
  BY <1>1, <1>2 DEF DecodeBase, Goto, ChainInv, OnlyMoves, IsFunctionOfThreads
<1>4. ThreadInv(t)'
  BY <1>1, <1>3 DEF ChainInv, ThreadInv, InChain
<1> QED
  BY <1>1, <1>3, <1>4, MovePreserves DEF ChainInv

LEMMA DerivePreserves ==
  ASSUME ChainInv, NEW t \in Thread, Derive(t)
  PROVE  ChainInv'
<1> DEFINE f == call[t].face
           j == level[t]
<1>1. /\ derived' = derived /\ UNCHANGED <<call, pc, base, reply>> /\ lru' = lru
      /\ call[t] \in DerivedCalls /\ derived \in Host /\ pc[t] = "derive"
      /\ base[t] = BaseRes[derived][f]
      /\ j \in Nat /\ data[t] = LevelOf(derived, f, j)
  BY DEF Derive, At, ChainInv, ThreadInv, InChain, cacheVars
<1>2. DerivedFrom(derived, data[t], j + 1, Halve(base[t], j)) = LevelOf(derived, f, j + 1)
  BY <1>1, NextLevel DEF DerivedCalls
<1>3. OnlyMoves(t) /\ level'[t] = j + 1 /\ data'[t] = LevelOf(derived, f, j + 1)
  BY <1>1, <1>2 DEF Derive, ChainInv, OnlyMoves, IsFunctionOfThreads
<1>4. ThreadInv(t)'
  BY <1>1, <1>3 DEF ChainInv, ThreadInv, InChain
<1> QED
  BY <1>1, <1>3, <1>4, MovePreserves DEF ChainInv

(* Whoever inserted the level first, it is the same.                       *)
LEMMA StorePreserves ==
  ASSUME ChainInv, NEW t \in Thread, Store(t)
  PROVE  ChainInv'
<1> DEFINE k == Request(t)
<1>1. /\ derived' = derived /\ UNCHANGED <<base, level, data>>
      /\ call[t] \in DerivedCalls /\ derived \in Host
      /\ data[t] = LevelOf(derived, call[t].face, call[t].level)
      /\ Cache!InsertOrGet(k, data[t])
      /\ Return(t, "pixels", Cache!Winner(k, data[t]))
  BY DEF Store, At, ChainInv, ThreadInv, InChain
<1>2. [key |-> k, value |-> data[t]] \in Good(derived)
  BY <1>1 DEF Good, Request, DerivedCalls
<1> HIDE DEF k
<1>3. lru' \in Seq(Good(derived))
  BY <1>1, <1>2, InsertKeeps DEF ChainInv
<1>4. Cache!Winner(k, data[t]) = LevelOf(derived, call[t].face, call[t].level)
  BY <1>1, ResidentIsGood DEF Cache!Winner, k, Request
<1> QED
  BY <1>1, <1>3, <1>4, PixelsPreserve

LEMMA FaultPreserves ==
  ASSUME ChainInv, NEW t \in Thread, Fault(t)
  PROVE  ChainInv'
BY NoPixelsPreserves DEF Fault, ChainInv, cacheVars

LEMMA AdministerPreserves ==
  ASSUME ChainInv, Administer
  PROVE  ChainInv'
<1>1. UNCHANGED <<derived, locals>> /\ lru' \in Seq(Good(derived))
  BY AdministerKeeps DEF Administer, ChainInv
<1>2. ASSUME derived \notin Host PROVE lru' = << >>
  <2>1. lru \in Seq({})
    BY <1>2, EmptySeq DEF ChainInv
  <2>2. lru' \in Seq({})
    BY <2>1, AdministerKeeps
  <2>3. Len(lru') \in Nat /\ 1 \notin 1..Len(lru')
    BY <2>2, LenProperties, ElementOfSeq
  <2> QED BY <2>2, <2>3, EmptySeq
<1> QED
  BY <1>1, <1>2 DEF ChainInv, ThreadInv, locals, IsFunctionOfThreads

-----------------------------------------------------------------------------
LEMMA InitChainInv == Init => ChainInv
<1> SUFFICES ASSUME Init PROVE ChainInv
  OBVIOUS
<1>1. lru \in Seq(Good(derived)) /\ lru = << >> /\ derived = None
  BY EmptySeq DEF Init, Cache!Init
<1> QED
  BY <1>1 DEF Init, ChainInv, ThreadInv, InChain, IsFunctionOfThreads

LEMMA StutterPreserves ==
  ASSUME ChainInv, UNCHANGED vars
  PROVE  ChainInv'
BY DEF ChainInv, ThreadInv, IsFunctionOfThreads, vars, cacheVars, locals

LEMMA NextChainInv == ChainInv /\ [Next]_vars => ChainInv'
<1> SUFFICES ASSUME ChainInv, [Next]_vars PROVE ChainInv'
  OBVIOUS
<1>1. ASSUME NEW t \in Thread, Step(t) PROVE ChainInv'
  BY <1>1, InstallPreserves, FindChainPreserves, AskBasePreserves, LookupPreserves,
     ProbePreserves, DecodeBasePreserves, DerivePreserves, StorePreserves DEF Step
<1>2. ASSUME NEW t \in Thread, Fault(t) PROVE ChainInv'
  BY <1>2, FaultPreserves
<1>3. ASSUME NEW t \in Thread, NEW c \in Calls, Call(t, c) PROVE ChainInv'
  BY <1>3, CallPreserves
<1>4. CASE Administer
  BY <1>4, AdministerPreserves
<1>5. CASE AllDone \/ UNCHANGED vars
  BY <1>5, StutterPreserves DEF AllDone
<1> QED
  BY <1>1, <1>2, <1>3, <1>4, <1>5 DEF Next

(* One host answers for the reader's derived keys, whoever installs, asks, *)
(* fails or clears in whatever order: what get_derived returns, and what   *)
(* it leaves resident, is the level asked for, made by the one chain from  *)
(* the file (with_derived and get_derived, src/src/cache.rs:895-990).      *)
THEOREM OneHostAlwaysAnswers == Spec => []OneHostAnswers
<1>1. Init => ChainInv
  BY InitChainInv
<1>2. ChainInv /\ [Next]_vars => ChainInv'
  BY NextChainInv
<1>3. ChainInv => OneHostAnswers
  BY ChainInvAnswers
<1> QED
  BY <1>1, <1>2, <1>3, PTL DEF Spec
=============================================================================
