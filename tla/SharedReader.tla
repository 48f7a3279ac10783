----------------------------- MODULE SharedReader -----------------------------
(***************************************************************************)
(* The thread-safe reader of src/src/cache.rs: any number of threads read  *)
(* through clones of one SharedReader, sharing the stream (io), the pixel  *)
(* cache (pixels), the once-initialised level indexes and meta data, and   *)
(* the statistics counters.  Nothing is locked between two statements that *)
(* touch shared state, so each such statement is an action of its own.     *)
(*                                                                         *)
(* A thread's call is a stack of what it still has to do, its agenda: the  *)
(* calls of the code that follow the current one, in order.  Pixels are    *)
(* not modelled; what is tracked is whether every byte a call used is the  *)
(* one the file holds at the address it meant to read (ok).                *)
(***************************************************************************)
EXTENDS Integers, SequencesExt, FiniteSetsExt

CONSTANTS
  Thread,         \* the threads that hold a clone of the reader
  Request,        \* the calls they may make
  Source,         \* texture -> where FileInfo::resolve finds its pixels
  Encoding,       \* block position -> encoding of its header
  Tiles,          \* tiled block position -> positions of its tiles
  CellReads,      \* once cell -> raw reads its initialisation takes
  Refused,        \* block positions whose header alone makes them unreadable
  Broken,         \* cells and keys whose bytes do not decode
  DerivedBase,    \* face -> texture its derived chain starts from
  DerivedCount,   \* face -> number of levels of its derived chain
  SizeOf,         \* accounted size of a cached value
  Budgets,        \* cache budgets the host opens with or sets
  MaxRequests,    \* bound on the calls of a thread
  MaxFaults,      \* bound on failing seeks and reads of the stream
  MaxAdmin        \* bound on clear_cache and set_cache_budget calls

Texture == DOMAIN Source
Face == DOMAIN DerivedBase

(* The keys of the cache, CacheKey. *)
Block(p) == <<"Block", p>>
TileDir(p) == <<"TileDir", p>>
Reduced(x) == <<"Reduced", x>>
Derived(f, k) == <<"Derived", f, k>>

DerivedKey == UNION {{Derived(f, k) : k \in 0..(DerivedCount[f] - 1)} : f \in Face}
CacheKey ==
  {Block(p) : p \in {q \in DOMAIN Encoding : Encoding[q] = "zipped"}}
    \cup {TileDir(p) : p \in DOMAIN Tiles}
    \cup {Reduced(x) : x \in {y \in Texture : Source[y].route = "reduced"}}
    \cup DerivedKey

CONSTANTS Nobody, Junk, Unset, Adrift, None   \* distinct model values

(* A cached value stands for the key it was decoded for; Junk for one      *)
(* made from bytes of some other address.                                  *)
CacheValue == CacheKey \cup {Junk}

ASSUME SizeAssumption == SizeOf \in [CacheValue -> Nat \ {0}]
ASSUME BudgetAssumption == Budgets \subseteq Nat
ASSUME NobodyAssumption == Nobody \notin Thread
ASSUME NoneAssumption == None \notin Request
ASSUME FaultsAssumption == MaxFaults \in Nat
Cell == DOMAIN CellReads

(* The file.  resolve answers for every texture it is asked about, and a   *)
(* position it answers with has a header; that of a tiled block has a      *)
(* directory, whose entries have headers too.                              *)
ASSUME SourceAssumption ==
  \A x \in Texture :
    LET s == Source[x]
    IN  \/ s.route \in {"constant", "none"}
        \/ s.route = "reduced" /\ s.from \in Texture
        \/ /\ s.route = "stored" /\ s.level \in Cell /\ s.pos \in DOMAIN Encoding
           /\ Encoding[s.pos] = "tiled" => s.pos \in DOMAIN Tiles
ASSUME TilesAssumption == \A p \in DOMAIN Tiles : Tiles[p] \in Seq(DOMAIN Encoding)
ASSUME CellAssumption ==
  "metadata" \in Cell /\ \A c \in Cell : CellReads[c] \in Nat \ {0}
ASSUME DerivedAssumption ==
  /\ \A f \in Face : DerivedBase[f] \in Texture
  /\ \A f \in Face : DerivedCount[f] \in Nat
\* Only what is read can fail to decode: a reduction or a derivation cannot.
ASSUME BrokenAssumption ==
  \A x \in Broken : x[1] \in {"Cell", "Block", "TileDir"}
\* A call names a face the file has.
ASSUME RequestAssumption ==
  \A r \in Request :
    \/ r.api \in {"data", "layout", "info", "tile", "pixel"} /\ r.of \in Texture
    \/ r.api = "derived" /\ r.of \in Face /\ r.level \in Nat
    \/ r.api = "metadata"

VARIABLES
  lru, bytes, budget, evictions, oversized, derivedEntries, derivedBytes,
  hits, misses, derives,   \* Counters
  io,        \* owner of the stream's mutex
  cursor,    \* the address the shared stream is positioned at
  once,      \* the OnceLocks: level indexes and meta data
  pending,   \* the call each thread is in
  agenda,    \* what is left of it
  pc,        \* where in the first item of its agenda the thread is
  nth,       \* which of that item's raw reads is next
  ok,        \* all bytes used by the call so far were the right ones
  reply,     \* the outcome of each thread's last call
  asked,     \* calls made so far, by each thread
  faults, admin

cacheVars == <<lru, bytes, budget, evictions, oversized, derivedEntries, derivedBytes>>
counters == <<hits, misses, derives>>
stream == <<io, cursor>>
thread == <<pending, agenda, pc, nth, ok, reply, asked>>
vars == <<cacheVars, counters, stream, once, thread, faults, admin>>

Cache == INSTANCE PixelCache
           WITH Key <- CacheKey, Value <- CacheValue

-----------------------------------------------------------------------------
(* What a call has to do. *)

Task(do, x, keep) == [do |-> do, x |-> x, keep |-> keep]

Refusal == << Task("fail", "nothing", "Cached") >>

(* data_at_res: a constant face needs nothing of what is shared; a stored  *)
(* one its level's index and its block, or its directory and every tile;   *)
(* what resolve refuses fails; anything else is reduced.                   *)
DataPlan(x, keep) ==
  LET s == Source[x]
  IN  CASE s.route = "constant" -> << >>
        [] s.route = "none" -> Refusal
        [] s.route = "stored" ->
             << Task("cell", s.level, keep) >> \o
             IF Encoding[s.pos] = "tiled"
             THEN << Task("dir", s.pos, keep) >> \o
                  [i \in DOMAIN Tiles[s.pos] |-> Task("block", Tiles[s.pos][i], keep)]
             ELSE << Task("block", s.pos, keep) >>
        [] s.route = "reduced" -> << Task("reduced", x, keep) >>

(* tile_layout: only a tiled block's layout needs its directory. *)
LayoutPlan(x) ==
  LET s == Source[x]
  IN  CASE s.route \in {"constant", "reduced"} -> << >>
        [] s.route = "none" -> Refusal
        [] s.route = "stored" ->
             << Task("cell", s.level, "Cached") >> \o
             IF Encoding[s.pos] = "tiled"
             THEN << Task("dir", s.pos, "Cached") >> ELSE << >>

IsTiled(x) == Source[x].route = "stored" /\ Encoding[Source[x].pos] = "tiled"

(* A tile number past the last one is refused, once the layout is known;   *)
(* anything that is not tiled is one tile.                                 *)
HasTile(x, i) ==
  IF IsTiled(x) THEN i \in DOMAIN Tiles[Source[x].pos] ELSE i = 1

(* get_tile looks the index and the directory up a second time.            *)
TilePlan(x, i) ==
  LayoutPlan(x) \o
  IF ~HasTile(x, i) THEN Refusal
  ELSE IF IsTiled(x)
       THEN LayoutPlan(x) \o << Task("block", Tiles[Source[x].pos][i], "Cached") >>
       ELSE DataPlan(x, "Cached")

(* tile_info stops short of the block. *)
InfoPlan(x, i) == LayoutPlan(x) \o IF ~HasTile(x, i) THEN Refusal ELSE LayoutPlan(x)

(* get_pixel of a texel in tile i: whatever is laid out as one constant is *)
(* served from the file's constant data.                                   *)
LaidOutConstant(x) ==
  \/ Source[x].route = "constant"
  \/ Source[x].route = "stored" /\ Encoding[Source[x].pos] = "constant"

PixelPlan(x, i) ==
  LayoutPlan(x) \o
  IF LaidOutConstant(x) THEN << Task("constantData", x, "Cached") >> ELSE TilePlan(x, i)

Plan(r) ==
  CASE r.api = "data" -> DataPlan(r.of, "Cached")
    [] r.api = "layout" -> LayoutPlan(r.of)
    [] r.api = "info" -> InfoPlan(r.of, r.tile)
    [] r.api = "tile" -> TilePlan(r.of, r.tile)
    [] r.api = "pixel" -> PixelPlan(r.of, r.tile)
    [] r.api = "derived" ->
         IF r.level < DerivedCount[r.of]
         THEN << Task("derived", <<r.of, r.level>>, "Cached") >> ELSE Refusal
    [] r.api = "metadata" -> << Task("cell", "metadata", "Cached") >>

(* The key an item is cached under. *)
KeyOf(task) ==
  CASE task.do = "dir" -> TileDir(task.x)
    [] task.do = "block" -> Block(task.x)
    [] task.do \in {"reduced", "keepReduced"} -> Reduced(task.x)
    [] task.do \in {"derived", "keepDerived"} -> Derived(task.x[1], task.x[2])

IsLookup(task) ==
  \/ task.do \in {"dir", "reduced", "derived"}
  \/ task.do = "block" /\ Encoding[task.x] = "zipped"
IsConstantBlock(task) == task.do = "block" /\ Encoding[task.x] = "constant"

(* The n-th address the item reads; a directory is read in two pieces, its *)
(* header and its body.                                                    *)
Address(task, n) == <<task.do, task.x, n>>
NReads(task) ==
  CASE task.do = "cell" -> CellReads[task.x]
    [] task.do = "dir" -> 2
    [] task.do = "block" -> 1

-----------------------------------------------------------------------------
(* Steps of a thread. *)

Top(t) == Head(agenda[t])
At(t, p) == pending[t] # None /\ agenda[t] # << >> /\ pc[t] = p

Goto(t, p) ==
  pc' = [pc EXCEPT ![t] = p] /\ UNCHANGED <<agenda, nth>>

(* The first item is done; those of first come in its place. *)
Continue(t, first) ==
  /\ agenda' = [agenda EXCEPT ![t] = first \o Tail(@)]
  /\ pc' = [pc EXCEPT ![t] = "begin"]
  /\ nth' = [nth EXCEPT ![t] = 1]

(* The thread used a value; was it the right one? *)
Used(t, right) == ok' = [ok EXCEPT ![t] = @ /\ right]

(* The call returns: the agenda is dropped, the caller has its answer. *)
Return(t, val) ==
  /\ reply' = [reply EXCEPT ![t] = [to |-> pending[t], val |-> val]]
  /\ pending' = [pending EXCEPT ![t] = None]
  /\ agenda' = [agenda EXCEPT ![t] = << >>]
  /\ pc' = [pc EXCEPT ![t] = "begin"]
  /\ nth' = [nth EXCEPT ![t] = 1]
  /\ ok' = [ok EXCEPT ![t] = TRUE]

Ask(t, r) ==
  /\ pending[t] = None
  /\ asked[t] < MaxRequests
  /\ asked' = [asked EXCEPT ![t] = @ + 1]
  /\ pending' = [pending EXCEPT ![t] = r]
  /\ agenda' = [agenda EXCEPT ![t] = Plan(r)]
  /\ UNCHANGED <<cacheVars, counters, stream, once, pc, nth, ok, reply, faults, admin>>

Answer(t) ==
  /\ pending[t] # None
  /\ agenda[t] = << >>
  /\ Return(t, IF ok[t] THEN "pixels" ELSE "junk")
  /\ UNCHANGED <<cacheVars, counters, stream, once, asked, faults, admin>>

(* Slip: what cannot be read is served as it was allocated. *)
RefuseSilently(t) ==
  /\ \/ At(t, "begin") /\ Top(t).do = "fail"
     \/ At(t, "begin") /\ IsConstantBlock(Top(t)) /\ Top(t).x \in Refused
     \/ At(t, "missed") /\ Top(t).do = "block" /\ Top(t).x \in Refused
  /\ Return(t, "pixels")
  /\ UNCHANGED <<cacheVars, counters, stream, once, asked, faults, admin>>

(* A resolution or tile number the file does not have, or a block whose    *)
(* header rules it out: before the read of a constant block, after the     *)
(* lookup of any other.  A tile that is tiled itself never gets here: its  *)
(* directory does not parse.                                               *)
Refuse(t) ==
  /\ \/ At(t, "begin") /\ Top(t).do = "fail"
     \/ At(t, "begin") /\ IsConstantBlock(Top(t)) /\ Top(t).x \in Refused
     \/ At(t, "missed") /\ Top(t).do = "block" /\ Top(t).x \in Refused
  /\ Return(t, "err")
  /\ UNCHANGED <<cacheVars, counters, stream, once, asked, faults, admin>>

(* lookup, resident.  Counting comes after the pixel mutex is released;    *)
(* a transient read does not count.                                        *)
LookupHit(t) ==
  /\ At(t, "begin") /\ IsLookup(Top(t))
  /\ LET k == KeyOf(Top(t))
     IN  /\ k \in Cache!Resident
         /\ Used(t, Cache!ValueOf(k) = k)
         /\ Cache!Get(k)
  /\ IF Top(t).keep = "Cached" THEN Goto(t, "countHit") ELSE Continue(t, << >>)
  /\ UNCHANGED <<counters, stream, once, pending, reply, asked, faults, admin>>

LookupMiss(t) ==
  /\ At(t, "begin") /\ IsLookup(Top(t))
  /\ KeyOf(Top(t)) \notin Cache!Resident
  /\ Goto(t, IF Top(t).keep = "Cached" THEN "countMiss" ELSE "missed")
  /\ UNCHANGED <<cacheVars, counters, stream, once, pending, ok, reply, asked, faults, admin>>

CountHit(t) ==
  /\ At(t, "countHit")
  /\ hits' = hits + 1
  /\ Continue(t, << >>)
  /\ UNCHANGED <<cacheVars, misses, derives, stream, once, pending, ok, reply, asked, faults, admin>>

CountMiss(t) ==
  /\ At(t, "countMiss")
  /\ misses' = misses + 1
  /\ Goto(t, "missed")
  /\ UNCHANGED <<cacheVars, hits, derives, stream, once, pending, ok, reply, asked, faults, admin>>

(* level() and metadata(): somebody already initialised the cell. *)
CellReady(t) ==
  /\ At(t, "begin") /\ Top(t).do = "cell"
  /\ once[Top(t).x] # Unset
  /\ Used(t, once[Top(t).x].right)
  /\ Continue(t, << >>)
  /\ UNCHANGED <<cacheVars, counters, stream, once, pending, reply, asked, faults, admin>>

(* constant_data: the texel of a face flagged constant. *)
UseConstantData(t) ==
  /\ At(t, "begin") /\ Top(t).do = "constantData"
  /\ Used(t, Source[Top(t).x].route = "constant")
  /\ Continue(t, << >>)
  /\ UNCHANGED <<cacheVars, counters, stream, once, pending, reply, asked, faults, admin>>

(* read_raw is called, as often as the item takes. *)
StartReading(t) ==
  /\ \/ At(t, "begin") /\ Top(t).do = "cell" /\ once[Top(t).x] = Unset
     \/ At(t, "begin") /\ IsConstantBlock(Top(t)) /\ Top(t).x \notin Refused
     \/ At(t, "missed") /\ Top(t).do = "dir"
     \/ At(t, "missed") /\ Top(t).do = "block" /\ Top(t).x \notin Refused
  /\ Goto(t, "lock")
  /\ UNCHANGED <<cacheVars, counters, stream, once, pending, ok, reply, asked, faults, admin>>

(* Slip: the lock is taken from whoever holds it. *)
LockAnyway(t) ==
  /\ At(t, "lock")
  /\ io' = t
  /\ Goto(t, "seek")
  /\ UNCHANGED <<cacheVars, counters, cursor, once, pending, ok, reply, asked, faults, admin>>

Lock(t) ==
  /\ At(t, "lock")
  /\ io = Nobody
  /\ io' = t
  /\ Goto(t, "seek")
  /\ UNCHANGED <<cacheVars, counters, cursor, once, pending, ok, reply, asked, faults, admin>>

(* Slip: the guard is a temporary of the seek's statement. *)
SeekThenUnlock(t) ==
  /\ At(t, "seek")
  /\ cursor' = Address(Top(t), nth[t])
  /\ io' = Nobody
  /\ Goto(t, "read")
  /\ UNCHANGED <<cacheVars, counters, once, pending, ok, reply, asked, faults, admin>>

Seek(t) ==
  /\ At(t, "seek")
  /\ cursor' = Address(Top(t), nth[t])
  /\ Goto(t, "read")
  /\ UNCHANGED <<cacheVars, counters, io, once, pending, ok, reply, asked, faults, admin>>

(* read_exact, and the end of the scope that held the mutex. *)
Read(t) ==
  /\ At(t, "read")
  /\ Used(t, cursor = Address(Top(t), nth[t]))
  /\ cursor' = Adrift
  /\ io' = Nobody
  /\ IF nth[t] < NReads(Top(t))
     THEN /\ nth' = [nth EXCEPT ![t] = @ + 1]
          /\ pc' = [pc EXCEPT ![t] = "lock"]
          /\ UNCHANGED agenda
     ELSE Goto(t, "decode")
  /\ UNCHANGED <<cacheVars, counters, once, pending, reply, asked, faults, admin>>

(* The stream fails: the guard is dropped on the way out. *)
Fault(t) ==
  /\ At(t, "seek") \/ At(t, "read")
  /\ faults < MaxFaults
  /\ faults' = faults + 1
  /\ cursor' = Adrift
  /\ io' = Nobody
  /\ Return(t, "err")
  /\ UNCHANGED <<cacheVars, counters, once, asked, admin>>

Item(task) == IF task.do = "cell" THEN <<"Cell", task.x>> ELSE KeyOf(task)

(* unzip or a parser refuses the bytes. *)
DecodeFails(t) ==
  /\ At(t, "decode")
  /\ Item(Top(t)) \in Broken
  /\ Return(t, "err")
  /\ UNCHANGED <<cacheVars, counters, stream, once, asked, faults, admin>>

(* Slip: the last thread to parse the cell sets it. *)
SetCellAgain(t) ==
  /\ At(t, "decode") /\ Top(t).do = "cell"
  /\ Item(Top(t)) \notin Broken
  /\ once' = [once EXCEPT ![Top(t).x] = [by |-> t, right |-> ok[t]]]
  /\ Continue(t, << >>)
  /\ UNCHANGED <<cacheVars, counters, stream, pending, ok, reply, asked, faults, admin>>

(* The index or the meta data is parsed.  A racing thread may have set the *)
(* cell first; then this one's value is dropped and the first is used.     *)
SetCell(t) ==
  /\ At(t, "decode") /\ Top(t).do = "cell"
  /\ Item(Top(t)) \notin Broken
  /\ LET c == Top(t).x
     IN  /\ once' = IF once[c] = Unset
                    THEN [once EXCEPT ![c] = [by |-> t, right |-> ok[t]]] ELSE once
         /\ Used(t, once'[c].right)
  /\ Continue(t, << >>)
  /\ UNCHANGED <<cacheVars, counters, stream, pending, reply, asked, faults, admin>>

(* insert_or_get under key k, of what the call has made: what is resident  *)
(* afterwards, or was already, is what the call goes on with.              *)
Store(t, k) ==
  LET v == IF ok[t] THEN k ELSE Junk
  IN  /\ Cache!InsertOrGet(k, v)
      /\ Used(t, Cache!Winner(k, v) = k)

(* A directory or a packed block is decoded and kept. *)
Keep(t) ==
  /\ At(t, "decode") /\ IsLookup(Top(t)) /\ Top(t).keep = "Cached"
  /\ Item(Top(t)) \notin Broken
  /\ Store(t, KeyOf(Top(t)))
  /\ Continue(t, << >>)
  /\ UNCHANGED <<counters, stream, once, pending, reply, asked, faults, admin>>

(* A constant block, or anything read for a derived base, is not. *)
UseAndDrop(t) ==
  /\ At(t, "decode")
  /\ IsConstantBlock(Top(t)) \/ (IsLookup(Top(t)) /\ Top(t).keep = "Transient")
  /\ Item(Top(t)) \notin Broken
  /\ Continue(t, << >>)
  /\ UNCHANGED <<cacheVars, counters, stream, once, pending, ok, reply, asked, faults, admin>>

(* reduced(): read the next larger resolution, then reduce it. *)
Reduce(t) ==
  /\ At(t, "missed") /\ Top(t).do = "reduced"
  /\ LET x == Top(t).x
         keep == Top(t).keep
     IN  Continue(t, DataPlan(Source[x].from, keep) \o << Task("keepReduced", x, keep) >>)
  /\ UNCHANGED <<cacheVars, counters, stream, once, pending, ok, reply, asked, faults, admin>>

(* Slip: a reduction is stored whoever read it. *)
KeepReducedAlways(t) ==
  /\ At(t, "begin") /\ Top(t).do = "keepReduced"
  /\ Store(t, KeyOf(Top(t)))
  /\ Continue(t, << >>)
  /\ UNCHANGED <<counters, stream, once, pending, reply, asked, faults, admin>>

KeepReduced(t) ==
  /\ At(t, "begin") /\ Top(t).do = "keepReduced"
  /\ IF Top(t).keep = "Cached" THEN Store(t, KeyOf(Top(t)))
                               ELSE UNCHANGED <<cacheVars, ok>>
  /\ Continue(t, << >>)
  /\ UNCHANGED <<counters, stream, once, pending, reply, asked, faults, admin>>

(* get_derived after a miss: the levels still to derive, then the store. *)
DerivePlan(x, steps) ==
  [i \in 1..steps |-> Task("derive", x, "Cached")] \o << Task("keepDerived", x, "Cached") >>

ResidentLevels(f, k) == {j \in 0..(k - 1) : Derived(f, j) \in Cache!Resident}

(* Slip: all levels of the chain are probed, those after the one asked for *)
(* too; from such a one there is nothing to derive.                        *)
DeriveFromNearest(t) ==
  /\ At(t, "missed") /\ Top(t).do = "derived"
  /\ LET f == Top(t).x[1]
         k == Top(t).x[2]
         j == Max(ResidentLevels(f, DerivedCount[f]))
     IN  /\ ResidentLevels(f, DerivedCount[f]) # {}
         /\ Used(t, j < k /\ Cache!ValueOf(Derived(f, j)) = Derived(f, j))
         /\ Cache!Get(Derived(f, j))
         /\ Continue(t, DerivePlan(<<f, k>>, IF j < k THEN k - j ELSE 0))
  /\ UNCHANGED <<counters, stream, once, pending, reply, asked, faults, admin>>

(* The deepest ancestor already resident is where the chain starts; the    *)
(* probe promotes it and counts nothing.                                   *)
DeriveFromAncestor(t) ==
  /\ At(t, "missed") /\ Top(t).do = "derived"
  /\ LET f == Top(t).x[1]
         k == Top(t).x[2]
         j == Max(ResidentLevels(f, k))
     IN  /\ ResidentLevels(f, k) # {}
         /\ Used(t, Cache!ValueOf(Derived(f, j)) = Derived(f, j))
         /\ Cache!Get(Derived(f, j))
         /\ Continue(t, DerivePlan(<<f, k>>, k - j))
  /\ UNCHANGED <<counters, stream, once, pending, reply, asked, faults, admin>>

(* Slip: the base is read as any other face is. *)
DeriveFromKeptBase(t) ==
  /\ At(t, "missed") /\ Top(t).do = "derived"
  /\ LET f == Top(t).x[1]
         k == Top(t).x[2]
     IN  /\ ResidentLevels(f, k) = {}
         /\ Continue(t, DataPlan(DerivedBase[f], "Cached") \o DerivePlan(<<f, k>>, k + 1))
  /\ UNCHANGED <<cacheVars, counters, stream, once, pending, ok, reply, asked, faults, admin>>

(* With none resident it starts from the file, read transiently; decoding  *)
(* the base counts as a derivation too.                                    *)
DeriveFromBase(t) ==
  /\ At(t, "missed") /\ Top(t).do = "derived"
  /\ LET f == Top(t).x[1]
         k == Top(t).x[2]
     IN  /\ ResidentLevels(f, k) = {}
         /\ Continue(t, DataPlan(DerivedBase[f], "Transient") \o DerivePlan(<<f, k>>, k + 1))
  /\ UNCHANGED <<cacheVars, counters, stream, once, pending, ok, reply, asked, faults, admin>>

Derive(t) ==
  /\ At(t, "begin") /\ Top(t).do = "derive"
  /\ derives' = derives + 1
  /\ Continue(t, << >>)
  /\ UNCHANGED <<cacheVars, hits, misses, stream, once, pending, ok, reply, asked, faults, admin>>

KeepDerived(t) ==
  /\ At(t, "begin") /\ Top(t).do = "keepDerived"
  /\ Store(t, KeyOf(Top(t)))
  /\ Continue(t, << >>)
  /\ UNCHANGED <<counters, stream, once, pending, reply, asked, faults, admin>>

-----------------------------------------------------------------------------
(* Cache administration, from any thread at any time. *)

ClearCache ==
  /\ admin < MaxAdmin
  /\ admin' = admin + 1
  /\ Cache!Clear
  /\ UNCHANGED <<counters, stream, once, thread, faults>>

SetCacheBudget(b) ==
  /\ admin < MaxAdmin
  /\ admin' = admin + 1
  /\ Cache!SetBudget(b)
  /\ UNCHANGED <<counters, stream, once, thread, faults>>

-----------------------------------------------------------------------------
Init ==
  /\ Cache!Init
  /\ hits = 0 /\ misses = 0 /\ derives = 0
  /\ io = Nobody /\ cursor = Adrift
  /\ once = [c \in Cell |-> Unset]
  /\ pending = [t \in Thread |-> None]
  /\ agenda = [t \in Thread |-> << >>]
  /\ pc = [t \in Thread |-> "begin"]
  /\ nth = [t \in Thread |-> 1]
  /\ ok = [t \in Thread |-> TRUE]
  /\ reply = [t \in Thread |-> None]
  /\ asked = [t \in Thread |-> 0]
  /\ faults = 0 /\ admin = 0

(* What a thread does inside a call, the stream's failures left out. *)
Step(t) ==
  \/ Answer(t) \/ Refuse(t)
  \/ LookupHit(t) \/ LookupMiss(t) \/ CountHit(t) \/ CountMiss(t)
  \/ CellReady(t) \/ UseConstantData(t) \/ StartReading(t) \/ Lock(t) \/ Seek(t) \/ Read(t)
  \/ DecodeFails(t) \/ SetCell(t) \/ Keep(t) \/ UseAndDrop(t)
  \/ Reduce(t) \/ KeepReduced(t)
  \/ DeriveFromAncestor(t) \/ DeriveFromBase(t) \/ Derive(t) \/ KeepDerived(t)

(* Every thread has made all its calls: nothing is left to do. *)
AllDone ==
  /\ \A t \in Thread : pending[t] = None /\ asked[t] = MaxRequests
  /\ UNCHANGED vars

Next ==
  \/ \E t \in Thread : Step(t) \/ Fault(t) \/ \E r \in Request : Ask(t, r)
  \/ ClearCache
  \/ \E b \in Budgets : SetCacheBudget(b)
  \/ AllDone

(* A thread that can take a step eventually does: nothing in a call waits  *)
(* for anything but the stream's mutex.                                    *)
Fairness == \A t \in Thread : WF_vars(Step(t))

Spec == Init /\ [][Next]_vars /\ Fairness

-----------------------------------------------------------------------------
(* One type invariant: agendas hold items that make sense where the thread *)
(* is, and a lookup's key is a key of the cache.                           *)
TypeOK ==
  /\ Cache!TypeOK
  /\ hits \in Nat /\ misses \in Nat /\ derives \in Nat
  /\ io \in Thread \cup {Nobody}
  /\ \A c \in Cell : once[c] = Unset \/ (once[c].by \in Thread /\ once[c].right \in BOOLEAN)
  /\ \A t \in Thread :
       /\ pending[t] \in Request \cup {None}
       /\ ok[t] \in BOOLEAN
       /\ \A i \in DOMAIN agenda[t] : IsLookup(agenda[t][i]) => KeyOf(agenda[t][i]) \in CacheKey
       /\ agenda[t] # << >> /\ pc[t] # "begin" => IsLookup(Top(t)) \/ nth[t] <= NReads(Top(t))

(* The shared stream belongs to one thread between its seek and its read:  *)
(* the thread about to read holds the mutex, and the cursor is where that  *)
(* thread put it (read_raw, cache.rs:1033-1041).                           *)
StreamExclusive ==
  \A t \in Thread :
    /\ pc[t] \in {"seek", "read"} <=> io = t
    /\ pc[t] = "read" => cursor = Address(Top(t), nth[t])

(* Whatever interleaving of misses, racing insertions, evictions, clears   *)
(* and failing reads, a resident entry is the decoding of the bytes its    *)
(* key names, and so is an initialised cell; a failed or misdirected read  *)
(* leaves nothing behind that a later call would be served.                *)
CacheCoherent ==
  /\ \A i \in DOMAIN lru : lru[i].value = lru[i].key /\ lru[i].key \notin Broken
  /\ \A c \in Cell : once[c] # Unset => once[c].right

(* Both: what the threads hold is well-formed, and what is shared is right.*)
Coherent == TypeOK /\ CacheCoherent

(* The statistics, read at any moment under the pixel mutex, add up:       *)
(* whatever was inserted, evicted or refused was counted as a miss before, *)
(* and every resident derived level as a derivation (cache_stats,          *)
(* cache.rs:571-585; the counters are added to outside the mutex).         *)
StatsCovered ==
  /\ Len(lru) + evictions + oversized <= misses
  /\ derivedEntries <= derives

(* The textures a read of x passes through: x and, while it is on a        *)
(* reduction, what that is reduced from.                                   *)
Closed(S) == \A y \in S : Source[y].route = "reduced" => Source[y].from \in S
Lineage ==
  [x \in Texture |->
     {y \in Texture : \A S \in SUBSET Texture : x \in S /\ Closed(S) => y \in S}]

(* What reading a texture may leave in the cache, of itself and in all,    *)
(* and what a call may leave.                                              *)
OwnFootprint(x) ==
  LET s == Source[x]
  IN  CASE s.route \in {"constant", "none"} -> {}
        [] s.route = "stored" /\ Encoding[s.pos] = "tiled" ->
             {TileDir(s.pos)} \cup {Block(Tiles[s.pos][i]) : i \in DOMAIN Tiles[s.pos]}
        [] s.route = "stored" /\ Encoding[s.pos] # "tiled" -> {Block(s.pos)}
        [] s.route = "reduced" -> {Reduced(x)}

DataFootprint == [x \in Texture |-> UNION {OwnFootprint(y) : y \in Lineage[x]}]

Footprint(r) ==
  CASE r.api \in {"data", "tile", "pixel"} -> DataFootprint[r.of]
    [] r.api \in {"layout", "info"} ->
         IF IsTiled(r.of) THEN {TileDir(Source[r.of].pos)} ELSE {}
    [] r.api = "derived" -> {Derived(r.of, r.level)}
    [] r.api = "metadata" -> {}

(* A step adds to the cache only what the call it belongs to asked for: a  *)
(* derived level leaves itself and none of its base, its ancestors or the  *)
(* directories and reductions read on the way, whatever other calls may    *)
(* keep (get_derived's doc, cache.rs:943-949 and 992-1000).                *)
OnlyAskedIsKept ==
  [][\A k \in Cache!Resident' \ Cache!Resident :
       \E t \in Thread : /\ agenda'[t] # agenda[t]
                         /\ pending[t] # None
                         /\ k \in Footprint(pending[t])]_vars

(* A level index or the meta data, once handed out by reference, is never  *)
(* replaced: of two threads that both parsed it the second drops its own   *)
(* (cache.rs:540, 1076-1080).                                              *)
FirstCellStays ==
  [][\A c \in Cell : once[c] # Unset => once'[c] = once[c]]_vars

(* A call that returns pixels returns those the file holds for the texels  *)
(* asked for: every entry point goes through resolve so that "the tile     *)
(* API, the whole-face API and the single-texel API can never disagree     *)
(* about where data lives" (file_info.rs:20-22), and a stored constant     *)
(* block's pixels "must come from the block, not from the file's           *)
(* constant-data block" (src/tests/synthetic.rs).                          *)
PixelsAreTheFaces ==
  \A t \in Thread : reply[t] # None => reply[t].val # "junk"

(* That disagreement is the only one: pixels that are not the face's were  *)
(* asked of get_pixel, of a face whose block is constant while the face is *)
(* not flagged so.  No interleaving of the reads, evictions, clears and    *)
(* failures of any threads makes another (cache.rs:8-15).                  *)
Misrouted(r) ==
  r.api = "pixel" /\ LaidOutConstant(r.of) /\ Source[r.of].route # "constant"

WrongOnlyByLayout ==
  \A t \in Thread :
    reply[t] # None /\ reply[t].val = "junk" => Misrouted(reply[t].to)

(* The cache of the reader is a PixelCache: every step of every thread     *)
(* either leaves it alone or is one of its methods.                        *)
CacheSpec == Cache!Spec

(* What the file alone decides: whether a block decodes, a texture's own   *)
(* level and directory parse, its own bytes decode, and those of every     *)
(* texture it is reduced from.                                             *)
BlockReads(p) == p \notin Refused /\ Block(p) \notin Broken

IndexReads(x) ==
  Source[x].route = "stored" =>
    /\ <<"Cell", Source[x].level>> \notin Broken
    /\ IsTiled(x) => TileDir(Source[x].pos) \notin Broken

OwnReads(x) ==
  LET s == Source[x]
  IN  /\ s.route # "none"
      /\ IndexReads(x)
      /\ s.route = "stored" =>
           IF IsTiled(x) THEN \A i \in DOMAIN Tiles[s.pos] : BlockReads(Tiles[s.pos][i])
                         ELSE BlockReads(s.pos)

DataReads == [x \in Texture |-> \A y \in Lineage[x] : OwnReads(y)]

LayoutReads(x) == Source[x].route # "none" /\ IndexReads(x)

TileReads(x, i) ==
  /\ LayoutReads(x)
  /\ HasTile(x, i)
  /\ IF IsTiled(x) THEN BlockReads(Tiles[Source[x].pos][i]) ELSE DataReads[x]

Readable(r) ==
  CASE r.api = "data" -> DataReads[r.of]
    [] r.api = "layout" -> LayoutReads(r.of)
    [] r.api = "info" -> LayoutReads(r.of) /\ HasTile(r.of, r.tile)
    [] r.api = "tile" -> TileReads(r.of, r.tile)
    [] r.api = "pixel" ->
         IF LaidOutConstant(r.of) THEN LayoutReads(r.of) ELSE TileReads(r.of, r.tile)
    [] r.api = "derived" -> r.level < DerivedCount[r.of] /\ DataReads[DerivedBase[r.of]]
    [] r.api = "metadata" -> <<"Cell", "metadata">> \notin Broken

(* A call has one outcome; a failing stream may turn it into an error.     *)
Outcomes ==
  [r \in Request |->
     {CASE ~Readable(r) -> "err" [] Readable(r) /\ Misrouted(r) -> "junk" [] OTHER -> "pixels"}
       \cup (IF MaxFaults > 0 THEN {"err"} ELSE {})]

Service == INSTANCE ReadService

(* Every call returns (as long as threads are scheduled), with the file's  *)
(* pixels, or with an error if the bytes it needs are to blame for one:    *)
(* never because of what other threads, the cache or its administration    *)
(* were doing (cache.rs:8-15; get_data_at_res, 615-620).                   *)
ServiceSpec == Service!Spec

(* Its safety half: whatever a call returns is an outcome it may have.     *)
(* Whether a call fails is decided by the file and the stream alone, and   *)
(* pixels are the face's, get_pixel's of an unflagged constant excepted.   *)
ServiceSafety == Service!Init /\ [][Service!Next]_Service!vars
=============================================================================
