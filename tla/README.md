# A verification project for ptex-rs

`ptex-rs` reads Ptex texture files: per-face textures stored as mipmap levels
of compressed blocks. This directory holds TLA+ models of the parts of it that
are hard to test, the TLC runs that check them on small instances, and TLAPS
proofs of what matters most for every instance. Paths below are relative to
the repository (`src/cache.rs` is `src/src/cache.rs` in `PROJECT.json`).

## 1. Inventory

| Part | State | Operations | Interacts with |
|---|---|---|---|
| `PixelCache` (`cache.rs` 219-317) | LRU list, accounted bytes, budget, counters, a second book for derived entries | get, insert_or_get, clear, set_budget | owned by `SharedReader` behind a mutex |
| `SharedReader` (`cache.rs` 331-1320) | stream (mutex), pixel cache (mutex), once-cells of level indexes and meta data, atomic counters, the host's derived chain | get_data*, get_tile*, get_pixel, tile_layout, tile_info, get_derived, metadata, clear_cache, set_cache_budget, cache_stats | any number of threads through clones; `FileInfo::resolve` for routing; the host through `DerivedLevels` |
| `FileInfo` (`file_info.rs`) | header, face table, level table; constant after opening | read; resolve, reduction_source, is_res_stored, level helpers | both readers |
| `DerivedLevels` (`cache.rs` 89-127, 895-1003) | the host's chain, installed once for all clones | with_derived, base_res, decode, derive | called back by `SharedReader` outside its locks |
| `PtexReader` (`reader.rs`) | stream, level indexes, meta data, a short move-to-front list of tile directories | the same reading API, single-threaded | `FileInfo`, `decode` |
| `decode` | none | inflate, level offsets, tile directories, blocks, one reduction step | both readers |
| `utils` | none | de-interleaving, difference decoding, premultiplying, reduction kernels, reduced face ids | `decode`, `FileInfo::read` |
| `metadata` | a map of entries | parse_block, add_entry, typed getters | both readers |
| `tile`, `types`, `format`, `error`, `lib` | none | geometry, plain data, byte layouts | everything |

What is hard here is concurrency and bounds: nothing is locked between two
statements that touch shared state, duplicate work by racing threads is
deliberate (`cache.rs` 8-15), failures may occur with a lock held, the cache is
bounded by bytes and accounted by hand, and requests for resolutions that are
not stored recurse. What must be right, per component:

- **PixelCache**: one entry per key; exact books; never over budget; evicts the
  least recently used, and no more than needed; never replaces what it has
  handed out.
- **SharedReader**: the stream belongs to one thread between seek and read;
  what is cached is what the file holds, whatever raced, failed or was cleared;
  each call returns, with an answer that does not depend on the others; the
  statistics add up; a derived level leaves nothing else behind.
- **FileInfo routing**: reductions end, never pass an unsupported resolution,
  and the routing and the queries about it agree.
- **PtexReader**: the same pixels as `SharedReader`; its directory cache
  returns the directory of the block asked for at any capacity.
- **Derived chains**: one host answers for a reader's derived levels, whoever
  installed it and whenever.
- **FileInfo::read**: every section is looked for where the writer put it,
  whatever the extended header's length; edits are noticed, and nothing else
  is taken for one; faces are ranked as the levels expect.
- **decode**: the index of a level and the directory of a tiled block are those
  of the format, large faces included.
- **utils, types**: differences wrap as the writer's did; each texel and channel
  comes to its place; premultiplied pixels are not brighter than their alpha;
  reductions take each texel from its own part of the face, triangles included.
- **metadata**: the parser stays in its buffer, ends, and gives what was written.

`PROJECT.json` lists the hazards with the line where each bites and the
properties that would catch it.

## 2. Modules

| Module | Models | Composition |
|---|---|---|
| `PixelCache` | struct `PixelCache`; each method is an action | - |
| `CacheHistory` | the same, with times of last use and entries observed on the side | EXTENDS `PixelCache` |
| `MCPixelCache` | small instance | EXTENDS `CacheHistory` |
| `PixelCacheProofs` | proofs about `PixelCache`: its invariants, what its steps may do, its history | EXTENDS `CacheHistory` |
| `SharedReader` | the reader and its threads | INSTANCE `PixelCache` over its own keys, INSTANCE `ReadService` |
| `SharedReaderProofs` | proofs about `SharedReader` | EXTENDS `SharedReader`, INSTANCE `PixelCacheProofs` |
| `ReadService` | what a reader promises, without cache, stream or locks | abstract specification of both readers |
| `MCSharedReader` | a small file and two threads | EXTENDS `SharedReader` |
| `FaceGeometry` | tiles, strides and buffers as arithmetic | - |
| `PlainReader` | `PtexReader`, texels included | EXTENDS `FaceGeometry`, INSTANCE `ReadService` |
| `DirectoryHistory` | the same, with the order directories are used in observed on the side | EXTENDS `PlainReader` |
| `MCPlainReader` | a small quad file | EXTENDS `DirectoryHistory` |
| `PlainReaderProofs` | proofs about `PlainReader` | EXTENDS `DirectoryHistory` |
| `Resolution` | routing and the chain of reductions | - |
| `MCResolution`, `ResolutionProofs` | faces up to 8x8; proofs | EXTENDS `Resolution` |
| `DerivedChain` | installing a host's chain, and deriving its levels, on clones of a reader | INSTANCE `PixelCache` |
| `MCDerivedChain`, `DerivedChainProofs` | two threads and two chains; proofs | EXTENDS `DerivedChain` |
| `BlockIndex` | where the blocks of a level and the tiles of a face are | - |
| `MCBlockIndex`, `BlockIndexProofs` | levels of four faces; proofs | EXTENDS `BlockIndex` |
| `HalfFloat`, `PixelMath` | half-precision conversion; single-precision products | `PixelMath` EXTENDS `HalfFloat` |
| `BlockDecode` | from inflated bytes to pixels | EXTENDS `PixelMath` |
| `ReduceKernels` | the reduction kernels, on faces of quad and triangle meshes | - |
| `FaceData`, `MCFaceData` | a block is decoded and its pixels reduced | EXTENDS `BlockDecode`, INSTANCE `ReduceKernels` |
| `FaceDataProofs` | proofs about all three | EXTENDS `FaceData` |
| `FileOpen` | `FileInfo::read` | - |
| `MetaData` | meta data parsing in both readers | - |
| `FileReading` | a file is opened, then its meta data read | EXTENDS `FileOpen`, INSTANCE `MetaData` |
| `MCFileReading`, `FileReadingProofs` | small files and buffers; proofs | EXTENDS `FileReading` |

### PixelCache

Variables are the struct's fields under their names (`derived_entries` is
`derivedEntries`). The `lru` crate is external: its list is a sequence from the
least to the most recently used entry, `get` moves to the end, `pop_lru` takes
the front. All methods run under the pixel mutex and do not fail, so each is
one action. `insert_or_get` has three outcomes (`InsertLost`,
`InsertOversized`, `InsertNew`); its eviction loop is the operator `Pops`, the
least number of entries whose removal makes the loop's condition false.
`account` is applied once per entry in the code and as sums over the entries
leaving and entering in the model. Keys and values are opaque; a value has a
size, never zero because `size()` adds an overhead. A `get` that misses changes
nothing and is not an action.

Operators under a comment that begins "Slip" (here and in the other modules)
are not part of the model. They are plausible mistakes that show the
properties would notice them; `PROJECT.json` pairs each property with one.

### SharedReader

A thread's call is a stack of items still to do, its `agenda`, written down by
`Plan` from the code of each entry point: look up a level's index, take a tile
directory, take a block, reduce, derive, store. `pc` says where in the first
item the thread is, and every access to shared state is an action: the lookup
(`LookupHit`, `LookupMiss`), the counter that is bumped after the mutex is
released (`CountHit`, `CountMiss`), taking the stream's mutex, the seek, the
read, the insertion (`Keep`, `KeepReduced`, `KeepDerived`), setting a once-cell
(`SetCell`), and the probe for a derived ancestor (`DeriveFromAncestor`). A
reduction replaces itself on the agenda by the plan of its source followed by
the store, which is how the recursion of `reduced()` through `data_at_res`
appears. `keep` distinguishes public reads from the transient reads of a
derived base, which neither count nor store.

Data is abstracted to what the properties tell apart. A cached value stands
for the key whose bytes it was decoded from, or is `Junk`; `ok` records whether
every byte a call used came from the address it meant. A read takes whatever
the stream's `cursor` is at, so a lost lock or a misplaced seek shows as junk.
The file is given by constants: where `resolve` finds each texture (`Source`),
the encoding of each block position, the tiles of a tiled block, how many raw
reads fill a cell, which blocks a header rules out and which bytes do not
decode. Decoding failures between two reads of one item are taken after the
last of them, the outcome of the call being the same. Argument checks that
touch no shared state (a buffer too small, a texel out of range, no channels
asked for) are left out, as are the `_into` variants, which read exactly as
their allocating counterparts do and differ in where the bytes go. A panic
while a mutex is held is not modelled.

### PlainReader

`PtexReader`'s methods take `&mut self`, so calls do not interleave; what
matters is the state one call leaves for the next: `levels`, `tile_cache` with
`tile_cache_cap`, and `metadata`, under their names. A call is a stack of
tasks, `work`, written down by `Plan` from the code of its entry point, and a
stack of buffers, `bufs`, because `packed_face_data` and `texel_from_block`
allocate their own. Each task is one helper of the code and one action:
`EnsureLevel`, `TileDirHit` or `TileDirMiss` (the move to the front, the
insertion and the truncation are part of it), `CheckBuffer`, `CheckTile`,
`ReadBlock`, `Fill`, `Reduce`. `PackedFaceData` puts the plan of the source of a
reduction in its own place, and `Tiles` is one iteration of `get_data_into`'s
loop over tiles at a time. Tasks that depend on the directory (`Tiles`,
`TexelOfTile`, the tile's resolution and position) use the first entry of the
list, as `tile_dir` does, not the directory they asked for. Any task that reads
the stream may fail instead (`Fault`); a helper stores only when all its reads
are done, so where in it the failure is makes no difference.

Texels are modelled: a texel is the block it was decoded from and its place
there, or the mean of two others. Buffers are functions from offsets, written
at the offsets `FaceGeometry` computes, so a write outside its place is seen,
and one past the end is the outcome "panic", which no specification allows.
`Expected` says what a call must return, from the file's own definition: a
tile holds the texels of its rectangle, tiles being numbered row by row.
`Possible` says whether it must return that: the buffer is wide and long
enough, the texel or tile exists, and all the file needs to be read for, but no
more than that, can be read. A call that is not possible must be refused, and
any may report a failed read; that is `Outcomes`, with which `Service`
instantiates `ReadService`.

`FileAssumption` is about the faces met: sides are at most 2^31, as far as
`Res::u` shifts before it wraps (which nothing in the code checks); where `resolve` says a face is, there is one; a
reduction halves one side, as in meshes of quads; and a directory has passed
`parse_tile_header` and `parse_tile_dir` (`IsTiling`). `RequestAssumption` gives
requests their types.
Premultiplication, meshes of triangles (another reduction kernel) and the
selection of channels are left out.

### Resolution

One behaviour is one request followed along its chain of reductions: `Recurse`
is the step from a resolution that `resolve` reports as `Reduced` to
`reduction_source`'s. The face's resolution, mesh type, flags and the levels
that hold it are arbitrary. Subtraction of `i8` wraps, as in a release build.
A face resolution is assumed not negative: negative logarithms are reserved
(`types.rs` 246), and the code does not check those of a file.

### DerivedChain

`derived` is the once-cell that clones of a reader share; a thread's call is
`call`, `pc` says where in `get_derived` it is, and `base`, `level` and `data`
are its locals. An action is a lock, or a call of the host: `FindChain` and
`AskBase` (`derived()` and `base_res`), `Lookup`, `Probe` for the deepest
resident ancestor, `DecodeBase`, one `Derive` per level, `Store`. Pixels say
which hosts had a hand in them and whether each was told the right parent
resolution. Reading the base from the file is one step that may fail;
`SharedReader` takes it apart.

### BlockIndex

One behaviour builds one index with the locals of the code under their names
(`large_faces` is `largeFaces`): the pass that places the blocks, the pass that
shifts them past the table of large faces and past each large face, or the
directory of a tiled block. An iteration of a loop is an action, and the
outcomes are values of `pc`. `Modulus` stands for 2^64, at which positions
wrap in a release build.

### BlockDecode, ReduceKernels, FaceData

`BlockDecode` follows `decode_packed` and `decode_constant`: inflate, undo the
differences element by element, interleave, multiply by alpha. What the file
holds (`Stored`) is what the Ptex writer makes of an image, so that the result
can be compared with the image. A difference is taken from the element before
it in the whole block, across the ends of rows and of channel planes, as
`decode_difference` (`utils.rs` 131-152) undoes it; the comment of
`Encoding::DiffZipped`, "delta-encoded along each row" (`format.rs` 169), is read
as naming the direction, not as a new start at each row. Little-endian bytes are put together and taken
apart alike throughout, so elements are numbers of the type's width. The f32
products of `multalpha` are computed to the last bit (`PixelMath`: 24-bit
significands, ties to even), and for half pixels the conversions there and
back (`HalfFloat`, branch by branch as in `types.rs` 419-484).

`ReduceKernels` gives each texel the set of the author's cells it was made of,
beside its value, so that "the mean of its own part of the face" can be stated
without recomputing it. A triangular face is packed into a square; `CellsUnder`
says, in the geometry of the triangle, which packed cells a texel stands for.
Averages are those of integers.

The comment at `utils.rs` 453-457 calls texel `(w-1-u, w-1-v)` the fourth of a
block's; the code takes row `w-1-2u`, column `w-1-2v`, with the axes swapped.
The code is what the packing needs: the comment's reading is the slip
`MirrorAcross`, and `TexelCoversItsPlace` refutes it. The documentation of
`float_to_half` (`types.rs` 449-450) promises rounding half up; for subnormal
results the addition of 0.5 in f32 (476) rounds on its own, so that the float
just below half of the smallest half becomes that half. `RoundedSum` models
what the code does.

### FileOpen, MetaData, FileReading

A file is its header's fields and the lengths of its sections, and how much of
it there is: it may be cut at any byte. A read takes a range, and finds a
section only if the range is that section's. `pos` is what the code computes;
the extended header may be shorter than what is known (missing fields are
zero) or longer. `WellFormed` is what a writer keeps to, and the assumption
about the files met: sections have a length, and an extended header too short
for a field comes without what the field would be about. `GenRfaceids` states the stable sort of `gen_rfaceids` as the
one order that is sorted and stable.

`MetaData` parses a buffer of bytes with digits below `Radix`, sizes being four
digits. An access out of bounds yields `Panic`, which the parser's guards must
make impossible. Intact buffers, buffers cut at any byte, and buffers with any
one byte altered are met. Of the large entries the blocks are found by running
sums, and a zip block inflates only at its own start and to its own size.

## 3. Runs

| Run | What it shows | Bounds and why they suffice |
|---|---|---|
| `pixel_cache` | books, budget, recency, evictions | 4 keys (1 derived), sizes 1, 2 and 4, budgets 0, 3 and 5, `MaxOps` = 6 calls: an insertion can evict none, one, two or all entries, be refused, or find its key resident |
| `tiles` | stream, cells and cache stay coherent; the answers are `ReadService`'s with a failing stream, too | 2 threads, one call each on a tiled face (whole, or one tile) or a texel of a face whose block is constant, one stream fault, one clear or budget change: every pair of accesses interleaves |
| `derived` | a derived level leaves only itself, and is right whatever is inserted, evicted or cleared between its miss, its probe and its store; statistics add up | 2 threads, 2 calls each, of a reduction, a derived level on a reduced base and one on a tiled base; a budget of 3, which any two entries exceed and the finest derived level exceeds alone; one clear or budget change |
| `service` | refinement of `ReadService`, liveness included | every entry point and every kind of unreadable face, one call per thread, one administration call |
| `lone_constant` | expected violation, see below | one call |
| `plain_answers` | refinement of `ReadService` with exact answers, liveness included | 2 calls, each any of the requests in `EveryRequest`, one failing read, one change of capacity: what one call leaves is met by each other call; faces with 4x2, 1x2 and 1x4 tiles tell rows from columns |
| `plain_directories` | the directory list; partly written buffers | 4 calls over 3 directories, a list of 2 entries, 2 changes of capacity to 0, 1 or 2, one failing read |
| `derived_chain` | one host answers; calls return | 2 threads, 2 calls each, 2 chains of different resolutions for one face of 4x2 texels, 3 levels; budgets from less than a level to all of them; one failing read, one administration call |
| `block_index` | blocks adjacent; the table long enough; only whole directories | levels of up to 4 faces and directories of up to 4 tiles, sizes 0, 3 and large; positions wrap at 40, which the sizes in a table reach |
| `file_reading` | section positions, edits, ranks of faces; meta data parsing, liveness included | extended headers of 0, 8, 24, 40 and 48 bytes around the known 40, six kinds of edits, files cut at every byte; tables of 3 faces of 12 kinds; meta data of up to 2 entries, keys of 0 to 2 letters, values up to two digits long, `Radix` = 8 |
| `face_data` | decoding, premultiplication, reduction | every pair of an 8-bit colour and alpha, every 16-bit alpha with three colours, every finite half at alpha 1.0; images of 2x3 pixels and 3 channels; faces up to 8x8 (quads) and 16x16 (triangles), all 2x2, 4x1 and 1x4 faces with values from the ends of a byte |
| `resolution` | routing and reduction chains | faces up to 8x8, files of up to 3 levels with every combination of levels holding the face, requests from -128 to 127 |

`MaxRequests`, `MaxFaults` and `MaxAdmin` bound the calls of a thread, the
failures of the stream and the administration calls. Two threads suffice for
the races the code talks about, all of which are between a thread and one other
access; `AllDone` stutters when every call is made, so deadlock is checked in
the runs of `SharedReader`, `PlainReader` and `DerivedChain`. The others follow
one index, block, file or chain to its end, or `MCPixelCache` to its bound, and
turn the deadlock check off.

The stream does not fail in `service`: with `MaxFaults` above zero an error is
an allowed outcome of every call, so `ServiceSafety` of `tiles` says which
pixels a call may return, and only `service` that it errs exactly when the file
makes it. Faults are in `tiles` and `derived_chain`.

Some properties are conjunctions of named parts: `BooksKept`, `Coherent`,
`ChainIsSound`, `BuffersHold` and `IndexHolds`; the first four include their
module's `TypeOK`.

**Fairness.** Each thread's `Step` is weakly fair: the operating system runs
every thread, and a call never waits for anything but the stream's mutex. The
mutex is not assumed to be fair. As requests are bounded, weak fairness is
enough for a waiting thread to get it: the others run out of calls. In
`Resolution`, `Recurse` is weakly fair: a running thread keeps running; for the
same reason `Step` of `PlainReader` and of `DerivedChain`, where nothing waits,
and `ReadNext` of `FileReading`, which runs in one thread, are. Failing reads are fair nowhere.

**Finding.** `lone_constant` shows that `SharedReader::get_pixel` (`cache.rs`
728) serves a face whose stored block has the constant encoding, without the
face being flagged constant, from the file's constant-data block. All other
entry points, and `PtexReader`, read the block. `file_info.rs` 20-22 says the
entry points can never disagree, and `tests/synthetic.rs` 118-119 that the
pixels must come from the block.

## 4. Proofs

A theorem holds for every value of the constants that satisfies the
assumptions of its module (named in each, and evaluated by TLC in every run).
`PROJECT.json` lists the theorems and the property each states.

### PixelCacheProofs

For all keys, values, sizes and budgets every reachable cache satisfies

    IInv == TypeOK /\ UniqueKeys /\ Accounted /\ WithinBudget

(`Invariance`; its parts are `BooksExact` and `BudgetHolds`). None of the parts
is inductive alone. That no subtraction of the books goes below zero (`TypeOK`)
needs `Accounted`; that the eviction loop ends within budget (`WithinBudget`)
needs `Accounted`, because when everything has been popped the book must read
zero; and `Accounted` needs the types.

The books are sums over a sequence, computed by a recursive function. The
lemmas about them (`TotalConcat`, `TotalOne`, `MoveToEnd`) rest on
`NatSetInduction`, induction over a set of numbers, derived there from the
well-foundedness of strict inclusion of finite sets, and on `LeastNatural` for
the eviction loop. Assumed are that derived keys are keys, sizes positive and
budgets natural numbers.

What operations may do follows from `IInv`: `FirstValueStays` (a resident key
keeps its value), `EvictionOrder` (what goes was less recently used than all
that stays) and `EvictionMinimal` (one entry fewer evicted would leave the
cache over budget). Each action is followed to the prefix of the list it drops:
`Pops` is the least number whose removal makes the rest fit, so one fewer does
not.

`EvictionOrder` is about places in the list; `ListIsByLastUse` ties them to
time: of `CacheHistory` it proves that the list is in the order of last use. It
needs that no key was used later than the clock says, so that what moves to the
end goes after all others. `EntriesAreAccountedFor` proves that every entry
that entered is resident, evicted or cleared.

### SharedReaderProofs

For any threads, file, calls, failures and administration. The invariant is

    IInv == StreamInv /\ CacheInv /\ OnceInv /\ CountInv /\ \A t : CallInv(t)

`StreamInv` gives `StreamIsExclusive`: whoever is at its seek or read holds the
stream's mutex, and the cursor of a thread about to read is where that thread
put it. It says besides that a thread past "begin" is in a call and still has
the item it works on, which keeps the address compared with the cursor the one
the thread sought. `CacheInv` is `PixelCacheProofs`' `IInv` and that each entry
is of a key some call asked to keep (is in its footprint), decodes, and holds
that key's own bytes. `CallInv` types a thread's agenda: each item is one the
plans of the code produce for the thread's call, the first is in a state `pc`
and `nth` allow, keys to be kept are in the call's footprint, and `ok` is false
only in `get_pixel` of a misrouted face. That every plan, and
what a reduction or a derivation replaces itself by, is such an agenda takes up
a good part of the module; the footprint of a reduced face is closed under
`from` (`Lineage`), so that no induction over chains is needed. From `IInv`
follow

- `ReaderIsCoherent` and `CellsAreSetOnce`;
- `NothingUnaskedIsKept`, an action property: what a step adds to the cache is
  in the footprint of the call it belongs to, so what one call may keep does not
  excuse another. A lookup or a removal adds no key, because a list of entries
  with keys in a set stays one under both (`GettingAddsNothing`,
  `RemovingAddsNothing`), and a store adds the key of its item at most
  (`StoringAddsItsOwn`);
- `ThreadsNeverMixPixels`: what reads a wrong address is a call that
  `lone_constant` reports, and no other, whatever the interleaving;
- `ReaderUsesPixelCache`: under the identity mapping of the cache's variables,
  every step of every thread is a step of `PixelCache` or leaves it alone, so
  all theorems about `PixelCache` hold of the cache in the reader. It is proved
  only: each action is built from a method of `PixelCache` or leaves the cache
  alone, and a run would add nothing.

`StatisticsAddUp` needs its own argument, because counters are added to after
the mutex is released. A thread that counted a miss and has yet to insert has a
credit, one for each item of its agenda that will store (`Owing`). Insertions,
evictions and refusals booked so far, plus credits, are at most `misses`
(`CreditInv`); a call that fails forfeits its credits, which is why the
statistics are bounds and not equations. `ReadyInv` says the same of derived
entries and `derives`.

`ReaderServes` is the refinement of `ReadService`, safety half: every step of
every thread is a step of the service or leaves what it shows alone, so an
answer is the face's own (or, in the finding's case alone, the constant
block's) if the face can be read, and an error if it cannot, or where the
stream may fail. `AnswerInv` says of a call under way that what is left of
its agenda reads (every item decodes) if and only if the request does. A step
keeps that because it drops an item that reads, or replaces one by others that
read together exactly when it does: a reduced texture reads if and only if its
source does (`LineageReads`), a tiled block if its directory and tiles do. A
store is never the first item that cannot be done (`StoresFollow`), so that no
call fails after the last of its reads. What lies in the cache or in a once-cell was
read and decoded (`Sound`, `CellsRead`), which is why a hit may answer for a
read.

Assumed: `Nobody` is no thread and `None` no request; tables of tiles, cells
and derived levels are over the blocks and cells the file has; requests are
over its faces; sizes are positive. The assumptions only give the constants
their types, and nothing about which block lies where.

### PlainReaderProofs

`DirectoriesSound`: whatever is asked, fails or is resized, for any file, each
directory kept is the one of the block it is listed under, is kept once, and
the list is within a capacity of at least one. The invariant adds that the list
is a sequence; the lemmas say what `truncate`, `insert(0, e)` and the move to
the front do to a sequence. `DirectoriesAreRecent` proves of `DirectoryHistory`
that the list is in order of last use and that what is missing from it was used
before all it holds. Its invariant relates the list to the relation "last
looked up after" and to the lowest capacity there has been, which bounds what
was ever cut off.

`BuffersAreRight` and `PlainReaderServes` are about what a call writes and
returns: for any file, requests, capacities and failing reads, the outermost
buffer has right texels where it has been written, at any moment of the call,
and every call is answered with exactly what the file's pixels and tiling make
its answer, or
refused where the request or the file is to blame, or fails with the stream.
The second is the refinement of `ReadService`, safety half, and has "panic"
among the outcomes that do not occur.

The invariant they need, `BInv`, names the places a call can be at, by the
tasks it has left (`Busy`): about to check its buffer (`Starting`), before or
between the tiles of a face (`Tiling0`, `Tiling1`), with the directory of `x`
still to be fetched before `w` is done (`Awaiting`, `Behind`), and so on. With
each place goes what the buffers hold there. `Sketch` is a buffer drawn in part,
`Through` one drawn as far as tile `i`, `Finished` one drawn, and `Face` is the
stack of buffers of a chain of reductions, each to be made into the next. It
also says what has been found readable so far (`ReadsTo`, `Ready`): a face that
is drawn is one that can be (`Whole`), and a call that is refused at a block or
a directory needed it (`NeededIndex`, `BlockRefused`, `TileRefused`). A call
goes on to a place of its plan whatever step is taken; that is one lemma for
each task (`FillWay`, `TilesWay`, `HitWay`...), which concludes `Onward`: the
call is at another place and the host has seen nothing, or it has returned one
of its outcomes.

The geometry under it: drawing an image at the rectangle it shows writes the
right texels and no others, gaps between rows included (`Drawing`, `Painting`);
the tiles of a face are disjoint and fill it (`TileOfPlace`, `ThroughNext`,
`ThroughAll`), whose last row stops within the buffer (`RectangleFits`); and
`get_pixel`'s own arithmetic finds the texel of that place (`PlaceInTile`).
Offsets are products of powers of two, `TwoTo`, a recursive function of which
`TwoToSum` is proved by induction over sets of numbers (`NatSetInduction`); so
is that `Pixels` and `Whole`, which recurse along chains of reductions, satisfy
their own definitions (`PixelsIs`, `WholeIs`), a reduction being of higher rank
than what it is made of. Lists of tasks are taken apart and joined by `Then`
(`ThenFacts`, `Rejoined`).

### ResolutionProofs

For any face of logarithms 0..127, any file and request in -128..127. The
invariant: a chain is at its request, or at a resolution of more than one texel
that the face contains, halved evenly if its mesh is triangular, and no further
from even than the request, on a face that is not constant (`Passed`).
`Sub8Value` says when the subtraction of two `i8` wraps: never between a face and
a resolution it contains, and otherwise to a negative difference, which
`resolve` refuses. On it rest `ChainsAreSound`,
`ChainsDescend` (each step comes nearer to the face and oversteps on no axis,
so recursion ends), `QueryTellsTheTruth` (`is_res_stored` agrees with
`resolve`), `LevelsCanBeRead` and `OnlyRealOnesAreServed`. The last two are of
files that keep a face in level 0, and in a level only while it has texels, as
the properties say; a file may break that, and `resolve` does not check it.

### DerivedChainProofs

`OneHostAlwaysAnswers`: for any threads, chains, faces, levels, budgets and
failures, whatever is resident under a derived key, returned for one, or about
to be stored under one comes from the one chain that is installed. `ChainInv`
adds what makes it inductive: nothing is resident before a chain is installed,
a thread between `AskBase` and `Store` holds the base resolution of the chain
that is still installed, and a thread that derives holds the level of that
chain which its `level` says. The cache's steps are used through what they keep
and add (an entry of the list afterwards is one from before or the new one).
The assumption about the host is that `base_res` answers with the same
resolution whenever it is asked.

### BlockIndexProofs

`LevelsAreIndexed` and `DirectoriesAreWhole`, for levels and directories of any
length. The first pass is summed up by `Placed` (blocks adjacent as if large
ones had no size) and `Listed` (which faces were set aside, in order); the
second by `Shifted`: up to `f` the blocks are adjacent, from `f` on still as
the first pass left them, and what `f` lacks is `extra`, except when the large
face before it has yet to be passed. Positions are added modulo `Modulus`, of
which the proof uses associativity, and that a table of 8 bytes a face does not
wrap (`WidthAssumption`). `TilesAssumption` states that a tile count is
positive because the provers know nothing of powers; TLC evaluates it.

### FaceDataProofs

`DifferencesAreUndone`, for blocks of any length and both integer types:
`DecodeInv` says that up to `i` the buffer holds the author's elements, from
there on what the file holds, and that `prev` is the author's last; that adding
what was subtracted gives the element back modulo the width is the lemma
`AddUndoesSub`. `TexelsAreInPlace` takes it to the end: for any size, number of
channels and place of the alpha channel, each channel of each texel is where
the API says, multiplied, if it is a colour, by the alpha of its own texel.
`PlaceInv` says the same before the multiplication, with `InPlace`; the lemmas
(`DivMod`, `Pack`, `PlacesAreInside`, `InterleavedIs`) take an offset of the
interleaved block apart into row, column and channel and put it together again.
The product itself (`Premultiplied`) is opaque to it.

`ColoursAreNeverBrighter` opens it, for every colour and alpha of every type.
The float of an integer type's `one_value_inv` is not the number it stands for:
it is a little above 1/255 and a little below 1/65535. The questions are whether
the first can make a colour brighter, and whether an opaque pixel is lost to the
truncating cast by the second. `RoundedIs` and
`TimesIntIs` put a product computed in two limbs within half a unit of the
exact one; `NotAboveColour`, `NotAboveAlpha` and `OpaqueIsExact` bound the two
roundings together, whatever numbers of bits were dropped (`BothRoundings`,
`WholeUnits`); `EightBits` and `SixteenBits` put in the two reciprocals, and
8-bit products turn out to be exact (`EightBitsAreExact`). A half is followed
to a float and back: every finite half but -0.0 returns as it was
(`ThereAndBack`), the subnormal ones, which are shifted up, scaled, increased by
a half and rounded to an even last bit, too (`SubnormalAsFloat`); a greater
float never has a smaller code, across subnormal and normal ones (`CodeGrows`,
with `LeastCode` the code each exponent starts at); and the product of two
halves of up to 1.0 is a float not above either (`ProductNotAbove`). That
halves which are multiplied are finite is an invariant of its own
(`FiniteHalves`), from `RequestAssumption`.

`ReductionsCoverTheirPlace` and `ReductionsLoseLittle`, for quads of any two
sides and triangles of any side that are powers of two, any values, and any
chain of reductions. `ReduceInv` says of each texel that it is made of exactly the cells of
its part of the face, each used once (`Means`), and that its value is their sum
divided by their number, less at most a half for every halving and three
quarters for every quartering. The step is geometry: the part of a texel of the
smaller face is the disjoint union of the parts of those it is averaged from.
For quads these are halves (`SplitInU`, `SplitInV`). In the packing of a
triangle they are its four quarters (`SplitInTri`): an upright triangle is cut
into three upright ones and the inverted one between them, an inverted one into
three inverted and an upright one, and the fourth is stored where `Mirror`
looks for it (`QuartersOfUpright`, `QuartersOfInverted`). The two corners-based
definitions the run uses are first shown to be three inequalities on a cell
(`CornersAre`, `CellIn`). `HalvingLoses` and `QuarteringLoses` bound the
rounding of one kernel call; sums of a part are sums of its parts (`SumOfUnion`).
`1 << n` is the recursive function `Side`, of which induction gives that it
doubles (`SideIs`).

### FileReadingProofs

For sections of any length, an extended header of any length, and a file cut at
any byte. `FileInv` says, by `pc`, what has been read so far: from the extended
header on, `pos` has each section where the writer put it (`PosKnown`); after
the edits, `hasEdits` is what the file says of them; and the only ways to fail
are those of `Unreadable`.
It gives `OpenedAsWritten` and `EditsAreSeen`; the lengths of sections enter as
natural numbers, sums over levels as an opaque one. `RankedBySize` first proves
that the order `GenRfaceids` chooses exists, for tables of any length: a face's
rank is the number of faces before it, ranks differ, and an injection of a
finite set into itself is onto (`SortExists`); that it ranks by size is then a
matter of its definition. `ParserStaysInside` proves, for buffers of any bytes,
that no read of `parse_block` is out of bounds: `MetaInv` keeps the pointer
within the buffer, and the guard on a size that does not fit what is left is
what each branch needs.

`ParsesWhatWasWritten`, for entries of any number and lengths, and buffers cut
at any byte: what the parser has made so far is what the first `n` entries
mean, and the pointer is at the first byte after them (`ReadAsFar`, in
`ParsedInv`). The lemmas follow the buffer: what `BytesOf` makes of a list has
the bytes of entry `n` after those of the entries before it (`BytesRun`,
`EntryInPlace`), an entry's fields are where the parser looks for them
(`EntryLayout`, `HeaderIs`), and the block of a large entry is at the sum of
the sizes before it (`BlockStarts`, `LargeValue`). A cut buffer gives a prefix
of the entries or an error, never another value.

`FilesAssumption` and `OpenedAssumption` are that files
are `WellFormed`; `MetaDataAssumption` that the keys, data and encoding of the
entries are bytes, which is that sizes fit the digits that hold them, and that
the small entries are small and the large ones large, with a block that is not
empty.

### Model-checked only

- Liveness (`ChainEnds`, `CallsReturn`, `ParsingEnds`, and the liveness half of
  `ServiceSpec`) is out of the prover's reach. `ChainsDescend` is the measure
  that `ChainEnds` rests on.
- So is the fairness that `ServiceSpec` asks of both readers; its safety half is
  proved of both (`ReaderServes`, `PlainReaderServes`).

## 5. Not modelled

- Inflation is `flate2`'s: a block inflates to what was deflated, or fails.
- `f32` texels: their premultiplication and reduction, and `convert_to_float`,
  are float arithmetic with no decision of their own. Halves are reduced
  through f32 sums, which are not modelled either, nor are products of
  infinities and NaNs.
- `utils::reduce`, the 2x2 kernel, which only tests call.
- The typed getters of `MetaData`, each of which looks at one entry.
- Where a field is within a header structure (`format.rs`), names and display
  (`types.rs`, `error.rs`), accessors, and the adjacency of faces, which is
  handed through.
- A panic while a mutex is held, and what a poisoned lock does to later calls.
- The mutex of the pixel cache as a variable: each section under it is one
  action, since it waits for nothing (`cache.rs` 3-6). That no path holds it
  while it takes the stream's, so that no lock order matters, is read off the
  code and checked by no property; the stream's mutex is modelled.
- The examples, which only call the API.

## 6. Plan

Every part of the core is modelled, and each safety property the runs check is
proved. What is left is what section 5 lists: the float kernels, a poisoned
lock, and, for `PlainReader`, meshes of triangles.
