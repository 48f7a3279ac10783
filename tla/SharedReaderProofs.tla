-------------------------- MODULE SharedReaderProofs --------------------------
(***************************************************************************)
(* Proofs about SharedReader, for any threads, file and cache budgets.     *)
(***************************************************************************)
EXTENDS SharedReader, SequenceTheorems, FiniteSetTheorems, TLAPS

(* Where a thread may be within the first item of its agenda. *)
Places == {"begin", "countHit", "countMiss", "missed", "lock", "seek", "read", "decode"}
OnStream == {"seek", "read"}

IsFunctionOfThreads(f) == f = [t \in Thread |-> f[t]]

(* Exclusion on the stream, and what it rests on: a thread that is past    *)
(* the beginning of an item is in a call and has that item.                *)
StreamInv ==
  /\ io \in Thread \cup {Nobody}
  /\ pc \in [Thread -> Places]
  /\ IsFunctionOfThreads(pending)
  /\ IsFunctionOfThreads(agenda)
  /\ IsFunctionOfThreads(nth)
  /\ \A t \in Thread : pc[t] # "begin" => pending[t] # None /\ agenda[t] # << >>
  /\ StreamExclusive

(* Only t moves, and to place p. *)
OnlyMoves(t, p) ==
  /\ pc' = [pc EXCEPT ![t] = p]
  /\ IsFunctionOfThreads(pending')
  /\ IsFunctionOfThreads(agenda')
  /\ IsFunctionOfThreads(nth')
  /\ \A s \in Thread \ {t} :
       pending'[s] = pending[s] /\ agenda'[s] = agenda[s] /\ nth'[s] = nth[s]
  /\ p # "begin" => pending'[t] # None /\ agenda'[t] # << >>

-----------------------------------------------------------------------------
(* The three ways a step moves its thread. *)

(* A thread that goes on within an item keeps its agenda.                  *)
LEMMA GotoMoves ==
  ASSUME StreamInv, NEW t \in Thread, NEW p \in Places,
         pending[t] # None, agenda[t] # << >>, Goto(t, p), pending' = pending
  PROVE  OnlyMoves(t, p)
BY DEF StreamInv, OnlyMoves, Goto, IsFunctionOfThreads

(* One that finishes an item begins the next.                              *)
LEMMA ContinueMoves ==
  ASSUME StreamInv, NEW t \in Thread, NEW first, Continue(t, first), pending' = pending
  PROVE  OnlyMoves(t, "begin")
BY DEF StreamInv, OnlyMoves, Continue, IsFunctionOfThreads

(* One whose call returns is where a call begins.                          *)
LEMMA ReturnMoves ==
  ASSUME StreamInv, NEW t \in Thread, NEW val, Return(t, val)
  PROVE  OnlyMoves(t, "begin")
BY DEF StreamInv, OnlyMoves, Return, IsFunctionOfThreads

-----------------------------------------------------------------------------
(* What such a move does to the invariant. *)

(* A move away from the stream by a thread that was not on it.             *)
LEMMA MoveElsewhere ==
  ASSUME StreamInv, NEW t \in Thread, NEW p \in Places \ OnStream,
         pc[t] \notin OnStream, OnlyMoves(t, p), UNCHANGED stream
  PROVE  StreamInv'
<1>1. io' = io /\ cursor' = cursor
  BY DEF stream
<1>2. /\ pc' \in [Thread -> Places]
      /\ pc'[t] = p /\ p \notin {"seek", "read"} /\ pc[t] \notin {"seek", "read"}
      /\ \A s \in Thread \ {t} : pc'[s] = pc[s]
  BY DEF StreamInv, OnlyMoves, Places, OnStream
<1>3. \A s \in Thread : pc'[s] # "begin" => pending'[s] # None /\ agenda'[s] # << >>
  BY <1>2 DEF StreamInv, OnlyMoves
<1>4. ASSUME NEW s \in Thread
      PROVE  /\ pc'[s] \in {"seek", "read"} <=> io' = s
             /\ pc'[s] = "read" => cursor' = (Address(Top(s), nth[s]))'
  <2>1. CASE s = t
    <3>1. io # t
      BY <1>2 DEF StreamInv, StreamExclusive
    <3> QED BY <1>1, <1>2, <2>1, <3>1
  <2>2. CASE s # t
    <3>1. pc'[s] = pc[s] /\ pending'[s] = pending[s] /\ agenda'[s] = agenda[s] /\ nth'[s] = nth[s]
      BY <1>2, <2>2 DEF OnlyMoves
    <3>2. /\ pc[s] \in {"seek", "read"} <=> io = s
          /\ pc[s] = "read" => cursor = Address(Top(s), nth[s])
      BY DEF StreamInv, StreamExclusive
    <3>3. (Address(Top(s), nth[s]))' = Address(Top(s), nth[s])
      BY <3>1 DEF Address, Top
    <3> QED BY <1>1, <3>1, <3>2, <3>3
  <2> QED BY <2>1, <2>2
<1>5. StreamExclusive'
  BY <1>4 DEF StreamExclusive
<1> QED
  BY <1>1, <1>2, <1>3, <1>5 DEF StreamInv, OnlyMoves

(* Taking the mutex: nobody else was on the stream.                        *)
LEMMA LockPreserves ==
  ASSUME StreamInv, NEW t \in Thread, Lock(t)
  PROVE  StreamInv'
<1>1. /\ pending[t] # None /\ agenda[t] # << >> /\ pc[t] = "lock"
      /\ io = Nobody /\ io' = t
      /\ Goto(t, "seek") /\ pending' = pending
  BY DEF Lock, At
<1>2. OnlyMoves(t, "seek")
  BY <1>1, GotoMoves DEF Places
<1>3. \A s \in Thread : pc[s] \notin OnStream
  BY <1>1, NobodyAssumption DEF StreamInv, StreamExclusive, OnStream
<1>4. pc' \in [Thread -> Places] /\ pc'[t] = "seek" /\ \A s \in Thread \ {t} : pc'[s] = pc[s]
  BY <1>2 DEF OnlyMoves, StreamInv, Places
<1>5. StreamExclusive'
  BY <1>1, <1>3, <1>4 DEF StreamExclusive, OnStream
<1> QED
  BY <1>1, <1>2, <1>4, <1>5 DEF StreamInv, OnlyMoves

(* The seek: the cursor is where the owner of the mutex put it.            *)
LEMMA SeekPreserves ==
  ASSUME StreamInv, NEW t \in Thread, Seek(t)
  PROVE  StreamInv'
<1>1. /\ pending[t] # None /\ agenda[t] # << >> /\ pc[t] = "seek"
      /\ io' = io /\ cursor' = Address(Top(t), nth[t])
      /\ Goto(t, "read") /\ pending' = pending
  BY DEF Seek, At
<1>2. OnlyMoves(t, "read")
  BY <1>1, GotoMoves DEF Places
<1>3. io = t /\ \A s \in Thread \ {t} : pc[s] \notin OnStream
  BY <1>1 DEF StreamInv, StreamExclusive, OnStream
<1>4. pc' \in [Thread -> Places] /\ pc'[t] = "read" /\ \A s \in Thread \ {t} : pc'[s] = pc[s]
  BY <1>2 DEF OnlyMoves, StreamInv, Places
<1>5. Address(Top(t), nth[t])' = Address(Top(t), nth[t])
  BY <1>1 DEF Goto, Top, Address
<1>6. StreamExclusive'
  BY <1>1, <1>3, <1>4, <1>5 DEF StreamExclusive, OnStream
<1> QED
  BY <1>1, <1>2, <1>4, <1>6 DEF StreamInv, OnlyMoves

(* Leaving the stream, by a read or a failure, gives the mutex up.         *)
LEMMA LeavingPreserves ==
  ASSUME StreamInv, NEW t \in Thread, NEW p \in Places \ OnStream,
         pc[t] \in OnStream, OnlyMoves(t, p), io' = Nobody
  PROVE  StreamInv'
<1>1. \A s \in Thread \ {t} : pc[s] \notin OnStream
  BY DEF StreamInv, StreamExclusive, OnStream
<1>2. pc' \in [Thread -> Places] /\ pc'[t] = p /\ \A s \in Thread \ {t} : pc'[s] = pc[s]
  BY DEF OnlyMoves, StreamInv
<1>3. \A s \in Thread : pc'[s] \notin OnStream /\ io' # s
  BY <1>1, <1>2, NobodyAssumption
<1>4. StreamExclusive'
  BY <1>3 DEF StreamExclusive, OnStream
<1> QED
  BY <1>2, <1>4 DEF StreamInv, OnlyMoves

(* A read either goes for the item's next piece or is done with the item's *)
(* bytes; the mutex is free in between.                                    *)
LEMMA ReadPreserves ==
  ASSUME StreamInv, NEW t \in Thread, Read(t)
  PROVE  StreamInv'
<1>1. /\ pending[t] # None /\ agenda[t] # << >> /\ pc[t] \in OnStream
      /\ io' = Nobody /\ pending' = pending
  BY DEF Read, At, OnStream
<1>2. CASE nth[t] < NReads(Top(t))
  <2>1. /\ nth' = [nth EXCEPT ![t] = @ + 1]
        /\ pc' = [pc EXCEPT ![t] = "lock"]
        /\ agenda' = agenda
    BY <1>2 DEF Read
  <2>2. OnlyMoves(t, "lock")
    BY <1>1, <2>1 DEF StreamInv, OnlyMoves, IsFunctionOfThreads
  <2> QED BY <1>1, <2>2, LeavingPreserves DEF Places, OnStream
<1>3. CASE ~(nth[t] < NReads(Top(t)))
  <2>1. Goto(t, "decode")
    BY <1>3 DEF Read
  <2>2. OnlyMoves(t, "decode")
    BY <1>1, <2>1, GotoMoves DEF Places
  <2> QED BY <1>1, <2>2, LeavingPreserves DEF Places, OnStream
<1> QED
  BY <1>2, <1>3

(* A failing seek or read: the guard goes out of scope with the call.      *)
LEMMA FaultPreserves ==
  ASSUME StreamInv, NEW t \in Thread, Fault(t)
  PROVE  StreamInv'
<1>1. pc[t] \in OnStream /\ io' = Nobody /\ Return(t, "err")
  BY DEF Fault, At, OnStream
<1>2. OnlyMoves(t, "begin")
  BY <1>1, ReturnMoves
<1> QED
  BY <1>1, <1>2, LeavingPreserves DEF Places, OnStream

(* The rest of a call happens away from the stream.                        *)
LEMMA GotoPreserves ==
  ASSUME StreamInv, NEW t \in Thread, NEW p \in Places \ OnStream, NEW q \in Places \ OnStream,
         At(t, q), Goto(t, p), pending' = pending, UNCHANGED stream
  PROVE  StreamInv'
BY GotoMoves, MoveElsewhere DEF At

(* So does beginning its next item.                                        *)
LEMMA ContinuePreserves ==
  ASSUME StreamInv, NEW t \in Thread, NEW first, NEW q \in Places \ OnStream,
         At(t, q), Continue(t, first), pending' = pending, UNCHANGED stream
  PROVE  StreamInv'
BY ContinueMoves, MoveElsewhere DEF At, Places, OnStream

(* And so does returning without having touched the stream last.           *)
LEMMA ReturnPreserves ==
  ASSUME StreamInv, NEW t \in Thread, NEW val, pc[t] \notin OnStream,
         Return(t, val), UNCHANGED stream
  PROVE  StreamInv'
BY ReturnMoves, MoveElsewhere DEF Places, OnStream

(* A new call begins where every call begins.                              *)
LEMMA AskPreserves ==
  ASSUME StreamInv, NEW t \in Thread, NEW r \in Request, Ask(t, r)
  PROVE  StreamInv'
<1>1. pc[t] = "begin"
  BY DEF StreamInv, Ask
<1>2. OnlyMoves(t, "begin")
  BY <1>1 DEF StreamInv, OnlyMoves, Ask, IsFunctionOfThreads
<1> QED
  BY <1>1, <1>2, MoveElsewhere DEF Ask, Places, OnStream

(* Cache administration touches no thread and no stream.                   *)
LEMMA AsidePreserves ==
  ASSUME StreamInv, UNCHANGED <<stream, thread>>
  PROVE  StreamInv'
BY DEF StreamInv, StreamExclusive, IsFunctionOfThreads, stream, thread, Top, Address

(* Every step of a call keeps the invariant.                               *)
LEMMA StepPreserves ==
  ASSUME StreamInv, NEW t \in Thread, Step(t)
  PROVE  StreamInv'
<1> DEFINE Off == Places \ OnStream
<1>0. {"begin", "countHit", "countMiss", "missed", "lock", "decode"} \subseteq Off
  BY DEF Places, OnStream
<1> HIDE DEF Off
<1>1. CASE Answer(t)
  <2>1. pc[t] \notin OnStream
    BY <1>1 DEF Answer, StreamInv, OnStream
  <2> QED BY <1>1, <2>1, ReturnPreserves DEF Answer
<1>2. CASE Refuse(t)
  <2>1. pc[t] \notin OnStream
    BY <1>2 DEF Refuse, At, OnStream
  <2> QED BY <1>2, <2>1, ReturnPreserves DEF Refuse
<1>3. CASE LookupHit(t)
  BY <1>0, <1>3, GotoPreserves, ContinuePreserves DEF LookupHit, Off
<1>4. CASE LookupMiss(t)
  <2>1. PICK p \in {"countMiss", "missed"} : Goto(t, p)
    BY <1>4 DEF LookupMiss
  <2> QED BY <1>0, <1>4, <2>1, GotoPreserves DEF LookupMiss, Off
<1>5. CASE CountHit(t)
  BY <1>0, <1>5, ContinuePreserves DEF CountHit, Off
<1>6. CASE CountMiss(t)
  BY <1>0, <1>6, GotoPreserves DEF CountMiss, Off
<1>7. CASE CellReady(t)
  BY <1>0, <1>7, ContinuePreserves DEF CellReady, Off
<1>8. CASE UseConstantData(t)
  BY <1>0, <1>8, ContinuePreserves DEF UseConstantData, Off
<1>9. CASE StartReading(t)
  <2>1. PICK q \in {"begin", "missed"} : At(t, q)
    BY <1>9 DEF StartReading
  <2> QED BY <1>0, <1>9, <2>1, GotoPreserves DEF StartReading, Off
<1>10. CASE Lock(t)
  BY <1>10, LockPreserves
<1>11. CASE Seek(t)
  BY <1>11, SeekPreserves
<1>12. CASE Read(t)
  BY <1>12, ReadPreserves
<1>13. CASE DecodeFails(t)
  <2>1. pc[t] \notin OnStream
    BY <1>13 DEF DecodeFails, At, OnStream
  <2> QED BY <1>13, <2>1, ReturnPreserves DEF DecodeFails
<1>14. CASE SetCell(t)
  BY <1>0, <1>14, ContinuePreserves DEF SetCell, Off
<1>15. CASE Keep(t)
  BY <1>0, <1>15, ContinuePreserves DEF Keep, Off
<1>16. CASE UseAndDrop(t)
  BY <1>0, <1>16, ContinuePreserves DEF UseAndDrop, Off
<1>17. CASE Reduce(t)
  BY <1>0, <1>17, ContinuePreserves DEF Reduce, Off
<1>18. CASE KeepReduced(t)
  BY <1>0, <1>18, ContinuePreserves DEF KeepReduced, Off
<1>19. CASE DeriveFromAncestor(t)
  BY <1>0, <1>19, ContinuePreserves DEF DeriveFromAncestor, Off
<1>20. CASE DeriveFromBase(t)
  BY <1>0, <1>20, ContinuePreserves DEF DeriveFromBase, Off
<1>21. CASE Derive(t)
  BY <1>0, <1>21, ContinuePreserves DEF Derive, Off
<1>22. CASE KeepDerived(t)
  BY <1>0, <1>22, ContinuePreserves DEF KeepDerived, Off
<1> QED
  BY <1>1, <1>2, <1>3, <1>4, <1>5, <1>6, <1>7, <1>8, <1>9, <1>10, <1>11, <1>12,
     <1>13, <1>14, <1>15, <1>16, <1>17, <1>18, <1>19, <1>20, <1>21, <1>22 DEF Step

(* Initially no thread is in a call.                                       *)
LEMMA InitStreamInv == Init => StreamInv
BY NobodyAssumption DEF Init, StreamInv, StreamExclusive, IsFunctionOfThreads, Places

(* The invariant is inductive.                                             *)
LEMMA NextStreamInv == StreamInv /\ [Next]_vars => StreamInv'
<1> SUFFICES ASSUME StreamInv, [Next]_vars PROVE StreamInv'
  OBVIOUS
<1>1. ASSUME NEW t \in Thread, Step(t) PROVE StreamInv'
  BY <1>1, StepPreserves
<1>2. ASSUME NEW t \in Thread, Fault(t) PROVE StreamInv'
  BY <1>2, FaultPreserves
<1>3. ASSUME NEW t \in Thread, NEW r \in Request, Ask(t, r) PROVE StreamInv'
  BY <1>3, AskPreserves
<1>4. CASE ClearCache
  BY <1>4, AsidePreserves DEF ClearCache
<1>5. ASSUME NEW b \in Budgets, SetCacheBudget(b) PROVE StreamInv'
  BY <1>5, AsidePreserves DEF SetCacheBudget
<1>6. CASE UNCHANGED vars
  BY <1>6, AsidePreserves DEF vars
<1> QED
  BY <1>1, <1>2, <1>3, <1>4, <1>5, <1>6 DEF Next, AllDone

(* Between a thread's seek and its read no other thread moves the stream,  *)
(* whatever the number of threads and whichever seeks and reads fail       *)
(* (read_raw, src/src/cache.rs:1033-1041).                                 *)
THEOREM StreamIsExclusive == Spec => []StreamExclusive
<1>1. Init => StreamInv
  BY InitStreamInv
<1>2. StreamInv /\ [Next]_vars => StreamInv'
  BY NextStreamInv
<1>3. StreamInv => StreamExclusive
  BY DEF StreamInv
<1> QED
  BY <1>1, <1>2, <1>3, PTL DEF Spec
-----------------------------------------------------------------------------
(* What the agendas of a call hold.  F is the set of keys that an item may *)
(* leave in the cache; an item of a transient read leaves nothing.         *)

Everything ==
  {TileDir(p) : p \in DOMAIN Tiles} \cup {Block(p) : p \in DOMAIN Encoding}
    \cup {Reduced(x) : x \in Texture}

Reducible == {x \in Texture : Source[x].route = "reduced"}
DerivedLevels == {x \in Face \X Nat : x[2] < DerivedCount[x[1]]}

ReadTasks(keep, F) ==
       [do : {"fail"}, x : {"nothing"}, keep : {"Cached"}]
  \cup [do : {"cell"}, x : Cell, keep : {keep}]
  \cup [do : {"dir"}, x : {p \in DOMAIN Tiles : TileDir(p) \in F}, keep : {keep}]
  \cup [do : {"block"}, x : {p \in DOMAIN Encoding : Block(p) \in F}, keep : {keep}]
  \cup [do : {"reduced"}, x : {x \in Reducible : DataFootprint[x] \subseteq F}, keep : {keep}]

KeepTasks(keep, F) ==
  [do : {"keepReduced"}, x : {x \in Reducible : Reduced(x) \in F}, keep : {keep}]

DerivedTasks(F) ==
  [do : {"derived", "derive", "keepDerived"},
   x : {x \in DerivedLevels : Derived(x[1], x[2]) \in F}, keep : {"Cached"}]

Tasks(r) ==
  ReadTasks("Cached", Footprint(r)) \cup KeepTasks("Cached", Footprint(r))
    \cup ReadTasks("Transient", Everything) \cup KeepTasks("Transient", Everything)
    \cup DerivedTasks(Footprint(r))

(* The item get_pixel serves a texel of a constant face or block with.     *)
ConstantTasks(r) ==
  [do : {"constantData"}, x : {x \in Texture : r.api = "pixel" /\ r.of = x /\ LaidOutConstant(x)},
   keep : {"Cached"}]

(* What only a miss puts on an agenda.  A call sets out without any.       *)
Made == {"keepReduced", "derive", "keepDerived"}
Unmade(s) == \A i \in 1..Len(s) : s[i].do \notin Made

(* The constant data is only ever the last item. *)
Agendas(r) ==
  {s \in Seq(Tasks(r) \cup ConstantTasks(r)) : \A i \in 1..(Len(s) - 1) : s[i] \in Tasks(r)}

(* A texture is of its own lineage, and so is the lineage of what it is    *)
(* reduced from.                                                           *)
LEMMA OwnLineage ==
  ASSUME NEW x \in Texture
  PROVE  OwnFootprint(x) \subseteq DataFootprint[x]
<1>1. x \in Lineage[x]
  BY DEF Lineage
<1> QED
  BY <1>1 DEF DataFootprint

LEMMA SourceLineage ==
  ASSUME NEW x \in Reducible
  PROVE  /\ Source[x].from \in Texture
         /\ DataFootprint[Source[x].from] \subseteq DataFootprint[x]
<1> DEFINE y == Source[x].from
<1>1. x \in Texture /\ Source[x].route = "reduced" /\ y \in Texture
  BY SourceAssumption DEF Reducible
<1>2. ASSUME NEW S \in SUBSET Texture, x \in S, Closed(S) PROVE y \in S
  BY <1>1, <1>2 DEF Closed
<1>3. Lineage[y] \subseteq Lineage[x]
  BY <1>1, <1>2 DEF Lineage
<1> QED
  BY <1>1, <1>3 DEF DataFootprint

(* Reading puts nothing on an agenda that only a miss does.                *)
LEMMA ReadsAreUnmade ==
  ASSUME NEW keep, NEW F, NEW s \in Seq(ReadTasks(keep, F))
  PROVE  Unmade(s)
<1>1. \A i \in 1..Len(s) : s[i] \in ReadTasks(keep, F)
  BY LenProperties, ElementOfSeq
<1> QED
  BY <1>1 DEF Unmade, Made, ReadTasks

(* A refusal, wherever it comes from.                                      *)
LEMMA RefusalIsRead ==
  ASSUME NEW keep, NEW F
  PROVE  Refusal \in Seq(ReadTasks(keep, F))
<1>1. Task("fail", "nothing", "Cached") \in ReadTasks(keep, F)
  BY DEF Task, ReadTasks
<1> QED
  BY <1>1 DEF Refusal

(* What reading a texture takes.                                           *)
LEMMA DataPlanReads ==
  ASSUME NEW x \in Texture, NEW keep \in {"Cached", "Transient"}, NEW F,
         keep = "Cached" => DataFootprint[x] \subseteq F,
         keep = "Transient" => F = Everything
  PROVE  DataPlan(x, keep) \in Seq(ReadTasks(keep, F))
<1> DEFINE s == Source[x]
           T == ReadTasks(keep, F)
<1>1. CASE s.route = "constant"
  BY <1>1, EmptySeq DEF DataPlan
<1>2. CASE s.route = "none"
  BY <1>2, RefusalIsRead DEF DataPlan
<1>3. CASE s.route = "reduced"
  <2>1. DataFootprint[x] \subseteq F
    <3>1. ASSUME NEW y \in Texture PROVE OwnFootprint(y) \subseteq Everything
      <4>1. CASE Source[y].route \in {"constant", "none"}
        BY <4>1 DEF OwnFootprint
      <4>2. CASE Source[y].route = "reduced"
        BY <4>2 DEF OwnFootprint, Everything
      <4>3. CASE Source[y].route = "stored"
        <5>1. Source[y].pos \in DOMAIN Encoding
          BY <4>3, SourceAssumption
        <5>2. CASE Encoding[Source[y].pos] = "tiled"
          <6>1. Source[y].pos \in DOMAIN Tiles
            BY <4>3, <5>2, SourceAssumption
          <6>2. \A i \in DOMAIN Tiles[Source[y].pos] : Tiles[Source[y].pos][i] \in DOMAIN Encoding
            BY <6>1, TilesAssumption, LenProperties, ElementOfSeq
          <6> QED BY <4>3, <5>2, <6>1, <6>2 DEF OwnFootprint, Everything
        <5>3. CASE Encoding[Source[y].pos] # "tiled"
          BY <4>3, <5>1, <5>3 DEF OwnFootprint, Everything
        <5> QED BY <5>2, <5>3
      <4> QED BY <4>1, <4>2, <4>3, SourceAssumption
    <3>2. DataFootprint[x] \subseteq Everything
      BY <3>1 DEF DataFootprint, Lineage
    <3> QED BY <3>2
  <2>2. Task("reduced", x, keep) \in T
    BY <1>3, <2>1 DEF Task, ReadTasks, Reducible
  <2>3. DataPlan(x, keep) = << Task("reduced", x, keep) >>
    BY <1>3 DEF DataPlan
  <2> QED BY <2>2, <2>3
<1>4. CASE s.route = "stored"
  <2>1. s.level \in Cell /\ s.pos \in DOMAIN Encoding
    BY <1>4, SourceAssumption
  <2>2. Task("cell", s.level, keep) \in T
    BY <2>1 DEF Task, ReadTasks
  <2>3. OwnFootprint(x) \subseteq DataFootprint[x]
    BY OwnLineage
  <2>4. CASE Encoding[s.pos] = "tiled"
    <3> DEFINE blocks == [i \in DOMAIN Tiles[s.pos] |-> Task("block", Tiles[s.pos][i], keep)]
    <3>1. s.pos \in DOMAIN Tiles /\ Tiles[s.pos] \in Seq(DOMAIN Encoding)
      BY <1>4, <2>4, SourceAssumption, TilesAssumption
    <3>2. /\ Len(Tiles[s.pos]) \in Nat /\ DOMAIN Tiles[s.pos] = 1..Len(Tiles[s.pos])
          /\ \A i \in DOMAIN Tiles[s.pos] : Tiles[s.pos][i] \in DOMAIN Encoding
      BY <3>1, LenProperties, ElementOfSeq
    <3>3. TileDir(s.pos) \in F /\ \A i \in DOMAIN Tiles[s.pos] : Block(Tiles[s.pos][i]) \in F
      <4>1. CASE keep = "Cached"
        BY <1>4, <2>3, <2>4, <4>1 DEF OwnFootprint
      <4>2. CASE keep = "Transient"
        BY <3>1, <3>2, <4>2 DEF Everything
      <4> QED BY <4>1, <4>2
    <3>4. Task("dir", s.pos, keep) \in T
      BY <3>1, <3>3 DEF Task, ReadTasks
    <3>5. \A i \in 1..Len(Tiles[s.pos]) : Task("block", Tiles[s.pos][i], keep) \in T
      BY <3>2, <3>3 DEF Task, ReadTasks
    <3> HIDE DEF T
    <3>6. blocks \in Seq(T)
      BY <3>2, <3>5, SeqDef
    <3>7. DataPlan(x, keep)
            = << Task("cell", s.level, keep) >> \o (<< Task("dir", s.pos, keep) >> \o blocks)
      BY <1>4, <2>4 DEF DataPlan
    <3> HIDE DEF blocks
    <3>8. << Task("cell", s.level, keep) >> \in Seq(T) /\ << Task("dir", s.pos, keep) >> \in Seq(T)
      BY <2>2, <3>4
    <3>9. << Task("dir", s.pos, keep) >> \o blocks \in Seq(T)
      BY <3>6, <3>8, ConcatProperties
    <3>10. DataPlan(x, keep) \in Seq(T)
      BY <3>7, <3>8, <3>9, ConcatProperties
    <3> QED BY <3>10 DEF T
  <2>5. CASE Encoding[s.pos] # "tiled"
    <3>1. Block(s.pos) \in F
      BY <1>4, <2>1, <2>3, <2>5 DEF OwnFootprint, Everything
    <3>2. Task("block", s.pos, keep) \in T
      BY <2>1, <3>1 DEF Task, ReadTasks
    <3> HIDE DEF T
    <3>3. << Task("cell", s.level, keep) >> \in Seq(T) /\ << Task("block", s.pos, keep) >> \in Seq(T)
      BY <2>2, <3>2
    <3>4. DataPlan(x, keep) = << Task("cell", s.level, keep) >> \o << Task("block", s.pos, keep) >>
      BY <1>4, <2>5 DEF DataPlan
    <3>5. DataPlan(x, keep) \in Seq(T)
      BY <3>3, <3>4, ConcatProperties
    <3> QED BY <3>5 DEF T
  <2> QED BY <2>4, <2>5
<1> QED
  BY <1>1, <1>2, <1>3, <1>4, SourceAssumption

(* What a layout takes.                                                    *)
LEMMA LayoutPlanReads ==
  ASSUME NEW x \in Texture, NEW F, IsTiled(x) => TileDir(Source[x].pos) \in F
  PROVE  LayoutPlan(x) \in Seq(ReadTasks("Cached", F))
<1> DEFINE s == Source[x]
           T == ReadTasks("Cached", F)
<1>1. CASE s.route \in {"constant", "reduced"}
  BY <1>1, EmptySeq DEF LayoutPlan
<1>2. CASE s.route = "none"
  BY <1>2, RefusalIsRead DEF LayoutPlan
<1>3. CASE s.route = "stored"
  <2> DEFINE dir == IF Encoding[s.pos] = "tiled" THEN << Task("dir", s.pos, "Cached") >> ELSE << >>
  <2>1. Task("cell", s.level, "Cached") \in T
    BY <1>3, SourceAssumption DEF Task, ReadTasks
  <2>2. Encoding[s.pos] = "tiled" => Task("dir", s.pos, "Cached") \in T
    BY <1>3, SourceAssumption DEF Task, ReadTasks, IsTiled
  <2> HIDE DEF T
  <2>3. << Task("cell", s.level, "Cached") >> \in Seq(T) /\ dir \in Seq(T)
    BY <2>1, <2>2, EmptySeq
  <2>4. LayoutPlan(x) = << Task("cell", s.level, "Cached") >> \o dir
    BY <1>3 DEF LayoutPlan
  <2>5. LayoutPlan(x) \in Seq(T)
    BY <2>3, <2>4, ConcatProperties
  <2> QED BY <2>5 DEF T
<1> QED
  BY <1>1, <1>2, <1>3, SourceAssumption

(* Agendas without constant data, and one that ends in it.                 *)
LEMMA PlainAgenda ==
  ASSUME NEW r, NEW s \in Seq(Tasks(r))
  PROVE  s \in Agendas(r)
<1>1. s \in Seq(Tasks(r) \cup ConstantTasks(r))
  BY SeqMonotonic
<1>2. \A i \in 1..(Len(s) - 1) : s[i] \in Tasks(r)
  <2>1. Len(s) \in Nat
    BY LenProperties
  <2>2. \A i \in 1..(Len(s) - 1) : i \in 1..Len(s)
    BY <2>1
  <2> QED BY <2>2, ElementOfSeq
<1> QED
  BY <1>1, <1>2 DEF Agendas

LEMMA ConstantAgenda ==
  ASSUME NEW r, NEW s \in Seq(Tasks(r)), NEW c \in ConstantTasks(r)
  PROVE  s \o <<c>> \in Agendas(r)
<1> DEFINE S == Tasks(r) \cup ConstantTasks(r)
<1>1. s \in Seq(S) /\ <<c>> \in Seq(S) /\ Len(<<c>>) = 1
  BY SeqMonotonic
<1>2. Len(s) \in Nat
  BY LenProperties
<1> HIDE DEF S
<1>3. /\ s \o <<c>> \in Seq(S)
      /\ Len(s \o <<c>>) = Len(s) + 1
      /\ \A i \in 1..(Len(s) + 1) : (s \o <<c>>)[i] = IF i <= Len(s) THEN s[i] ELSE <<c>>[i - Len(s)]
  BY <1>1, ConcatProperties
<1>4. \A i \in 1..(Len(s \o <<c>>) - 1) : i \in 1..Len(s) /\ i \in 1..(Len(s) + 1) /\ i <= Len(s)
  BY <1>2, <1>3
<1>5. \A i \in 1..(Len(s \o <<c>>) - 1) : (s \o <<c>>)[i] \in Tasks(r)
  BY <1>3, <1>4, ElementOfSeq
<1> QED
  BY <1>3, <1>5 DEF Agendas, S

(* A tile is read like the face it is of, when that is not tiled.          *)
LEMMA TilePlanReads ==
  ASSUME NEW x \in Texture, NEW i, NEW F, DataFootprint[x] \subseteq F
  PROVE  TilePlan(x, i) \in Seq(ReadTasks("Cached", F))
<1> DEFINE s == Source[x]
           T == ReadTasks("Cached", F)
<1>1. OwnFootprint(x) \subseteq F
  BY OwnLineage
<1>2. IsTiled(x) => TileDir(s.pos) \in F /\ s.pos \in DOMAIN Tiles
  BY <1>1, SourceAssumption DEF IsTiled, OwnFootprint
<1>3. LayoutPlan(x) \in Seq(T) /\ Refusal \in Seq(T) /\ DataPlan(x, "Cached") \in Seq(T)
  BY <1>2, LayoutPlanReads, RefusalIsRead, DataPlanReads
<1>4. ASSUME IsTiled(x), HasTile(x, i) PROVE << Task("block", Tiles[s.pos][i], "Cached") >> \in Seq(T)
  <2>1. i \in DOMAIN Tiles[s.pos] /\ Block(Tiles[s.pos][i]) \in F
    BY <1>1, <1>4 DEF HasTile, IsTiled, OwnFootprint
  <2>2. Tiles[s.pos][i] \in DOMAIN Encoding
    BY <1>2, <1>4, <2>1, TilesAssumption, LenProperties, ElementOfSeq
  <2>3. Task("block", Tiles[s.pos][i], "Cached") \in T
    BY <2>1, <2>2 DEF Task, ReadTasks
  <2> QED BY <2>3
<1> HIDE DEF T
<1>5. CASE ~HasTile(x, i)
  BY <1>3, <1>5, ConcatProperties DEF TilePlan, T
<1>6. CASE HasTile(x, i) /\ IsTiled(x)
  <2>1. LayoutPlan(x) \o << Task("block", Tiles[s.pos][i], "Cached") >> \in Seq(T)
    BY <1>3, <1>4, <1>6, ConcatProperties
  <2>2. LayoutPlan(x) \o (LayoutPlan(x) \o << Task("block", Tiles[s.pos][i], "Cached") >>) \in Seq(T)
    BY <1>3, <2>1, ConcatProperties
  <2> QED BY <1>6, <2>2 DEF TilePlan, T
<1>7. CASE HasTile(x, i) /\ ~IsTiled(x)
  BY <1>3, <1>7, ConcatProperties DEF TilePlan, T
<1> QED
  BY <1>5, <1>6, <1>7

(* Such agendas one after the other make one.                              *)
LEMMA UnmadeTogether ==
  ASSUME NEW S, NEW s \in Seq(S), NEW t \in Seq(S), Unmade(s), Unmade(t)
  PROVE  Unmade(s \o t)
<1>1. /\ Len(s) \in Nat /\ Len(t) \in Nat /\ Len(s \o t) = Len(s) + Len(t)
      /\ \A i \in 1..(Len(s) + Len(t)) : (s \o t)[i] = IF i <= Len(s) THEN s[i] ELSE t[i - Len(s)]
  BY LenProperties, ConcatProperties
<1>2. ASSUME NEW i \in 1..Len(s \o t) PROVE (s \o t)[i].do \notin Made
  <2>1. CASE i <= Len(s)
    BY <1>1, <2>1 DEF Unmade
  <2>2. CASE ~(i <= Len(s))
    BY <1>1, <2>2 DEF Unmade
  <2> QED BY <2>1, <2>2
<1> QED
  BY <1>2 DEF Unmade

(* What a call sets out to do is an agenda of its kind.                    *)
LEMMA PlanIsAgenda ==
  ASSUME NEW r \in Request
  PROVE  Plan(r) \in Agendas(r) /\ Unmade(Plan(r))
<1> DEFINE T == ReadTasks("Cached", Footprint(r))
<1>0. \A s \in Seq(T) : s \in Seq(Tasks(r)) /\ s \in Agendas(r) /\ Unmade(s)
  <2>0. \A s \in Seq(T) : Unmade(s)
    BY ReadsAreUnmade
  <2>1. T \subseteq Tasks(r)
    BY DEF Tasks
  <2> HIDE DEF T
  <2> QED BY <2>0, <2>1, SeqMonotonic, PlainAgenda
<1>1. CASE r.api = "data"
  <2>1. r.of \in Texture /\ Footprint(r) = DataFootprint[r.of]
    BY <1>1, RequestAssumption DEF Footprint
  <2>2. DataPlan(r.of, "Cached") \in Seq(T)
    BY <2>1, DataPlanReads
  <2> QED BY <1>0, <1>1, <2>2 DEF Plan
<1>2. CASE r.api = "layout"
  <2>1. r.of \in Texture /\ (IsTiled(r.of) => TileDir(Source[r.of].pos) \in Footprint(r))
    BY <1>2, RequestAssumption DEF Footprint
  <2>2. LayoutPlan(r.of) \in Seq(T)
    BY <2>1, LayoutPlanReads
  <2> QED BY <1>0, <1>2, <2>2 DEF Plan
<1>3. CASE r.api = "info"
  <2>1. r.of \in Texture /\ (IsTiled(r.of) => TileDir(Source[r.of].pos) \in Footprint(r))
    BY <1>3, RequestAssumption DEF Footprint
  <2>2. LayoutPlan(r.of) \in Seq(T) /\ Refusal \in Seq(T)
    BY <2>1, LayoutPlanReads, RefusalIsRead
  <2> HIDE DEF T
  <2>3. InfoPlan(r.of, r.tile) \in Seq(T)
    BY <2>2, ConcatProperties DEF InfoPlan
  <2> QED BY <1>0, <1>3, <2>3 DEF Plan
<1>4. ASSUME r.api \in {"tile", "pixel"} PROVE r.of \in Texture /\ TilePlan(r.of, r.tile) \in Seq(T)
  <2>1. r.of \in Texture /\ Footprint(r) = DataFootprint[r.of]
    BY <1>4, RequestAssumption DEF Footprint
  <2> QED BY <2>1, TilePlanReads
<1>5. CASE r.api = "tile"
  BY <1>0, <1>4, <1>5 DEF Plan
<1>6. CASE r.api = "pixel"
  <2>1. r.of \in Texture /\ Footprint(r) = DataFootprint[r.of]
    BY <1>6, RequestAssumption DEF Footprint
  <2>2. OwnFootprint(r.of) \subseteq Footprint(r)
    BY <2>1, OwnLineage
  <2>3. IsTiled(r.of) => TileDir(Source[r.of].pos) \in Footprint(r)
    BY <2>2 DEF IsTiled, OwnFootprint
  <2>4. LayoutPlan(r.of) \in Seq(T)
    BY <2>1, <2>3, LayoutPlanReads
  <2> HIDE DEF T
  <2>5. CASE LaidOutConstant(r.of)
    <3>1. Task("constantData", r.of, "Cached") \in ConstantTasks(r)
      BY <1>6, <2>1, <2>5 DEF Task, ConstantTasks
    <3>2. LayoutPlan(r.of) \o << Task("constantData", r.of, "Cached") >> \in Agendas(r)
      BY <1>0, <2>4, <3>1, ConstantAgenda
    <3>3. Unmade(LayoutPlan(r.of) \o << Task("constantData", r.of, "Cached") >>)
      <4> DEFINE S == Tasks(r) \cup ConstantTasks(r)
                 c == << Task("constantData", r.of, "Cached") >>
      <4>1. LayoutPlan(r.of) \in Seq(S) /\ Unmade(LayoutPlan(r.of))
        BY <1>0, <2>4, SeqMonotonic
      <4>2. c \in Seq(S) /\ Unmade(c)
        BY <3>1 DEF Unmade, Made, Task
      <4> HIDE DEF S, c
      <4>3. Unmade(LayoutPlan(r.of) \o c)
        BY <4>1, <4>2, UnmadeTogether
      <4> QED BY <4>3 DEF c
    <3> QED BY <1>6, <2>5, <3>2, <3>3 DEF Plan, PixelPlan
  <2>6. CASE ~LaidOutConstant(r.of)
    <3>1. LayoutPlan(r.of) \o TilePlan(r.of, r.tile) \in Seq(T)
      BY <1>4, <1>6, <2>4, ConcatProperties
    <3> QED BY <1>0, <1>6, <2>6, <3>1 DEF Plan, PixelPlan
  <2> QED BY <2>5, <2>6
<1>7. CASE r.api = "derived"
  <2>1. r.of \in Face /\ r.level \in Nat /\ Footprint(r) = {Derived(r.of, r.level)}
    BY <1>7, RequestAssumption DEF Footprint
  <2>2. CASE r.level < DerivedCount[r.of]
    <3>1. <<r.of, r.level>> \in DerivedLevels
      BY <2>1, <2>2 DEF DerivedLevels
    <3>2. Task("derived", <<r.of, r.level>>, "Cached") \in Tasks(r)
      BY <2>1, <3>1 DEF Task, Tasks, DerivedTasks
    <3>3. << Task("derived", <<r.of, r.level>>, "Cached") >> \in Seq(Tasks(r))
      BY <3>2
    <3>4. Unmade(<< Task("derived", <<r.of, r.level>>, "Cached") >>)
      BY DEF Unmade, Made, Task
    <3> QED BY <1>7, <2>2, <3>3, <3>4, PlainAgenda DEF Plan
  <2>3. CASE ~(r.level < DerivedCount[r.of])
    BY <1>0, <1>7, <2>3, RefusalIsRead DEF Plan
  <2> QED BY <2>2, <2>3
<1>8. CASE r.api = "metadata"
  <2>1. Task("cell", "metadata", "Cached") \in T
    BY CellAssumption DEF Task, ReadTasks
  <2>2. << Task("cell", "metadata", "Cached") >> \in Seq(T)
    BY <2>1
  <2> QED BY <1>0, <1>8, <2>2 DEF Plan
<1> QED
  BY <1>1, <1>2, <1>3, <1>5, <1>6, <1>7, <1>8, RequestAssumption

(* What is left of an agenda, with ordinary items put in front.            *)
LEMMA RestOfAgenda ==
  ASSUME NEW r, NEW s \in Agendas(r), s # << >>, NEW first \in Seq(Tasks(r))
  PROVE  first \o Tail(s) \in Agendas(r)
<1> DEFINE S == Tasks(r) \cup ConstantTasks(r)
           rest == Tail(s)
<1>1. s \in Seq(S) /\ Len(s) \in Nat /\ first \in Seq(S) /\ Len(first) \in Nat
  BY SeqMonotonic, LenProperties DEF Agendas
<1> HIDE DEF S
<1>2. /\ rest \in Seq(S) /\ Len(rest) = Len(s) - 1 /\ Len(s) # 0
      /\ \A i \in 1..Len(rest) : rest[i] = s[i + 1]
  BY <1>1, HeadTailProperties, EmptySeq
<1> HIDE DEF rest
<1>3. /\ first \o rest \in Seq(S)
      /\ Len(first \o rest) = Len(first) + Len(rest)
      /\ \A i \in 1..(Len(first) + Len(rest)) :
           (first \o rest)[i] = IF i <= Len(first) THEN first[i] ELSE rest[i - Len(first)]
  BY <1>1, <1>2, ConcatProperties
<1>4. ASSUME NEW i \in 1..(Len(first \o rest) - 1) PROVE (first \o rest)[i] \in Tasks(r)
  <2>1. i \in 1..(Len(first) + Len(rest))
    BY <1>1, <1>2, <1>3, <1>4
  <2>2. CASE i <= Len(first)
    <3>1. i \in 1..Len(first)
      BY <1>1, <2>2
    <3> QED BY <1>3, <2>1, <2>2, <3>1, ElementOfSeq
  <2>3. CASE ~(i <= Len(first))
    <3>1. i - Len(first) \in 1..Len(rest) /\ i - Len(first) + 1 \in 1..(Len(s) - 1)
      BY <1>1, <1>2, <1>3, <1>4, <2>3
    <3>2. (first \o rest)[i] = s[i - Len(first) + 1]
      BY <1>2, <1>3, <2>1, <2>3, <3>1
    <3> QED BY <3>1, <3>2 DEF Agendas
  <2> QED BY <2>2, <2>3
<1> QED
  BY <1>3, <1>4 DEF Agendas, S, rest

(* The key a step of a call looks up or stores.                            *)
LEMMA TaskKey ==
  ASSUME NEW r, NEW task \in Tasks(r),
         IsLookup(task) \/ task.do \in {"keepReduced", "keepDerived"}
  PROVE  /\ KeyOf(task) \in CacheKey
         /\ task.keep = "Cached" => KeyOf(task) \in Footprint(r)
         /\ task.keep \in {"Cached", "Transient"}
<1> DEFINE F == Footprint(r)
<1>1. CASE task \in DerivedTasks(F)
  <2>1. /\ task.x \in Face \X Nat /\ task.x[2] < DerivedCount[task.x[1]]
        /\ Derived(task.x[1], task.x[2]) \in F /\ task.keep = "Cached"
        /\ task.do \in {"derived", "derive", "keepDerived"}
    BY <1>1 DEF DerivedTasks, DerivedLevels
  <2>2. KeyOf(task) = Derived(task.x[1], task.x[2])
    BY <2>1 DEF KeyOf, IsLookup
  <2>3. task.x[1] \in Face /\ task.x[2] \in 0..(DerivedCount[task.x[1]] - 1)
    BY <2>1, DerivedAssumption
  <2>4. KeyOf(task) \in CacheKey
    BY <2>2, <2>3 DEF CacheKey, DerivedKey
  <2> QED BY <2>1, <2>2, <2>4
<1>2. ASSUME NEW keep \in {"Cached", "Transient"}, NEW G,
             task \in ReadTasks(keep, G) \cup KeepTasks(keep, G)
      PROVE  KeyOf(task) \in CacheKey /\ KeyOf(task) \in G /\ task.keep = keep
  <2>1. CASE task.do = "dir"
    BY <1>2, <2>1 DEF ReadTasks, KeepTasks, KeyOf, CacheKey
  <2>2. CASE task.do = "block"
    BY <1>2, <2>2 DEF ReadTasks, KeepTasks, KeyOf, CacheKey, IsLookup
  <2>3. CASE task.do = "reduced"
    <3>1. task.x \in Reducible /\ DataFootprint[task.x] \subseteq G /\ task.keep = keep
      BY <1>2, <2>3 DEF ReadTasks, KeepTasks
    <3>2. task.x \in Texture /\ OwnFootprint(task.x) = {Reduced(task.x)}
      BY <3>1 DEF Reducible, OwnFootprint
    <3>3. Reduced(task.x) \in G
      BY <3>1, <3>2, OwnLineage
    <3> QED BY <2>3, <3>1, <3>3 DEF KeyOf, CacheKey, Reducible
  <2>4. CASE task.do = "keepReduced"
    BY <1>2, <2>4 DEF ReadTasks, KeepTasks, KeyOf, CacheKey, Reducible
  <2> QED BY <1>2, <2>1, <2>2, <2>3, <2>4 DEF ReadTasks, KeepTasks, IsLookup
<1> QED
  BY <1>1, <1>2 DEF Tasks

(* What a reduction puts on the agenda.                                    *)
LEMMA ReduceTasks ==
  ASSUME NEW r, NEW task \in Tasks(r), task.do = "reduced"
  PROVE  /\ DataPlan(Source[task.x].from, task.keep) \in Seq(Tasks(r))
         /\ Unmade(DataPlan(Source[task.x].from, task.keep))
         /\ Task("keepReduced", task.x, task.keep) \in Tasks(r)
         /\ DataPlan(Source[task.x].from, task.keep) \o << Task("keepReduced", task.x, task.keep) >>
              \in Seq(Tasks(r))
<1> DEFINE T == Tasks(r)
           from == Source[task.x].from
<1>1. ASSUME NEW keep \in {"Cached", "Transient"}, NEW G, task \in ReadTasks(keep, G),
             keep = "Transient" => G = Everything,
             ReadTasks(keep, G) \subseteq T, KeepTasks(keep, G) \subseteq T
      PROVE  /\ DataPlan(from, task.keep) \in Seq(T) /\ Unmade(DataPlan(from, task.keep))
             /\ Task("keepReduced", task.x, task.keep) \in T
             /\ DataPlan(from, task.keep) \o << Task("keepReduced", task.x, task.keep) >> \in Seq(T)
  <2>1. task.x \in Reducible /\ DataFootprint[task.x] \subseteq G /\ task.keep = keep
    BY <1>1 DEF ReadTasks
  <2>2. from \in Texture /\ DataFootprint[from] \subseteq G
    BY <2>1, SourceLineage
  <2>3. DataPlan(from, keep) \in Seq(ReadTasks(keep, G))
    BY <1>1, <2>2, DataPlanReads
  <2>4. Unmade(DataPlan(from, keep))
    BY <2>3, ReadsAreUnmade
  <2>5. task.x \in Texture /\ Reduced(task.x) \in G
    BY <2>1, OwnLineage DEF Reducible, OwnFootprint
  <2>6. Task("keepReduced", task.x, keep) \in KeepTasks(keep, G)
    BY <2>1, <2>5 DEF Task, KeepTasks
  <2> HIDE DEF T, from
  <2>7. DataPlan(from, keep) \in Seq(T) /\ << Task("keepReduced", task.x, keep) >> \in Seq(T)
    BY <1>1, <2>3, <2>6, SeqMonotonic
  <2> QED BY <1>1, <2>1, <2>4, <2>6, <2>7, ConcatProperties
<1> QED
  BY <1>1 DEF Tasks, DerivedTasks, KeepTasks

(* And a derivation.                                                       *)
LEMMA DeriveTasks ==
  ASSUME NEW r, NEW task \in Tasks(r), task.do = "derived"
  PROVE  LET f == task.x[1]
             k == task.x[2]
         IN  /\ f \in Face /\ k \in Nat /\ k < DerivedCount[f]
             /\ DataPlan(DerivedBase[f], "Transient") \in Seq(Tasks(r))
             /\ Unmade(DataPlan(DerivedBase[f], "Transient"))
             /\ Task("derive", <<f, k>>, "Cached") \in Tasks(r)
             /\ Task("keepDerived", <<f, k>>, "Cached") \in Tasks(r)
             /\ \A steps \in Nat : DerivePlan(<<f, k>>, steps) \in Seq(Tasks(r))
<1> DEFINE f == task.x[1]
           k == task.x[2]
           T == Tasks(r)
<1>1. task \in DerivedTasks(Footprint(r))
  BY DEF Tasks, ReadTasks, KeepTasks
<1>2. /\ f \in Face /\ k \in Nat /\ k < DerivedCount[f]
      /\ <<f, k>> \in DerivedLevels /\ Derived(f, k) \in Footprint(r)
  BY <1>1 DEF DerivedTasks, DerivedLevels
<1>3. DataPlan(DerivedBase[f], "Transient") \in Seq(T) /\ Unmade(DataPlan(DerivedBase[f], "Transient"))
  <2>1. DataPlan(DerivedBase[f], "Transient") \in Seq(ReadTasks("Transient", Everything))
    BY <1>2, DerivedAssumption, DataPlanReads
  <2>2. ReadTasks("Transient", Everything) \subseteq T
    BY DEF Tasks
  <2>3. Unmade(DataPlan(DerivedBase[f], "Transient"))
    BY <2>1, ReadsAreUnmade
  <2> HIDE DEF T
  <2> QED BY <2>1, <2>2, <2>3, SeqMonotonic
<1>4. Task("derive", <<f, k>>, "Cached") \in T /\ Task("keepDerived", <<f, k>>, "Cached") \in T
  BY <1>2 DEF Task, Tasks, DerivedTasks
<1>5. ASSUME NEW steps \in Nat PROVE DerivePlan(<<f, k>>, steps) \in Seq(T)
  <2> DEFINE levels == [i \in 1..steps |-> Task("derive", <<f, k>>, "Cached")]
             last == Task("keepDerived", <<f, k>>, "Cached")
  <2>1. Task("derive", <<f, k>>, "Cached") \in T /\ last \in T
    BY <1>4
  <2> HIDE DEF T, last
  <2>2. levels \in Seq(T)
    BY <2>1, SeqDef
  <2>3. << last >> \in Seq(T)
    BY <2>1
  <2>4. DerivePlan(<<f, k>>, steps) = levels \o << last >>
    BY DEF DerivePlan, last
  <2> HIDE DEF levels
  <2> QED BY <2>2, <2>3, <2>4, ConcatProperties
<1> QED
  BY <1>2, <1>3, <1>4, <1>5

-----------------------------------------------------------------------------
(* The cache of the reader, with the lemmas proved about it.               *)

(* What PixelCacheProofs observes beside the cache plays no part here.     *)
CacheProofs == INSTANCE PixelCacheProofs
                 WITH Key <- CacheKey, Value <- CacheValue,
                      MaxOps <- 0, clock <- 0, lastUse <- 0, entered <- 0, cleared <- 0

LEMMA CacheAssumptions ==
  /\ DerivedKey \subseteq CacheKey
  /\ SizeOf \in [CacheValue -> Nat \ {0}]
  /\ Budgets \subseteq Nat
BY SizeAssumption, BudgetAssumption DEF CacheKey

LEMMA SameCache ==
  /\ Cache!TypeOK <=> CacheProofs!TypeOK
  /\ Cache!Init <=> CacheProofs!Init
  /\ Cache!Next <=> CacheProofs!Next
  /\ \A k : Cache!Get(k) <=> CacheProofs!Get(k)
  /\ \A k, v : Cache!InsertOrGet(k, v) <=> CacheProofs!InsertOrGet(k, v)
  /\ \A k, v : Cache!Winner(k, v) = CacheProofs!Winner(k, v)
  /\ \A k : Cache!ValueOf(k) = CacheProofs!ValueOf(k)
  /\ \A k : Cache!IndexOf(k) = CacheProofs!IndexOf(k)
  /\ Cache!Resident = CacheProofs!Resident
  /\ Cache!Clear <=> CacheProofs!Clear
  /\ \A b : Cache!SetBudget(b) <=> CacheProofs!SetBudget(b)
<1> USE DEF
  CacheProofs!TypeOK, CacheProofs!Init, CacheProofs!Next, CacheProofs!Get,
  CacheProofs!InsertOrGet, CacheProofs!InsertLost, CacheProofs!InsertNew,
  CacheProofs!InsertOversized, CacheProofs!Winner, CacheProofs!ValueOf,
  CacheProofs!IndexOf, CacheProofs!Resident, CacheProofs!Clear, CacheProofs!SetBudget,
  CacheProofs!Touch, CacheProofs!MovedToEnd, CacheProofs!RemoveAt, CacheProofs!Account,
  CacheProofs!Pops, CacheProofs!Fits, CacheProofs!Popped, CacheProofs!Kept,
  CacheProofs!Total, CacheProofs!Sizes, CacheProofs!DerivedSizes,
  CacheProofs!DerivedOnes, CacheProofs!Entry,
  Cache!TypeOK, Cache!Init, Cache!Next, Cache!Get,
  Cache!InsertOrGet, Cache!InsertLost, Cache!InsertNew,
  Cache!InsertOversized, Cache!Winner, Cache!ValueOf,
  Cache!IndexOf, Cache!Resident, Cache!Clear, Cache!SetBudget,
  Cache!Touch, Cache!MovedToEnd, Cache!RemoveAt, Cache!Account,
  Cache!Pops, Cache!Fits, Cache!Popped, Cache!Kept,
  Cache!Total, Cache!Sizes, Cache!DerivedSizes,
  Cache!DerivedOnes, Cache!Entry
<1>1. Cache!TypeOK <=> CacheProofs!TypeOK
  OBVIOUS
<1>2. Cache!Init <=> CacheProofs!Init
  OBVIOUS
<1>3. Cache!Next <=> CacheProofs!Next
  OBVIOUS
<1>4. \A k : Cache!Get(k) <=> CacheProofs!Get(k)
  OBVIOUS
<1>5. \A k, v : Cache!InsertOrGet(k, v) <=> CacheProofs!InsertOrGet(k, v)
  OBVIOUS
<1>6. \A k, v : Cache!Winner(k, v) = CacheProofs!Winner(k, v)
  OBVIOUS
<1>7. \A k : Cache!ValueOf(k) = CacheProofs!ValueOf(k)
  OBVIOUS
<1>8. \A k : Cache!IndexOf(k) = CacheProofs!IndexOf(k)
  OBVIOUS
<1>9. Cache!Resident = CacheProofs!Resident
  OBVIOUS
<1>10. Cache!Clear <=> CacheProofs!Clear
  OBVIOUS
<1>11. \A b : Cache!SetBudget(b) <=> CacheProofs!SetBudget(b)
  OBVIOUS
<1> QED
  BY ONLY <1>1, <1>2, <1>3, <1>4, <1>5, <1>6, <1>7, <1>8, <1>9, <1>10, <1>11, Zenon

(* The entries the cache may hold: of a key some call asked to keep, whose *)
(* bytes decode, decoded from the key's own bytes.                         *)
Fresh ==
  {[key |-> k, value |-> k] :
     k \in {c \in CacheKey : c \notin Broken /\ \E r \in Request : c \in Footprint(r)}}

CacheInv == CacheProofs!IInv /\ lru \in Seq(Fresh)

(* Every step of the reader does this to the cache.                        *)
CacheStep == [Cache!Next]_cacheVars /\ lru' \in Seq(Fresh)

(* A value found is the one looked for.                                    *)
LEMMA FoundIsFresh ==
  ASSUME CacheInv, NEW k \in Cache!Resident
  PROVE  Cache!ValueOf(k) = k /\ k \in CacheKey
<1>1. CacheProofs!IndexOf(k) = Cache!IndexOf(k) /\ k \in CacheProofs!Resident
  BY SameCache
<1>2. /\ lru[CacheProofs!IndexOf(k)] \in Fresh
      /\ lru[CacheProofs!IndexOf(k)].key = k
  BY <1>1, CacheProofs!ResidentEntry, CacheAssumptions DEF CacheInv
<1>3. lru[Cache!IndexOf(k)] \in Fresh /\ lru[Cache!IndexOf(k)].key = k
  BY <1>1, <1>2
<1> QED
  BY <1>3 DEF Fresh, Cache!ValueOf

LEMMA GetIsCacheStep ==
  ASSUME CacheInv, NEW k, Cache!Get(k)
  PROVE  CacheStep
<1>1. k \in Cache!Resident
  BY DEF Cache!Get
<1>2. k \in CacheKey
  BY <1>1, FoundIsFresh
<1>3. CacheProofs!Get(k)
  BY SameCache
<1>4. lru' \in Seq(Fresh)
  BY <1>3, CacheProofs!GetKeeps, CacheAssumptions DEF CacheInv
<1> QED
  BY <1>2, <1>4 DEF CacheStep, Cache!Next

(* What is stored is fresh, and so is what the thread goes on with.        *)
LEMMA StoreIsCacheStep ==
  ASSUME CacheInv, NEW t \in Thread, ok[t] = TRUE,
         NEW k \in CacheKey, k \notin Broken, NEW r \in Request, k \in Footprint(r),
         Store(t, k)
  PROVE  CacheStep /\ Used(t, TRUE)
<1>1. Cache!InsertOrGet(k, k) /\ Used(t, Cache!Winner(k, k) = k)
  BY DEF Store
<1>2. Cache!Winner(k, k) = k
  BY FoundIsFresh DEF Cache!Winner
<1>3. CacheProofs!InsertOrGet(k, k)
  BY <1>1, SameCache
<1>4. [key |-> k, value |-> k] \in Fresh
  BY DEF Fresh
<1>5. lru' \in Seq(Fresh)
  BY <1>3, <1>4, CacheProofs!InsertKeeps, CacheAssumptions DEF CacheInv
<1>6. Cache!Next
  BY <1>1 DEF Cache!Next, CacheValue
<1> QED
  BY <1>1, <1>2, <1>5, <1>6 DEF CacheStep

LEMMA AdminIsCacheStep ==
  ASSUME CacheInv, Cache!Clear \/ \E b \in Budgets : Cache!SetBudget(b)
  PROVE  CacheStep
<1>1. CacheProofs!Clear \/ \E b \in Budgets : CacheProofs!SetBudget(b)
  BY SameCache
<1>2. lru' \in Seq(Fresh)
  BY <1>1, CacheProofs!RemovingKeeps, CacheAssumptions DEF CacheInv
<1> QED
  BY <1>2 DEF CacheStep, Cache!Next

LEMMA LeavingCacheAlone ==
  ASSUME CacheInv, UNCHANGED cacheVars
  PROVE  CacheStep
BY DEF CacheStep, CacheInv, cacheVars

LEMMA CacheStepKeeps ==
  ASSUME CacheInv, CacheStep
  PROVE  CacheInv'
<1>1. [CacheProofs!Next]_CacheProofs!vars
  BY SameCache DEF CacheStep, cacheVars, CacheProofs!vars
<1>2. CacheProofs!IInv'
  BY <1>1, CacheProofs!NextIInv, CacheAssumptions DEF CacheInv
<1> QED
  BY <1>2 DEF CacheInv, CacheStep

-----------------------------------------------------------------------------
(* The calls.                                                              *)

(* What can be in progress of an item: a lookup counts and misses, and the *)
(* reads of an item do not exceed what it takes.                           *)
InPlace(task, p, n) ==
  /\ n \in Nat \ {0}
  /\ p \in {"countHit", "countMiss", "missed"} => IsLookup(task) /\ n = 1
  /\ p \in {"lock", "seek", "read", "decode"} =>
       task.do \in {"cell", "dir", "block"} /\ n <= NReads(task)

(* A call is on an agenda of its kind; it has used no wrong byte, unless it *)
(* is one of those that end with the constant data of the wrong face.      *)
CallInv(t) ==
  /\ pending[t] \in Request \cup {None}
  /\ pending[t] = None => agenda[t] = << >>
  /\ pending[t] # None => agenda[t] \in Agendas(pending[t])
  /\ pc[t] = "begin" => nth[t] = 1
  /\ agenda[t] # << >> => InPlace(Top(t), pc[t], nth[t])
  /\ ok[t] \in BOOLEAN
  /\ ~ok[t] => pending[t] # None /\ Misrouted(pending[t]) /\ agenda[t] = << >>
  /\ reply[t] # None /\ reply[t].val = "junk" =>
       reply[t].to \in Request /\ Misrouted(reply[t].to)

(* An initialised cell was parsed from its own bytes.                      *)
OnceInv == once \in [Cell -> {Unset} \cup [by : Thread, right : {TRUE}]]

CountInv == hits \in Nat /\ misses \in Nat /\ derives \in Nat

IInv ==
  /\ StreamInv
  /\ CacheInv
  /\ OnceInv
  /\ CountInv
  /\ IsFunctionOfThreads(ok) /\ IsFunctionOfThreads(reply)
  /\ \A t \in Thread : CallInv(t)

CallsInv ==
  IsFunctionOfThreads(ok') /\ IsFunctionOfThreads(reply') /\ \A t \in Thread : CallInv(t)'

(* Agendas hold tasks.                                                     *)
LEMMA TopIsTask ==
  ASSUME NEW t \in Thread, CallInv(t), agenda[t] # << >>
  PROVE  /\ pending[t] \in Request
         /\ Top(t) \in Tasks(pending[t]) \cup ConstantTasks(pending[t])
         /\ Top(t).do # "constantData" => Top(t) \in Tasks(pending[t])
         /\ ok[t] = TRUE
         /\ Len(agenda[t]) > 1 => Top(t) \in Tasks(pending[t])
<1> DEFINE r == pending[t]
<1>1. r \in Request /\ agenda[t] \in Agendas(r) /\ ok[t] = TRUE
  BY DEF CallInv
<1>2. agenda[t] \in Seq(Tasks(r) \cup ConstantTasks(r)) /\ Len(agenda[t]) \in Nat
  BY <1>1, LenProperties DEF Agendas
<1>3. Top(t) \in Tasks(r) \cup ConstantTasks(r) /\ Top(t) = agenda[t][1]
  BY <1>2, HeadTailProperties DEF Top
<1>4. Top(t).do # "constantData" => Top(t) \in Tasks(r)
  BY <1>3 DEF ConstantTasks
<1>5. Len(agenda[t]) > 1 => Top(t) \in Tasks(r)
  BY <1>1, <1>2, <1>3 DEF Agendas
<1> QED
  BY <1>1, <1>3, <1>4, <1>5

(* The other threads' calls stand still.                                   *)
LEMMA OthersStand ==
  ASSUME NEW t \in Thread, \A s \in Thread : CallInv(s), CallInv(t)',
         \A s \in Thread \ {t} :
           /\ pending'[s] = pending[s] /\ agenda'[s] = agenda[s] /\ pc'[s] = pc[s]
           /\ nth'[s] = nth[s] /\ ok'[s] = ok[s] /\ reply'[s] = reply[s]
  PROVE  \A s \in Thread : CallInv(s)'
<1> TAKE s \in Thread
<1>1. CASE s = t
  BY <1>1
<1>2. CASE s # t
  <2>1. /\ pending'[s] = pending[s] /\ agenda'[s] = agenda[s] /\ pc'[s] = pc[s]
        /\ nth'[s] = nth[s] /\ ok'[s] = ok[s] /\ reply'[s] = reply[s]
    BY <1>2
  <2>2. CallInv(s)
    OBVIOUS
  <2> QED BY <2>1, <2>2 DEF CallInv, Top
<1> QED
  BY <1>1, <1>2

(* A call goes on within its item.                                         *)
LEMMA GotoCall ==
  ASSUME IInv, NEW t \in Thread, agenda[t] # << >>, NEW p \in Places \ {"begin"},
         Goto(t, p), InPlace(Top(t), p, nth[t]),
         UNCHANGED <<pending, reply>>, ok' = ok \/ Used(t, TRUE)
  PROVE  CallsInv
<1>1. CallInv(t) /\ ok[t] = TRUE
  BY TopIsTask DEF IInv
<1>2. ok' = ok
  BY <1>1 DEF IInv, IsFunctionOfThreads, Used
<1>3. agenda' = agenda /\ nth' = nth /\ pc' = [pc EXCEPT ![t] = p]
  BY DEF Goto
<1>4. pc'[t] = p /\ \A s \in Thread \ {t} : pc'[s] = pc[s]
  BY <1>3 DEF IInv, StreamInv
<1>5. CallInv(t)'
  BY <1>1, <1>2, <1>3, <1>4 DEF CallInv, Top
<1>6. \A s \in Thread : CallInv(s)'
  BY <1>2, <1>3, <1>4, <1>5, OthersStand DEF IInv
<1> QED
  BY <1>2, <1>6 DEF CallsInv, IInv, IsFunctionOfThreads

(* A call is done with an item, having used what was right or, if that     *)
(* was its last, what is known to be wrong.                                *)
LEMMA ContinueCall ==
  ASSUME IInv, NEW t \in Thread, agenda[t] # << >>,
         NEW first \in Seq(Tasks(pending[t])), Continue(t, first),
         UNCHANGED <<pending, reply>>,
         NEW right \in BOOLEAN, (ok' = ok /\ right) \/ Used(t, right),
         ~right => Misrouted(pending[t]) /\ first \o Tail(agenda[t]) = << >>
  PROVE  CallsInv
<1>1. CallInv(t) /\ ok[t] = TRUE /\ pending[t] \in Request
  BY TopIsTask DEF IInv
<1>2. IsFunctionOfThreads(ok') /\ ok'[t] = right /\ \A s \in Thread \ {t} : ok'[s] = ok[s]
  BY <1>1 DEF IInv, IsFunctionOfThreads, Used
<1>3. /\ agenda'[t] = first \o Tail(agenda[t]) /\ pc'[t] = "begin" /\ nth'[t] = 1
      /\ \A s \in Thread \ {t} : agenda'[s] = agenda[s] /\ pc'[s] = pc[s] /\ nth'[s] = nth[s]
  BY DEF IInv, StreamInv, IsFunctionOfThreads, Continue
<1>4. agenda'[t] \in Agendas(pending[t])
  BY <1>1, <1>3, RestOfAgenda DEF CallInv
<1>5. InPlace(Top(t)', "begin", 1)
  BY DEF InPlace
<1>6. CallInv(t)'
  BY <1>1, <1>2, <1>3, <1>4, <1>5 DEF CallInv
<1>7. \A s \in Thread : CallInv(s)'
  BY <1>2, <1>3, <1>6, OthersStand DEF IInv
<1> QED
  BY <1>2, <1>7 DEF CallsInv, IInv

(* A call returns.                                                         *)
LEMMA ReturnCall ==
  ASSUME IInv, NEW t \in Thread, NEW val, Return(t, val),
         val = "junk" => pending[t] \in Request /\ Misrouted(pending[t])
  PROVE  CallsInv
<1>1. CallInv(t)
  BY DEF IInv
<1>2. /\ IsFunctionOfThreads(ok') /\ IsFunctionOfThreads(reply')
      /\ reply'[t] = [to |-> pending[t], val |-> val] /\ pending'[t] = None
      /\ agenda'[t] = << >> /\ pc'[t] = "begin" /\ nth'[t] = 1 /\ ok'[t] = TRUE
      /\ \A s \in Thread \ {t} :
           /\ pending'[s] = pending[s] /\ agenda'[s] = agenda[s] /\ pc'[s] = pc[s]
           /\ nth'[s] = nth[s] /\ ok'[s] = ok[s] /\ reply'[s] = reply[s]
  BY DEF IInv, StreamInv, IsFunctionOfThreads, Return
<1>3. CallInv(t)'
  <2>1. reply'[t].val = "junk" => reply'[t].to \in Request /\ Misrouted(reply'[t].to)
    BY <1>2
  <2> QED BY <1>2, <2>1 DEF CallInv
<1>4. \A s \in Thread : CallInv(s)'
  BY <1>2, <1>3, OthersStand DEF IInv
<1> QED
  BY <1>2, <1>4 DEF CallsInv

(* A call begins.                                                          *)
LEMMA AskCall ==
  ASSUME IInv, NEW t \in Thread, NEW r \in Request, Ask(t, r)
  PROVE  CallsInv
<1>1. CallInv(t) /\ agenda[t] = << >> /\ ok[t] = TRUE /\ r # None
  BY NoneAssumption DEF IInv, CallInv, Ask
<1>2. /\ pending'[t] = r /\ agenda'[t] = Plan(r) /\ UNCHANGED <<pc, nth, ok, reply>>
      /\ \A s \in Thread \ {t} : pending'[s] = pending[s] /\ agenda'[s] = agenda[s]
  BY DEF IInv, StreamInv, IsFunctionOfThreads, Ask
<1>3. Plan(r) \in Agendas(r)
  BY PlanIsAgenda
<1>4. pc[t] = "begin"
  BY <1>1 DEF IInv, StreamInv
<1>5. nth[t] = 1
  BY <1>1, <1>4 DEF CallInv
<1>6. CallInv(t)'
  BY <1>1, <1>2, <1>3, <1>4, <1>5 DEF CallInv, InPlace
<1>7. \A s \in Thread : CallInv(s)'
  BY <1>2, <1>6, OthersStand DEF IInv
<1> QED
  BY <1>2, <1>7 DEF CallsInv, IInv, IsFunctionOfThreads

-----------------------------------------------------------------------------
(* The steps.  Each keeps the calls, the cache, the cells and the counters *)
(* as they have to be.                                                     *)

OnceStep == \A c \in Cell : once[c] # Unset => once'[c] = once[c]

Upheld ==
  /\ CallsInv
  /\ CacheStep
  /\ OnceInv' /\ OnceStep
  /\ CountInv'

(* Most steps touch no cell and no counter, many not even the cache.       *)
LEMMA CellsStand ==
  ASSUME IInv, UNCHANGED once
  PROVE  OnceInv' /\ OnceStep
BY DEF IInv, OnceInv, OnceStep

LEMMA CountersStand ==
  ASSUME IInv, UNCHANGED counters
  PROVE  CountInv'
BY DEF IInv, CountInv, counters

LEMMA SharedStands ==
  ASSUME IInv, UNCHANGED <<cacheVars, counters, once>>
  PROVE  CacheStep /\ OnceInv' /\ OnceStep /\ CountInv'
BY CellsStand, CountersStand, LeavingCacheAlone DEF IInv

(* An item that is done and puts nothing in its place.                     *)
LEMMA ItemDone ==
  ASSUME IInv, NEW t \in Thread, agenda[t] # << >>, Continue(t, << >>),
         UNCHANGED <<pending, reply>>, ok' = ok \/ Used(t, TRUE)
  PROVE  CallsInv
<1>1. ok[t] = TRUE
  BY TopIsTask DEF IInv
<1>2. << >> \in Seq(Tasks(pending[t]))
  BY EmptySeq
<1>3. Used(t, TRUE)
  BY <1>1 DEF Used, IInv, IsFunctionOfThreads
<1> QED
  BY <1>2, <1>3, ContinueCall

LEMMA AnswerKeeps == ASSUME IInv, NEW t \in Thread, Answer(t) PROVE Upheld
<1>1. CallsInv
  <2>1. CallInv(t) /\ pending[t] # None
    BY DEF IInv, Answer
  <2>2. ~ok[t] => pending[t] \in Request /\ Misrouted(pending[t])
    BY <2>1 DEF CallInv
  <2> DEFINE val == IF ok[t] THEN "pixels" ELSE "junk"
  <2>3. val = "junk" => ~ok[t]
    OBVIOUS
  <2>4. Return(t, val)
    BY DEF Answer
  <2> HIDE DEF val
  <2> QED BY <2>2, <2>3, <2>4, ReturnCall
<1> QED
  BY <1>1, SharedStands DEF Answer, Upheld

(* Refusals and failures.                                                  *)
LEMMA ErrorKeeps ==
  ASSUME IInv, NEW t \in Thread, Refuse(t) \/ DecodeFails(t) \/ Fault(t)
  PROVE  Upheld
<1>1. Return(t, "err") /\ UNCHANGED <<cacheVars, counters, once>>
  BY DEF Refuse, DecodeFails, Fault
<1> QED
  BY <1>1, ReturnCall, SharedStands DEF Upheld

LEMMA LookupHitKeeps == ASSUME IInv, NEW t \in Thread, LookupHit(t) PROVE Upheld
<1> DEFINE k == KeyOf(Top(t))
<1>1. /\ At(t, "begin") /\ IsLookup(Top(t)) /\ k \in Cache!Resident
      /\ Used(t, Cache!ValueOf(k) = k) /\ Cache!Get(k)
      /\ Goto(t, "countHit") \/ Continue(t, << >>)
      /\ UNCHANGED <<counters, once, pending, reply>>
  BY DEF LookupHit
<1> HIDE DEF k
<1>2. CacheInv /\ CallInv(t)
  BY DEF IInv
<1>3. CacheStep /\ Used(t, TRUE)
  BY <1>1, <1>2, FoundIsFresh, GetIsCacheStep
<1>4. CallsInv
  <2>1. CASE Goto(t, "countHit")
    <3>1. InPlace(Top(t), "countHit", nth[t])
      BY <1>1, <1>2 DEF InPlace, CallInv, At
    <3> QED BY <1>1, <1>3, <2>1, <3>1, GotoCall DEF At, Places
  <2>2. CASE Continue(t, << >>)
    BY <1>1, <1>3, <2>2, ItemDone DEF At
  <2> QED BY <1>1, <2>1, <2>2
<1> QED
  BY <1>1, <1>3, <1>4, CellsStand, CountersStand DEF Upheld

LEMMA LookupMissKeeps == ASSUME IInv, NEW t \in Thread, LookupMiss(t) PROVE Upheld
<1>1. PICK p \in {"countMiss", "missed"} : Goto(t, p)
  BY DEF LookupMiss
<1>2. At(t, "begin") /\ IsLookup(Top(t)) /\ CallInv(t)
  BY DEF LookupMiss, IInv
<1>3. InPlace(Top(t), p, nth[t])
  BY <1>2 DEF InPlace, CallInv, At
<1>4. CallsInv
  BY <1>1, <1>2, <1>3, GotoCall DEF LookupMiss, At, Places
<1> QED
  BY <1>4, SharedStands DEF LookupMiss, Upheld

(* The counters only go up.                                                *)
LEMMA CountHitKeeps == ASSUME IInv, NEW t \in Thread, CountHit(t) PROVE Upheld
<1>1. CallsInv
  BY ItemDone DEF CountHit, At
<1>2. CountInv'
  BY DEF CountHit, IInv, CountInv
<1> QED
  BY <1>1, <1>2, CellsStand, LeavingCacheAlone DEF CountHit, IInv, Upheld

LEMMA CountMissKeeps == ASSUME IInv, NEW t \in Thread, CountMiss(t) PROVE Upheld
<1>1. At(t, "countMiss") /\ CallInv(t)
  BY DEF CountMiss, IInv
<1>2. InPlace(Top(t), "missed", nth[t])
  BY <1>1 DEF InPlace, CallInv, At
<1>3. CallsInv
  BY <1>1, <1>2, GotoCall DEF CountMiss, At, Places
<1>4. CountInv'
  BY DEF CountMiss, IInv, CountInv
<1> QED
  BY <1>3, <1>4, CellsStand, LeavingCacheAlone DEF CountMiss, IInv, Upheld

LEMMA DeriveKeeps == ASSUME IInv, NEW t \in Thread, Derive(t) PROVE Upheld
<1>1. CallsInv
  BY ItemDone DEF Derive, At
<1>2. CountInv'
  BY DEF Derive, IInv, CountInv
<1> QED
  BY <1>1, <1>2, CellsStand, LeavingCacheAlone DEF Derive, IInv, Upheld

(* A cell somebody initialised holds what its bytes say.                   *)
LEMMA CellReadyKeeps == ASSUME IInv, NEW t \in Thread, CellReady(t) PROVE Upheld
<1>1. /\ At(t, "begin") /\ agenda[t] # << >> /\ Top(t).do = "cell" /\ CallInv(t)
      /\ once[Top(t).x] # Unset /\ Used(t, once[Top(t).x].right)
  BY DEF CellReady, IInv, At
<1>2. Top(t).x \in Cell
  BY <1>1, TopIsTask DEF Tasks, ReadTasks, KeepTasks, DerivedTasks
<1>3. once[Top(t).x].right = TRUE
  BY <1>1, <1>2 DEF IInv, OnceInv
<1>4. CallsInv
  BY <1>1, <1>3, ItemDone DEF CellReady
<1> QED
  BY <1>4, SharedStands DEF CellReady, Upheld

(* The constant data is the last a call uses, of a constant face or not.   *)
LEMMA UseConstantDataKeeps == ASSUME IInv, NEW t \in Thread, UseConstantData(t) PROVE Upheld
<1> DEFINE right == Source[Top(t).x].route = "constant"
           r == pending[t]
<1>1. /\ agenda[t] # << >> /\ Top(t).do = "constantData" /\ CallInv(t)
      /\ Used(t, right) /\ Continue(t, << >>) /\ UNCHANGED <<pending, reply>>
  BY DEF UseConstantData, IInv, At
<1>2. /\ r \in Request /\ Top(t) \in Tasks(r) \cup ConstantTasks(r)
      /\ Len(agenda[t]) > 1 => Top(t) \in Tasks(r)
  BY <1>1, TopIsTask
<1>3. Top(t) \notin Tasks(r)
  BY <1>1 DEF Tasks, ReadTasks, KeepTasks, DerivedTasks
<1>4. ~right => Misrouted(r)
  BY <1>2, <1>3 DEF ConstantTasks, Misrouted
<1>5. << >> \o Tail(agenda[t]) = << >>
  <2>1. agenda[t] \in Seq(Tasks(r) \cup ConstantTasks(r)) /\ ~(Len(agenda[t]) > 1)
    BY <1>1, <1>2, <1>3 DEF CallInv, Agendas
  <2>2. Tail(agenda[t]) = << >>
    BY <1>1, <2>1, HeadTailProperties, EmptySeq, LenProperties
  <2> QED BY <2>2
<1>6. << >> \in Seq(Tasks(r)) /\ right \in BOOLEAN
  BY EmptySeq
<1>7. CallsInv
  BY <1>1, <1>4, <1>5, <1>6, ContinueCall
<1> QED
  BY <1>7, SharedStands DEF UseConstantData, Upheld

(* An item that is read takes at least one read.                           *)
LEMMA StartReadingKeeps == ASSUME IInv, NEW t \in Thread, StartReading(t) PROVE Upheld
<1>1. /\ agenda[t] # << >> /\ CallInv(t) /\ Goto(t, "lock")
      /\ pc[t] \in {"begin", "missed"} /\ Top(t).do \in {"cell", "dir", "block"}
      /\ UNCHANGED <<pending, ok, reply>>
  BY DEF StartReading, IInv, At, IsConstantBlock
<1>2. nth[t] = 1
  BY <1>1 DEF CallInv, InPlace
<1>3. Top(t).do = "cell" => Top(t).x \in Cell
  BY <1>1, TopIsTask DEF Tasks, ReadTasks, KeepTasks, DerivedTasks
<1>4. 1 <= NReads(Top(t))
  <2>1. CASE Top(t).do = "cell"
    BY <1>3, <2>1, CellAssumption DEF NReads
  <2>2. CASE Top(t).do \in {"dir", "block"}
    BY <2>2 DEF NReads
  <2> QED BY <1>1, <2>1, <2>2
<1>5. InPlace(Top(t), "lock", nth[t])
  BY <1>1, <1>2, <1>4 DEF InPlace
<1>6. CallsInv
  BY <1>1, <1>5, GotoCall DEF Places
<1> QED
  BY <1>6, SharedStands DEF StartReading, Upheld

(* From the mutex to the seek to the read, the same read of the same item. *)
LEMMA LockOrSeekKeeps == ASSUME IInv, NEW t \in Thread, Lock(t) \/ Seek(t) PROVE Upheld
<1>1. PICK p \in {"seek", "read"} : Goto(t, p)
  BY DEF Lock, Seek
<1>2. /\ agenda[t] # << >> /\ CallInv(t) /\ pc[t] \in {"lock", "seek"}
      /\ UNCHANGED <<cacheVars, counters, once, pending, ok, reply>>
  BY DEF Lock, Seek, IInv, At
<1>3. InPlace(Top(t), p, nth[t])
  BY <1>2 DEF InPlace, CallInv
<1>4. CallsInv
  BY <1>1, <1>2, <1>3, GotoCall DEF Places
<1> QED
  BY <1>2, <1>4, SharedStands DEF Upheld

(* A read is of the address it means: no thread came between.              *)
LEMMA ReadKeeps == ASSUME IInv, NEW t \in Thread, Read(t) PROVE Upheld
<1>1. /\ agenda[t] # << >> /\ CallInv(t) /\ pc[t] = "read"
      /\ Used(t, cursor = Address(Top(t), nth[t]))
      /\ UNCHANGED <<cacheVars, counters, once, pending, reply>>
  BY DEF Read, IInv, At
<1>2. cursor = Address(Top(t), nth[t])
  BY <1>1 DEF IInv, StreamInv, StreamExclusive
<1>3. Used(t, TRUE)
  BY <1>1, <1>2
<1>4. InPlace(Top(t), "read", nth[t])
  BY <1>1 DEF CallInv
<1>5. CASE nth[t] < NReads(Top(t))
  <2>1. /\ nth'[t] = nth[t] + 1 /\ pc'[t] = "lock" /\ agenda' = agenda
        /\ \A s \in Thread \ {t} : nth'[s] = nth[s] /\ pc'[s] = pc[s]
    BY <1>5 DEF Read, IInv, StreamInv, IsFunctionOfThreads
  <2>2. ok[t] = TRUE
    BY <1>1, TopIsTask
  <2>3. ok' = ok
    BY <1>3, <2>2 DEF IInv, IsFunctionOfThreads, Used
  <2>4. NReads(Top(t)) \in Nat
    <3>1. Top(t).do = "cell" => Top(t).x \in Cell
      BY <1>1, TopIsTask DEF Tasks, ReadTasks, KeepTasks, DerivedTasks
    <3> QED BY <1>4, <3>1, CellAssumption DEF InPlace, NReads
  <2>5. InPlace(Top(t), "lock", nth[t] + 1)
    BY <1>4, <1>5, <2>4 DEF InPlace
  <2>6. CallInv(t)'
    <3>1. Top(t)' = Top(t)
      BY <2>1 DEF Top
    <3> QED BY <1>1, <2>1, <2>3, <2>5, <3>1 DEF CallInv
  <2>7. \A s \in Thread : CallInv(s)'
    BY <1>1, <2>1, <2>3, <2>6, OthersStand DEF IInv
  <2>8. CallsInv
    BY <1>1, <2>3, <2>7 DEF CallsInv, IInv, IsFunctionOfThreads
  <2> QED BY <1>1, <2>8, SharedStands DEF Upheld
<1>6. CASE ~(nth[t] < NReads(Top(t)))
  <2>1. Goto(t, "decode")
    BY <1>6 DEF Read
  <2>2. InPlace(Top(t), "decode", nth[t])
    BY <1>4 DEF InPlace
  <2>3. CallsInv
    BY <1>1, <1>3, <2>1, <2>2, GotoCall DEF Places
  <2> QED BY <1>1, <2>3, SharedStands DEF Upheld
<1> QED
  BY <1>5, <1>6

(* The first thread to parse a cell sets it; later ones drop their own.    *)
LEMMA SetCellKeeps == ASSUME IInv, NEW t \in Thread, SetCell(t) PROVE Upheld
<1> DEFINE c == Top(t).x
<1>1. /\ agenda[t] # << >> /\ CallInv(t) /\ Top(t).do = "cell"
      /\ once' = IF once[c] = Unset
                 THEN [once EXCEPT ![c] = [by |-> t, right |-> ok[t]]] ELSE once
      /\ Used(t, once'[c].right) /\ Continue(t, << >>)
      /\ UNCHANGED <<cacheVars, counters, pending, reply>>
  BY DEF SetCell, IInv, At
<1>2. c \in Cell
  BY <1>1, TopIsTask DEF Tasks, ReadTasks, KeepTasks, DerivedTasks
<1>3. ok[t] = TRUE
  BY <1>1, TopIsTask
<1>4. once \in [Cell -> {Unset} \cup [by : Thread, right : {TRUE}]]
  BY DEF IInv, OnceInv
<1> HIDE DEF c
<1>5. [by |-> t, right |-> ok[t]] \in [by : Thread, right : {TRUE}]
  BY <1>3
<1>6. OnceInv'
  BY <1>1, <1>4, <1>5 DEF OnceInv
<1>7. OnceStep
  BY <1>1, <1>4 DEF OnceStep
<1>8. once'[c].right = TRUE
  <2>1. CASE once[c] = Unset
    BY <1>1, <1>2, <1>3, <1>4, <2>1
  <2>2. CASE once[c] # Unset
    BY <1>1, <1>2, <1>4, <2>2
  <2> QED BY <2>1, <2>2
<1>9. CallsInv
  BY <1>1, <1>8, ItemDone
<1> QED
  BY <1>1, <1>6, <1>7, <1>9, CountersStand, LeavingCacheAlone DEF IInv, Upheld

(* A step that stores under the key of its item.                           *)
LEMMA StoringKeeps ==
  ASSUME IInv, NEW t \in Thread, agenda[t] # << >>,
         IsLookup(Top(t)) \/ Top(t).do \in {"keepReduced", "keepDerived"},
         Top(t).keep = "Cached", KeyOf(Top(t)) \notin Broken,
         Store(t, KeyOf(Top(t))), Continue(t, << >>),
         UNCHANGED <<counters, once, pending, reply>>
  PROVE  Upheld
<1>1. CallInv(t) /\ CacheInv
  BY DEF IInv
<1>2. /\ pending[t] \in Request /\ ok[t] = TRUE
      /\ Top(t) \in Tasks(pending[t])
  BY <1>1, TopIsTask DEF IsLookup
<1>3. KeyOf(Top(t)) \in CacheKey /\ KeyOf(Top(t)) \in Footprint(pending[t])
  BY <1>2, TaskKey
<1>4. CacheStep /\ Used(t, TRUE)
  BY <1>1, <1>2, <1>3, StoreIsCacheStep
<1>5. CallsInv
  BY <1>4, ItemDone
<1> QED
  BY <1>4, <1>5, CellsStand, CountersStand DEF Upheld

LEMMA KeepKeeps == ASSUME IInv, NEW t \in Thread, Keep(t) PROVE Upheld
<1>1. Item(Top(t)) = KeyOf(Top(t))
  BY DEF Keep, Item, IsLookup
<1> QED
  BY <1>1, StoringKeeps DEF Keep, At

LEMMA UseAndDropKeeps == ASSUME IInv, NEW t \in Thread, UseAndDrop(t) PROVE Upheld
<1>1. CallsInv
  BY ItemDone DEF UseAndDrop, At
<1> QED
  BY <1>1, SharedStands DEF UseAndDrop, Upheld

LEMMA ReduceKeeps == ASSUME IInv, NEW t \in Thread, Reduce(t) PROVE Upheld
<1> DEFINE first == DataPlan(Source[Top(t).x].from, Top(t).keep)
                      \o << Task("keepReduced", Top(t).x, Top(t).keep) >>
<1>1. /\ agenda[t] # << >> /\ CallInv(t) /\ Top(t).do = "reduced"
      /\ Continue(t, first) /\ UNCHANGED <<cacheVars, counters, once, pending, ok, reply>>
  BY DEF Reduce, IInv, At
<1>2. Top(t) \in Tasks(pending[t]) /\ ok[t] = TRUE
  BY <1>1, TopIsTask
<1>3. first \in Seq(Tasks(pending[t]))
  BY <1>1, <1>2, ReduceTasks
<1> HIDE DEF first
<1>4. Used(t, TRUE)
  BY <1>1, <1>2 DEF Used, IInv, IsFunctionOfThreads
<1>5. CallsInv
  BY <1>1, <1>3, <1>4, ContinueCall
<1> QED
  BY <1>1, <1>5, SharedStands DEF Upheld

(* Reductions and derived levels always decode.                            *)
LEMMA MadeIsNotBroken ==
  ASSUME NEW task, task.do \in {"keepReduced", "keepDerived"}
  PROVE  KeyOf(task) \notin Broken
<1>1. KeyOf(task) = Reduced(task.x) \/ KeyOf(task) = Derived(task.x[1], task.x[2])
  BY DEF KeyOf
<1>2. KeyOf(task)[1] \in {"Reduced", "Derived"}
  BY <1>1 DEF Reduced, Derived
<1> QED
  BY <1>2, BrokenAssumption

LEMMA KeepReducedKeeps == ASSUME IInv, NEW t \in Thread, KeepReduced(t) PROVE Upheld
<1>1. CASE Top(t).keep = "Cached"
  BY <1>1, MadeIsNotBroken, StoringKeeps DEF KeepReduced, At
<1>2. CASE Top(t).keep # "Cached"
  <2>1. CallsInv
    BY <1>2, ItemDone DEF KeepReduced, At
  <2> QED BY <1>2, <2>1, SharedStands DEF KeepReduced, Upheld
<1> QED
  BY <1>1, <1>2

LEMMA KeepDerivedKeeps == ASSUME IInv, NEW t \in Thread, KeepDerived(t) PROVE Upheld
<1>1. agenda[t] # << >> /\ Top(t).do = "keepDerived" /\ CallInv(t)
  BY DEF KeepDerived, IInv, At
<1>2. Top(t) \in Tasks(pending[t])
  BY <1>1, TopIsTask
<1>3. Top(t).keep = "Cached"
  BY <1>1, <1>2 DEF Tasks, ReadTasks, KeepTasks, DerivedTasks
<1> QED
  BY <1>1, <1>3, MadeIsNotBroken, StoringKeeps DEF KeepDerived

(* The ancestor a chain starts from.                                       *)
LEMMA DeepestAncestor ==
  ASSUME NEW f, NEW k \in Nat, ResidentLevels(f, k) # {}
  PROVE  Max(ResidentLevels(f, k)) \in ResidentLevels(f, k)
<1> DEFINE S == ResidentLevels(f, k)
<1>1. S \in SUBSET (0..k) /\ S # {}
  BY DEF ResidentLevels
<1> HIDE DEF S
<1>2. \E n \in S : \A m \in S : n >= m
  BY <1>1, CacheProofs!GreatestNatural, CacheAssumptions
<1>3. Max(S) \in S
  BY <1>2 DEF Max
<1> QED
  BY <1>3 DEF S

LEMMA DeriveFromAncestorKeeps ==
  ASSUME IInv, NEW t \in Thread, DeriveFromAncestor(t) PROVE Upheld
<1> DEFINE f == Top(t).x[1]
           k == Top(t).x[2]
           j == Max(ResidentLevels(f, k))
           first == DerivePlan(<<f, k>>, k - j)
<1>1. /\ agenda[t] # << >> /\ CallInv(t) /\ CacheInv /\ Top(t).do = "derived"
      /\ ResidentLevels(f, k) # {}
      /\ Used(t, Cache!ValueOf(Derived(f, j)) = Derived(f, j))
      /\ Cache!Get(Derived(f, j))
      /\ Continue(t, first)
      /\ UNCHANGED <<counters, once, pending, reply>>
  BY DEF DeriveFromAncestor, IInv, At
<1>2. Top(t) \in Tasks(pending[t])
  BY <1>1, TopIsTask
<1>3. k \in Nat /\ \A steps \in Nat : DerivePlan(<<f, k>>, steps) \in Seq(Tasks(pending[t]))
  BY <1>1, <1>2, DeriveTasks
<1>4. j \in ResidentLevels(f, k)
  BY <1>1, <1>3, DeepestAncestor
<1>5. j \in 0..(k - 1) /\ Derived(f, j) \in Cache!Resident
  BY <1>4 DEF ResidentLevels
<1> HIDE DEF f, k, j
<1>6. k - j \in Nat
  BY <1>3, <1>5
<1>7. first \in Seq(Tasks(pending[t]))
  BY <1>3, <1>6
<1> HIDE DEF first
<1>8. Used(t, TRUE) /\ CacheStep
  BY <1>1, <1>5, FoundIsFresh, GetIsCacheStep
<1>9. CallsInv
  BY <1>1, <1>7, <1>8, ContinueCall
<1> QED
  BY <1>1, <1>8, <1>9, CellsStand, CountersStand DEF Upheld

LEMMA DeriveFromBaseKeeps ==
  ASSUME IInv, NEW t \in Thread, DeriveFromBase(t) PROVE Upheld
<1> DEFINE f == Top(t).x[1]
           k == Top(t).x[2]
           base == DataPlan(DerivedBase[f], "Transient")
           levels == DerivePlan(<<f, k>>, k + 1)
           T == Tasks(pending[t])
<1>1. /\ agenda[t] # << >> /\ CallInv(t) /\ Top(t).do = "derived"
      /\ Continue(t, base \o levels)
      /\ UNCHANGED <<cacheVars, counters, once, pending, ok, reply>>
  BY DEF DeriveFromBase, IInv, At
<1>2. Top(t) \in T /\ ok[t] = TRUE
  BY <1>1, TopIsTask
<1>3. /\ k \in Nat /\ base \in Seq(T)
      /\ \A steps \in Nat : DerivePlan(<<f, k>>, steps) \in Seq(T)
  BY <1>1, <1>2, DeriveTasks
<1>4. k + 1 \in Nat
  <2> HIDE DEF base, T
  <2>1. k \in Nat
    BY <1>3
  <2> HIDE DEF k
  <2> QED BY <2>1
<1>5. levels \in Seq(T)
  BY <1>3, <1>4
<1> HIDE DEF f, k, base, levels, T
<1>6. base \o levels \in Seq(T)
  BY <1>3, <1>5, ConcatProperties
<1>7. Used(t, TRUE)
  BY <1>1, <1>2 DEF Used, IInv, IsFunctionOfThreads
<1>8. CallsInv
  BY <1>1, <1>6, <1>7, ContinueCall DEF T
<1> QED
  BY <1>1, <1>8, SharedStands DEF Upheld

LEMMA StepKeeps == ASSUME IInv, NEW t \in Thread, Step(t) PROVE Upheld
<1>1. CASE Answer(t)
  BY <1>1, AnswerKeeps
<1>2. CASE Refuse(t) \/ DecodeFails(t)
  BY <1>2, ErrorKeeps
<1>3. CASE LookupHit(t)
  BY <1>3, LookupHitKeeps
<1>4. CASE LookupMiss(t)
  BY <1>4, LookupMissKeeps
<1>5. CASE CountHit(t)
  BY <1>5, CountHitKeeps
<1>6. CASE CountMiss(t)
  BY <1>6, CountMissKeeps
<1>7. CASE CellReady(t)
  BY <1>7, CellReadyKeeps
<1>8. CASE UseConstantData(t)
  BY <1>8, UseConstantDataKeeps
<1>9. CASE StartReading(t)
  BY <1>9, StartReadingKeeps
<1>10. CASE Lock(t) \/ Seek(t)
  BY <1>10, LockOrSeekKeeps
<1>11. CASE Read(t)
  BY <1>11, ReadKeeps
<1>12. CASE SetCell(t)
  BY <1>12, SetCellKeeps
<1>13. CASE Keep(t)
  BY <1>13, KeepKeeps
<1>14. CASE UseAndDrop(t)
  BY <1>14, UseAndDropKeeps
<1>15. CASE Reduce(t)
  BY <1>15, ReduceKeeps
<1>16. CASE KeepReduced(t)
  BY <1>16, KeepReducedKeeps
<1>17. CASE DeriveFromAncestor(t)
  BY <1>17, DeriveFromAncestorKeeps
<1>18. CASE DeriveFromBase(t)
  BY <1>18, DeriveFromBaseKeeps
<1>19. CASE Derive(t)
  BY <1>19, DeriveKeeps
<1>20. CASE KeepDerived(t)
  BY <1>20, KeepDerivedKeeps
<1> QED
  BY <1>1, <1>2, <1>3, <1>4, <1>5, <1>6, <1>7, <1>8, <1>9, <1>10, <1>11, <1>12,
     <1>13, <1>14, <1>15, <1>16, <1>17, <1>18, <1>19, <1>20 DEF Step

LEMMA AskKeeps == ASSUME IInv, NEW t \in Thread, NEW r \in Request, Ask(t, r) PROVE Upheld
BY AskCall, SharedStands DEF Ask, Upheld

(* Nothing happens to the calls.                                           *)
LEMMA CallsStand ==
  ASSUME IInv, UNCHANGED thread
  PROVE  CallsInv
<1>1. UNCHANGED <<pending, agenda, pc, nth, ok, reply>>
  BY DEF thread
<1> QED
  BY <1>1 DEF IInv, CallsInv, CallInv, Top, IsFunctionOfThreads

LEMMA AsideKeeps ==
  ASSUME IInv, ClearCache \/ (\E b \in Budgets : SetCacheBudget(b)) \/ UNCHANGED vars
  PROVE  Upheld
<1>1. CASE ClearCache \/ \E b \in Budgets : SetCacheBudget(b)
  <2>1. Cache!Clear \/ \E b \in Budgets : Cache!SetBudget(b)
    BY <1>1 DEF ClearCache, SetCacheBudget
  <2>2. CacheStep
    BY <2>1, AdminIsCacheStep DEF IInv
  <2> QED
    BY <1>1, <2>2, CallsStand, CellsStand, CountersStand
    DEF ClearCache, SetCacheBudget, Upheld
<1>2. CASE UNCHANGED vars
  BY <1>2, CallsStand, SharedStands DEF vars, Upheld
<1> QED
  BY <1>1, <1>2

LEMMA NextKeeps == IInv /\ [Next]_vars => Upheld
<1> SUFFICES ASSUME IInv, [Next]_vars PROVE Upheld
  OBVIOUS
<1>1. ASSUME NEW t \in Thread, Step(t) PROVE Upheld
  BY <1>1, StepKeeps
<1>2. ASSUME NEW t \in Thread, Fault(t) PROVE Upheld
  BY <1>2, ErrorKeeps
<1>3. ASSUME NEW t \in Thread, NEW r \in Request, Ask(t, r) PROVE Upheld
  BY <1>3, AskKeeps
<1> QED
  BY <1>1, <1>2, <1>3, AsideKeeps DEF Next, AllDone

LEMMA InitIInv == Init => IInv
<1> SUFFICES ASSUME Init PROVE IInv
  OBVIOUS
<1>1. StreamInv
  BY InitStreamInv
<1>2. CacheInv
  <2>1. CacheProofs!Init
    BY SameCache DEF Init
  <2>2. CacheProofs!IInv
    BY <2>1, CacheProofs!InitIInv, CacheAssumptions
  <2>3. lru \in Seq(Fresh)
    BY EmptySeq DEF Init, Cache!Init
  <2> QED BY <2>2, <2>3 DEF CacheInv
<1>3. OnceInv /\ CountInv
  BY DEF Init, OnceInv, CountInv
<1>4. IsFunctionOfThreads(ok) /\ IsFunctionOfThreads(reply) /\ \A t \in Thread : CallInv(t)
  BY DEF Init, IsFunctionOfThreads, CallInv
<1> QED
  BY <1>1, <1>2, <1>3, <1>4 DEF IInv

LEMMA NextIInv == IInv /\ [Next]_vars => IInv'
<1> SUFFICES ASSUME IInv, [Next]_vars PROVE IInv'
  OBVIOUS
<1>1. StreamInv'
  BY NextStreamInv DEF IInv
<1>2. Upheld
  BY NextKeeps
<1>3. CacheInv'
  BY <1>2, CacheStepKeeps DEF IInv, Upheld
<1> QED
  BY <1>1, <1>2, <1>3 DEF IInv, Upheld, CallsInv

LEMMA AlwaysIInv == Spec => []IInv
<1>1. Init => IInv
  BY InitIInv
<1>2. IInv /\ [Next]_vars => IInv'
  BY NextIInv
<1> QED
  BY <1>1, <1>2, PTL DEF Spec

-----------------------------------------------------------------------------
(* What the invariant says.                                                *)

LEMMA InvTypeOK == IInv => TypeOK
<1> SUFFICES ASSUME IInv PROVE TypeOK
  OBVIOUS
<1>1. Cache!TypeOK
  BY SameCache DEF IInv, CacheInv, CacheProofs!IInv
<1>2. io \in Thread \cup {Nobody} /\ hits \in Nat /\ misses \in Nat /\ derives \in Nat
  BY DEF IInv, StreamInv, CountInv
<1>3. \A c \in Cell : once[c] = Unset \/ (once[c].by \in Thread /\ once[c].right \in BOOLEAN)
  BY DEF IInv, OnceInv
<1>4. ASSUME NEW t \in Thread
      PROVE  /\ pending[t] \in Request \cup {None}
             /\ ok[t] \in BOOLEAN
             /\ \A i \in DOMAIN agenda[t] :
                  IsLookup(agenda[t][i]) => KeyOf(agenda[t][i]) \in CacheKey
             /\ agenda[t] # << >> /\ pc[t] # "begin" => IsLookup(Top(t)) \/ nth[t] <= NReads(Top(t))
  <2>1. CallInv(t) /\ pc[t] \in Places
    BY DEF IInv, StreamInv
  <2>2. ASSUME NEW i \in DOMAIN agenda[t], IsLookup(agenda[t][i])
        PROVE  KeyOf(agenda[t][i]) \in CacheKey
    <3> DEFINE r == pending[t]
               T == Tasks(r) \cup ConstantTasks(r)
    <3>1. agenda[t] # << >>
      BY <2>2
    <3>2. r \in Request /\ agenda[t] \in Seq(T)
      BY <2>1, <3>1 DEF CallInv, Agendas
    <3> HIDE DEF T
    <3>3. agenda[t][i] \in T
      BY <3>2, LenProperties, ElementOfSeq
    <3>4. agenda[t][i] \in Tasks(r)
      BY <2>2, <3>3 DEF T, IsLookup, ConstantTasks
    <3> QED BY <2>2, <3>4, TaskKey
  <2>3. agenda[t] # << >> /\ pc[t] # "begin" => IsLookup(Top(t)) \/ nth[t] <= NReads(Top(t))
    BY <2>1 DEF CallInv, InPlace, Places
  <2> QED BY <2>1, <2>2, <2>3 DEF CallInv
<1> QED
  BY <1>1, <1>2, <1>3, <1>4 DEF TypeOK

(* Whatever threads race, are evicted or fail, for any file: a resident    *)
(* entry decodes the bytes its key names, and an initialised cell its own; *)
(* nothing read for one call can be wrong for another                      *)
(* (src/src/cache.rs:8-15, 288-302, 1033-1041).                            *)
THEOREM ReaderIsCoherent == Spec => []Coherent
<1>1. IInv => CacheCoherent
  <2> SUFFICES ASSUME IInv PROVE CacheCoherent
    OBVIOUS
  <2>1. lru \in Seq(Fresh) /\ OnceInv
    BY DEF IInv, CacheInv
  <2>2. \A i \in DOMAIN lru : lru[i] \in Fresh
    BY <2>1, LenProperties, ElementOfSeq
  <2>3. \A i \in DOMAIN lru : lru[i].value = lru[i].key /\ lru[i].key \notin Broken
    BY <2>2 DEF Fresh
  <2>4. \A c \in Cell : once[c] # Unset => once[c].right
    BY <2>1 DEF OnceInv
  <2> QED BY <2>3, <2>4 DEF CacheCoherent
<1>2. IInv => Coherent
  BY <1>1, InvTypeOK DEF Coherent
<1> QED
  BY <1>2, AlwaysIInv, PTL

(* What enters the cache.  A list of entries whose keys are in K stays one *)
(* under whatever does not insert, so nothing new becomes resident.        *)
KeyedBy(K) == [key : K, value : CacheKey]

EnteredFor ==
  \A k \in Cache!Resident' \ Cache!Resident :
    \E t \in Thread : /\ agenda'[t] # agenda[t]
                      /\ pending[t] # None
                      /\ k \in Footprint(pending[t])

LEMMA ListIsKeyed ==
  ASSUME CacheInv, NEW K, Cache!Resident \subseteq K
  PROVE  lru \in Seq(KeyedBy(K))
<1>1. lru \in Seq(Fresh)
  BY DEF CacheInv
<1>2. ASSUME NEW i \in 1..Len(lru) PROVE lru[i] \in KeyedBy(K)
  <2>1. i \in DOMAIN lru /\ lru[i] \in Fresh
    BY <1>1, <1>2, LenProperties, ElementOfSeq
  <2>2. lru[i].key \in K
    BY <2>1 DEF Cache!Resident
  <2> QED BY <2>1, <2>2 DEF Fresh, KeyedBy
<1>3. Len(lru) \in Nat /\ lru = [i \in 1..Len(lru) |-> lru[i]]
  BY <1>1, LenProperties
<1>4. lru \in [1..Len(lru) -> KeyedBy(K)]
  BY <1>2, <1>3
<1> QED
  BY <1>3, <1>4, SeqDef

LEMMA KeyedResidents ==
  ASSUME NEW K, lru' \in Seq(KeyedBy(K))
  PROVE  Cache!Resident' \subseteq K
<1>1. \A i \in DOMAIN lru' : lru'[i] \in KeyedBy(K)
  BY LenProperties, ElementOfSeq
<1> QED
  BY <1>1 DEF KeyedBy, Cache!Resident

LEMMA GettingAddsNothing ==
  ASSUME CacheInv, NEW k, Cache!Get(k)
  PROVE  EnteredFor
<1> DEFINE K == Cache!Resident
<1>1. lru \in Seq(KeyedBy(K)) /\ CacheProofs!Get(k)
  BY ListIsKeyed, SameCache
<1> HIDE DEF K
<1>2. lru' \in Seq(KeyedBy(K))
  BY <1>1, CacheProofs!GetKeeps, CacheAssumptions
<1>3. Cache!Resident' \subseteq K
  BY <1>2, KeyedResidents
<1> QED
  BY <1>3 DEF K, EnteredFor

LEMMA RemovingAddsNothing ==
  ASSUME CacheInv, Cache!Clear \/ \E b \in Budgets : Cache!SetBudget(b)
  PROVE  EnteredFor
<1> DEFINE K == Cache!Resident
<1>1. lru \in Seq(KeyedBy(K)) /\ (CacheProofs!Clear \/ \E b \in Budgets : CacheProofs!SetBudget(b))
  BY ListIsKeyed, SameCache
<1> HIDE DEF K
<1>2. lru' \in Seq(KeyedBy(K))
  BY <1>1, CacheProofs!RemovingKeeps, CacheAssumptions
<1>3. Cache!Resident' \subseteq K
  BY <1>2, KeyedResidents
<1> QED
  BY <1>3 DEF K, EnteredFor

LEMMA StandingAddsNothing ==
  ASSUME UNCHANGED cacheVars
  PROVE  EnteredFor
BY DEF cacheVars, EnteredFor, Cache!Resident

(* A store adds the key of its item at most, which is one of the call's    *)
(* footprint; the item is done, so it was this thread's step.              *)
LEMMA StoringAddsItsOwn ==
  ASSUME IInv, NEW t \in Thread, pending[t] # None, agenda[t] # << >>,
         IsLookup(Top(t)) \/ Top(t).do \in {"keepReduced", "keepDerived"},
         Top(t).keep = "Cached", Store(t, KeyOf(Top(t))), Continue(t, << >>)
  PROVE  EnteredFor
<1> DEFINE k == KeyOf(Top(t))
           K == Cache!Resident \cup {k}
<1>1. CallInv(t) /\ CacheInv /\ IsFunctionOfThreads(agenda)
  BY DEF IInv, StreamInv
<1>2. /\ pending[t] \in Request /\ ok[t] = TRUE
      /\ Top(t) \in Tasks(pending[t])
  BY <1>1, TopIsTask DEF IsLookup
<1>3. k \in CacheKey /\ k \in Footprint(pending[t])
  BY <1>2, TaskKey
<1>4. CacheProofs!InsertOrGet(k, k)
  BY <1>2, SameCache DEF Store
<1>5. lru \in Seq(KeyedBy(K))
  BY <1>1, ListIsKeyed
<1>6. [key |-> k, value |-> k] \in KeyedBy(K)
  BY <1>3 DEF KeyedBy
<1>7. agenda'[t] # agenda[t]
  <2>1. agenda[t] \in Seq(Tasks(pending[t]) \cup ConstantTasks(pending[t]))
    BY <1>1, <1>2 DEF CallInv, Agendas
  <2>2. Len(Tail(agenda[t])) = Len(agenda[t]) - 1 /\ Len(agenda[t]) \in Nat
    BY <2>1, HeadTailProperties, LenProperties
  <2>3. << >> \o Tail(agenda[t]) = Tail(agenda[t])
    BY <2>1, HeadTailProperties, ConcatEmptySeq
  <2>4. agenda'[t] = Tail(agenda[t])
    BY <1>1, <2>3 DEF Continue, IsFunctionOfThreads
  <2>5. Tail(agenda[t]) # agenda[t]
    <3> SUFFICES ASSUME Tail(agenda[t]) = agenda[t] PROVE FALSE
      OBVIOUS
    <3> DEFINE n == Len(agenda[t])
    <3>1. n \in Nat /\ n = n - 1
      BY <2>2
    <3> HIDE DEF n
    <3> QED BY <3>1
  <2> QED BY <2>4, <2>5
<1> HIDE DEF k, K
<1>8. lru' \in Seq(KeyedBy(K))
  BY <1>4, <1>5, <1>6, CacheProofs!InsertKeeps, CacheAssumptions
<1>9. Cache!Resident' \subseteq K
  BY <1>8, KeyedResidents
<1> QED
  BY <1>3, <1>7, <1>9 DEF K, EnteredFor

LEMMA StepAddsItsOwn == ASSUME IInv, NEW t \in Thread, Step(t) PROVE EnteredFor
<1>1. CASE LookupHit(t)
  BY <1>1, GettingAddsNothing DEF LookupHit, IInv
<1>2. CASE DeriveFromAncestor(t)
  BY <1>2, GettingAddsNothing DEF DeriveFromAncestor, IInv
<1>3. CASE Keep(t)
  BY <1>3, StoringAddsItsOwn DEF Keep, At
<1>4. CASE KeepReduced(t)
  <2>1. CASE Top(t).keep = "Cached"
    BY <1>4, <2>1, StoringAddsItsOwn DEF KeepReduced, At
  <2>2. CASE Top(t).keep # "Cached"
    BY <1>4, <2>2, StandingAddsNothing DEF KeepReduced
  <2> QED BY <2>1, <2>2
<1>5. CASE KeepDerived(t)
  <2>1. agenda[t] # << >> /\ Top(t).do = "keepDerived" /\ CallInv(t)
    BY <1>5 DEF KeepDerived, IInv, At
  <2>2. Top(t).keep = "Cached"
    BY <2>1, TopIsTask DEF Tasks, ReadTasks, KeepTasks, DerivedTasks
  <2> QED BY <1>5, <2>1, <2>2, StoringAddsItsOwn DEF KeepDerived, At
<1>6. CASE \/ Answer(t) \/ Refuse(t) \/ LookupMiss(t) \/ CountHit(t) \/ CountMiss(t)
           \/ CellReady(t) \/ UseConstantData(t) \/ StartReading(t)
  BY <1>6, StandingAddsNothing
  DEF Answer, Refuse, LookupMiss, CountHit, CountMiss, CellReady, UseConstantData, StartReading
<1>7. CASE \/ Lock(t) \/ Seek(t) \/ Read(t) \/ DecodeFails(t) \/ SetCell(t) \/ UseAndDrop(t)
           \/ Reduce(t) \/ DeriveFromBase(t) \/ Derive(t)
  BY <1>7, StandingAddsNothing
  DEF Lock, Seek, Read, DecodeFails, SetCell, UseAndDrop, Reduce, DeriveFromBase, Derive
<1> QED
  BY <1>1, <1>2, <1>3, <1>4, <1>5, <1>6, <1>7 DEF Step

(* A step adds to the cache only what its own call asked to keep: a        *)
(* derived level leaves itself and nothing of the base, the reductions and *)
(* the ancestors it was made from (src/src/cache.rs:943-949, 992-1000).    *)
THEOREM NothingUnaskedIsKept == Spec => OnlyAskedIsKept
<1>1. IInv /\ [Next]_vars => EnteredFor
  <2> SUFFICES ASSUME IInv, [Next]_vars PROVE EnteredFor
    OBVIOUS
  <2>1. CacheInv
    BY DEF IInv
  <2>2. CASE \E t \in Thread : Step(t)
    BY <2>2, StepAddsItsOwn
  <2>3. CASE \E t \in Thread : Fault(t) \/ \E r \in Request : Ask(t, r)
    BY <2>3, StandingAddsNothing DEF Fault, Ask
  <2>4. CASE ClearCache \/ \E b \in Budgets : SetCacheBudget(b)
    BY <2>1, <2>4, RemovingAddsNothing DEF ClearCache, SetCacheBudget
  <2>5. CASE UNCHANGED vars
    BY <2>5, StandingAddsNothing DEF vars
  <2> QED BY <2>2, <2>3, <2>4, <2>5 DEF Next, AllDone
<1>2. IInv /\ [Next]_vars =>
        [\A k \in Cache!Resident' \ Cache!Resident :
           \E t \in Thread : /\ agenda'[t] # agenda[t]
                             /\ pending[t] # None
                             /\ k \in Footprint(pending[t])]_vars
  BY <1>1 DEF EnteredFor
<1> QED
  BY <1>2, AlwaysIInv, PTL DEF Spec, OnlyAskedIsKept

(* A cell once set keeps its value, whoever else parses it                 *)
(* (src/src/cache.rs:540, 1076-1080).                                      *)
THEOREM CellsAreSetOnce == Spec => FirstCellStays
<1>1. IInv /\ [Next]_vars => [\A c \in Cell : once[c] # Unset => once'[c] = once[c]]_vars
  BY NextKeeps DEF Upheld, OnceStep
<1> QED
  BY <1>1, AlwaysIInv, PTL DEF Spec, FirstCellStays

(* What any number of threads does to the cache is a run of PixelCache, so *)
(* all that is proved of PixelCache holds of the shared reader's cache.    *)
THEOREM ReaderUsesPixelCache == Spec => CacheSpec
<1>1. Init => Cache!Init
  BY DEF Init
<1>2. IInv /\ [Next]_vars => [Cache!Next]_Cache!vars
  BY NextKeeps DEF Upheld, CacheStep, cacheVars, Cache!vars
<1> QED
  BY <1>1, <1>2, AlwaysIInv, PTL DEF Spec, CacheSpec, Cache!Spec

(* A call returns pixels that are not the face's only where get_pixel goes *)
(* to the constant data of a face that has a block of its own: reading     *)
(* from several threads never makes it (src/src/cache.rs:8-15, 710-747).   *)
THEOREM ThreadsNeverMixPixels == Spec => []WrongOnlyByLayout
<1>1. IInv => WrongOnlyByLayout
  BY DEF IInv, CallInv, WrongOnlyByLayout
<1> QED
  BY <1>1, AlwaysIInv, PTL

-----------------------------------------------------------------------------
(* The statistics.  A lookup is counted as a miss before anything is made  *)
(* of it, and stored at most once: a miss that is counted and not yet      *)
(* stored is a credit.  It is held by the lookup itself while it is read,  *)
(* and by the item that will store it while what it is made of is read.    *)

Owed(task) == task.do \in {"keepReduced", "keepDerived"} /\ task.keep = "Cached"

InHand(t) ==
  /\ agenda[t] # << >>
  /\ IsLookup(Top(t)) /\ Top(t).keep = "Cached"
  /\ pc[t] \in {"missed", "lock", "seek", "read", "decode"}

(* Items by their distance from the end of the agenda, which does not      *)
(* change while others come and go before them.                            *)
OwedIn(s) == {n \in 1..Len(s) : Owed(s[Len(s) + 1 - n])}
Owing(t) == OwedIn(agenda[t]) \cup (IF InHand(t) THEN {Len(agenda[t])} ELSE {})
Credit == {c \in Thread \X Nat : c[2] \in Owing(c[1])}

(* A derived level is stored right after it was derived, which counts.     *)
Ordered(s) == \A i \in 1..Len(s) : s[i].do = "keepDerived" => i = 1 \/ s[i - 1].do = "derive"
Ready == {t \in Thread : agenda[t] # << >> /\ Top(t).do = "keepDerived"}

Booked == Len(lru) + evictions + oversized

CreditInv == IsFiniteSet(Credit) /\ Booked + Cardinality(Credit) <= misses
ReadyInv == IsFiniteSet(Ready) /\ derivedEntries + Cardinality(Ready) <= derives

StatsInv == CreditInv /\ ReadyInv /\ \A t \in Thread : Ordered(agenda[t])

(* Counting.                                                               *)
LEMMA NoMore ==
  ASSUME NEW A, IsFiniteSet(A), NEW B, B \subseteq A
  PROVE  /\ IsFiniteSet(B) /\ Cardinality(B) <= Cardinality(A)
         /\ Cardinality(A) \in Nat /\ Cardinality(B) \in Nat
BY FS_Subset, FS_CardinalityType

LEMMA OneLess ==
  ASSUME NEW A, IsFiniteSet(A), NEW c \in A, NEW B, B \subseteq A \ {c}
  PROVE  /\ IsFiniteSet(B) /\ Cardinality(B) + 1 <= Cardinality(A)
         /\ Cardinality(A) \in Nat /\ Cardinality(B) \in Nat
<1>1. IsFiniteSet(A \ {c}) /\ Cardinality(A \ {c}) = Cardinality(A) - 1
  BY FS_RemoveElement
<1>2. Cardinality(A) \in Nat
  BY FS_CardinalityType
<1>3. IsFiniteSet(B) /\ Cardinality(B) <= Cardinality(A \ {c}) /\ Cardinality(B) \in Nat
  BY <1>1, NoMore
<1> QED
  BY <1>1, <1>2, <1>3

LEMMA OneMore ==
  ASSUME NEW A, IsFiniteSet(A), NEW c, NEW B, B \subseteq A \cup {c}
  PROVE  /\ IsFiniteSet(B) /\ Cardinality(B) <= Cardinality(A) + 1
         /\ Cardinality(A) \in Nat /\ Cardinality(B) \in Nat
<1>1. /\ IsFiniteSet(A \cup {c})
      /\ Cardinality(A \cup {c}) = Cardinality(A) \/ Cardinality(A \cup {c}) = Cardinality(A) + 1
  BY FS_AddElement
<1>2. Cardinality(A) \in Nat
  BY FS_CardinalityType
<1>3. IsFiniteSet(B) /\ Cardinality(B) <= Cardinality(A \cup {c}) /\ Cardinality(B) \in Nat
  BY <1>1, NoMore
<1> QED
  BY <1>1, <1>2, <1>3

(* The items of an agenda whose first was replaced.                        *)
LEMMA NewAgenda ==
  ASSUME NEW S, NEW s \in Seq(S), s # << >>, NEW first \in Seq(S),
         NEW u, u = first \o Tail(s)
  PROVE  /\ Len(s) \in Nat \ {0} /\ Len(first) \in Nat /\ Len(u) = Len(first) + Len(s) - 1
         /\ \A i \in 1..Len(first) : u[i] = first[i]
         /\ \A i \in 2..Len(s) : u[Len(first) + i - 1] = s[i]
<1> DEFINE rest == Tail(s)
<1>1. /\ Len(s) \in Nat \ {0} /\ Len(first) \in Nat
      /\ rest \in Seq(S) /\ Len(rest) = Len(s) - 1 /\ \A i \in 1..Len(rest) : rest[i] = s[i + 1]
  BY LenProperties, HeadTailProperties, EmptySeq
<1> HIDE DEF rest
<1>2. /\ Len(u) = Len(first) + Len(rest)
      /\ \A i \in 1..(Len(first) + Len(rest)) :
           u[i] = IF i <= Len(first) THEN first[i] ELSE rest[i - Len(first)]
  BY <1>1, ConcatProperties DEF rest
<1>3. \A i \in 1..Len(first) : u[i] = first[i]
  BY <1>1, <1>2
<1>4. ASSUME NEW i \in 2..Len(s) PROVE u[Len(first) + i - 1] = s[i]
  <2> DEFINE j == Len(first) + i - 1
  <2>1. j \in 1..(Len(first) + Len(rest)) /\ ~(j <= Len(first)) /\ j - Len(first) = i - 1
        /\ i - 1 \in 1..Len(rest) /\ (i - 1) + 1 = i
    BY <1>1
  <2> HIDE DEF j
  <2>2. u[j] = rest[i - 1]
    BY <1>2, <2>1
  <2>3. rest[i - 1] = s[i]
    BY <1>1, <2>1
  <2> QED BY <2>2, <2>3 DEF j
<1> QED
  BY <1>1, <1>2, <1>3, <1>4

LEMMA OwedAfter ==
  ASSUME NEW S, NEW s \in Seq(S), s # << >>, NEW first \in Seq(S), NEW b \in BOOLEAN,
         \A i \in 1..Len(first) : Owed(first[i]) => i = Len(first) /\ b
  PROVE  OwedIn(first \o Tail(s)) \subseteq (OwedIn(s) \ {Len(s)}) \cup (IF b THEN {Len(s)} ELSE {})
<1> DEFINE u == first \o Tail(s)
           m == Len(first)
           L == Len(s)
<1>1. /\ L \in Nat \ {0} /\ m \in Nat /\ Len(u) = m + L - 1
      /\ \A i \in 1..m : u[i] = first[i]
      /\ \A i \in 2..L : u[m + i - 1] = s[i]
  BY NewAgenda
<1> HIDE DEF u, m, L
<1>2. ASSUME NEW n \in OwedIn(u)
      PROVE  n \in OwedIn(s) \ {L} \/ (b /\ n = L)
  <2>1. n \in 1..Len(u) /\ Owed(u[Len(u) + 1 - n])
    BY <1>2 DEF OwedIn
  <2>2. CASE n < L
    <3>1. L + 1 - n \in 2..L /\ m + (L + 1 - n) - 1 = Len(u) + 1 - n /\ n \in 1..L
      BY <1>1, <2>1, <2>2
    <3>2. u[Len(u) + 1 - n] = s[L + 1 - n]
      BY <1>1, <3>1
    <3> QED BY <1>1, <2>1, <2>2, <3>1, <3>2 DEF OwedIn, L
  <2>3. CASE ~(n < L)
    <3> DEFINE i == Len(u) + 1 - n
    <3>1. i \in 1..m /\ (i = m => n = L)
      BY <1>1, <2>1, <2>3
    <3> HIDE DEF i
    <3>2. Owed(first[i])
      BY <1>1, <2>1, <3>1 DEF i
    <3> QED BY <3>1, <3>2 DEF m
  <2> QED BY <2>2, <2>3
<1> QED
  BY <1>2 DEF u, L

LEMMA OrderedAfter ==
  ASSUME NEW S, NEW s \in Seq(S), s # << >>, NEW first \in Seq(S), Ordered(s),
         \A i \in 1..Len(first) :
           first[i].do = "keepDerived" => i > 1 /\ first[i - 1].do = "derive",
         first # << >> => Head(s).do # "derive"
  PROVE  /\ Ordered(first \o Tail(s))
         /\ Head(s).do # "derive" =>
              (first \o Tail(s) # << >> => Head(first \o Tail(s)).do # "keepDerived")
<1> DEFINE u == first \o Tail(s)
           m == Len(first)
           L == Len(s)
<1>1. /\ L \in Nat \ {0} /\ m \in Nat /\ Len(u) = m + L - 1
      /\ \A i \in 1..m : u[i] = first[i]
      /\ \A i \in 2..L : u[m + i - 1] = s[i]
  BY NewAgenda
<1>2. Head(s) = s[1] /\ (u # << >> => Head(u) = u[1] /\ Len(u) # 0) /\ (first # << >> => m # 0)
      /\ (m # 0 => first # << >>)
  <2>1. first \in Seq(S) /\ Tail(s) \in Seq(S)
    BY HeadTailProperties
  <2>2. u \in Seq(S)
    BY <2>1, ConcatProperties
  <2> HIDE DEF u
  <2> QED BY <2>2, HeadTailProperties, EmptySeq
<1> HIDE DEF u, m, L
<1>3. ASSUME NEW j \in 1..Len(u), u[j].do = "keepDerived"
      PROVE  (j > 1 /\ u[j - 1].do = "derive") \/ (j = 1 /\ m = 0 /\ Head(s).do = "derive")
  <2>1. CASE j <= m
    <3>1. j \in 1..m /\ u[j] = first[j]
      BY <1>1, <2>1
    <3>2. j > 1 /\ first[j - 1].do = "derive"
      BY <1>3, <3>1 DEF m
    <3>3. j - 1 \in 1..m
      BY <1>1, <3>1, <3>2
    <3> QED BY <1>1, <3>2, <3>3
  <2>2. CASE ~(j <= m)
    <3> DEFINE i == j - m + 1
    <3>1. i \in 2..L /\ m + i - 1 = j /\ i \in 1..L /\ i # 1
      BY <1>1, <2>2
    <3>2. u[j] = s[i]
      BY <1>1, <3>1
    <3>3. s[i - 1].do = "derive"
      BY <1>3, <3>1, <3>2 DEF Ordered, L
    <3>4. CASE i = 2
      <4>1. Head(s).do = "derive"
        BY <1>2, <3>3, <3>4
      <4>2. m = 0
        BY <1>2, <4>1
      <4> QED BY <3>1, <3>4, <4>1, <4>2
    <3>5. CASE i # 2
      <4>1. i - 1 \in 2..L /\ m + (i - 1) - 1 = j - 1 /\ j > 1
        BY <1>1, <3>1, <3>5
      <4>2. u[j - 1] = s[i - 1]
        BY <1>1, <4>1
      <4> QED BY <3>3, <4>1, <4>2
    <3> QED BY <3>4, <3>5
  <2> QED BY <2>1, <2>2
<1>4. Ordered(u)
  BY <1>3 DEF Ordered
<1>5. Head(s).do # "derive" => (u # << >> => Head(u).do # "keepDerived")
  <2> SUFFICES ASSUME Head(s).do # "derive", u # << >> PROVE Head(u).do # "keepDerived"
    OBVIOUS
  <2>1. 1 \in 1..Len(u) /\ Head(u) = u[1]
    BY <1>1, <1>2
  <2> QED BY <1>3, <2>1
<1> QED
  BY <1>4, <1>5 DEF u

(* How a step of one thread changes the two sets.                          *)
OthersPlaces(t) == \A s \in Thread \ {t} : agenda'[s] = agenda[s] /\ pc'[s] = pc[s]
IsReady(t) == agenda[t] # << >> /\ Top(t).do = "keepDerived"

LEMMA SetsAfter ==
  ASSUME NEW t \in Thread, OthersPlaces(t)
  PROVE  /\ Owing(t)' \subseteq Owing(t) => Credit' \subseteq Credit
         /\ \A n : Owing(t)' \subseteq Owing(t) \ {n} => Credit' \subseteq Credit \ {<<t, n>>}
         /\ \A n : Owing(t)' \subseteq Owing(t) \cup {n} => Credit' \subseteq Credit \cup {<<t, n>>}
         /\ Ready' \subseteq Ready \cup {t}
         /\ IsReady(t)' => IsReady(t) \/ Ready' \subseteq Ready \cup {t}
         /\ ~IsReady(t)' => Ready' \subseteq Ready \ {t}
         /\ (IsReady(t)' => IsReady(t)) => Ready' \subseteq Ready
<1>1. \A s \in Thread \ {t} : Owing(s)' = Owing(s) /\ (IsReady(s)' <=> IsReady(s))
  BY DEF OthersPlaces, Owing, InHand, IsReady, Top
<1>2. /\ Credit' = {c \in Thread \X Nat : c[2] \in Owing(c[1])'}
      /\ Ready = {s \in Thread : IsReady(s)} /\ Ready' = {s \in Thread : IsReady(s)'}
  BY DEF Credit, Ready, IsReady, Top
<1>3. \A s \in Thread \ {t} : s \in Ready' => s \in Ready
  BY <1>1, <1>2
<1>4. \A c \in Credit' : c \in Thread \X Nat /\ c = <<c[1], c[2]>> /\ (c[1] # t => c \in Credit)
                           /\ (c[1] = t => c[2] \in Owing(t)')
  BY <1>1, <1>2 DEF Credit
<1>5. \A c : c \in Thread \X Nat /\ c[1] = t /\ c[2] \in Owing(t) => c \in Credit
  BY DEF Credit
<1>6. Owing(t)' \subseteq Owing(t) => Credit' \subseteq Credit
  BY <1>4, <1>5
<1>7. \A n : Owing(t)' \subseteq Owing(t) \ {n} => Credit' \subseteq Credit \ {<<t, n>>}
  BY <1>4, <1>5
<1>8. \A n : Owing(t)' \subseteq Owing(t) \cup {n} => Credit' \subseteq Credit \cup {<<t, n>>}
  BY <1>4, <1>5
<1>9. /\ Ready' \subseteq Ready \cup {t}
      /\ ~IsReady(t)' => Ready' \subseteq Ready \ {t}
      /\ (IsReady(t)' => IsReady(t)) => Ready' \subseteq Ready
  BY <1>2, <1>3
<1> QED
  BY <1>6, <1>7, <1>8, <1>9

(* Steps that book nothing and make nothing owing.                         *)
Settled == Booked' <= Booked /\ derivedEntries' <= derivedEntries /\ UNCHANGED <<misses, derives>>

LEMMA SettledStats ==
  ASSUME IInv, IInv', StatsInv, Settled, Credit' \subseteq Credit, Ready' \subseteq Ready,
         \A t \in Thread : Ordered(agenda[t])'
  PROVE  StatsInv'
<1>1. /\ Booked \in Nat /\ Booked' \in Nat /\ derivedEntries \in Nat /\ derivedEntries' \in Nat
      /\ misses \in Nat /\ derives \in Nat
  BY LenProperties DEF IInv, CacheInv, CacheProofs!IInv, CacheProofs!TypeOK, CountInv, Booked
<1>2. /\ IsFiniteSet(Credit') /\ Cardinality(Credit') <= Cardinality(Credit)
      /\ Cardinality(Credit) \in Nat /\ Cardinality(Credit') \in Nat
  BY NoMore DEF StatsInv, CreditInv
<1>3. /\ IsFiniteSet(Ready') /\ Cardinality(Ready') <= Cardinality(Ready)
      /\ Cardinality(Ready) \in Nat /\ Cardinality(Ready') \in Nat
  BY NoMore DEF StatsInv, ReadyInv
<1>4. Booked + Cardinality(Credit) <= misses /\ derivedEntries + Cardinality(Ready) <= derives
  BY DEF StatsInv, CreditInv, ReadyInv
<1>5. Booked' + Cardinality(Credit') <= misses'
  BY <1>1, <1>2, <1>4 DEF Settled
<1>6. derivedEntries' + Cardinality(Ready') <= derives'
  BY <1>1, <1>3, <1>4 DEF Settled
<1> QED
  BY <1>2, <1>3, <1>5, <1>6 DEF StatsInv, CreditInv, ReadyInv

LEMMA StandingIsSettled ==
  ASSUME IInv, UNCHANGED <<cacheVars, misses, derives>>
  PROVE  Settled
<1>1. Booked \in Nat /\ derivedEntries \in Nat
  BY LenProperties DEF IInv, CacheInv, CacheProofs!IInv, CacheProofs!TypeOK, Booked
<1>2. Booked' = Booked /\ derivedEntries' = derivedEntries
  BY DEF cacheVars, Booked
<1> QED
  BY <1>1, <1>2 DEF Settled

LEMMA GettingIsSettled ==
  ASSUME IInv, NEW k, Cache!Get(k), UNCHANGED <<misses, derives>>
  PROVE  Settled
<1>1. Booked \in Nat /\ derivedEntries \in Nat /\ CacheInv
  BY LenProperties DEF IInv, CacheInv, CacheProofs!IInv, CacheProofs!TypeOK, Booked
<1>2. k \in CacheKey
  BY <1>1, FoundIsFresh DEF Cache!Get
<1>3. CacheProofs!Get(k) /\ CacheProofs!IInv
  BY <1>1, SameCache DEF CacheInv
<1>4. Len(lru') = Len(lru) /\ UNCHANGED <<evictions, oversized, derivedEntries>>
  BY <1>2, <1>3, CacheProofs!GetCounts, CacheAssumptions
<1> QED
  BY <1>1, <1>4 DEF Settled, Booked

LEMMA RemovingIsSettled ==
  ASSUME IInv, Cache!Clear \/ \E b \in Budgets : Cache!SetBudget(b), UNCHANGED <<misses, derives>>
  PROVE  Settled
<1>1. /\ Len(lru) \in Nat /\ evictions \in Nat /\ oversized \in Nat /\ derivedEntries \in Nat
      /\ CacheProofs!IInv
  BY LenProperties DEF IInv, CacheInv, CacheProofs!IInv, CacheProofs!TypeOK
<1>2. CASE Cache!Clear
  <2>1. Len(lru') = 0 /\ derivedEntries' = 0 /\ UNCHANGED <<evictions, oversized>>
    BY <1>2 DEF Cache!Clear
  <2> QED BY <1>1, <2>1 DEF Settled, Booked
<1>3. ASSUME NEW b \in Budgets, Cache!SetBudget(b) PROVE Settled
  <2>1. CacheProofs!SetBudget(b)
    BY <1>3, SameCache
  <2>2. /\ Len(lru') + evictions' = Len(lru) + evictions
        /\ oversized' = oversized /\ derivedEntries' <= derivedEntries
    BY <1>1, <2>1, CacheProofs!SetBudgetCounts, CacheAssumptions
  <2>3. Booked' = (Len(lru') + evictions') + oversized'
    BY DEF Booked
  <2> QED BY <1>1, <2>2, <2>3 DEF Settled, Booked
<1> QED
  BY <1>2, <1>3

(* Within an item nothing changes hands.                                   *)
LEMMA GotoStats ==
  ASSUME IInv, IInv', StatsInv, NEW t \in Thread, NEW p, Goto(t, p),
         InHand(t)' => InHand(t), Settled
  PROVE  StatsInv'
<1>1. OthersPlaces(t) /\ agenda' = agenda
  BY DEF IInv, StreamInv, IsFunctionOfThreads, Goto, OthersPlaces
<1>2. Owing(t)' \subseteq Owing(t)
  BY <1>1 DEF Owing
<1>3. IsReady(t)' => IsReady(t)
  BY <1>1 DEF IsReady, Top
<1>4. Credit' \subseteq Credit /\ Ready' \subseteq Ready
  BY <1>1, <1>2, <1>3, SetsAfter
<1>5. \A s \in Thread : Ordered(agenda[s])'
  BY <1>1 DEF StatsInv
<1> QED
  BY <1>4, <1>5, SettledStats

(* An item that is done settles what it held; those that come in its place *)
(* hold at most that.                                                      *)
LEMMA ContinueSets ==
  ASSUME IInv, StatsInv, NEW t \in Thread, agenda[t] # << >>,
         NEW first \in Seq(Tasks(pending[t])), Continue(t, first),
         \A i \in 1..Len(first) :
           /\ Owed(first[i]) => i = Len(first) /\ InHand(t)
           /\ first[i].do = "keepDerived" => i > 1 /\ first[i - 1].do = "derive",
         first # << >> => Top(t).do # "derive"
  PROVE  /\ Credit' \subseteq Credit
         /\ first = << >> => Credit' \subseteq Credit \ {<<t, Len(agenda[t])>>}
         /\ Ready' \subseteq Ready \cup {t}
         /\ Top(t).do # "derive" => Ready' \subseteq Ready \ {t}
         /\ \A s \in Thread : Ordered(agenda[s])'
<1> DEFINE S == Tasks(pending[t]) \cup ConstantTasks(pending[t])
           b == InHand(t)
           L == Len(agenda[t])
<1>1. agenda[t] \in Seq(S) /\ first \in Seq(S) /\ L \in Nat \ {0}
  <2>1. agenda[t] \in Seq(S)
    BY DEF IInv, CallInv, Agendas
  <2>2. first \in Seq(S)
    BY SeqMonotonic
  <2> HIDE DEF S
  <2> QED BY <2>1, <2>2, LenProperties, EmptySeq
<1>2. /\ OthersPlaces(t) /\ agenda'[t] = first \o Tail(agenda[t]) /\ pc'[t] = "begin"
      /\ ~InHand(t)'
  BY DEF IInv, StreamInv, IsFunctionOfThreads, Continue, OthersPlaces, InHand
<1> HIDE DEF S
<1>3. Owing(t)' = OwedIn(agenda'[t])
  BY <1>2 DEF Owing
<1>4. Owing(t)' \subseteq Owing(t)
  <2>1. b \in BOOLEAN
    BY DEF InHand
  <2>2. \A i \in 1..Len(first) : Owed(first[i]) => i = Len(first) /\ b
    OBVIOUS
  <2> HIDE DEF b, L
  <2>3. OwedIn(first \o Tail(agenda[t]))
          \subseteq (OwedIn(agenda[t]) \ {L}) \cup (IF b THEN {L} ELSE {})
    BY <1>1, <2>1, <2>2, OwedAfter DEF L
  <2> QED BY <1>2, <1>3, <2>3 DEF Owing, b, L
<1>5. first = << >> => Owing(t)' \subseteq Owing(t) \ {L}
  <2> SUFFICES ASSUME first = << >> PROVE Owing(t)' \subseteq Owing(t) \ {L}
    OBVIOUS
  <2>1. \A i \in 1..Len(first) : Owed(first[i]) => i = Len(first) /\ FALSE
    OBVIOUS
  <2>2. OwedIn(first \o Tail(agenda[t]))
          \subseteq (OwedIn(agenda[t]) \ {L}) \cup (IF FALSE THEN {L} ELSE {})
    BY <1>1, <2>1, OwedAfter
  <2> HIDE DEF L
  <2> QED BY <1>2, <1>3, <2>2 DEF Owing
<1>6. /\ Ordered(agenda'[t])
      /\ Top(t).do # "derive" => ~IsReady(t)'
  <2>1. Ordered(agenda[t])
    BY DEF StatsInv
  <2>2. /\ Ordered(first \o Tail(agenda[t]))
        /\ Head(agenda[t]).do # "derive" =>
             (first \o Tail(agenda[t]) # << >> =>
                Head(first \o Tail(agenda[t])).do # "keepDerived")
    BY <1>1, <2>1, OrderedAfter DEF Top
  <2>3. Top(t)' = Head(agenda'[t])
    BY DEF Top
  <2> QED BY <1>2, <2>2, <2>3 DEF IsReady, Top
<1>7. \A s \in Thread : Ordered(agenda[s])'
  BY <1>2, <1>6 DEF OthersPlaces, StatsInv
<1> HIDE DEF L
<1>8. /\ Credit' \subseteq Credit
      /\ first = << >> => Credit' \subseteq Credit \ {<<t, L>>}
  BY <1>2, <1>4, <1>5, SetsAfter
<1>9. /\ Ready' \subseteq Ready \cup {t}
      /\ Top(t).do # "derive" => Ready' \subseteq Ready \ {t}
  BY <1>2, <1>6, SetsAfter
<1> QED
  BY <1>7, <1>8, <1>9 DEF L

LEMMA DoneSets ==
  ASSUME IInv, StatsInv, NEW t \in Thread, agenda[t] # << >>, Continue(t, << >>)
  PROVE  /\ Credit' \subseteq Credit \ {<<t, Len(agenda[t])>>}
         /\ Ready' \subseteq Ready \cup {t}
         /\ Top(t).do # "derive" => Ready' \subseteq Ready \ {t}
         /\ \A s \in Thread : Ordered(agenda[s])'
<1> DEFINE first == << >>
<1>1. first \in Seq(Tasks(pending[t])) /\ Len(first) = 0 /\ Continue(t, first)
  BY EmptySeq
<1> HIDE DEF first
<1>2. \A i \in 1..Len(first) :
        /\ Owed(first[i]) => i = Len(first) /\ InHand(t)
        /\ first[i].do = "keepDerived" => i > 1 /\ first[i - 1].do = "derive"
  BY <1>1
<1>3. first = << >>
  BY DEF first
<1> QED
  BY <1>1, <1>2, <1>3, ContinueSets

LEMMA DoneStats ==
  ASSUME IInv, IInv', StatsInv, NEW t \in Thread, agenda[t] # << >>, Continue(t, << >>),
         Top(t).do # "derive", Settled
  PROVE  StatsInv'
<1>1. Credit' \subseteq Credit /\ Ready' \subseteq Ready /\ \A s \in Thread : Ordered(agenda[s])'
  BY DoneSets
<1> QED
  BY <1>1, SettledStats

(* A call that returns owes nothing.                                       *)
LEMMA ReturnStats ==
  ASSUME IInv, IInv', StatsInv, NEW t \in Thread, NEW val, Return(t, val), Settled
  PROVE  StatsInv'
<1>1. /\ OthersPlaces(t) /\ agenda'[t] = << >> /\ ~InHand(t)' /\ ~IsReady(t)'
  BY DEF IInv, StreamInv, IsFunctionOfThreads, Return, OthersPlaces, InHand, IsReady
<1>2. Owing(t)' = {} /\ Ordered(agenda'[t])
  BY <1>1 DEF Owing, OwedIn, Ordered
<1>3. Credit' \subseteq Credit /\ Ready' \subseteq Ready
  BY <1>1, <1>2, SetsAfter
<1>4. \A s \in Thread : Ordered(agenda[s])'
  BY <1>1, <1>2 DEF OthersPlaces, StatsInv
<1> QED
  BY <1>3, <1>4, SettledStats

(* Neither does one that begins.                                           *)
LEMMA AskStats ==
  ASSUME IInv, IInv', StatsInv, NEW t \in Thread, NEW r \in Request, Ask(t, r)
  PROVE  StatsInv'
<1>1. pc[t] = "begin" /\ OthersPlaces(t) /\ agenda'[t] = Plan(r) /\ pc' = pc
  BY DEF IInv, StreamInv, IsFunctionOfThreads, Ask, OthersPlaces
<1>2. Unmade(Plan(r)) /\ Plan(r) \in Seq(Tasks(r) \cup ConstantTasks(r))
  BY PlanIsAgenda DEF Agendas
<1>3. Len(Plan(r)) \in Nat
  BY <1>2, LenProperties
<1>4. OwedIn(Plan(r)) = {} /\ Ordered(Plan(r))
  <2> DEFINE p == Plan(r)
  <2>1. \A i \in 1..Len(p) : p[i].do \notin {"keepReduced", "derive", "keepDerived"}
    BY <1>2 DEF Unmade, Made
  <2>2. \A n \in 1..Len(p) : Len(p) + 1 - n \in 1..Len(p)
    BY <1>3
  <2> HIDE DEF p
  <2>3. OwedIn(p) = {} /\ Ordered(p)
    BY <2>1, <2>2 DEF OwedIn, Owed, Ordered
  <2> QED BY <2>3 DEF p
<1>5. ~IsReady(t)' /\ ~InHand(t)'
  <2>1. Plan(r) # << >> => Head(Plan(r)) = Plan(r)[1] /\ 1 \in 1..Len(Plan(r))
    BY <1>2, <1>3, HeadTailProperties, EmptySeq
  <2>2. Plan(r) # << >> => Head(Plan(r)).do # "keepDerived"
    BY <1>2, <2>1 DEF Unmade, Made
  <2> QED BY <1>1, <2>2 DEF IsReady, InHand, Top
<1>6. Owing(t)' = {}
  BY <1>1, <1>4, <1>5 DEF Owing
<1>7. Credit' \subseteq Credit /\ Ready' \subseteq Ready
  BY <1>1, <1>5, <1>6, SetsAfter
<1>8. \A s \in Thread : Ordered(agenda[s])'
  BY <1>1, <1>4 DEF OthersPlaces, StatsInv
<1>9. Settled
  BY StandingIsSettled DEF Ask, counters
<1> QED
  BY <1>7, <1>8, <1>9, SettledStats

(* A miss is counted before the item goes on to be read.                   *)
LEMMA CountMissStats ==
  ASSUME IInv, IInv', StatsInv, NEW t \in Thread, CountMiss(t)
  PROVE  StatsInv'
<1> DEFINE L == Len(agenda[t])
<1>1. /\ agenda[t] # << >> /\ Goto(t, "missed") /\ misses' = misses + 1 /\ derives' = derives
      /\ UNCHANGED cacheVars
  BY DEF CountMiss, At
<1>2. OthersPlaces(t) /\ agenda' = agenda
  BY <1>1 DEF IInv, StreamInv, IsFunctionOfThreads, Goto, OthersPlaces
<1>3. Owing(t)' \subseteq Owing(t) \cup {L}
  BY <1>2 DEF Owing
<1>4. IsReady(t)' => IsReady(t)
  BY <1>2 DEF IsReady, Top
<1> HIDE DEF L
<1>5. Credit' \subseteq Credit \cup {<<t, L>>} /\ Ready' \subseteq Ready
  BY <1>2, <1>3, <1>4, SetsAfter
<1>6. /\ Booked \in Nat /\ derivedEntries \in Nat /\ misses \in Nat /\ derives \in Nat
      /\ Booked' = Booked /\ derivedEntries' = derivedEntries
  BY <1>1, LenProperties
  DEF cacheVars, IInv, CacheInv, CacheProofs!IInv, CacheProofs!TypeOK, CountInv, Booked
<1>7. /\ IsFiniteSet(Credit') /\ Cardinality(Credit') <= Cardinality(Credit) + 1
      /\ Cardinality(Credit) \in Nat /\ Cardinality(Credit') \in Nat
  BY <1>5, OneMore DEF StatsInv, CreditInv
<1>8. /\ IsFiniteSet(Ready') /\ Cardinality(Ready') <= Cardinality(Ready)
      /\ Cardinality(Ready) \in Nat /\ Cardinality(Ready') \in Nat
  BY <1>5, NoMore DEF StatsInv, ReadyInv
<1>9. Booked + Cardinality(Credit) <= misses /\ derivedEntries + Cardinality(Ready) <= derives
  BY DEF StatsInv, CreditInv, ReadyInv
<1>10. CreditInv'
  BY <1>1, <1>6, <1>7, <1>9 DEF CreditInv
<1>11. ReadyInv'
  BY <1>1, <1>6, <1>8, <1>9 DEF ReadyInv
<1>12. \A s \in Thread : Ordered(agenda[s])'
  BY <1>2 DEF StatsInv
<1> QED
  BY <1>10, <1>11, <1>12 DEF StatsInv

(* A derivation is counted before its level is stored.                     *)
LEMMA DeriveStats ==
  ASSUME IInv, IInv', StatsInv, NEW t \in Thread, Derive(t)
  PROVE  StatsInv'
<1>1. /\ agenda[t] # << >> /\ Continue(t, << >>) /\ misses' = misses /\ derives' = derives + 1
      /\ UNCHANGED cacheVars
  BY DEF Derive, At
<1>2. /\ Credit' \subseteq Credit /\ Ready' \subseteq Ready \cup {t}
      /\ \A s \in Thread : Ordered(agenda[s])'
  BY <1>1, DoneSets
<1>3. /\ Booked \in Nat /\ derivedEntries \in Nat /\ misses \in Nat /\ derives \in Nat
      /\ Booked' = Booked /\ derivedEntries' = derivedEntries
  BY <1>1, LenProperties
  DEF cacheVars, IInv, CacheInv, CacheProofs!IInv, CacheProofs!TypeOK, CountInv, Booked
<1>4. /\ IsFiniteSet(Credit') /\ Cardinality(Credit') <= Cardinality(Credit)
      /\ Cardinality(Credit) \in Nat /\ Cardinality(Credit') \in Nat
  BY <1>2, NoMore DEF StatsInv, CreditInv
<1>5. /\ IsFiniteSet(Ready') /\ Cardinality(Ready') <= Cardinality(Ready) + 1
      /\ Cardinality(Ready) \in Nat /\ Cardinality(Ready') \in Nat
  BY <1>2, OneMore DEF StatsInv, ReadyInv
<1>6. Booked + Cardinality(Credit) <= misses /\ derivedEntries + Cardinality(Ready) <= derives
  BY DEF StatsInv, CreditInv, ReadyInv
<1>7. CreditInv'
  BY <1>1, <1>3, <1>4, <1>6 DEF CreditInv
<1>8. ReadyInv'
  BY <1>1, <1>3, <1>5, <1>6 DEF ReadyInv
<1> QED
  BY <1>2, <1>7, <1>8 DEF StatsInv

(* What is stored was owed.                                                *)
LEMMA StoreStats ==
  ASSUME IInv, IInv', StatsInv, NEW t \in Thread, agenda[t] # << >>,
         Owed(Top(t)) \/ (InHand(t) /\ Top(t).do \in {"dir", "block"}),
         Store(t, KeyOf(Top(t))), Continue(t, << >>), UNCHANGED counters
  PROVE  StatsInv'
<1> DEFINE k == KeyOf(Top(t))
           L == Len(agenda[t])
           c == <<t, L>>
           level == IF k \in DerivedKey THEN 1 ELSE 0
<1>1. /\ pending[t] \in Request /\ ok[t] = TRUE /\ Top(t) \in Tasks(pending[t])
      /\ agenda[t] \in Seq(Tasks(pending[t]) \cup ConstantTasks(pending[t]))
  <2>1. CallInv(t)
    BY DEF IInv
  <2>2. pending[t] \in Request /\ ok[t] = TRUE /\ Top(t) \in Tasks(pending[t])
    BY <2>1, TopIsTask DEF Owed, InHand, IsLookup
  <2>3. agenda[t] \in Agendas(pending[t])
    BY <2>1 DEF CallInv
  <2> QED BY <2>2, <2>3 DEF Agendas
<1>2. k \in CacheKey
  BY <1>1, TaskKey DEF Owed, InHand
<1>3. CacheProofs!InsertOrGet(k, k) /\ CacheProofs!IInv /\ k \in CacheValue
  BY <1>1, <1>2, SameCache DEF Store, IInv, CacheInv, CacheValue
<1>4. L \in Nat \ {0} /\ Top(t) = agenda[t][1]
  BY <1>1, LenProperties, EmptySeq, HeadTailProperties DEF Top
<1>5. c \in Credit
  <2>1. L \in Owing(t)
    <3>1. CASE InHand(t)
      BY <3>1 DEF Owing
    <3>2. CASE Owed(Top(t))
      <4>1. L \in 1..L /\ L + 1 - L = 1
        BY <1>4
      <4> HIDE DEF L
      <4>2. L \in OwedIn(agenda[t])
        BY <1>4, <3>2, <4>1 DEF OwedIn, L
      <4> QED BY <4>2 DEF Owing
    <3> QED BY <3>1, <3>2 DEF Owed
  <2> HIDE DEF L
  <2> QED BY <1>4, <2>1 DEF Credit
<1>6. k \in DerivedKey => t \in Ready
  <2>1. \A d \in DerivedKey : d[1] = "Derived"
    BY DEF DerivedKey, Derived
  <2>2. Top(t).do # "keepDerived" => k[1] # "Derived"
    BY DEF Owed, KeyOf, TileDir, Block, Reduced
  <2> QED BY <2>1, <2>2 DEF Ready
<1>7. Top(t).do # "derive"
  BY DEF Owed
<1> HIDE DEF k, L, c
<1>8. /\ Credit' \subseteq Credit \ {c} /\ Ready' \subseteq Ready \ {t}
      /\ \A s \in Thread : Ordered(agenda[s])'
  BY <1>7, DoneSets DEF c, L
<1>9. /\ Len(lru') + evictions' + oversized'
           = Len(lru) + evictions + oversized + (IF k \in CacheProofs!Resident THEN 0 ELSE 1)
      /\ derivedEntries' <= derivedEntries + level
  BY <1>2, <1>3, CacheProofs!InsertCounts, CacheAssumptions
<1>10. /\ Booked \in Nat /\ Booked' \in Nat /\ derivedEntries \in Nat /\ derivedEntries' \in Nat
       /\ misses \in Nat /\ derives \in Nat /\ misses' = misses /\ derives' = derives
  BY LenProperties
  DEF counters, IInv, CacheInv, CacheProofs!IInv, CacheProofs!TypeOK, CountInv, Booked
<1>11. Booked' <= Booked + 1
  BY <1>9, <1>10 DEF Booked
<1>12. /\ IsFiniteSet(Credit') /\ Cardinality(Credit') + 1 <= Cardinality(Credit)
       /\ Cardinality(Credit) \in Nat /\ Cardinality(Credit') \in Nat
  BY <1>5, <1>8, OneLess DEF StatsInv, CreditInv
<1>13. /\ IsFiniteSet(Ready') /\ Cardinality(Ready') + level <= Cardinality(Ready)
       /\ Cardinality(Ready) \in Nat /\ Cardinality(Ready') \in Nat
  <2>1. IsFiniteSet(Ready)
    BY DEF StatsInv, ReadyInv
  <2>2. CASE k \in DerivedKey
    BY <1>6, <1>8, <2>1, <2>2, OneLess
  <2>3. CASE k \notin DerivedKey
    BY <1>8, <2>1, <2>3, NoMore
  <2> QED BY <2>2, <2>3
<1>14. level \in Nat
  OBVIOUS
<1>15. Booked + Cardinality(Credit) <= misses /\ derivedEntries + Cardinality(Ready) <= derives
  BY DEF StatsInv, CreditInv, ReadyInv
<1> HIDE DEF level
<1>16. Booked' + Cardinality(Credit') <= misses'
  BY <1>10, <1>11, <1>12, <1>15
<1>17. derivedEntries' + Cardinality(Ready') <= derives'
  BY <1>9, <1>10, <1>13, <1>14, <1>15
<1> QED
  BY <1>8, <1>12, <1>13, <1>16, <1>17 DEF StatsInv, CreditInv, ReadyInv

(* A miss that is made of something else hands its credit on to the item   *)
(* that will store it, which comes last.                                   *)
LEMMA HandedOn ==
  ASSUME NEW S, NEW before \in Seq(S), NEW last \in S, NEW b,
         \A i \in 1..Len(before) : ~Owed(before[i]) /\ before[i].do # "keepDerived",
         Owed(last) => b,
         last.do = "keepDerived" => before # << >> /\ before[Len(before)].do = "derive"
  PROVE  /\ before \o << last >> \in Seq(S) /\ before \o << last >> # << >>
         /\ \A i \in 1..Len(before \o << last >>) :
              /\ Owed((before \o << last >>)[i]) => i = Len(before \o << last >>) /\ b
              /\ (before \o << last >>)[i].do = "keepDerived" =>
                   i > 1 /\ (before \o << last >>)[i - 1].do = "derive"
<1> DEFINE u == before \o << last >>
           m == Len(before)
<1>1. /\ m \in Nat /\ u \in Seq(S) /\ Len(u) = m + 1
      /\ \A i \in 1..(m + 1) : u[i] = IF i <= m THEN before[i] ELSE << last >>[i - m]
  <2>1. << last >> \in Seq(S) /\ Len(<< last >>) = 1
    OBVIOUS
  <2> QED BY <2>1, LenProperties, ConcatProperties
<1>2. u # << >> /\ (before # << >> => m # 0)
  BY <1>1, EmptySeq
<1> HIDE DEF u, m
<1>3. \A i \in 1..m : u[i] = before[i]
  BY <1>1
<1>4. u[m + 1] = last
  BY <1>1
<1>5. ASSUME NEW i \in 1..Len(u)
      PROVE  /\ Owed(u[i]) => i = Len(u) /\ b
             /\ u[i].do = "keepDerived" => i > 1 /\ u[i - 1].do = "derive"
  <2>1. CASE i \in 1..m
    BY <1>3, <2>1 DEF m
  <2>2. CASE i = m + 1
    <3>1. last.do = "keepDerived" => m \in 1..m /\ m + 1 - 1 = m /\ m + 1 > 1
      BY <1>1, <1>2
    <3>2. last.do = "keepDerived" => u[m].do = "derive"
      BY <1>3, <3>1 DEF m
    <3> QED BY <1>1, <1>4, <2>2, <3>1, <3>2
  <2> QED BY <1>1, <2>1, <2>2
<1> QED
  BY <1>1, <1>2, <1>5 DEF u

LEMMA PrependStats ==
  ASSUME IInv, IInv', StatsInv, NEW t \in Thread, agenda[t] # << >>,
         NEW before \in Seq(Tasks(pending[t])), NEW last \in Tasks(pending[t]),
         Continue(t, before \o << last >>), Settled,
         \A i \in 1..Len(before) : ~Owed(before[i]) /\ before[i].do # "keepDerived",
         Owed(last) => InHand(t),
         last.do = "keepDerived" => before # << >> /\ before[Len(before)].do = "derive",
         Top(t).do # "derive"
  PROVE  StatsInv'
<1> DEFINE first == before \o << last >>
<1>1. /\ first \in Seq(Tasks(pending[t])) /\ first # << >>
      /\ \A i \in 1..Len(first) :
           /\ Owed(first[i]) => i = Len(first) /\ InHand(t)
           /\ first[i].do = "keepDerived" => i > 1 /\ first[i - 1].do = "derive"
  BY HandedOn
<1>2. Continue(t, first)
  OBVIOUS
<1> HIDE DEF first
<1>3. /\ Credit' \subseteq Credit /\ Ready' \subseteq Ready
      /\ \A s \in Thread : Ordered(agenda[s])'
  BY <1>1, <1>2, ContinueSets
<1> QED
  BY <1>3, SettledStats

LEMMA ReduceStats ==
  ASSUME IInv, IInv', StatsInv, NEW t \in Thread, Reduce(t)
  PROVE  StatsInv'
<1> DEFINE before == DataPlan(Source[Top(t).x].from, Top(t).keep)
           last == Task("keepReduced", Top(t).x, Top(t).keep)
<1>1. /\ agenda[t] # << >> /\ pc[t] = "missed" /\ CallInv(t) /\ Top(t).do = "reduced"
      /\ Continue(t, before \o << last >>) /\ UNCHANGED <<cacheVars, counters>>
  BY DEF Reduce, IInv, At
<1>2. Top(t) \in Tasks(pending[t])
  BY <1>1, TopIsTask
<1>3. before \in Seq(Tasks(pending[t])) /\ Unmade(before) /\ last \in Tasks(pending[t])
  BY <1>1, <1>2, ReduceTasks
<1>4. /\ Owed(last) => InHand(t)
      /\ last.do # "keepDerived"
  BY <1>1 DEF Task, Owed, InHand, IsLookup
<1> HIDE DEF before, last
<1>5. \A i \in 1..Len(before) : ~Owed(before[i]) /\ before[i].do # "keepDerived"
  BY <1>3 DEF Unmade, Made, Owed
<1>6. Settled
  BY <1>1, StandingIsSettled DEF counters
<1> QED
  BY <1>1, <1>3, <1>4, <1>5, <1>6, PrependStats

LEMMA DeriveFromStats ==
  ASSUME IInv, IInv', StatsInv, NEW t \in Thread, DeriveFromAncestor(t) \/ DeriveFromBase(t)
  PROVE  StatsInv'
<1> DEFINE f == Top(t).x[1]
           k == Top(t).x[2]
           T == Tasks(pending[t])
           level == Task("derive", <<f, k>>, "Cached")
           last == Task("keepDerived", <<f, k>>, "Cached")
           levels(steps) == [i \in 1..steps |-> level]
           base == DataPlan(DerivedBase[f], "Transient")
           j == Max(ResidentLevels(f, k))
<1>1. /\ agenda[t] # << >> /\ pc[t] = "missed" /\ CallInv(t) /\ Top(t).do = "derived"
      /\ UNCHANGED counters
  BY DEF DeriveFromAncestor, DeriveFromBase, IInv, At
<1>2. Top(t) \in T /\ Top(t).keep = "Cached"
  <2>1. Top(t) \in T
    BY <1>1, TopIsTask
  <2> QED BY <1>1, <2>1 DEF Tasks, ReadTasks, KeepTasks, DerivedTasks
<1>3. k \in Nat /\ base \in Seq(T) /\ Unmade(base) /\ level \in T /\ last \in T
  BY <1>1, <1>2, DeriveTasks
<1>4. InHand(t) /\ last.do = "keepDerived" /\ level.do = "derive" /\ ~Owed(level)
  BY <1>1, <1>2 DEF InHand, IsLookup, Task, Owed
<1>5. \A steps : DerivePlan(<<f, k>>, steps) = levels(steps) \o << last >>
  BY DEF DerivePlan
<1>6. CASE DeriveFromAncestor(t)
  <2>1. /\ ResidentLevels(f, k) # {} /\ Cache!Get(Derived(f, j))
        /\ Continue(t, DerivePlan(<<f, k>>, k - j))
    BY <1>6 DEF DeriveFromAncestor
  <2>2. j \in 0..(k - 1)
    BY <1>3, <2>1, DeepestAncestor DEF ResidentLevels
  <2> DEFINE n == k - j
             before == levels(n)
  <2>3. Continue(t, before \o << last >>)
    BY <1>5, <2>1
  <2>4. Settled
    BY <1>1, <2>1, GettingIsSettled DEF counters
  <2> HIDE DEF f, k, T, level, last, base, j
  <2>5. n \in Nat \ {0}
    BY <1>3, <2>2
  <2> HIDE DEF n
  <2>6. before \in Seq(T) /\ Len(before) = n /\ \A i \in 1..n : before[i] = level
    BY <1>3, <2>5, SeqDef
  <2> HIDE DEF before
  <2>7. before # << >> /\ before[Len(before)] = level
    BY <2>5, <2>6
  <2> QED BY <1>1, <1>3, <1>4, <2>3, <2>4, <2>6, <2>7, PrependStats DEF T
<1>7. CASE DeriveFromBase(t)
  <2>1. /\ Continue(t, base \o DerivePlan(<<f, k>>, k + 1)) /\ UNCHANGED cacheVars
    BY <1>7 DEF DeriveFromBase
  <2> DEFINE n == k + 1
             more == levels(n)
             before == base \o more
  <2>2. Continue(t, base \o (more \o << last >>))
    BY <1>5, <2>1
  <2>3. Settled
    BY <1>1, <2>1, StandingIsSettled DEF counters
  <2> HIDE DEF f, k, T, level, last, base, j
  <2>4. n \in Nat \ {0}
    BY <1>3
  <2> HIDE DEF n
  <2>5. more \in Seq(T) /\ Len(more) = n /\ \A i \in 1..n : more[i] = level
    BY <1>3, <2>4, SeqDef
  <2>6. Len(base) \in Nat /\ \A i \in 1..Len(base) : ~Owed(base[i]) /\ base[i].do # "keepDerived"
    BY <1>3, LenProperties DEF Unmade, Made, Owed
  <2> HIDE DEF more
  <2>7. << last >> \in Seq(T)
    BY <1>3
  <2>8. before \o << last >> = base \o (more \o << last >>)
    BY <1>3, <2>5, <2>7, ConcatAssociative
  <2>9. /\ before \in Seq(T) /\ Len(before) = Len(base) + n
        /\ \A i \in 1..(Len(base) + n) :
             before[i] = IF i <= Len(base) THEN base[i] ELSE more[i - Len(base)]
    BY <1>3, <2>5, ConcatProperties
  <2> HIDE DEF before
  <2>10. \A i \in 1..Len(before) : ~Owed(before[i]) /\ before[i].do # "keepDerived"
    <3> TAKE i \in 1..Len(before)
    <3>1. CASE i <= Len(base)
      <4>1. i \in 1..Len(base) /\ i \in 1..(Len(base) + n)
        BY <2>4, <2>6, <2>9, <3>1
      <4> QED BY <2>6, <2>9, <3>1, <4>1
    <3>2. CASE ~(i <= Len(base))
      <4>1. i - Len(base) \in 1..n /\ i \in 1..(Len(base) + n)
        BY <2>4, <2>6, <2>9, <3>2
      <4> QED BY <1>4, <2>5, <2>9, <3>2, <4>1
    <3> QED BY <3>1, <3>2
  <2>11. before # << >> /\ before[Len(before)] = level
    <3>1. Len(base) + n \in 1..(Len(base) + n) /\ ~(Len(base) + n <= Len(base))
          /\ Len(base) + n - Len(base) = n /\ n \in 1..n
      BY <2>4, <2>6
    <3> QED BY <2>4, <2>5, <2>9, <3>1
  <2> QED BY <1>1, <1>3, <1>4, <2>2, <2>3, <2>8, <2>9, <2>10, <2>11, PrependStats DEF T
<1> QED
  BY <1>6, <1>7

LEMMA StepStats ==
  ASSUME IInv, IInv', StatsInv, NEW t \in Thread, Step(t) \/ Fault(t)
  PROVE  StatsInv'
<1>0. CallInv(t) /\ CallInv(t)'
  BY DEF IInv
<1>1. CASE Answer(t) \/ Refuse(t) \/ DecodeFails(t) \/ Fault(t)
  <2>1. PICK val : Return(t, val)
    BY <1>1 DEF Answer, Refuse, DecodeFails, Fault
  <2>2. Settled
    BY <1>1, StandingIsSettled DEF Answer, Refuse, DecodeFails, Fault, counters
  <2> QED BY <2>1, <2>2, ReturnStats
<1>2. CASE LookupHit(t)
  <2>1. Settled
    BY <1>2, GettingIsSettled DEF LookupHit, counters
  <2>2. CASE Goto(t, "countHit")
    <3>1. ~InHand(t)'
      BY <2>2 DEF IInv, StreamInv, Goto, InHand
    <3> QED BY <2>1, <2>2, <3>1, GotoStats
  <2>3. CASE Continue(t, << >>)
    BY <1>2, <2>1, <2>3, DoneStats DEF LookupHit, At, IsLookup
  <2> QED BY <1>2, <2>2, <2>3 DEF LookupHit
<1>3. CASE LookupMiss(t)
  <2>1. Settled
    BY <1>3, StandingIsSettled DEF LookupMiss, counters
  <2>2. PICK p \in {"countMiss", "missed"} : Goto(t, p)
    BY <1>3 DEF LookupMiss
  <2>3. ~InHand(t)'
    <3>1. CASE Top(t).keep = "Cached"
      BY <1>3, <3>1 DEF LookupMiss, IInv, StreamInv, Goto, InHand
    <3>2. CASE Top(t).keep # "Cached"
      BY <2>2, <3>2 DEF Goto, InHand, Top
    <3> QED BY <3>1, <3>2
  <2> QED BY <2>1, <2>2, <2>3, GotoStats
<1>4. CASE CountMiss(t)
  BY <1>4, CountMissStats
<1>5. CASE CountHit(t) \/ CellReady(t) \/ UseConstantData(t) \/ SetCell(t) \/ UseAndDrop(t)
  <2>1. Settled
    BY <1>5, StandingIsSettled
    DEF CountHit, CellReady, UseConstantData, SetCell, UseAndDrop, counters
  <2>2. agenda[t] # << >> /\ Continue(t, << >>)
    BY <1>5 DEF CountHit, CellReady, UseConstantData, SetCell, UseAndDrop, At
  <2>3. Top(t).do # "derive"
    <3>1. CASE CountHit(t)
      BY <1>0, <3>1 DEF CountHit, At, CallInv, InPlace, IsLookup
    <3>2. CASE CellReady(t) \/ UseConstantData(t) \/ SetCell(t) \/ UseAndDrop(t)
      BY <3>2 DEF CellReady, UseConstantData, SetCell, UseAndDrop, IsConstantBlock, IsLookup
    <3> QED BY <1>5, <3>1, <3>2
  <2> QED BY <2>1, <2>2, <2>3, DoneStats
<1>6. CASE StartReading(t) \/ Lock(t) \/ Seek(t)
  <2>1. Settled
    BY <1>6, StandingIsSettled DEF StartReading, Lock, Seek, counters
  <2>2. PICK p \in Places : Goto(t, p)
    BY <1>6 DEF StartReading, Lock, Seek, Places
  <2>3. InHand(t)' => InHand(t)
    <3>1. CASE StartReading(t)
      BY <2>2, <3>1 DEF StartReading, At, Goto, InHand, Top, IsLookup, IsConstantBlock
    <3>2. CASE Lock(t) \/ Seek(t)
      BY <2>2, <3>2 DEF Lock, Seek, At, Goto, InHand, Top
    <3> QED BY <1>6, <3>1, <3>2
  <2> QED BY <2>1, <2>2, <2>3, GotoStats
<1>7. CASE Read(t)
  <2>1. Settled
    BY <1>7, StandingIsSettled DEF Read, counters
  <2>2. /\ pc[t] = "read" /\ agenda' = agenda /\ OthersPlaces(t)
    BY <1>7 DEF Read, At, Goto, IInv, StreamInv, OthersPlaces
  <2>3. InHand(t)' => InHand(t)
    BY <2>2 DEF InHand, Top
  <2>4. Owing(t)' \subseteq Owing(t) /\ (IsReady(t)' => IsReady(t))
    BY <2>2, <2>3 DEF Owing, IsReady, Top
  <2>5. Credit' \subseteq Credit /\ Ready' \subseteq Ready
    BY <2>2, <2>4, SetsAfter
  <2>6. \A s \in Thread : Ordered(agenda[s])'
    BY <2>2 DEF StatsInv
  <2> QED BY <2>1, <2>5, <2>6, SettledStats
<1>8. CASE Keep(t)
  <2>1. /\ agenda[t] # << >> /\ pc[t] = "decode" /\ IsLookup(Top(t)) /\ Top(t).keep = "Cached"
        /\ Store(t, KeyOf(Top(t))) /\ Continue(t, << >>) /\ UNCHANGED counters
    BY <1>8 DEF Keep, At
  <2>2. InHand(t) /\ Top(t).do \in {"dir", "block"}
    BY <1>0, <2>1 DEF InHand, CallInv, InPlace, IsLookup
  <2> QED BY <2>1, <2>2, StoreStats
<1>9. CASE KeepReduced(t)
  <2>1. /\ agenda[t] # << >> /\ Top(t).do = "keepReduced" /\ Continue(t, << >>)
        /\ UNCHANGED counters
    BY <1>9 DEF KeepReduced, At
  <2>2. CASE Top(t).keep = "Cached"
    BY <1>9, <2>1, <2>2, StoreStats DEF KeepReduced, Owed
  <2>3. CASE Top(t).keep # "Cached"
    <3>1. Settled
      BY <1>9, <2>3, StandingIsSettled DEF KeepReduced, counters
    <3> QED BY <2>1, <3>1, DoneStats
  <2> QED BY <2>2, <2>3
<1>10. CASE KeepDerived(t)
  <2>1. /\ agenda[t] # << >> /\ Top(t).do = "keepDerived" /\ Continue(t, << >>)
        /\ Store(t, KeyOf(Top(t))) /\ UNCHANGED counters
    BY <1>10 DEF KeepDerived, At
  <2>2. Top(t) \in Tasks(pending[t])
    BY <1>0, <2>1, TopIsTask
  <2>3. Owed(Top(t))
    BY <2>1, <2>2 DEF Tasks, ReadTasks, KeepTasks, DerivedTasks, Owed
  <2> QED BY <2>1, <2>3, StoreStats
<1>11. CASE Reduce(t)
  BY <1>11, ReduceStats
<1>12. CASE DeriveFromAncestor(t) \/ DeriveFromBase(t)
  BY <1>12, DeriveFromStats
<1>13. CASE Derive(t)
  BY <1>13, DeriveStats
<1> QED
  BY <1>1, <1>2, <1>3, <1>4, <1>5, <1>6, <1>7, <1>8, <1>9, <1>10, <1>11, <1>12, <1>13 DEF Step

LEMMA AsideStats ==
  ASSUME IInv, IInv', StatsInv,
         ClearCache \/ (\E b \in Budgets : SetCacheBudget(b)) \/ UNCHANGED vars
  PROVE  StatsInv'
<1>1. UNCHANGED thread
  BY DEF ClearCache, SetCacheBudget, vars
<1>2. UNCHANGED <<agenda, pc>>
  BY <1>1 DEF thread
<1>3. Credit' = Credit /\ Ready' = Ready /\ \A t \in Thread : Ordered(agenda[t])'
  BY <1>2 DEF Credit, Owing, InHand, Ready, Top, StatsInv
<1>4. Settled
  <2>1. CASE ClearCache \/ \E b \in Budgets : SetCacheBudget(b)
    BY <2>1, RemovingIsSettled DEF ClearCache, SetCacheBudget, counters
  <2>2. CASE UNCHANGED vars
    BY <2>2, StandingIsSettled DEF vars, counters
  <2> QED BY <2>1, <2>2
<1> QED
  BY <1>3, <1>4, SettledStats

LEMMA NextStats == IInv /\ IInv' /\ StatsInv /\ [Next]_vars => StatsInv'
<1> SUFFICES ASSUME IInv, IInv', StatsInv, [Next]_vars PROVE StatsInv'
  OBVIOUS
<1>1. ASSUME NEW t \in Thread, Step(t) \/ Fault(t) PROVE StatsInv'
  BY <1>1, StepStats
<1>2. ASSUME NEW t \in Thread, NEW r \in Request, Ask(t, r) PROVE StatsInv'
  BY <1>2, AskStats
<1> QED
  BY <1>1, <1>2, AsideStats DEF Next, AllDone

LEMMA InitStats == Init => StatsInv
<1> SUFFICES ASSUME Init PROVE StatsInv
  OBVIOUS
<1>1. Credit = {} /\ Ready = {} /\ \A t \in Thread : Ordered(agenda[t])
  BY DEF Init, Credit, Owing, OwedIn, InHand, Ready, Ordered
<1>2. Booked = 0 /\ derivedEntries = 0 /\ misses = 0 /\ derives = 0
  BY DEF Init, Cache!Init, Booked
<1> QED
  BY <1>1, <1>2, FS_EmptySet DEF StatsInv, CreditInv, ReadyInv

(* Read at any moment under the pixel mutex, the statistics add up: nothing *)
(* was inserted, evicted or refused that had not been counted as a miss,   *)
(* and no derived level is resident that was not counted as a derivation,  *)
(* although the counters are added to outside the mutex                    *)
(* (cache_stats, src/src/cache.rs:571-585).                                *)
THEOREM StatisticsAddUp == Spec => []StatsCovered
<1>1. Init => StatsInv
  BY InitStats
<1>2. IInv /\ IInv' /\ StatsInv /\ [Next]_vars => StatsInv'
  BY NextStats
<1>3. IInv /\ StatsInv => StatsCovered
  <2> SUFFICES ASSUME IInv, StatsInv PROVE StatsCovered
    OBVIOUS
  <2>1. /\ Len(lru) \in Nat /\ evictions \in Nat /\ oversized \in Nat /\ derivedEntries \in Nat
        /\ misses \in Nat /\ derives \in Nat
    BY LenProperties DEF IInv, CacheInv, CacheProofs!IInv, CacheProofs!TypeOK, CountInv
  <2>2. Cardinality(Credit) \in Nat /\ Cardinality(Ready) \in Nat
    BY FS_CardinalityType DEF StatsInv, CreditInv, ReadyInv
  <2>3. Booked + Cardinality(Credit) <= misses /\ derivedEntries + Cardinality(Ready) <= derives
    BY DEF StatsInv, CreditInv, ReadyInv
  <2>4. Len(lru) + evictions + oversized <= misses
    BY <2>1, <2>2, <2>3 DEF Booked
  <2>5. derivedEntries <= derives
    BY <2>1, <2>2, <2>3
  <2> QED BY <2>4, <2>5 DEF StatsCovered
<1> QED
  BY <1>1, <1>2, <1>3, AlwaysIInv, PTL DEF Spec

-----------------------------------------------------------------------------
(* The answers.  What is left of a call reads if and only if the call can  *)
(* be answered: a step either leaves that alone, or replaces an item by    *)
(* others that read if and only if it does, or drops one that reads.       *)

KeyReads(k) ==
  CASE k[1] = "TileDir" -> k \notin Broken
    [] k[1] = "Block" -> BlockReads(k[2])
    [] k[1] = "Reduced" -> DataReads[k[2]]
    [] k[1] = "Derived" -> DataReads[DerivedBase[k[2]]]

Stores(task) == task.do \in {"keepReduced", "keepDerived"}

TaskReads(task) ==
  CASE task.do = "fail" -> FALSE
    [] task.do = "cell" -> <<"Cell", task.x>> \notin Broken
    [] task.do = "block" -> BlockReads(task.x)
    [] task.do \in {"dir", "reduced", "derived"} \/ Stores(task) -> KeyReads(KeyOf(task))
    [] OTHER -> TRUE

Reads(s) == \A j \in 1..Len(s) : TaskReads(s[j])

(* A store is never the first item to fail: what it keeps was made of what *)
(* comes before it.                                                        *)
StoresFollow(s) ==
  \A i \in 1..Len(s) : Stores(s[i]) /\ (\A j \in 1..(i - 1) : TaskReads(s[j])) => TaskReads(s[i])

EndsInConstant(s) == s # << >> /\ s[Len(s)].do = "constantData"

AnswerInv(t) ==
  /\ pending[t] # None =>
       /\ Reads(agenda[t]) <=> Readable(pending[t])
       /\ StoresFollow(agenda[t])
       /\ Misrouted(pending[t]) /\ ok[t] => EndsInConstant(agenda[t])
  /\ pc[t] = "countHit" => TaskReads(Top(t))
  /\ pc[t] \in {"lock", "seek", "read", "decode"} /\ Top(t).do = "block" => Top(t).x \notin Refused

(* The cache and the cells hold nothing that does not decode.              *)
Sound == {[key |-> k, value |-> k] : k \in {c \in CacheKey : KeyReads(c)}}
CellsRead == \A c \in Cell : once[c] # Unset => <<"Cell", c>> \notin Broken

ServiceInv ==
  /\ lru \in Seq(Sound)
  /\ CellsRead
  /\ faults \in Nat
  /\ \A t \in Thread : AnswerInv(t)

(* A texture reads if its own bytes do and what it is reduced from does.   *)
LEMMA LineageReads ==
  ASSUME NEW x \in Texture
  PROVE  /\ Source[x].route # "reduced" => (DataReads[x] <=> OwnReads(x))
         /\ Source[x].route = "reduced" =>
              Source[x].from \in Texture /\ (DataReads[x] <=> DataReads[Source[x].from])
<1>1. CASE Source[x].route # "reduced"
  <2>1. {x} \in SUBSET Texture /\ x \in {x} /\ Closed({x})
    BY <1>1 DEF Closed
  <2>2. Lineage[x] = {x}
    BY <2>1 DEF Lineage
  <2> QED BY <1>1, <2>2 DEF DataReads
<1>2. CASE Source[x].route = "reduced"
  <2> DEFINE y == Source[x].from
  <2>1. y \in Texture
    BY <1>2, SourceAssumption
  <2>2. \A S \in SUBSET Texture : x \in S /\ Closed(S) => y \in S
    BY <1>2 DEF Closed
  <2> HIDE DEF y
  <2>3. Lineage[y] \subseteq Lineage[x] /\ y \in Lineage[y]
    BY <2>1, <2>2 DEF Lineage
  <2>4. Closed(Lineage[y])
    <3>1. ASSUME NEW z \in Lineage[y], Source[z].route = "reduced" PROVE Source[z].from \in Lineage[y]
      <4>1. z \in Texture /\ Source[z].from \in Texture
        BY <2>1, <3>1, SourceAssumption DEF Lineage
      <4>2. ASSUME NEW S \in SUBSET Texture, y \in S, Closed(S) PROVE Source[z].from \in S
        <5>1. z \in S
          BY <2>1, <4>2 DEF Lineage
        <5> QED BY <3>1, <4>2, <5>1 DEF Closed
      <4> QED BY <2>1, <4>1, <4>2 DEF Lineage
    <3> QED BY <3>1 DEF Closed
  <2>5. Closed({x} \cup Lineage[y]) /\ {x} \cup Lineage[y] \in SUBSET Texture
    BY <1>2, <2>1, <2>3, <2>4 DEF Closed, Lineage, y
  <2>6. Lineage[x] \subseteq {x} \cup Lineage[y]
    BY <2>5 DEF Lineage
  <2>7. OwnReads(x)
    BY <1>2 DEF OwnReads, IndexReads
  <2>8. DataReads[x] <=> DataReads[y]
    BY <2>1, <2>3, <2>6, <2>7 DEF DataReads
  <2> QED BY <1>2, <2>1, <2>8 DEF y
<1> QED
  BY <1>1, <1>2

(* Items one after the other.                                              *)
LEMMA ReadsTogether ==
  ASSUME NEW S, NEW s \in Seq(S), NEW u \in Seq(S)
  PROVE  Reads(s \o u) <=> Reads(s) /\ Reads(u)
<1>1. /\ Len(s) \in Nat /\ Len(u) \in Nat /\ Len(s \o u) = Len(s) + Len(u)
      /\ \A i \in 1..(Len(s) + Len(u)) : (s \o u)[i] = IF i <= Len(s) THEN s[i] ELSE u[i - Len(s)]
  BY LenProperties, ConcatProperties
<1>2. ASSUME Reads(s), Reads(u), NEW i \in 1..Len(s \o u) PROVE TaskReads((s \o u)[i])
  <2>1. CASE i <= Len(s)
    BY <1>1, <1>2, <2>1 DEF Reads
  <2>2. CASE ~(i <= Len(s))
    <3>1. i - Len(s) \in 1..Len(u)
      BY <1>1, <2>2
    <3> QED BY <1>1, <1>2, <2>2, <3>1 DEF Reads
  <2> QED BY <2>1, <2>2
<1>3. ASSUME Reads(s \o u), NEW i \in 1..Len(s) PROVE TaskReads(s[i])
  <2>1. i \in 1..Len(s \o u) /\ i <= Len(s)
    BY <1>1
  <2>2. (s \o u)[i] = s[i]
    BY <1>1, <2>1
  <2> QED BY <1>3, <2>1, <2>2 DEF Reads
<1>4. ASSUME Reads(s \o u), NEW i \in 1..Len(u) PROVE TaskReads(u[i])
  <2>1. Len(s) + i \in 1..Len(s \o u) /\ ~(Len(s) + i <= Len(s)) /\ Len(s) + i - Len(s) = i
    BY <1>1
  <2>2. (s \o u)[Len(s) + i] = u[i]
    BY <1>1, <2>1
  <2> QED BY <1>4, <2>1, <2>2 DEF Reads
<1> QED
  BY <1>2, <1>3, <1>4 DEF Reads

LEMMA OneReads == \A task : Reads(<< task >>) <=> TaskReads(task)
BY DEF Reads

LEMMA NoneReads == Reads(<< >>)
BY DEF Reads

(* Items that store nothing and, before the last, one that stores.         *)
LEMMA UnmadeFollow ==
  ASSUME NEW s, Unmade(s)
  PROVE  StoresFollow(s)
BY DEF Unmade, Made, StoresFollow, Stores

LEMMA LastFollows ==
  ASSUME NEW S, NEW s \in Seq(S), NEW task \in S, \A i \in 1..Len(s) : ~Stores(s[i]),
         Reads(s) => TaskReads(task)
  PROVE  StoresFollow(s \o << task >>)
<1>1. /\ Len(s) \in Nat /\ Len(s \o << task >>) = Len(s) + 1
      /\ \A i \in 1..Len(s) : (s \o << task >>)[i] = s[i]
      /\ (s \o << task >>)[Len(s) + 1] = task
  <2>1. << task >> \in Seq(S) /\ Len(<< task >>) = 1 /\ << task >>[1] = task
    OBVIOUS
  <2>2. Len(s) \in Nat
    BY LenProperties
  <2> QED BY <2>1, <2>2, ConcatProperties
<1>2. ASSUME NEW i \in 1..(Len(s) + 1), Stores((s \o << task >>)[i]),
             \A j \in 1..(i - 1) : TaskReads((s \o << task >>)[j])
      PROVE  TaskReads((s \o << task >>)[i])
  <2>1. i = Len(s) + 1
    BY <1>1, <1>2
  <2>2. Reads(s)
    BY <1>1, <1>2, <2>1 DEF Reads
  <2> QED BY <1>1, <2>1, <2>2
<1> QED
  BY <1>1, <1>2 DEF StoresFollow

(* The first item gives way to what reads if and only if it does.          *)
LEMMA ReadsAfter ==
  ASSUME NEW S, NEW s \in Seq(S), s # << >>, NEW first \in Seq(S),
         Reads(first) <=> TaskReads(Head(s)), StoresFollow(first), StoresFollow(s)
  PROVE  /\ Reads(first \o Tail(s)) <=> Reads(s)
         /\ StoresFollow(first \o Tail(s))
<1> DEFINE u == first \o Tail(s)
           m == Len(first)
           L == Len(s)
<1>1. /\ L \in Nat \ {0} /\ m \in Nat /\ Len(u) = m + L - 1
      /\ \A i \in 1..m : u[i] = first[i]
      /\ \A i \in 2..L : u[m + i - 1] = s[i]
  BY NewAgenda
<1>2. Head(s) = s[1]
  OBVIOUS
<1> HIDE DEF u
<1>3. \A k \in 1..Len(u) : k \in 1..m \/ (k - m + 1 \in 2..L /\ u[k] = s[k - m + 1])
  <2> SUFFICES ASSUME NEW k \in 1..Len(u), k \notin 1..m
               PROVE  k - m + 1 \in 2..L /\ u[k] = s[k - m + 1]
    OBVIOUS
  <2> HIDE DEF m, L
  <2>1. k - m + 1 \in 2..L /\ m + (k - m + 1) - 1 = k
    BY <1>1
  <2> QED BY <1>1, <2>1
<1>4. ASSUME NEW n \in 1..L
      PROVE  (\A j \in 1..n : TaskReads(s[j])) <=> (\A k \in 1..(m + n - 1) : TaskReads(u[k]))
  <2>1. ASSUME \A j \in 1..n : TaskReads(s[j]), NEW k \in 1..(m + n - 1) PROVE TaskReads(u[k])
    <3>1. Reads(first)
      BY <1>1, <1>2, <2>1
    <3>2. CASE k \in 1..m
      BY <1>1, <3>1, <3>2 DEF Reads
    <3>3. CASE k \notin 1..m
      <4> HIDE DEF m, L
      <4>1. k \in 1..Len(u) /\ k - m + 1 \in 1..n
        BY <1>1, <3>3
      <4> QED BY <1>3, <2>1, <3>3, <4>1
    <3> QED BY <3>2, <3>3
  <2>2. ASSUME \A k \in 1..(m + n - 1) : TaskReads(u[k]), NEW j \in 1..n PROVE TaskReads(s[j])
    <3>1. \A k \in 1..m : k \in 1..(m + n - 1)
      <4> HIDE DEF m, L
      <4> QED BY <1>1
    <3>2. Reads(first)
      BY <1>1, <2>2, <3>1 DEF Reads
    <3>3. CASE j = 1
      BY <1>2, <3>2, <3>3
    <3>4. CASE j # 1
      <4> HIDE DEF m, L
      <4>1. j \in 2..L /\ m + j - 1 \in 1..(m + n - 1)
        BY <1>1, <3>4
      <4> QED BY <1>1, <2>2, <4>1
    <3> QED BY <3>3, <3>4
  <2> QED BY <2>1, <2>2
<1>5. Reads(u) <=> Reads(s)
  <2>1. L \in 1..L
    BY <1>1
  <2> QED BY <1>1, <1>4, <2>1 DEF Reads
<1>6. ASSUME NEW k \in 1..Len(u), Stores(u[k]), \A j \in 1..(k - 1) : TaskReads(u[j])
      PROVE  TaskReads(u[k])
  <2>1. CASE k \in 1..m
    <3>1. \A j \in 1..(k - 1) : j \in 1..m
      <4> HIDE DEF m, L
      <4> QED BY <1>1, <2>1
    <3>2. \A j \in 1..(k - 1) : TaskReads(first[j])
      BY <1>1, <1>6, <3>1
    <3> QED BY <1>1, <1>6, <2>1, <3>2 DEF StoresFollow
  <2>2. CASE k \notin 1..m
    <3> DEFINE i == k - m + 1
    <3>1. i \in 2..L /\ u[k] = s[i]
      BY <1>3, <2>2
    <3> HIDE DEF m, L
    <3>2. i - 1 \in 1..L /\ i \in 1..L /\ m + (i - 1) - 1 = k - 1
      BY <1>1, <3>1
    <3> HIDE DEF i
    <3>3. \A j \in 1..(i - 1) : TaskReads(s[j])
      BY <1>4, <1>6, <3>2
    <3> QED BY <1>6, <3>1, <3>2, <3>3 DEF StoresFollow, L
  <2> QED BY <2>1, <2>2
<1> QED
  BY <1>5, <1>6 DEF StoresFollow, u

-----------------------------------------------------------------------------
(* What a call sets out to do reads if and only if the file can answer it. *)

LEMMA ReadsByKind ==
  ASSUME NEW task
  PROVE  /\ task.do = "fail" => ~TaskReads(task)
         /\ task.do = "cell" => (TaskReads(task) <=> <<"Cell", task.x>> \notin Broken)
         /\ task.do = "block" => (TaskReads(task) <=> BlockReads(task.x))
BY DEF TaskReads, Stores

LEMMA TaskReadsAs ==
  /\ ~TaskReads(Task("fail", "nothing", "Cached"))
  /\ \A c, keep : TaskReads(Task("cell", c, keep)) <=> <<"Cell", c>> \notin Broken
  /\ \A p, keep : TaskReads(Task("dir", p, keep)) <=> TileDir(p) \notin Broken
  /\ \A p, keep : TaskReads(Task("block", p, keep)) <=> BlockReads(p)
  /\ \A x, keep : /\ TaskReads(Task("reduced", x, keep)) <=> DataReads[x]
                  /\ TaskReads(Task("keepReduced", x, keep)) <=> DataReads[x]
  /\ \A x, keep : /\ TaskReads(Task("derived", x, keep)) <=> DataReads[DerivedBase[x[1]]]
                  /\ TaskReads(Task("keepDerived", x, keep)) <=> DataReads[DerivedBase[x[1]]]
                  /\ TaskReads(Task("derive", x, keep))
                  /\ TaskReads(Task("constantData", x, keep))
<1>1. \A p, keep : TaskReads(Task("dir", p, keep)) <=> TileDir(p) \notin Broken
  BY DEF TaskReads, Task, KeyOf, KeyReads, Stores, TileDir
<1>2. \A x, keep : /\ TaskReads(Task("reduced", x, keep)) <=> DataReads[x]
                   /\ TaskReads(Task("keepReduced", x, keep)) <=> DataReads[x]
  BY DEF TaskReads, Task, KeyOf, KeyReads, Stores, Reduced
<1>3. \A x, keep : /\ TaskReads(Task("derived", x, keep)) <=> DataReads[DerivedBase[x[1]]]
                   /\ TaskReads(Task("keepDerived", x, keep)) <=> DataReads[DerivedBase[x[1]]]
  BY DEF TaskReads, Task, KeyOf, KeyReads, Stores, Derived
<1> QED
  BY <1>1, <1>2, <1>3 DEF TaskReads, Task, Stores

LEMMA RefusalReads == ~Reads(Refusal)
BY OneReads, TaskReadsAs DEF Refusal

LEMMA DataPlanReadsAs ==
  ASSUME NEW x \in Texture, NEW keep
  PROVE  Reads(DataPlan(x, keep)) <=> DataReads[x]
<1> DEFINE s == Source[x]
<1>1. CASE s.route = "constant"
  BY <1>1, LineageReads, NoneReads DEF DataPlan, OwnReads, IndexReads
<1>2. CASE s.route = "none"
  BY <1>2, LineageReads, RefusalReads DEF DataPlan, OwnReads
<1>3. CASE s.route = "reduced"
  BY <1>3, OneReads, TaskReadsAs DEF DataPlan
<1>4. CASE s.route = "stored"
  <2> DEFINE S == [do : {"cell", "dir", "block"}, x : Cell \cup DOMAIN Tiles \cup DOMAIN Encoding,
                   keep : {keep}]
             cell == Task("cell", s.level, keep)
             dir == Task("dir", s.pos, keep)
  <2>1. /\ s.level \in Cell /\ s.pos \in DOMAIN Encoding
        /\ Encoding[s.pos] = "tiled" => s.pos \in DOMAIN Tiles
    BY <1>4, SourceAssumption
  <2>2. << cell >> \in Seq(S)
    <3>1. cell \in S
      BY <2>1 DEF Task
    <3> QED BY <3>1
  <2>3. DataReads[x] <=> OwnReads(x)
    BY <1>4, LineageReads
  <2>4. CASE Encoding[s.pos] = "tiled"
    <3> DEFINE blocks == [i \in DOMAIN Tiles[s.pos] |-> Task("block", Tiles[s.pos][i], keep)]
    <3>1. /\ Len(Tiles[s.pos]) \in Nat /\ DOMAIN Tiles[s.pos] = 1..Len(Tiles[s.pos])
          /\ \A i \in DOMAIN Tiles[s.pos] : Tiles[s.pos][i] \in DOMAIN Encoding
      BY <2>1, <2>4, TilesAssumption, LenProperties, ElementOfSeq
    <3>2. dir \in S /\ \A i \in 1..Len(Tiles[s.pos]) : Task("block", Tiles[s.pos][i], keep) \in S
      BY <2>1, <2>4, <3>1 DEF Task
    <3> HIDE DEF S, dir
    <3>3. << dir >> \in Seq(S) /\ blocks \in Seq(S) /\ Len(blocks) = Len(Tiles[s.pos])
      BY <3>1, <3>2, SeqDef, LenProperties
    <3>4. Reads(blocks) <=> \A i \in DOMAIN Tiles[s.pos] : BlockReads(Tiles[s.pos][i])
      BY <3>1, <3>3, TaskReadsAs DEF Reads
    <3>5. DataPlan(x, keep) = << cell >> \o (<< dir >> \o blocks)
      BY <1>4, <2>4 DEF DataPlan, dir
    <3> HIDE DEF blocks, cell
    <3>6. << dir >> \o blocks \in Seq(S)
      BY <3>3, ConcatProperties
    <3>7. Reads(DataPlan(x, keep)) <=> Reads(<< cell >>) /\ Reads(<< dir >>) /\ Reads(blocks)
      BY <2>2, <3>3, <3>5, <3>6, ReadsTogether
    <3>8. (Reads(<< cell >>) <=> <<"Cell", s.level>> \notin Broken)
          /\ (Reads(<< dir >>) <=> TileDir(s.pos) \notin Broken)
      BY OneReads, TaskReadsAs DEF cell, dir
    <3>9. OwnReads(x) <=> /\ <<"Cell", s.level>> \notin Broken /\ TileDir(s.pos) \notin Broken
                          /\ \A i \in DOMAIN Tiles[s.pos] : BlockReads(Tiles[s.pos][i])
      BY <1>4, <2>4 DEF OwnReads, IndexReads, IsTiled
    <3> QED BY <2>3, <3>4, <3>7, <3>8, <3>9
  <2>5. CASE Encoding[s.pos] # "tiled"
    <3> DEFINE block == Task("block", s.pos, keep)
    <3>1. block \in S
      BY <2>1 DEF Task
    <3> HIDE DEF S
    <3>2. << block >> \in Seq(S)
      BY <3>1
    <3>3. DataPlan(x, keep) = << cell >> \o << block >>
      BY <1>4, <2>5 DEF DataPlan
    <3> HIDE DEF cell, block
    <3>4. Reads(DataPlan(x, keep)) <=> TaskReads(cell) /\ TaskReads(block)
      BY <2>2, <3>2, <3>3, ReadsTogether, OneReads
    <3>5. OwnReads(x) <=> <<"Cell", s.level>> \notin Broken /\ BlockReads(s.pos)
      BY <1>4, <2>5 DEF OwnReads, IndexReads, IsTiled
    <3> QED BY <2>3, <3>4, <3>5, TaskReadsAs DEF cell, block
  <2> QED BY <2>4, <2>5
<1> QED
  BY <1>1, <1>2, <1>3, <1>4, SourceAssumption

LEMMA LayoutPlanReadsAs ==
  ASSUME NEW x \in Texture
  PROVE  Reads(LayoutPlan(x)) <=> LayoutReads(x)
<1> DEFINE s == Source[x]
<1>1. CASE s.route \in {"constant", "reduced"}
  BY <1>1, NoneReads DEF LayoutPlan, LayoutReads, IndexReads
<1>2. CASE s.route = "none"
  BY <1>2, RefusalReads DEF LayoutPlan, LayoutReads
<1>3. CASE s.route = "stored"
  <2> DEFINE cell == Task("cell", s.level, "Cached")
             dir == Task("dir", s.pos, "Cached")
             S == {cell, dir}
  <2>1. << cell >> \in Seq(S) /\ << dir >> \in Seq(S) /\ << >> \in Seq(S)
    <3>1. cell \in S /\ dir \in S
      OBVIOUS
    <3> HIDE DEF cell, dir, S
    <3> QED BY <3>1, EmptySeq
  <2>2. LayoutPlan(x) = << cell >> \o (IF Encoding[s.pos] = "tiled" THEN << dir >> ELSE << >>)
    BY <1>3 DEF LayoutPlan
  <2> HIDE DEF cell, dir, S
  <2>3. Reads(LayoutPlan(x)) <=> TaskReads(cell) /\ (Encoding[s.pos] = "tiled" => TaskReads(dir))
    BY <2>1, <2>2, ReadsTogether, OneReads, NoneReads
  <2> QED BY <1>3, <2>3, TaskReadsAs DEF LayoutReads, IndexReads, IsTiled, cell, dir
<1> QED
  BY <1>1, <1>2, <1>3, SourceAssumption

LEMMA TilePlanReadsAs ==
  ASSUME NEW x \in Texture, NEW i
  PROVE  Reads(TilePlan(x, i)) <=> TileReads(x, i)
<1> DEFINE s == Source[x]
           T == ReadTasks("Cached", DataFootprint[x])
           block == Task("block", Tiles[s.pos][i], "Cached")
           S == T \cup {block}
<1>1. LayoutPlan(x) \in Seq(T) /\ DataPlan(x, "Cached") \in Seq(T)
  <2>1. IsTiled(x) => TileDir(s.pos) \in DataFootprint[x]
    BY OwnLineage DEF IsTiled, OwnFootprint
  <2> QED BY <2>1, LayoutPlanReads, DataPlanReads
<1>2. Refusal \in Seq(T)
  BY RefusalIsRead
<1> HIDE DEF T, block
<1>3. /\ LayoutPlan(x) \in Seq(S) /\ DataPlan(x, "Cached") \in Seq(S) /\ Refusal \in Seq(S)
      /\ << block >> \in Seq(S)
  BY <1>1, <1>2, SeqMonotonic
<1> HIDE DEF S
<1>4. /\ Reads(LayoutPlan(x)) <=> LayoutReads(x)
      /\ Reads(DataPlan(x, "Cached")) <=> DataReads[x]
      /\ ~Reads(Refusal)
      /\ Reads(<< block >>) <=> BlockReads(Tiles[s.pos][i])
  BY LayoutPlanReadsAs, DataPlanReadsAs, RefusalReads, OneReads, TaskReadsAs DEF block
<1>5. CASE ~HasTile(x, i)
  BY <1>3, <1>4, <1>5, ReadsTogether DEF TilePlan, TileReads
<1>6. CASE HasTile(x, i) /\ IsTiled(x)
  <2>1. LayoutPlan(x) \o << block >> \in Seq(S)
    BY <1>3, ConcatProperties
  <2>2. Reads(LayoutPlan(x) \o << block >>) <=> LayoutReads(x) /\ BlockReads(Tiles[s.pos][i])
    BY <1>3, <1>4, ReadsTogether
  <2>3. TilePlan(x, i) = LayoutPlan(x) \o (LayoutPlan(x) \o << block >>)
    BY <1>6 DEF TilePlan, block
  <2>4. Reads(TilePlan(x, i)) <=> Reads(LayoutPlan(x)) /\ Reads(LayoutPlan(x) \o << block >>)
    BY <1>3, <2>1, <2>3, ReadsTogether
  <2> QED BY <1>4, <1>6, <2>2, <2>4 DEF TileReads
<1>7. CASE HasTile(x, i) /\ ~IsTiled(x)
  BY <1>3, <1>4, <1>7, ReadsTogether DEF TilePlan, TileReads
<1> QED
  BY <1>5, <1>6, <1>7

(* A call that get_pixel misroutes ends in the constant data.              *)
LEMMA PlanReadsAs ==
  ASSUME NEW r \in Request
  PROVE  /\ Reads(Plan(r)) <=> Readable(r)
         /\ Misrouted(r) => EndsInConstant(Plan(r))
<1> DEFINE T == ReadTasks("Cached", DataFootprint[r.of])
<1>0. ASSUME r.api \in {"layout", "info", "tile", "pixel"}
      PROVE  r.of \in Texture /\ LayoutPlan(r.of) \in Seq(T)
             /\ TilePlan(r.of, r.tile) \in Seq(T)
  <2>1. r.of \in Texture
    BY <1>0, RequestAssumption
  <2>2. IsTiled(r.of) => TileDir(Source[r.of].pos) \in DataFootprint[r.of]
    BY <2>1, OwnLineage DEF IsTiled, OwnFootprint
  <2> QED BY <2>1, <2>2, LayoutPlanReads, TilePlanReads
<1>1. CASE r.api = "data"
  BY <1>1, RequestAssumption, DataPlanReadsAs DEF Plan, Readable, Misrouted
<1>2. CASE r.api = "layout"
  BY <1>2, RequestAssumption, LayoutPlanReadsAs DEF Plan, Readable, Misrouted
<1>3. CASE r.api = "info"
  <2>1. LayoutPlan(r.of) \in Seq(T) /\ Refusal \in Seq(T) /\ r.of \in Texture
    BY <1>0, <1>3, RefusalIsRead
  <2> HIDE DEF T
  <2>2. Reads(InfoPlan(r.of, r.tile)) <=> LayoutReads(r.of) /\ HasTile(r.of, r.tile)
    BY <2>1, ReadsTogether, LayoutPlanReadsAs, RefusalReads DEF InfoPlan
  <2> QED BY <1>3, <2>2 DEF Plan, Readable, Misrouted
<1>4. CASE r.api = "tile"
  BY <1>0, <1>4, TilePlanReadsAs DEF Plan, Readable, Misrouted
<1>5. CASE r.api = "pixel"
  <2> DEFINE c == Task("constantData", r.of, "Cached")
             S == T \cup {c}
  <2>1. /\ LayoutPlan(r.of) \in Seq(S) /\ TilePlan(r.of, r.tile) \in Seq(S)
        /\ << c >> \in Seq(S) /\ Len(<< c >>) = 1 /\ r.of \in Texture
    BY <1>0, <1>5, SeqMonotonic
  <2> HIDE DEF S
  <2>2. CASE LaidOutConstant(r.of)
    <3>1. Plan(r) = LayoutPlan(r.of) \o << c >>
      BY <1>5, <2>2 DEF Plan, PixelPlan
    <3>2. Reads(Plan(r)) <=> LayoutReads(r.of)
      <4>1. TaskReads(c)
        BY TaskReadsAs
      <4> HIDE DEF c
      <4> QED BY <2>1, <3>1, <4>1, ReadsTogether, LayoutPlanReadsAs, OneReads
    <3>3. EndsInConstant(Plan(r))
      <4> HIDE DEF c
      <4>1. Plan(r) \in Seq(S) /\ Len(Plan(r)) = Len(LayoutPlan(r.of)) + 1
            /\ Len(LayoutPlan(r.of)) \in Nat
            /\ Plan(r)[Len(LayoutPlan(r.of)) + 1] = c
        BY <2>1, <3>1, ConcatProperties, LenProperties
      <4>2. Plan(r) # << >>
        BY <4>1, EmptySeq
      <4> QED BY <4>1, <4>2 DEF EndsInConstant, c, Task
    <3> QED BY <1>5, <2>2, <3>2, <3>3 DEF Readable
  <2>3. CASE ~LaidOutConstant(r.of)
    <3>1. Plan(r) = LayoutPlan(r.of) \o TilePlan(r.of, r.tile)
      BY <1>5, <2>3 DEF Plan, PixelPlan
    <3>2. Reads(Plan(r)) <=> LayoutReads(r.of) /\ TileReads(r.of, r.tile)
      BY <2>1, <3>1, ReadsTogether, LayoutPlanReadsAs, TilePlanReadsAs
    <3> QED BY <1>5, <2>3, <3>2 DEF Readable, TileReads, Misrouted
  <2> QED BY <2>2, <2>3
<1>6. CASE r.api = "derived"
  <2>1. r.of \in Face /\ r.level \in Nat
    BY <1>6, RequestAssumption
  <2>2. CASE r.level < DerivedCount[r.of]
    <3>1. Plan(r) = << Task("derived", <<r.of, r.level>>, "Cached") >>
      BY <1>6, <2>2 DEF Plan
    <3> QED BY <1>6, <2>2, <3>1, OneReads, TaskReadsAs DEF Readable, Misrouted
  <2>3. CASE ~(r.level < DerivedCount[r.of])
    BY <1>6, <2>3, RefusalReads DEF Plan, Readable, Misrouted
  <2> QED BY <2>2, <2>3
<1>7. CASE r.api = "metadata"
  BY <1>7, OneReads, TaskReadsAs DEF Plan, Readable, Misrouted
<1> QED
  BY <1>1, <1>2, <1>3, <1>4, <1>5, <1>6, <1>7, RequestAssumption

(* A reduction reads if what it is made from does.                         *)
LEMMA ReductionReads ==
  ASSUME NEW r, NEW task \in Tasks(r), task.do = "reduced", NEW first,
         first = DataPlan(Source[task.x].from, task.keep)
                   \o << Task("keepReduced", task.x, task.keep) >>
  PROVE  (Reads(first) <=> TaskReads(task)) /\ StoresFollow(first)
<1> DEFINE x == task.x
           plan == DataPlan(Source[x].from, task.keep)
           last == Task("keepReduced", x, task.keep)
<1>1. x \in Texture /\ Source[x].route = "reduced"
  BY DEF Tasks, ReadTasks, KeepTasks, DerivedTasks, Reducible
<1>2. Source[x].from \in Texture /\ (DataReads[x] <=> DataReads[Source[x].from])
  BY <1>1, LineageReads
<1>3. Reads(plan) <=> DataReads[x]
  BY <1>2, DataPlanReadsAs
<1>4. (TaskReads(last) <=> DataReads[x]) /\ (TaskReads(task) <=> DataReads[x])
  BY TaskReadsAs DEF TaskReads, KeyOf, KeyReads, Reduced, Stores
<1>5. plan \in Seq(Tasks(r)) /\ Unmade(plan) /\ last \in Tasks(r)
  BY ReduceTasks
<1> HIDE DEF plan, last
<1>6. Reads(plan \o << last >>) <=> Reads(plan) /\ TaskReads(last)
  <2>1. << last >> \in Seq(Tasks(r))
    BY <1>5
  <2> QED BY <1>5, <2>1, ReadsTogether, OneReads
<1>7. \A i \in 1..Len(plan) : ~Stores(plan[i])
  BY <1>5 DEF Unmade, Made, Stores
<1>8. StoresFollow(plan \o << last >>)
  BY <1>3, <1>4, <1>5, <1>7, LastFollows
<1> QED
  BY <1>3, <1>4, <1>6, <1>8 DEF plan, last, x

(* What a list followed by one of n entries holds, place by place.         *)
LEMMA PlacesOfBoth ==
  ASSUME NEW S, NEW a \in Seq(S), NEW b \in Seq(S), NEW n \in Nat, Len(b) = n
  PROVE  /\ Len(a) \in Nat /\ Len(a \o b) = Len(a) + n
         /\ \A i \in 1..(Len(a) + n) :
              (a \o b)[i] = IF i <= Len(a) THEN a[i] ELSE b[i - Len(a)]
  BY LenProperties, ConcatProperties

(* And a derivation, from an ancestor or from the base.                    *)
LEMMA DerivationReads ==
  ASSUME NEW r, NEW task \in Tasks(r), task.do = "derived", NEW n \in Nat, NEW f, NEW k,
         f = task.x[1], k = task.x[2]
  PROVE  /\ TaskReads(task) <=> DataReads[DerivedBase[f]]
         /\ DataReads[DerivedBase[f]] =>
              Reads(DerivePlan(<<f, k>>, n)) /\ StoresFollow(DerivePlan(<<f, k>>, n))
         /\ LET first == DataPlan(DerivedBase[f], "Transient") \o DerivePlan(<<f, k>>, n)
            IN  (Reads(first) <=> DataReads[DerivedBase[f]]) /\ StoresFollow(first)
<1> DEFINE base == DataPlan(DerivedBase[f], "Transient")
           levels == [i \in 1..n |-> Task("derive", <<f, k>>, "Cached")]
           last == Task("keepDerived", <<f, k>>, "Cached")
           T == Tasks(r)
<1>1. /\ f \in Face /\ base \in Seq(T) /\ Unmade(base)
      /\ Task("derive", <<f, k>>, "Cached") \in T /\ last \in T
  BY DeriveTasks
<1>2. levels \in Seq(T) /\ Len(levels) = n /\ \A i \in 1..n : levels[i] = Task("derive", <<f, k>>, "Cached")
  <2> HIDE DEF T, last, base
  <2>1. levels \in Seq(T)
    BY <1>1, SeqDef
  <2> QED BY <2>1, LenProperties
<1>3. TaskReads(task) <=> DataReads[DerivedBase[f]]
  BY DEF TaskReads, KeyOf, KeyReads, Derived, Stores
<1>4. TaskReads(last) <=> DataReads[DerivedBase[f]]
  BY TaskReadsAs
<1>5. Reads(levels) /\ \A i \in 1..Len(levels) : ~Stores(levels[i])
  <2>1. TaskReads(Task("derive", <<f, k>>, "Cached")) /\ ~Stores(Task("derive", <<f, k>>, "Cached"))
    BY TaskReadsAs DEF Task, Stores
  <2> HIDE DEF levels
  <2> QED BY <1>2, <2>1 DEF Reads
<1>6. DerivePlan(<<f, k>>, n) = levels \o << last >>
  BY DEF DerivePlan
<1>7. Reads(base) <=> DataReads[DerivedBase[f]]
  BY <1>1, DerivedAssumption, DataPlanReadsAs
<1> HIDE DEF base, levels, last, T
<1>8. << last >> \in Seq(T)
  BY <1>1
<1>9. ASSUME DataReads[DerivedBase[f]]
      PROVE  Reads(DerivePlan(<<f, k>>, n)) /\ StoresFollow(DerivePlan(<<f, k>>, n))
  <2>1. Reads(levels \o << last >>)
    BY <1>2, <1>4, <1>5, <1>8, <1>9, ReadsTogether, OneReads
  <2>2. StoresFollow(levels \o << last >>)
    BY <1>1, <1>2, <1>4, <1>5, <1>9, LastFollows
  <2> QED BY <1>6, <2>1, <2>2
<1>10. LET first == base \o DerivePlan(<<f, k>>, n)
       IN  (Reads(first) <=> DataReads[DerivedBase[f]]) /\ StoresFollow(first)
  <2> DEFINE front == base \o levels
             first == base \o DerivePlan(<<f, k>>, n)
  <2>1. front \in Seq(T) /\ (Reads(front) <=> Reads(base) /\ Reads(levels))
    BY <1>1, <1>2, ReadsTogether, ConcatProperties
  <2>2. first = front \o << last >>
    <3>1. base \o (levels \o << last >>) = (base \o levels) \o << last >>
      BY <1>1, <1>2, <1>8, ConcatAssociative
    <3> QED BY <1>6, <3>1
  <2>3. \A i \in 1..Len(front) : ~Stores(front[i])
    <3>1. /\ Len(base) \in Nat /\ Len(front) = Len(base) + n
          /\ \A i \in 1..(Len(base) + n) :
               front[i] = IF i <= Len(base) THEN base[i] ELSE levels[i - Len(base)]
      <4> HIDE DEF first
      <4> QED BY <1>1, <1>2, PlacesOfBoth
    <3>2. \A i \in 1..Len(base) : ~Stores(base[i])
      BY <1>1 DEF Unmade, Made, Stores
    <3> HIDE DEF front
    <3> TAKE i \in 1..Len(front)
    <3>3. CASE i <= Len(base)
      BY <3>1, <3>2, <3>3
    <3>4. CASE ~(i <= Len(base))
      <4>1. i - Len(base) \in 1..n
        BY <3>1, <3>4
      <4> QED BY <1>2, <1>5, <3>1, <3>4, <4>1
    <3> QED BY <3>3, <3>4
  <2> HIDE DEF front, first
  <2>4. Reads(first) <=> Reads(front) /\ TaskReads(last)
    BY <1>8, <2>1, <2>2, ReadsTogether, OneReads
  <2>5. StoresFollow(first)
    BY <1>1, <1>4, <1>5, <1>7, <2>1, <2>2, <2>3, LastFollows
  <2> QED BY <1>4, <1>5, <1>7, <2>1, <2>4, <2>5 DEF first
<1> QED
  BY <1>3, <1>9, <1>10 DEF base

-----------------------------------------------------------------------------
(* The steps.  Each keeps the threads' part of the invariant and is a step *)
(* of the service, or none.                                                *)

Answering == \A s \in Thread : AnswerInv(s)'

(* The other threads stand still.                                          *)
LEMMA OthersAnswer ==
  ASSUME NEW t \in Thread, \A s \in Thread : AnswerInv(s), AnswerInv(t)',
         \A s \in Thread \ {t} :
           /\ pending'[s] = pending[s] /\ agenda'[s] = agenda[s] /\ pc'[s] = pc[s]
           /\ ok'[s] = ok[s]
  PROVE  Answering
<1> SUFFICES ASSUME NEW s \in Thread PROVE AnswerInv(s)'
  BY DEF Answering
<1>1. CASE s = t
  BY <1>1
<1>2. CASE s # t
  <2>1. /\ pending'[s] = pending[s] /\ agenda'[s] = agenda[s] /\ pc'[s] = pc[s] /\ ok'[s] = ok[s]
    BY <1>2
  <2>2. AnswerInv(s)
    OBVIOUS
  <2> QED BY <2>1, <2>2 DEF AnswerInv, Top
<1> QED
  BY <1>1, <1>2

(* What a thread has used only ever gets worse within a call.              *)
LEMMA UsedOnly ==
  ASSUME IInv, NEW t \in Thread, ok' = ok \/ \E right \in BOOLEAN : Used(t, right)
  PROVE  (ok'[t] => ok[t]) /\ \A s \in Thread \ {t} : ok'[s] = ok[s]
BY DEF IInv, IsFunctionOfThreads, Used

LEMMA GotoAnswers ==
  ASSUME IInv, ServiceInv, NEW t \in Thread, agenda[t] # << >>, NEW p \in Places,
         agenda' = agenda, pc' = [pc EXCEPT ![t] = p],
         pending' = pending, ok' = ok \/ \E right \in BOOLEAN : Used(t, right),
         p = "countHit" => TaskReads(Top(t)),
         p \in {"lock", "seek", "read", "decode"} /\ Top(t).do = "block" => Top(t).x \notin Refused
  PROVE  Answering
<1>1. AnswerInv(t) /\ pc'[t] = p /\ \A s \in Thread \ {t} : pc'[s] = pc[s]
  BY DEF ServiceInv, IInv, StreamInv
<1>2. (ok'[t] => ok[t]) /\ \A s \in Thread \ {t} : ok'[s] = ok[s]
  BY UsedOnly
<1>3. Top(t)' = Top(t)
  BY DEF Top
<1>4. AnswerInv(t)'
  BY <1>1, <1>2, <1>3 DEF AnswerInv
<1> QED
  BY <1>1, <1>2, <1>4, OthersAnswer DEF ServiceInv

(* The agenda keeps its end, unless that is done.                          *)
LEMMA EndStays ==
  ASSUME NEW S, NEW s \in Seq(S), EndsInConstant(s), Head(s).do # "constantData",
         NEW first \in Seq(S)
  PROVE  EndsInConstant(first \o Tail(s))
<1> DEFINE u == first \o Tail(s)
           m == Len(first)
           L == Len(s)
<1>1. s # << >>
  BY DEF EndsInConstant
<1>2. /\ L \in Nat \ {0} /\ m \in Nat /\ Len(u) = m + L - 1
      /\ \A i \in 2..L : u[m + i - 1] = s[i]
  BY <1>1, NewAgenda
<1>3. u \in Seq(S) /\ Head(s) = s[1]
  BY <1>1, HeadTailProperties, ConcatProperties
<1> HIDE DEF u, m
<1>4. L # 1
  BY <1>3 DEF EndsInConstant
<1> HIDE DEF L
<1>5. L \in 2..L /\ Len(u) # 0
  BY <1>2, <1>4
<1>6. u[Len(u)] = s[L]
  BY <1>2, <1>5
<1>7. u # << >>
  BY <1>3, <1>5, EmptySeq
<1> QED
  BY <1>6, <1>7 DEF EndsInConstant, u, L

LEMMA ContinueAnswers ==
  ASSUME IInv, ServiceInv, NEW t \in Thread, agenda[t] # << >>,
         NEW first \in Seq(Tasks(pending[t])), Continue(t, first),
         pending' = pending, ok' = ok \/ \E right \in BOOLEAN : Used(t, right),
         Reads(first) <=> TaskReads(Top(t)), StoresFollow(first),
         Top(t).do # "constantData" \/ (Misrouted(pending[t]) => ~ok'[t])
  PROVE  Answering
<1> DEFINE r == pending[t]
           S == Tasks(r) \cup ConstantTasks(r)
<1>1. CallInv(t) /\ AnswerInv(t) /\ r \in Request
  BY TopIsTask DEF IInv, ServiceInv
<1>2. r # None
  BY <1>1, NoneAssumption
<1>3. (ok'[t] => ok[t]) /\ \A s \in Thread \ {t} : ok'[s] = ok[s]
  BY UsedOnly
<1>4. /\ agenda'[t] = first \o Tail(agenda[t]) /\ pc'[t] = "begin"
      /\ \A s \in Thread \ {t} : agenda'[s] = agenda[s] /\ pc'[s] = pc[s]
  BY DEF IInv, StreamInv, IsFunctionOfThreads, Continue
<1>5. agenda[t] \in Seq(S) /\ first \in Seq(S)
  BY <1>1, <1>2, SeqMonotonic DEF CallInv, Agendas
<1> HIDE DEF S
<1>6. (Reads(agenda'[t]) <=> Reads(agenda[t])) /\ StoresFollow(agenda'[t])
  BY <1>1, <1>2, <1>4, <1>5, ReadsAfter DEF AnswerInv, Top
<1>7. Misrouted(r) /\ ok'[t] => EndsInConstant(agenda'[t])
  BY <1>1, <1>2, <1>3, <1>4, <1>5, EndStays DEF AnswerInv, Top
<1>8. AnswerInv(t)'
  BY <1>1, <1>2, <1>4, <1>6, <1>7 DEF AnswerInv
<1> QED
  BY <1>3, <1>4, <1>8, OthersAnswer DEF ServiceInv

(* An item that reads is done.                                             *)
LEMMA DoneAnswers ==
  ASSUME IInv, ServiceInv, NEW t \in Thread, agenda[t] # << >>, Continue(t, << >>),
         pending' = pending, ok' = ok \/ \E right \in BOOLEAN : Used(t, right),
         TaskReads(Top(t)),
         Top(t).do # "constantData" \/ (Misrouted(pending[t]) => ~ok'[t])
  PROVE  Answering
<1>1. << >> \in Seq(Tasks(pending[t])) /\ Reads(<< >>) /\ StoresFollow(<< >>)
  BY EmptySeq DEF Reads, StoresFollow
<1> QED
  BY <1>1, ContinueAnswers

(* A call that returns, with an outcome it may have, answers.              *)
LEMMA ReturnAnswers ==
  ASSUME IInv, ServiceInv, NEW t \in Thread, NEW val, Return(t, val), pending[t] # None,
         val \in Outcomes[pending[t]]
  PROVE  Answering /\ Service!Next
<1>1. /\ pending'[t] = None /\ pc'[t] = "begin"
      /\ \A s \in Thread \ {t} :
           /\ pending'[s] = pending[s] /\ agenda'[s] = agenda[s] /\ pc'[s] = pc[s]
           /\ ok'[s] = ok[s]
  BY DEF IInv, StreamInv, IsFunctionOfThreads, Return
<1>2. AnswerInv(t)'
  BY <1>1 DEF AnswerInv
<1>3. Answering
  BY <1>1, <1>2, OthersAnswer DEF ServiceInv
<1>4. Service!Answer(t)
  BY DEF Return, Service!Answer
<1> QED
  BY <1>3, <1>4 DEF Service!Next

(* The outcomes there are.                                                 *)
LEMMA OutcomesAre ==
  ASSUME NEW r \in Request
  PROVE  /\ ~Readable(r) => "err" \in Outcomes[r]
         /\ Readable(r) /\ ~Misrouted(r) => "pixels" \in Outcomes[r]
         /\ Readable(r) /\ Misrouted(r) => "junk" \in Outcomes[r]
         /\ MaxFaults > 0 => "err" \in Outcomes[r]
BY DEF Outcomes

(* A call whose next item does not read cannot be answered.                *)
LEMMA CannotAnswer ==
  ASSUME IInv, ServiceInv, NEW t \in Thread, pending[t] # None, agenda[t] # << >>,
         ~TaskReads(Top(t))
  PROVE  pending[t] \in Request /\ "err" \in Outcomes[pending[t]]
<1>1. CallInv(t) /\ AnswerInv(t)
  BY DEF IInv, ServiceInv
<1>2. pending[t] \in Request /\ Len(agenda[t]) \in Nat \ {0} /\ Top(t) = agenda[t][1]
  BY <1>1, HeadTailProperties, LenProperties, EmptySeq DEF CallInv, Agendas, Top
<1>3. 1 \in 1..Len(agenda[t])
  BY <1>2
<1>4. ~Reads(agenda[t])
  BY <1>2, <1>3 DEF Reads
<1> QED
  BY <1>1, <1>2, <1>4, OutcomesAre DEF AnswerInv

(* A store that is next reads.                                             *)
LEMMA NextStoreReads ==
  ASSUME IInv, ServiceInv, NEW t \in Thread, pending[t] # None, agenda[t] # << >>, Stores(Top(t))
  PROVE  TaskReads(Top(t))
<1>1. CallInv(t) /\ AnswerInv(t)
  BY DEF IInv, ServiceInv
<1>2. Len(agenda[t]) \in Nat \ {0} /\ Top(t) = agenda[t][1]
  BY <1>1, HeadTailProperties, LenProperties, EmptySeq DEF CallInv, Agendas, Top
<1>3. 1 \in 1..Len(agenda[t]) /\ \A j \in 1..(1 - 1) : TaskReads(agenda[t][j])
  BY <1>2
<1> QED
  BY <1>1, <1>2, <1>3 DEF AnswerInv, StoresFollow

(* What is found in the cache reads.                                       *)
LEMMA FoundReads ==
  ASSUME IInv, ServiceInv, NEW k \in Cache!Resident
  PROVE  KeyReads(k)
<1>1. CacheProofs!IndexOf(k) = Cache!IndexOf(k) /\ k \in CacheProofs!Resident
  BY SameCache
<1>2. lru[CacheProofs!IndexOf(k)] \in Sound /\ lru[CacheProofs!IndexOf(k)].key = k
  BY <1>1, CacheProofs!ResidentEntry, CacheAssumptions DEF ServiceInv
<1> QED
  BY <1>2 DEF Sound

(* An item that is looked up reads if its key does.                        *)
LEMMA LookupReads ==
  ASSUME NEW task, IsLookup(task) \/ Stores(task)
  PROVE  TaskReads(task) <=> KeyReads(KeyOf(task))
<1>1. CASE task.do = "block"
  BY <1>1 DEF TaskReads, KeyReads, KeyOf, Block, BlockReads, Stores
<1>2. CASE task.do # "block"
  BY <1>2 DEF TaskReads, IsLookup, Stores
<1> QED
  BY <1>1, <1>2

(* An item whose bytes were read and decode reads.                         *)
LEMMA DecodedReads ==
  ASSUME IInv, ServiceInv, NEW t \in Thread, At(t, "decode")
  PROVE  TaskReads(Top(t)) <=> Item(Top(t)) \notin Broken
<1>1. CallInv(t) /\ AnswerInv(t)
  BY DEF IInv, ServiceInv
<1>2. Top(t).do \in {"cell", "dir", "block"}
  BY <1>1 DEF CallInv, InPlace, At
<1>3. Top(t).do = "block" => Top(t).x \notin Refused
  BY <1>1 DEF AnswerInv, At
<1> QED
  BY <1>2, <1>3 DEF TaskReads, KeyReads, KeyOf, Item, BlockReads, Stores, TileDir

-----------------------------------------------------------------------------
(* What every step does beside.                                            *)

Served ==
  /\ Answering
  /\ lru' \in Seq(Sound)
  /\ CellsRead'
  /\ [Service!Next]_Service!vars

LEMMA ServedAside ==
  ASSUME ServiceInv, Answering, UNCHANGED <<lru, once>>, [Service!Next]_Service!vars
  PROVE  Served
BY DEF ServiceInv, Served, CellsRead

LEMMA ReplyStands ==
  ASSUME UNCHANGED <<pending, reply>>
  PROVE  [Service!Next]_Service!vars
BY DEF Service!vars

LEMMA LruStands == ASSUME UNCHANGED cacheVars PROVE lru' = lru
BY DEF cacheVars

(* What is stored reads.                                                   *)
LEMMA StoreIsSound ==
  ASSUME IInv, ServiceInv, NEW t \in Thread, ok[t] = TRUE, NEW k \in CacheKey, KeyReads(k),
         Store(t, k)
  PROVE  lru' \in Seq(Sound) /\ \E right \in BOOLEAN : Used(t, right)
<1>1. Cache!InsertOrGet(k, k) /\ Used(t, Cache!Winner(k, k) = k)
  BY DEF Store
<1>2. CacheProofs!InsertOrGet(k, k) /\ [key |-> k, value |-> k] \in Sound
  BY <1>1, SameCache DEF Sound
<1>3. lru' \in Seq(Sound)
  BY <1>2, CacheProofs!InsertKeeps, CacheAssumptions DEF ServiceInv
<1>4. (Cache!Winner(k, k) = k) \in BOOLEAN
  OBVIOUS
<1> QED
  BY <1>1, <1>3, <1>4

LEMMA GetIsSound ==
  ASSUME ServiceInv, NEW k, Cache!Get(k)
  PROVE  lru' \in Seq(Sound)
BY SameCache, CacheProofs!GetKeeps, CacheAssumptions DEF ServiceInv

(* Answers, refusals and failures.                                         *)
LEMMA AnswerServes == ASSUME IInv, ServiceInv, NEW t \in Thread, Answer(t) PROVE Served
<1> DEFINE val == IF ok[t] THEN "pixels" ELSE "junk"
           r == pending[t]
<1>1. /\ Return(t, val) /\ r # None /\ agenda[t] = << >> /\ UNCHANGED <<cacheVars, once>>
      /\ CallInv(t) /\ AnswerInv(t)
  BY DEF Answer, IInv, ServiceInv
<1>2. r \in Request /\ Readable(r)
  <2>1. Reads(agenda[t])
    BY <1>1, NoneReads
  <2> QED BY <1>1, <2>1 DEF CallInv, AnswerInv
<1>3. Misrouted(r) <=> ~ok[t]
  BY <1>1 DEF CallInv, AnswerInv, EndsInConstant
<1>4. val \in Outcomes[r]
  BY <1>2, <1>3, OutcomesAre
<1> HIDE DEF val
<1> QED
  BY <1>1, <1>4, ReturnAnswers, LruStands, ServedAside

LEMMA RefuseServes ==
  ASSUME IInv, ServiceInv, NEW t \in Thread, Refuse(t) \/ DecodeFails(t) PROVE Served
<1>1. /\ Return(t, "err") /\ pending[t] # None /\ agenda[t] # << >> /\ UNCHANGED <<cacheVars, once>>
  BY DEF Refuse, DecodeFails, At
<1>2. ~TaskReads(Top(t))
  <2>1. CASE Refuse(t)
    BY <2>1, ReadsByKind DEF Refuse, BlockReads, IsConstantBlock
  <2>2. CASE DecodeFails(t)
    BY <2>2, DecodedReads DEF DecodeFails
  <2> QED BY <2>1, <2>2
<1>3. "err" \in Outcomes[pending[t]]
  BY <1>1, <1>2, CannotAnswer
<1> QED
  BY <1>1, <1>3, ReturnAnswers, LruStands, ServedAside

LEMMA FaultServes == ASSUME IInv, ServiceInv, NEW t \in Thread, Fault(t) PROVE Served
<1>1. /\ Return(t, "err") /\ pending[t] # None /\ UNCHANGED <<cacheVars, once>>
      /\ faults < MaxFaults
  BY DEF Fault, At
<1>2. MaxFaults > 0
  BY <1>1, FaultsAssumption DEF ServiceInv
<1>3. pending[t] \in Request
  BY <1>1 DEF IInv, CallInv
<1> QED
  BY <1>1, <1>2, <1>3, OutcomesAre, ReturnAnswers, LruStands, ServedAside

LEMMA AskServes == ASSUME IInv, ServiceInv, NEW t \in Thread, NEW r \in Request, Ask(t, r) PROVE Served
<1>1. /\ pending[t] = None /\ UNCHANGED <<cacheVars, once, pc, ok, reply>>
      /\ pending' = [pending EXCEPT ![t] = r] /\ agenda' = [agenda EXCEPT ![t] = Plan(r)]
  BY DEF Ask
<1>2. /\ pending'[t] = r /\ agenda'[t] = Plan(r)
      /\ \A s \in Thread \ {t} : pending'[s] = pending[s] /\ agenda'[s] = agenda[s]
  BY <1>1 DEF IInv, StreamInv, IsFunctionOfThreads
<1>3. pc[t] = "begin"
  BY <1>1 DEF IInv, StreamInv
<1>4. /\ Reads(Plan(r)) <=> Readable(r)
      /\ StoresFollow(Plan(r))
      /\ Misrouted(r) => EndsInConstant(Plan(r))
  BY PlanReadsAs, PlanIsAgenda, UnmadeFollow
<1>5. AnswerInv(t)'
  BY <1>1, <1>2, <1>3, <1>4 DEF AnswerInv
<1>6. Answering
  BY <1>1, <1>2, <1>5, OthersAnswer DEF ServiceInv
<1>7. Service!Next
  BY <1>1 DEF Service!Next, Service!Ask
<1> QED
  BY <1>1, <1>6, <1>7, LruStands, ServedAside

(* Looking up.                                                             *)
LEMMA LookupHitServes == ASSUME IInv, ServiceInv, NEW t \in Thread, LookupHit(t) PROVE Served
<1> DEFINE k == KeyOf(Top(t))
<1>1. /\ agenda[t] # << >> /\ IsLookup(Top(t)) /\ k \in Cache!Resident
      /\ Used(t, Cache!ValueOf(k) = k) /\ Cache!Get(k)
      /\ Goto(t, "countHit") \/ Continue(t, << >>)
      /\ UNCHANGED <<once, pending, reply>>
  BY DEF LookupHit, At
<1>2. TaskReads(Top(t))
  BY <1>1, FoundReads, LookupReads
<1>3. lru' \in Seq(Sound)
  BY <1>1, GetIsSound
<1>4. \E right \in BOOLEAN : Used(t, right)
  <2> DEFINE right == Cache!ValueOf(k) = k
  <2>1. right \in BOOLEAN
    OBVIOUS
  <2> QED BY <1>1, <2>1
<1> HIDE DEF k
<1>5. Top(t).do # "constantData"
  BY <1>1 DEF IsLookup
<1>6. Answering
  <2>1. CASE Goto(t, "countHit")
    BY <1>1, <1>2, <1>4, <2>1, GotoAnswers DEF Goto, Places
  <2>2. CASE Continue(t, << >>)
    BY <1>1, <1>2, <1>4, <1>5, <2>2, DoneAnswers
  <2> QED BY <1>1, <2>1, <2>2
<1> QED
  BY <1>1, <1>3, <1>6, ReplyStands DEF Served, ServiceInv, CellsRead

LEMMA MissServes == ASSUME IInv, ServiceInv, NEW t \in Thread, LookupMiss(t) \/ CountMiss(t) PROVE Served
<1>1. PICK p \in {"countMiss", "missed"} : Goto(t, p)
  BY DEF LookupMiss, CountMiss
<1>2. agenda[t] # << >> /\ UNCHANGED <<cacheVars, once, pending, ok, reply>>
  BY DEF LookupMiss, CountMiss, At
<1>3. Answering
  BY <1>1, <1>2, GotoAnswers DEF Goto, Places
<1> QED
  BY <1>2, <1>3, LruStands, ReplyStands, ServedAside

(* The steps that are done with an item and touch neither cache nor cells. *)
LEMMA DoneServes ==
  ASSUME IInv, ServiceInv, NEW t \in Thread,
         CountHit(t) \/ CellReady(t) \/ UseConstantData(t) \/ UseAndDrop(t) \/ Derive(t)
  PROVE  Served
<1>1. /\ agenda[t] # << >> /\ pending[t] # None /\ Continue(t, << >>)
      /\ UNCHANGED <<cacheVars, once, pending, reply>>
  BY DEF CountHit, CellReady, UseConstantData, UseAndDrop, Derive, At
<1>2. CallInv(t) /\ AnswerInv(t) /\ pending[t] \in Request
  BY <1>1, TopIsTask DEF IInv, ServiceInv
<1>3. CASE CountHit(t)
  <2>1. TaskReads(Top(t)) /\ IsLookup(Top(t))
    BY <1>2, <1>3 DEF AnswerInv, CallInv, InPlace, CountHit, At
  <2>2. Answering
    BY <1>1, <1>3, <2>1, DoneAnswers DEF CountHit, IsLookup
  <2> QED BY <1>1, <2>2, LruStands, ReplyStands, ServedAside
<1>4. CASE CellReady(t)
  <2>1. Top(t).do = "cell" /\ once[Top(t).x] # Unset /\ Used(t, once[Top(t).x].right)
    BY <1>4 DEF CellReady
  <2>2. Top(t).x \in Cell
    BY <1>1, <1>2, <2>1, TopIsTask DEF Tasks, ReadTasks, KeepTasks, DerivedTasks
  <2>3. TaskReads(Top(t))
    BY <2>1, <2>2, ReadsByKind DEF ServiceInv, CellsRead
  <2>4. once[Top(t).x].right \in BOOLEAN
    BY <2>1, <2>2 DEF IInv, OnceInv
  <2>5. Answering
    BY <1>1, <2>1, <2>3, <2>4, DoneAnswers
  <2> QED BY <1>1, <2>5, LruStands, ReplyStands, ServedAside
<1>5. CASE UseConstantData(t)
  <2> DEFINE right == Source[Top(t).x].route = "constant"
  <2>1. Top(t).do = "constantData" /\ Used(t, right)
    BY <1>5 DEF UseConstantData
  <2>2. Top(t) \in ConstantTasks(pending[t])
    BY <1>1, <1>2, <2>1, TopIsTask DEF Tasks, ReadTasks, KeepTasks, DerivedTasks
  <2>3. Misrouted(pending[t]) => ~right
    BY <2>2 DEF ConstantTasks, Misrouted
  <2>4. ok'[t] = (ok[t] /\ right) /\ right \in BOOLEAN
    BY <2>1 DEF Used, IInv, IsFunctionOfThreads
  <2>5. TaskReads(Top(t))
    BY <2>1 DEF TaskReads, Stores
  <2> HIDE DEF right
  <2>6. Answering
    BY <1>1, <2>1, <2>3, <2>4, <2>5, DoneAnswers
  <2> QED BY <1>1, <2>6, LruStands, ReplyStands, ServedAside
<1>6. CASE UseAndDrop(t)
  <2>1. TaskReads(Top(t)) /\ Top(t).do # "constantData" /\ ok' = ok
    BY <1>6, DecodedReads DEF UseAndDrop, IsConstantBlock, IsLookup
  <2>2. Answering
    BY <1>1, <2>1, DoneAnswers
  <2> QED BY <1>1, <2>2, LruStands, ReplyStands, ServedAside
<1>7. CASE Derive(t)
  <2>1. TaskReads(Top(t)) /\ Top(t).do # "constantData" /\ ok' = ok
    BY <1>7 DEF Derive, TaskReads, Stores
  <2>2. Answering
    BY <1>1, <2>1, DoneAnswers
  <2> QED BY <1>1, <2>2, LruStands, ReplyStands, ServedAside
<1> QED
  BY <1>3, <1>4, <1>5, <1>6, <1>7

(* On the stream.                                                          *)
LEMMA StreamServes ==
  ASSUME IInv, ServiceInv, NEW t \in Thread, StartReading(t) \/ Lock(t) \/ Seek(t) \/ Read(t)
  PROVE  Served
<1>1. /\ agenda[t] # << >> /\ UNCHANGED <<cacheVars, once, pending, reply>>
      /\ agenda' = agenda
  BY DEF StartReading, Lock, Seek, Read, At, Goto
<1>2. PICK p \in {"lock", "seek", "read", "decode"} : pc' = [pc EXCEPT ![t] = p]
  BY DEF StartReading, Lock, Seek, Read, Goto
<1>3. ok' = ok \/ \E right \in BOOLEAN : Used(t, right)
  <2> DEFINE right == cursor = Address(Top(t), nth[t])
  <2>1. right \in BOOLEAN
    OBVIOUS
  <2> QED BY <2>1 DEF StartReading, Lock, Seek, Read
<1>4. Top(t).do = "block" => Top(t).x \notin Refused
  BY DEF StartReading, Lock, Seek, Read, At, ServiceInv, AnswerInv
<1>5. Answering
  BY <1>1, <1>2, <1>3, <1>4, GotoAnswers DEF Places
<1> QED
  BY <1>1, <1>5, LruStands, ReplyStands, ServedAside

LEMMA SetCellServes == ASSUME IInv, ServiceInv, NEW t \in Thread, SetCell(t) PROVE Served
<1> DEFINE c == Top(t).x
<1>1. /\ agenda[t] # << >> /\ Top(t).do = "cell" /\ Item(Top(t)) \notin Broken /\ CallInv(t)
      /\ once' = IF once[c] = Unset
                 THEN [once EXCEPT ![c] = [by |-> t, right |-> ok[t]]] ELSE once
      /\ Used(t, once'[c].right) /\ Continue(t, << >>)
      /\ UNCHANGED <<cacheVars, pending, reply>>
  BY DEF SetCell, IInv, At
<1>2. c \in Cell
  BY <1>1, TopIsTask DEF Tasks, ReadTasks, KeepTasks, DerivedTasks
<1>3. <<"Cell", c>> \notin Broken /\ TaskReads(Top(t))
  BY <1>1, ReadsByKind DEF Item
<1>4. CellsRead'
  BY <1>1, <1>3 DEF ServiceInv, CellsRead, IInv, OnceInv
<1>5. once'[c].right \in BOOLEAN
  <2>1. once'[c] # Unset => once'[c].right \in BOOLEAN
    BY <1>2, SetCellKeeps DEF Upheld, OnceInv
  <2>2. ok[t] \in BOOLEAN
    BY <1>1 DEF CallInv
  <2> QED BY <1>1, <1>2, <2>1, <2>2 DEF IInv, OnceInv
<1> HIDE DEF c
<1>6. Answering
  BY <1>1, <1>3, <1>5, DoneAnswers
<1> QED
  BY <1>1, <1>4, <1>6, LruStands, ReplyStands DEF Served, ServiceInv

(* Storing.                                                                *)
LEMMA StoringServes ==
  ASSUME IInv, ServiceInv, NEW t \in Thread, agenda[t] # << >>,
         IsLookup(Top(t)) \/ Stores(Top(t)), TaskReads(Top(t)),
         Store(t, KeyOf(Top(t))), Continue(t, << >>), UNCHANGED <<once, pending, reply>>
  PROVE  Served
<1>1. /\ ok[t] = TRUE /\ Top(t) \in Tasks(pending[t]) /\ Top(t).do # "constantData"
  BY TopIsTask DEF IInv, IsLookup, Stores
<1>2. KeyOf(Top(t)) \in CacheKey /\ KeyReads(KeyOf(Top(t)))
  BY <1>1, TaskKey, LookupReads DEF Stores
<1>3. lru' \in Seq(Sound) /\ \E right \in BOOLEAN : Used(t, right)
  BY <1>1, <1>2, StoreIsSound
<1>4. Answering
  BY <1>1, <1>3, DoneAnswers
<1> QED
  BY <1>3, <1>4, ReplyStands DEF Served, ServiceInv, CellsRead

LEMMA KeepServes ==
  ASSUME IInv, ServiceInv, NEW t \in Thread, Keep(t) \/ KeepReduced(t) \/ KeepDerived(t)
  PROVE  Served
<1>1. /\ pending[t] # None /\ agenda[t] # << >> /\ Continue(t, << >>)
      /\ UNCHANGED <<once, pending, reply>>
  BY DEF Keep, KeepReduced, KeepDerived, At
<1>2. (IsLookup(Top(t)) \/ Stores(Top(t))) /\ TaskReads(Top(t)) /\ Top(t).do # "constantData"
  <2>1. CASE Keep(t)
    BY <2>1, DecodedReads DEF Keep, IsLookup
  <2>2. CASE KeepReduced(t) \/ KeepDerived(t)
    <3>1. Stores(Top(t))
      BY <2>2 DEF KeepReduced, KeepDerived, Stores
    <3> QED BY <1>1, <3>1, NextStoreReads DEF Stores
  <2> QED BY <2>1, <2>2
<1>3. CASE Store(t, KeyOf(Top(t)))
  BY <1>1, <1>2, <1>3, StoringServes
<1>4. CASE UNCHANGED <<cacheVars, ok>>
  <2>1. Answering
    BY <1>1, <1>2, <1>4, DoneAnswers
  <2> QED BY <1>1, <1>4, <2>1, LruStands, ReplyStands, ServedAside
<1> QED
  BY <1>3, <1>4 DEF Keep, KeepReduced, KeepDerived

(* Items made of others.                                                   *)
LEMMA ReduceServes == ASSUME IInv, ServiceInv, NEW t \in Thread, Reduce(t) PROVE Served
<1> DEFINE first == DataPlan(Source[Top(t).x].from, Top(t).keep)
                      \o << Task("keepReduced", Top(t).x, Top(t).keep) >>
<1>1. /\ agenda[t] # << >> /\ Top(t).do = "reduced" /\ CallInv(t)
      /\ Continue(t, first) /\ UNCHANGED <<cacheVars, once, pending, ok, reply>>
  BY DEF Reduce, IInv, At
<1>2. Top(t) \in Tasks(pending[t])
  BY <1>1, TopIsTask
<1>3. first \in Seq(Tasks(pending[t]))
  BY <1>1, <1>2, ReduceTasks
<1>4. (Reads(first) <=> TaskReads(Top(t))) /\ StoresFollow(first)
  BY <1>1, <1>2, ReductionReads
<1> HIDE DEF first
<1>5. Answering
  BY <1>1, <1>3, <1>4, ContinueAnswers
<1> QED
  BY <1>1, <1>5, LruStands, ReplyStands, ServedAside

LEMMA DeriveFromBaseServes ==
  ASSUME IInv, ServiceInv, NEW t \in Thread, DeriveFromBase(t) PROVE Served
<1> DEFINE f == Top(t).x[1]
           k == Top(t).x[2]
           first == DataPlan(DerivedBase[f], "Transient") \o DerivePlan(<<f, k>>, k + 1)
<1>1. /\ agenda[t] # << >> /\ Top(t).do = "derived" /\ CallInv(t)
      /\ Continue(t, first) /\ UNCHANGED <<cacheVars, once, pending, ok, reply>>
  BY DEF DeriveFromBase, IInv, At
<1>2. Top(t) \in Tasks(pending[t])
  BY <1>1, TopIsTask
<1>3. /\ k \in Nat /\ DataPlan(DerivedBase[f], "Transient") \in Seq(Tasks(pending[t]))
      /\ \A steps \in Nat : DerivePlan(<<f, k>>, steps) \in Seq(Tasks(pending[t]))
  BY <1>1, <1>2, DeriveTasks
<1>4. k + 1 \in Nat
  <2>1. k \in Nat
    BY <1>3
  <2> HIDE DEF k
  <2> QED BY <2>1
<1>5. first \in Seq(Tasks(pending[t]))
  BY <1>3, <1>4, ConcatProperties
<1>6. (Reads(first) <=> TaskReads(Top(t))) /\ StoresFollow(first)
  BY <1>1, <1>2, <1>4, DerivationReads
<1> HIDE DEF first
<1>7. Answering
  BY <1>1, <1>5, <1>6, ContinueAnswers
<1> QED
  BY <1>1, <1>7, LruStands, ReplyStands, ServedAside

LEMMA DeriveFromAncestorServes ==
  ASSUME IInv, ServiceInv, NEW t \in Thread, DeriveFromAncestor(t) PROVE Served
<1> DEFINE f == Top(t).x[1]
           k == Top(t).x[2]
           j == Max(ResidentLevels(f, k))
           first == DerivePlan(<<f, k>>, k - j)
           right == Cache!ValueOf(Derived(f, j)) = Derived(f, j)
<1>1. /\ agenda[t] # << >> /\ Top(t).do = "derived" /\ CallInv(t)
      /\ ResidentLevels(f, k) # {}
      /\ Used(t, right) /\ Cache!Get(Derived(f, j)) /\ Continue(t, first)
      /\ UNCHANGED <<once, pending, reply>>
  BY DEF DeriveFromAncestor, IInv, At
<1>2. Top(t) \in Tasks(pending[t])
  BY <1>1, TopIsTask
<1>3. k \in Nat /\ \A steps \in Nat : DerivePlan(<<f, k>>, steps) \in Seq(Tasks(pending[t]))
  BY <1>1, <1>2, DeriveTasks
<1>4. j \in 0..(k - 1) /\ Derived(f, j) \in Cache!Resident
  BY <1>1, <1>3, DeepestAncestor DEF ResidentLevels
<1>5. k - j \in Nat
  <2> HIDE DEF j
  <2>1. k \in Nat /\ j \in 0..(k - 1)
    BY <1>3, <1>4
  <2> HIDE DEF k
  <2> QED BY <2>1
<1>6. DataReads[DerivedBase[f]]
  <2>1. KeyReads(Derived(f, j))
    BY <1>4, FoundReads
  <2> QED BY <2>1 DEF KeyReads, Derived
<1>7. first \in Seq(Tasks(pending[t])) /\ right \in BOOLEAN
  BY <1>3, <1>5
<1>8. (Reads(first) <=> TaskReads(Top(t))) /\ StoresFollow(first)
  BY <1>1, <1>2, <1>5, <1>6, DerivationReads
<1>9. lru' \in Seq(Sound)
  BY <1>1, GetIsSound
<1> HIDE DEF first, right, f, k, j
<1>10. Answering
  BY <1>1, <1>7, <1>8, ContinueAnswers
<1> QED
  BY <1>1, <1>9, <1>10, ReplyStands DEF Served, ServiceInv, CellsRead

LEMMA StepServes == ASSUME IInv, ServiceInv, NEW t \in Thread, Step(t) PROVE Served
BY AnswerServes, RefuseServes, LookupHitServes, MissServes, DoneServes, StreamServes,
   SetCellServes, KeepServes, ReduceServes, DeriveFromBaseServes, DeriveFromAncestorServes
DEF Step

(* Administration empties the cache or shrinks it.                         *)
LEMMA AdminServes ==
  ASSUME IInv, ServiceInv, ClearCache \/ (\E b \in Budgets : SetCacheBudget(b)) \/ UNCHANGED vars
  PROVE  Served
<1>1. UNCHANGED <<once, pending, agenda, pc, ok, reply>>
  BY DEF ClearCache, SetCacheBudget, vars, thread
<1>2. lru' \in Seq(Sound)
  <2>1. CASE ClearCache \/ \E b \in Budgets : SetCacheBudget(b)
    <3>1. CacheProofs!Clear \/ \E b \in Budgets : CacheProofs!SetBudget(b)
      BY <2>1, SameCache DEF ClearCache, SetCacheBudget
    <3> QED BY <3>1, CacheProofs!RemovingKeeps, CacheAssumptions DEF ServiceInv
  <2>2. CASE UNCHANGED vars
    BY <2>2 DEF vars, cacheVars, ServiceInv
  <2> QED BY <2>1, <2>2
<1>3. Answering
  BY <1>1 DEF Answering, ServiceInv, AnswerInv, Top
<1> QED
  BY <1>1, <1>2, <1>3, ReplyStands DEF Served, ServiceInv, CellsRead

LEMMA NextServes == IInv /\ ServiceInv /\ [Next]_vars => ServiceInv' /\ [Service!Next]_Service!vars
<1> SUFFICES ASSUME IInv, ServiceInv, [Next]_vars
             PROVE  ServiceInv' /\ [Service!Next]_Service!vars
  OBVIOUS
<1>1. Served
  <2>1. ASSUME NEW t \in Thread, Step(t) PROVE Served
    BY <2>1, StepServes
  <2>2. ASSUME NEW t \in Thread, Fault(t) PROVE Served
    BY <2>2, FaultServes
  <2>3. ASSUME NEW t \in Thread, NEW r \in Request, Ask(t, r) PROVE Served
    BY <2>3, AskServes
  <2> QED BY <2>1, <2>2, <2>3, AdminServes DEF Next, AllDone
<1>2. faults' = faults \/ faults' = faults + 1
  <2>1. ASSUME NEW t \in Thread, Step(t) PROVE faults' = faults
    BY <2>1 DEF Step, Answer, Refuse, LookupHit, LookupMiss, CountHit, CountMiss, CellReady,
       UseConstantData, StartReading, Lock, Seek, Read, DecodeFails, SetCell, Keep, UseAndDrop,
       Reduce, KeepReduced, DeriveFromAncestor, DeriveFromBase, Derive, KeepDerived
  <2>2. ASSUME NEW t \in Thread, NEW r \in Request, Ask(t, r) PROVE faults' = faults
    BY <2>2 DEF Ask
  <2>3. ASSUME NEW t \in Thread, Fault(t) PROVE faults' = faults + 1
    BY <2>3 DEF Fault
  <2> QED BY <2>1, <2>2, <2>3 DEF Next, vars, AllDone, ClearCache, SetCacheBudget
<1>3. faults' \in Nat
  BY <1>2 DEF ServiceInv
<1> QED
  BY <1>1, <1>3 DEF Served, Answering, ServiceInv

LEMMA InitServiceInv == Init => ServiceInv /\ Service!Init
<1> SUFFICES ASSUME Init PROVE ServiceInv /\ Service!Init
  OBVIOUS
<1>1. lru \in Seq(Sound)
  BY EmptySeq DEF Init, Cache!Init
<1>2. CellsRead /\ faults \in Nat /\ \A t \in Thread : AnswerInv(t)
  BY DEF Init, CellsRead, AnswerInv
<1> QED
  BY <1>1, <1>2 DEF Init, ServiceInv, Service!Init

(* The shared reader implements the service: seen from its callers, every  *)
(* step of every thread is a call that begins, a call that returns with an *)
(* outcome the file and the stream allow it, or nothing.  An error has its *)
(* cause in the bytes the call needs or in a failing stream, never in what *)
(* the other threads, the cache or its administration were doing           *)
(* (src/src/cache.rs:8-15, 615-620).                                       *)
THEOREM ReaderServes == Spec => ServiceSafety
<1>1. Init => ServiceInv /\ Service!Init
  BY InitServiceInv
<1>2. IInv /\ ServiceInv /\ [Next]_vars => ServiceInv' /\ [Service!Next]_Service!vars
  BY NextServes
<1> QED
  BY <1>1, <1>2, AlwaysIInv, PTL DEF Spec, ServiceSafety
=============================================================================
