--------------------------- MODULE FileReadingProofs ---------------------------
(***************************************************************************)
(* Opening a file and parsing its meta data, for files with sections of    *)
(* any length, cut anywhere, tables of any number of faces, and meta data  *)
(* buffers of any bytes.                                                   *)
(***************************************************************************)
EXTENDS FileReading, FunctionTheorems, FiniteSetTheorems, SequenceTheorems,
        WellFoundedInduction, TLAPS

-----------------------------------------------------------------------------
(* The stable sort of gen_rfaceids exists, and ranks faces by size.        *)

Before(faces, f, g) ==
  \/ Key(faces[f]) > Key(faces[g])
  \/ Key(faces[f]) = Key(faces[g]) /\ f < g

Face == [u : Int, v : Int, constant : BOOLEAN]

LEMMA KeyType ==
  ASSUME NEW f \in Face
  PROVE  Key(f) \in Int
BY DEF Key, Lesser, Face

(* Before is a strict total order.                                         *)
LEMMA BeforeOrders ==
  ASSUME NEW faces \in Seq(Face)
  PROVE  /\ DOMAIN faces = 1..Len(faces) /\ Len(faces) \in Nat
         /\ \A f \in 1..Len(faces) : ~Before(faces, f, f)
         /\ \A f, g \in 1..Len(faces) : f # g => Before(faces, f, g) \/ Before(faces, g, f)
         /\ \A f, g, h \in 1..Len(faces) :
              Before(faces, f, g) /\ Before(faces, g, h) => Before(faces, f, h)
<1>1. DOMAIN faces = 1..Len(faces) /\ Len(faces) \in Nat
  BY LenProperties
<1>2. \A f \in 1..Len(faces) : Key(faces[f]) \in Int
  BY <1>1, ElementOfSeq, KeyType
<1> QED
  BY <1>1, <1>2 DEF Before

SortedOrders(faces) ==
  {order \in [1..Len(faces) -> DOMAIN faces] :
     /\ IsInjective(order)
     /\ \A i, j \in DOMAIN faces : i < j => Before(faces, order[i], order[j])}

(* Each face takes the place after all that come before it.                *)
LEMMA SortExists ==
  ASSUME NEW faces \in Seq(Face)
  PROVE  SortedOrders(faces) # {}
<1> DEFINE n == Len(faces)
           S == 1..n
           Less(f) == {h \in S : Before(faces, h, f)}
           rank == [f \in S |-> Cardinality(Less(f)) + 1]
<1>1. n \in Nat /\ DOMAIN faces = S /\ IsFiniteSet(S) /\ Cardinality(S) = n
  <2>1. n \in Nat /\ DOMAIN faces = S
    BY BeforeOrders
  <2> QED BY <2>1, FS_Interval
<1>2. ASSUME NEW f \in S
      PROVE  IsFiniteSet(Less(f)) /\ Cardinality(Less(f)) \in Nat
  <2>1. Less(f) \in SUBSET S
    OBVIOUS
  <2> HIDE DEF Less, S
  <2> QED BY <1>1, <2>1, FS_Subset, FS_CardinalityType
<1>3. ASSUME NEW f \in S, NEW T \in SUBSET S, \A h \in T : Before(faces, h, f) \/ h = f, f \in T
      PROVE  IsFiniteSet(T) /\ Cardinality(T) \in Nat /\ Cardinality(T) <= Cardinality(Less(f)) + 1
  <2>1. T \ {f} \in SUBSET Less(f)
    BY <1>3
  <2> HIDE DEF Less, S
  <2>2. IsFiniteSet(T) /\ Cardinality(T) \in Nat
    BY <1>1, FS_Subset, FS_CardinalityType
  <2>3. Cardinality(T \ {f}) = Cardinality(T) - 1
    BY <1>3, <2>2, FS_RemoveElement
  <2>4. Cardinality(T \ {f}) <= Cardinality(Less(f))
    BY <1>2, <2>1, FS_Subset
  <2> QED BY <1>2, <2>2, <2>3, <2>4
<1>4. ASSUME NEW f \in S, NEW g \in S, Before(faces, f, g)
      PROVE  Cardinality(Less(f)) < Cardinality(Less(g))
  <2> DEFINE T == Less(f) \cup {f}
  <2>1. f \notin Less(f) /\ T \in SUBSET Less(g)
    BY <1>4, BeforeOrders
  <2> HIDE DEF Less, S
  <2>2. Cardinality(T) = Cardinality(Less(f)) + 1
    BY <1>2, <2>1, FS_AddElement
  <2>3. Cardinality(T) <= Cardinality(Less(g))
    <3> HIDE DEF T
    <3> QED BY <1>2, <2>1, FS_Subset
  <2> QED BY <1>2, <2>2, <2>3
<1>5. ASSUME NEW f \in S PROVE rank[f] \in S
  <2>1. f \notin Less(f) /\ Less(f) \in SUBSET (S \ {f})
    BY BeforeOrders
  <2> HIDE DEF Less
  <2>2. IsFiniteSet(S \ {f}) /\ Cardinality(S \ {f}) = n - 1
    <3> HIDE DEF S
    <3> QED BY <1>1, FS_RemoveElement
  <2>3. Cardinality(Less(f)) <= n - 1
    BY <2>1, <2>2, FS_Subset
  <2> QED BY <1>1, <1>2, <2>3
<1>6. ASSUME NEW f \in S, NEW g \in S, rank[f] = rank[g] PROVE f = g
  <2> SUFFICES ASSUME f # g PROVE FALSE
    OBVIOUS
  <2>1. Before(faces, f, g) \/ Before(faces, g, f)
    BY BeforeOrders
  <2>2. Cardinality(Less(f)) = Cardinality(Less(g))
    <3>1. rank[f] = Cardinality(Less(f)) + 1 /\ rank[g] = Cardinality(Less(g)) + 1
      OBVIOUS
    <3>2. Cardinality(Less(f)) \in Nat /\ Cardinality(Less(g)) \in Nat
      BY <1>2
    <3> DEFINE a == Cardinality(Less(f))
               b == Cardinality(Less(g))
    <3>3. a + 1 = b + 1 /\ a \in Nat /\ b \in Nat
      BY <1>6, <3>1, <3>2
    <3> HIDE DEF a, b
    <3>4. a = b
      BY <3>3
    <3> QED BY <3>4 DEF a, b
  <2> HIDE DEF rank, Less, S
  <2> QED BY <1>2, <1>4, <2>1, <2>2
<1>7. \A i \in S : \E f \in S : rank[f] = i
  <2>1. rank \in [S -> S]
    BY <1>5
  <2> HIDE DEF rank, S
  <2>2. rank \in Injection(S, S)
    BY <1>6, <2>1, Fun_IsInj
  <2>3. rank \in Surjection(S, S)
    BY <1>1, <2>2, FS_Injection
  <2> QED BY <2>3, Fun_SurjectionProperties
<1> DEFINE order == [i \in S |-> CHOOSE f \in S : rank[f] = i]
<1>8. \A i \in S : order[i] \in S /\ rank[order[i]] = i
  <2> HIDE DEF rank
  <2> QED BY <1>7
<1>9. order \in [1..n -> DOMAIN faces] /\ IsInjective(order)
  <2>1. order \in [S -> S]
    <3> HIDE DEF rank, S
    <3> QED BY <1>8
  <2> HIDE DEF rank, order
  <2> QED BY <1>1, <1>8, <2>1 DEF IsInjective
<1>10. ASSUME NEW i \in S, NEW j \in S, i < j
       PROVE  Before(faces, order[i], order[j])
  <2> DEFINE a == order[i]
             b == order[j]
  <2>1. a \in S /\ b \in S /\ rank[a] = i /\ rank[b] = j
    BY <1>8
  <2>2. Cardinality(Less(a)) + 1 = i /\ Cardinality(Less(b)) + 1 = j
    <3> HIDE DEF order, a, b
    <3> QED BY <2>1
  <2> HIDE DEF a, b, Less, rank, order
  <2>3. a # b
    BY <1>10, <2>1
  <2>4. Before(faces, a, b) \/ Before(faces, b, a)
    BY <2>1, <2>3, BeforeOrders
  <2>5. ~Before(faces, b, a)
    BY <1>2, <1>4, <1>10, <2>1, <2>2
  <2> QED BY <2>4, <2>5 DEF a, b
<1>11. order \in SortedOrders(faces)
  <2> HIDE DEF order
  <2> QED BY <1>1, <1>9, <1>10 DEF SortedOrders
<1> QED
  BY <1>11

(* Places are handed out from the front: a set of them that has, with each *)
(* place, all before it, is the first so many.                             *)
LEMMA Prefix ==
  ASSUME NEW n \in Nat, NEW P \in SUBSET (1..n),
         \A i, j \in 1..n : i < j /\ j \in P => i \in P
  PROVE  /\ IsFiniteSet(P) /\ Cardinality(P) \in Nat
         /\ P = 1..Cardinality(P)
<1>1. IsFiniteSet(P) /\ Cardinality(P) \in Nat
  <2>1. IsFiniteSet(1..n)
    BY FS_Interval
  <2> QED BY <2>1, FS_Subset, FS_CardinalityType
<1>2. ASSUME NEW i \in P PROVE i \in 1..Cardinality(P)
  <2>1. i \in 1..n /\ 1..i \in SUBSET P
    OBVIOUS
  <2>2. Cardinality(1..i) = i
    BY <2>1, FS_Interval
  <2>3. Cardinality(1..i) <= Cardinality(P)
    BY <1>1, <2>1, FS_Subset
  <2> QED BY <1>1, <2>1, <2>2, <2>3
<1>3. /\ IsFiniteSet(1..Cardinality(P))
      /\ Cardinality(1..Cardinality(P)) = Cardinality(P)
  BY <1>1, FS_Interval
<1> DEFINE C == 1..Cardinality(P)
<1>4. P \in SUBSET C
  BY <1>2
<1>5. P = C
  <2> HIDE DEF C
  <2>1. IsFiniteSet(C) /\ Cardinality(C) = Cardinality(P)
    BY <1>3 DEF C
  <2> QED BY <1>4, <2>1, FS_Subset
<1> QED
  BY <1>1, <1>5

LEMMA RanksAreBySize ==
  ASSUME NEW faces \in Seq(Face), NEW k \in Int
  PROVE  LET atLeast == {f \in DOMAIN faces : Key(faces[f]) >= k}
         IN  {GenRfaceids(faces)[f] : f \in atLeast} = 0..(Cardinality(atLeast) - 1)
<1> DEFINE n == Len(faces)
           S == 1..n
           order == CHOOSE order \in SortedOrders(faces) : TRUE
           place == [f \in S |-> CHOOSE i \in S : order[i] = f]
           atLeast == {f \in S : Key(faces[f]) >= k}
           P == {i \in S : order[i] \in atLeast}
<1>1. n \in Nat /\ DOMAIN faces = S /\ IsFiniteSet(S)
  <2>1. n \in Nat /\ DOMAIN faces = S
    BY BeforeOrders
  <2> QED BY <2>1, FS_Interval
<1>2. order \in SortedOrders(faces)
  BY SortExists
<1>3. GenRfaceids(faces) = [f \in S |-> place[f] - 1]
  <2>1. SortedOrders(faces) =
          {o \in [1..Len(faces) -> DOMAIN faces] :
             /\ IsInjective(o)
             /\ \A i, j \in DOMAIN faces : i < j =>
                  \/ Key(faces[o[i]]) > Key(faces[o[j]])
                  \/ Key(faces[o[i]]) = Key(faces[o[j]]) /\ o[i] < o[j]}
    BY DEF SortedOrders, Before
  <2>2. GenRfaceids(faces) =
          [f \in DOMAIN faces |-> (CHOOSE i \in DOMAIN order : order[i] = f) - 1]
    BY <2>1 DEF GenRfaceids
  <2>3. DOMAIN order = S
    BY <1>2 DEF SortedOrders
  <2> HIDE DEF order
  <2> QED BY <1>1, <2>2, <2>3
<1>4. /\ order \in [S -> S] /\ \A i, j \in S : order[i] = order[j] => i = j
      /\ \A i, j \in S : i < j => Before(faces, order[i], order[j])
  BY <1>1, <1>2 DEF SortedOrders, IsInjective
<1> HIDE DEF order
<1>5. \A f \in S : \E i \in S : order[i] = f
  <2> HIDE DEF S
  <2>1. order \in Injection(S, S)
    BY <1>4, Fun_IsInj
  <2>2. order \in Surjection(S, S)
    BY <1>1, <2>1, FS_Injection
  <2> QED BY <2>2, Fun_SurjectionProperties
<1>6. \A f \in S : place[f] \in S /\ order[place[f]] = f
  BY <1>5
<1>7. \A i \in S : place[order[i]] = i
  <2> HIDE DEF place, S
  <2> QED BY <1>4, <1>6
<1>8. \A f \in S : Key(faces[f]) \in Int
  BY <1>1, ElementOfSeq, KeyType
<1>9. \A i, j \in 1..n : i < j /\ j \in P => i \in P
  <2> SUFFICES ASSUME NEW i \in S, NEW j \in S, i < j, j \in P PROVE i \in P
    OBVIOUS
  <2>1. order[i] \in S /\ order[j] \in S /\ Key(faces[order[j]]) >= k
    BY <1>4
  <2>2. Key(faces[order[i]]) >= Key(faces[order[j]])
    <3>1. Before(faces, order[i], order[j])
      BY <1>4
    <3>2. Key(faces[order[i]]) \in Int /\ Key(faces[order[j]]) \in Int
      BY <1>8, <2>1
    <3> QED BY <3>1, <3>2 DEF Before
  <2> QED BY <1>8, <2>1, <2>2
<1> HIDE DEF place
<1>10. P = 1..Cardinality(P) /\ IsFiniteSet(P) /\ Cardinality(P) \in Nat
  <2>1. P \in SUBSET (1..n)
    OBVIOUS
  <2> HIDE DEF P
  <2> QED BY <1>1, <1>9, <2>1, Prefix
<1>11. Cardinality(atLeast) = Cardinality(P)
  <2> DEFINE g == [i \in P |-> order[i]]
  <2>1. g \in [P -> atLeast] /\ (\A i, j \in P : g[i] = g[j] => i = j)
    BY <1>4
  <2>2. ASSUME NEW f \in atLeast PROVE \E i \in P : g[i] = f
    <3>1. place[f] \in S /\ order[place[f]] = f
      BY <1>6
    <3> QED BY <3>1
  <2> HIDE DEF g, P, atLeast
  <2>3. g \in Bijection(P, atLeast)
    BY <2>1, <2>2, Fun_IsBij
  <2>4. ExistsBijection(P, atLeast)
    BY <2>3 DEF ExistsBijection
  <2> QED BY <1>10, <2>4, FS_Bijection
<1>12. {GenRfaceids(faces)[f] : f \in atLeast} = {i - 1 : i \in P}
  <2>1. ASSUME NEW f \in atLeast
        PROVE  \E i \in P : GenRfaceids(faces)[f] = i - 1
    <3>1. f \in S /\ place[f] \in P
      BY <1>6
    <3>2. GenRfaceids(faces)[f] = place[f] - 1
      BY <1>3, <3>1
    <3> QED BY <3>1, <3>2
  <2>2. ASSUME NEW i \in P
        PROVE  \E f \in atLeast : GenRfaceids(faces)[f] = i - 1
    <3>1. order[i] \in atLeast /\ GenRfaceids(faces)[order[i]] = i - 1
      BY <1>3, <1>4, <1>7
    <3> QED BY <3>1
  <2> QED BY <2>1, <2>2
<1>13. {i - 1 : i \in P} = 0..(Cardinality(P) - 1)
  <2> DEFINE m == Cardinality(P)
  <2>1. P = 1..m /\ m \in Nat
    BY <1>10
  <2> HIDE DEF m, P
  <2>2. \A j \in 0..(m - 1) : j + 1 \in P /\ (j + 1) - 1 = j
    BY <2>1
  <2>3. \A i \in P : i - 1 \in 0..(m - 1)
    BY <2>1
  <2>4. {i - 1 : i \in P} = 0..(m - 1)
    BY <2>2, <2>3
  <2> QED BY <2>4 DEF m
<1> QED
  BY <1>1, <1>11, <1>12, <1>13

-----------------------------------------------------------------------------
(* Where the sections are. *)

LEMMA Lengths ==
  /\ Length(SectionNames[1]) = HeaderSize
  /\ Length(SectionNames[2]) = file.ext
  /\ Length(SectionNames[3]) = file.faceinfo
  /\ Length(SectionNames[4]) = file.constdata
  /\ Length(SectionNames[5]) = file.levelinfo
  /\ Length(SectionNames[6]) = SumOf(file.levels)
  /\ Length(SectionNames[7]) = file.metadata
  /\ Length(SectionNames[8]) = Barrier
  /\ Length(SectionNames[9]) = file.lmdheader
  /\ Length(SectionNames[10]) = file.lmddata
BY DEF Length, SectionNames

(* The recursive definition of the starts has a solution.                  *)
LEMMA StartsAre ==
  /\ StartOf[1] = 0
  /\ \A n \in 2..11 : StartOf[n] = StartOf[n - 1] + Length(SectionNames[n - 1])
<1> DEFINE L(n) == Length(SectionNames[n])
           F(f) == f = [n \in 1..11 |-> IF n = 1 THEN 0 ELSE f[n - 1] + L(n - 1)]
           s2 == 0 + L(1)
           s3 == s2 + L(2)
           s4 == s3 + L(3)
           s5 == s4 + L(4)
           s6 == s5 + L(5)
           s7 == s6 + L(6)
           s8 == s7 + L(7)
           s9 == s8 + L(8)
           s10 == s9 + L(9)
           s11 == s10 + L(10)
           w == << 0, s2, s3, s4, s5, s6, s7, s8, s9, s10, s11 >>
<1>1. F(w)
  <2> DEFINE r == [n \in 1..11 |-> IF n = 1 THEN 0 ELSE w[n - 1] + L(n - 1)]
  <2>1. /\ w[1] = 0 /\ w[2] = w[1] + L(1) /\ w[3] = w[2] + L(2) /\ w[4] = w[3] + L(3)
        /\ w[5] = w[4] + L(4) /\ w[6] = w[5] + L(5) /\ w[7] = w[6] + L(6)
        /\ w[8] = w[7] + L(7) /\ w[9] = w[8] + L(8) /\ w[10] = w[9] + L(9)
        /\ w[11] = w[10] + L(10)
    BY DEF L
  <2>2. DOMAIN w = 1..11 /\ w = [n \in 1..11 |-> w[n]]
    BY DEF L
  <2> HIDE DEF w, L
  <2>3. ASSUME NEW n \in 1..11 PROVE w[n] = r[n]
    <3>1. n \in {1, 2, 3, 4, 5, 6, 7, 8, 9, 10, 11}
      OBVIOUS
    <3> QED BY <2>1, <3>1
  <2> QED BY <2>2, <2>3
<1>2. F(StartOf)
  <2>1. StartOf = CHOOSE f : F(f)
    BY DEF StartOf
  <2> HIDE DEF F, w
  <2> QED BY <1>1, <2>1
<1> QED
  <2> HIDE DEF L
  <2>1. \A n \in 1..11 : StartOf[n] = IF n = 1 THEN 0 ELSE StartOf[n - 1] + L(n - 1)
    BY <1>2
  <2> QED BY <2>1 DEF L

LEMMA Layout ==
  ASSUME WellFormed(file)
  PROVE  /\ Start("faceinfo") = HeaderSize + file.ext
         /\ Start("constdata") = Start("faceinfo") + file.faceinfo
         /\ Start("levelinfo") = Start("constdata") + file.constdata
         /\ Start("leveldata") = Start("levelinfo") + file.levelinfo
         /\ Start("metadata") = Start("leveldata") + SumOf(file.levels)
         /\ Start("lmdheader") = Start("metadata") + file.metadata + Barrier
         /\ EndOfFile = Start("lmdheader") + file.lmdheader + file.lmddata + file.trailing
         /\ {Start("faceinfo"), Start("constdata"), Start("levelinfo"), Start("leveldata"),
             Start("metadata"), Start("lmdheader"), EndOfFile} \subseteq Nat
<1>1. /\ StartOf[2] = StartOf[1] + HeaderSize /\ StartOf[3] = StartOf[2] + file.ext
      /\ StartOf[4] = StartOf[3] + file.faceinfo /\ StartOf[5] = StartOf[4] + file.constdata
      /\ StartOf[6] = StartOf[5] + file.levelinfo /\ StartOf[7] = StartOf[6] + SumOf(file.levels)
      /\ StartOf[8] = StartOf[7] + file.metadata /\ StartOf[9] = StartOf[8] + Barrier
      /\ StartOf[10] = StartOf[9] + file.lmdheader /\ StartOf[11] = StartOf[10] + file.lmddata
      /\ StartOf[1] = 0
  BY StartsAre, Lengths
<1>2. /\ Start("faceinfo") = StartOf[3] /\ Start("constdata") = StartOf[4]
      /\ Start("levelinfo") = StartOf[5] /\ Start("leveldata") = StartOf[6]
      /\ Start("metadata") = StartOf[7] /\ Start("lmdheader") = StartOf[9]
  BY DEF Start, SectionNames
<1>3. {file.ext, file.faceinfo, file.constdata, file.levelinfo, file.metadata, file.lmdheader,
       file.lmddata, file.trailing, SumOf(file.levels)} \subseteq Nat
  BY DEF WellFormed
<1>4. {StartOf[n] : n \in 1..11} \subseteq Nat
  <2>1. StartOf[1] \in Nat /\ StartOf[2] \in Nat /\ StartOf[3] \in Nat
    BY <1>1, <1>3 DEF HeaderSize
  <2>2. StartOf[4] \in Nat /\ StartOf[5] \in Nat /\ StartOf[6] \in Nat /\ StartOf[7] \in Nat
    BY <1>1, <1>3, <2>1
  <2>3. StartOf[8] \in Nat /\ StartOf[9] \in Nat /\ StartOf[10] \in Nat /\ StartOf[11] \in Nat
    BY <1>1, <1>3, <2>2 DEF Barrier
  <2>4. \A n \in 1..11 : n \in {1, 2, 3, 4, 5, 6, 7, 8, 9, 10, 11}
    OBVIOUS
  <2> QED BY <2>1, <2>2, <2>3, <2>4
<1> QED
  BY <1>1, <1>2, <1>3, <1>4 DEF EndOfFile, HeaderSize, Barrier

-----------------------------------------------------------------------------
(* What is known of an open file, step by step. *)

Sections == {"faceinfo", "constdata", "levelinfo", "leveldata", "metadata", "lmdheader"}

PosKnown ==
  /\ extHeader = [lmdheader |-> Field(12, file.lmdheader), lmddata |-> Field(24, file.lmddata),
                  editsize |-> Field(32, file.editsize), editpos |-> Field(40, file.editpos)]
  /\ pos = [faceinfo |-> Start("faceinfo"), constdata |-> Start("constdata"),
            levelinfo |-> Start("levelinfo"), leveldata |-> Start("leveldata"),
            metadata |-> Start("metadata"), lmdheader |-> Start("lmdheader"),
            end |-> Start("lmdheader") + extHeader.lmdheader + extHeader.lmddata]

EditsSeen ==
  IF extHeader.editpos > 0 THEN extHeader.editsize > 0
  ELSE length >= pos.end + 5 /\ RecordSize # 0

Unreadable ==
  \/ ~file.valid \/ length < Start("leveldata")
  \/ file.levelinfo # LevelInfoSize * file.nlevels

LevelsFound ==
  levelPos = [l \in DOMAIN file.levels |->
                pos.leveldata + SumOf([k \in 1..(l - 1) |-> file.levels[k]])]

FileInv ==
  /\ WellFormed(file) /\ length \in Nat
  /\ pc \in {"header", "ext", "edits", "faceinfo", "constdata", "levelinfo", "done", "err"}
  /\ pc \notin {"header", "err"} => file.valid
  /\ pc \notin {"header", "ext", "err"} => PosKnown
  /\ pc \in {"faceinfo", "constdata", "levelinfo", "done"} => (hasEdits <=> EditsSeen)
  /\ pc \in {"constdata", "levelinfo", "done"} =>
       faceInfo = file.faces /\ rfaceids = GenRfaceids(file.faces)
  /\ pc \in {"levelinfo", "done"} => constData
  /\ pc = "done" => LevelsFound
  /\ pc = "err" => Unreadable

(* Opening leaves the file as it is.                                       *)
LEMMA FileStays ==
  ASSUME UNCHANGED << file, length >>
  PROVE  /\ WellFormed(file)' = WellFormed(file)
         /\ \A name : Start(name)' = Start(name)
         /\ EndOfFile' = EndOfFile /\ Unreadable' = Unreadable
<1>1. StartOf' = StartOf
  BY DEF StartOf, Length
<1> QED
  BY <1>1 DEF WellFormed, Start, EndOfFile, Unreadable

(* A section whose position is known is found unless the file is cut.      *)
LEMMA FindsUnlessCut ==
  ASSUME FileInv, NEW name \in {"faceinfo", "constdata", "levelinfo"},
         ~Finds(name, Start(name), file[name])
  PROVE  length < Start("leveldata")
<1>1. Length(name) = file[name]
  BY DEF Length
<1>2. ~(Start(name) + file[name] <= length)
  BY <1>1 DEF Finds, Readable
<1>3. Start(name) + file[name] <= Start("leveldata")
  <2>1. /\ Start("constdata") = Start("faceinfo") + file.faceinfo
        /\ Start("levelinfo") = Start("constdata") + file.constdata
        /\ Start("leveldata") = Start("levelinfo") + file.levelinfo
        /\ {Start("faceinfo"), Start("constdata"), Start("levelinfo"), Start("leveldata"),
            file.constdata, file.levelinfo, file.faceinfo} \subseteq Nat
    BY Layout DEF FileInv, WellFormed
  <2>2. CASE name = "faceinfo"
    BY <2>1, <2>2
  <2>3. CASE name = "constdata"
    BY <2>1, <2>3
  <2>4. CASE name = "levelinfo"
    BY <2>1, <2>4
  <2> QED BY <2>2, <2>3, <2>4
<1>4. length \in Nat /\ Start("leveldata") \in Nat /\ Start(name) \in Nat /\ file[name] \in Nat
  BY Layout DEF FileInv, WellFormed
<1> QED
  BY <1>2, <1>3, <1>4

(* Both headers are before the levels' data.                               *)
LEMMA HeadersFirst ==
  ASSUME WellFormed(file)
  PROVE  /\ Start("leveldata") \in Nat /\ file.ext \in Nat
         /\ HeaderSize + file.ext <= Start("leveldata")
<1>1. {file.ext, file.faceinfo, file.constdata, file.levelinfo} \subseteq Nat
  BY DEF WellFormed
<1>2. /\ Start("faceinfo") = HeaderSize + file.ext
      /\ Start("constdata") = Start("faceinfo") + file.faceinfo
      /\ Start("levelinfo") = Start("constdata") + file.constdata
      /\ Start("leveldata") = Start("levelinfo") + file.levelinfo
  BY Layout
<1> QED
  BY <1>1, <1>2 DEF HeaderSize

(* An error keeps the rest of the invariant, given its reason.             *)
LEMMA FailKeeps ==
  ASSUME FileInv, Fail, UNCHANGED << file, length >>, Unreadable
  PROVE  FileInv'
BY FileStays DEF FileInv, Fail, Goto

LEMMA InitFileInv == ReadInit => FileInv
<1> SUFFICES ASSUME ReadInit PROVE FileInv
  OBVIOUS
<1>1. WellFormed(file) /\ pc = "header"
  BY FilesAssumption, OpenedAssumption DEF ReadInit, Init, Unread
<1>2. length \in Nat
  <2>1. EndOfFile \in Nat
    BY <1>1, Layout
  <2> QED BY <2>1 DEF ReadInit, Init
<1> QED
  BY <1>1, <1>2 DEF FileInv

LEMMA ReadHeaderKeeps ==
  ASSUME FileInv, ReadHeader
  PROVE  FileInv'
<1>1. CASE Readable(0, HeaderSize) /\ file.valid
  <2>1. pc' = "ext" /\ UNCHANGED << file, length >>
    BY <1>1 DEF ReadHeader, Goto
  <2> QED BY <1>1, <2>1, FileStays DEF FileInv
<1>2. CASE ~(Readable(0, HeaderSize) /\ file.valid)
  <2>1. Fail /\ UNCHANGED << file, length >>
    BY <1>2 DEF ReadHeader
  <2>2. Unreadable
    <3>1. CASE ~Readable(0, HeaderSize)
      <4>1. HeaderSize <= Start("leveldata") /\ Start("leveldata") \in Nat
        BY HeadersFirst DEF FileInv, HeaderSize
      <4> QED BY <3>1, <4>1 DEF Readable, Unreadable, FileInv, HeaderSize
    <3> QED BY <1>2, <3>1 DEF Unreadable
  <2> QED BY <2>1, <2>2, FailKeeps
<1> QED
  BY <1>1, <1>2

LEMMA ReadExtHeaderKeeps ==
  ASSUME FileInv, ReadExtHeader
  PROVE  FileInv'
<1>0. pc = "ext" /\ UNCHANGED << file, length >> /\ file.valid
  BY DEF ReadExtHeader, FileInv
<1>1. CASE Readable(HeaderSize, Lesser(file.ext, ExtHeaderSize))
  <2>1. /\ extHeader' = [lmdheader |-> Field(12, file.lmdheader), lmddata |-> Field(24, file.lmddata),
                         editsize |-> Field(32, file.editsize), editpos |-> Field(40, file.editpos)]
        /\ pc' = "edits"
        /\ pos' = [faceinfo |-> Start("faceinfo"), constdata |-> Start("constdata"),
                   levelinfo |-> Start("levelinfo"), leveldata |-> Start("leveldata"),
                   metadata |-> Start("metadata"), lmdheader |-> Start("lmdheader"),
                   end |-> Start("lmdheader") + extHeader'.lmdheader + extHeader'.lmddata]
    BY <1>0, <1>1, Layout DEF ReadExtHeader, AfterExtHeader, Goto, FileInv
  <2>2. PosKnown'
    BY <1>0, <2>1, FileStays DEF PosKnown, Field
  <2> QED BY <1>0, <2>1, <2>2, FileStays DEF FileInv
<1>2. CASE ~Readable(HeaderSize, Lesser(file.ext, ExtHeaderSize))
  <2>1. Fail
    BY <1>2 DEF ReadExtHeader
  <2>2. HeaderSize + Lesser(file.ext, ExtHeaderSize) <= Start("leveldata")
    BY HeadersFirst DEF FileInv, HeaderSize, Lesser, ExtHeaderSize
  <2>3. HeaderSize + Lesser(file.ext, ExtHeaderSize) \in Nat /\ Start("leveldata") \in Nat
    BY HeadersFirst DEF FileInv, HeaderSize, Lesser, ExtHeaderSize
  <2>4. length < Start("leveldata")
    BY <1>2, <2>2, <2>3 DEF Readable, FileInv
  <2> QED BY <1>0, <2>1, <2>4, FailKeeps DEF Unreadable
<1> QED
  BY <1>1, <1>2

(* What is known stays so while what it is about does.                     *)
LEMMA KnownStays ==
  ASSUME UNCHANGED << file, length, extHeader, pos >>
  PROVE  PosKnown' = PosKnown /\ EditsSeen' = EditsSeen
BY FileStays DEF PosKnown, EditsSeen, RecordSize, Field

LEMMA DetectEditsKeeps ==
  ASSUME FileInv, DetectEdits
  PROVE  FileInv'
<1>1. /\ pc = "edits" /\ pc' = "faceinfo" /\ UNCHANGED << file, length, extHeader, pos >>
      /\ hasEdits' <=> EditsSeen
  BY DEF DetectEdits, EditsSeen, Goto
<1> QED
  BY <1>1, FileStays, KnownStays DEF FileInv

LEMMA ReadFaceInfoKeeps ==
  ASSUME FileInv, ReadFaceInfo
  PROVE  FileInv'
<1>0. pc = "faceinfo" /\ UNCHANGED << file, length >> /\ pos.faceinfo = Start("faceinfo")
  BY DEF ReadFaceInfo, FileInv, PosKnown
<1>1. CASE Finds("faceinfo", pos.faceinfo, file.faceinfo)
  <2>1. /\ pc' = "constdata" /\ UNCHANGED << extHeader, pos, hasEdits >>
        /\ faceInfo' = file.faces /\ rfaceids' = GenRfaceids(file.faces)
    BY <1>1 DEF ReadFaceInfo, Goto
  <2> QED BY <1>0, <2>1, FileStays, KnownStays DEF FileInv
<1>2. CASE ~Finds("faceinfo", pos.faceinfo, file.faceinfo)
  <2>1. Fail
    BY <1>2 DEF ReadFaceInfo
  <2>2. Unreadable
    BY <1>0, <1>2, FindsUnlessCut DEF Unreadable
  <2> QED BY <1>0, <2>1, <2>2, FailKeeps
<1> QED
  BY <1>1, <1>2

LEMMA ReadConstDataKeeps ==
  ASSUME FileInv, ReadConstData
  PROVE  FileInv'
<1>0. pc = "constdata" /\ UNCHANGED << file, length >> /\ pos.constdata = Start("constdata")
  BY DEF ReadConstData, FileInv, PosKnown
<1>1. CASE Finds("constdata", pos.constdata, file.constdata)
  <2>1. /\ pc' = "levelinfo" /\ UNCHANGED << extHeader, pos, hasEdits, faceInfo, rfaceids >>
        /\ constData'
    BY <1>1 DEF ReadConstData, Goto
  <2> QED BY <1>0, <2>1, FileStays, KnownStays DEF FileInv
<1>2. CASE ~Finds("constdata", pos.constdata, file.constdata)
  <2>1. Fail
    BY <1>2 DEF ReadConstData
  <2>2. Unreadable
    BY <1>0, <1>2, FindsUnlessCut DEF Unreadable
  <2> QED BY <1>0, <2>1, <2>2, FailKeeps
<1> QED
  BY <1>1, <1>2

LEMMA ReadLevelInfoKeeps ==
  ASSUME FileInv, ReadLevelInfo
  PROVE  FileInv'
<1>0. pc = "levelinfo" /\ UNCHANGED << file, length >> /\ pos.levelinfo = Start("levelinfo")
  BY DEF ReadLevelInfo, FileInv, PosKnown
<1> DEFINE There == /\ file.levelinfo = LevelInfoSize * file.nlevels
                    /\ Finds("levelinfo", pos.levelinfo, file.levelinfo)
<1>1. CASE There
  <2>1. /\ pc' = "done" /\ UNCHANGED << extHeader, pos, hasEdits, faceInfo, rfaceids, constData >>
        /\ levelPos' = [l \in DOMAIN file.levels |->
                          pos.leveldata + SumOf([k \in 1..(l - 1) |-> file.levels[k]])]
    BY <1>1 DEF ReadLevelInfo, Goto
  <2>2. LevelsFound'
    BY <1>0, <2>1 DEF LevelsFound
  <2> QED BY <1>0, <2>1, <2>2, FileStays, KnownStays DEF FileInv
<1>2. CASE ~There
  <2>1. Fail
    BY <1>2 DEF ReadLevelInfo
  <2>2. Unreadable
    BY <1>0, <1>2, FindsUnlessCut DEF Unreadable
  <2> QED BY <1>0, <2>1, <2>2, FailKeeps
<1> QED
  BY <1>1, <1>2

LEMMA NextFileInv == FileInv /\ [ReadNext]_<<vars, metaVars>> => FileInv'
<1> SUFFICES ASSUME FileInv, [ReadNext]_<<vars, metaVars>> PROVE FileInv'
  OBVIOUS
<1>1. CASE Next
  BY <1>1, ReadHeaderKeeps, ReadExtHeaderKeeps, DetectEditsKeeps, ReadFaceInfoKeeps,
     ReadConstDataKeeps, ReadLevelInfoKeeps DEF Next
<1>2. CASE UNCHANGED vars
  <2>1. UNCHANGED << file, length, extHeader, pos >>
    BY <1>2 DEF vars
  <2>2. UNCHANGED << pc, hasEdits, faceInfo, rfaceids, constData, levelPos >>
    BY <1>2 DEF vars
  <2>3. LevelsFound' = LevelsFound
    BY <2>1, <2>2 DEF LevelsFound
  <2> QED BY <2>1, <2>2, <2>3, FileStays, KnownStays DEF FileInv
<1> QED
  BY <1>1, <1>2 DEF ReadNext, Open, ReadMetaData

-----------------------------------------------------------------------------
(* A file that opens is the one that was written, wherever its extended    *)
(* header ends; one that does not is cut, of another kind, or its level    *)
(* table is not of the length its header says (file_info.rs:86-211).       *)
THEOREM OpenedAsWritten == ReadSpec => []OpensWhatIsThere
<1>1. FileInv => OpensWhatIsThere
  <2> SUFFICES ASSUME FileInv PROVE OpensWhatIsThere
    OBVIOUS
  <2>1. ASSUME pc = "done", NEW l \in DOMAIN file.levels
        PROVE  levelPos[l] = Start("leveldata") + SumOf(SubSeq(file.levels, 1, l - 1))
    <3> DEFINE lengths == file.levels
    <3>1. lengths \in Seq(Nat)
      BY DEF FileInv, WellFormed
    <3>2. SubSeq(lengths, 1, l - 1) = [k \in 1..(l - 1) |-> lengths[k]]
      <4> HIDE DEF lengths
      <4>1. l \in 1..Len(lengths) /\ Len(lengths) \in Nat
        <5>1. l \in DOMAIN lengths
          BY <2>1 DEF lengths
        <5> QED BY <3>1, <5>1, LenProperties
      <4> QED BY <3>1, <4>1
    <3>3. pos.leveldata = Start("leveldata") /\ LevelsFound
      BY <2>1 DEF FileInv, PosKnown
    <3> QED BY <2>1, <3>2, <3>3 DEF LevelsFound
  <2>2. ASSUME pc = "done"
        PROVE  /\ file.valid /\ faceInfo = file.faces /\ constData
               /\ pos.metadata = Start("metadata") /\ pos.lmdheader = Start("lmdheader")
    BY <2>2 DEF FileInv, PosKnown
  <2> QED BY <2>1, <2>2 DEF OpensWhatIsThere, FileInv, Unreadable
<1> QED
  BY <1>1, InitFileInv, NextFileInv, PTL DEF ReadSpec

(* Edits are noticed whether the extended header declares them or is too   *)
(* old to, and nothing else is taken for one (file_info.rs:127-150).       *)
THEOREM EditsAreSeen == ReadSpec => []EditsAreNoticed
<1>1. FileInv => EditsAreNoticed
  <2> SUFFICES ASSUME FileInv, pc = "done", length = EndOfFile
               PROVE  hasEdits <=> IsEdited
    BY DEF EditsAreNoticed
  <2>1. PosKnown /\ (hasEdits <=> EditsSeen) /\ WellFormed(file)
    BY DEF FileInv
  <2>2. {file.ext, file.lmdheader, file.lmddata, file.editpos, file.trailing, file.firstsize} \subseteq Nat
    BY <2>1 DEF WellFormed
  <2>3. /\ extHeader.lmdheader = file.lmdheader /\ extHeader.lmddata = file.lmddata
        /\ extHeader.editpos = file.editpos
        /\ file.editpos > 0 => extHeader.editsize = file.editsize
    <3>1. /\ extHeader.lmdheader = Field(12, file.lmdheader)
          /\ extHeader.lmddata = Field(24, file.lmddata)
          /\ extHeader.editsize = Field(32, file.editsize)
          /\ extHeader.editpos = Field(40, file.editpos)
      BY <2>1 DEF PosKnown
    <3>2. /\ file.ext \in Nat
          /\ file.ext < 12 => file.lmdheader = 0
          /\ file.ext < 24 => file.lmddata = 0
          /\ file.ext < 40 => file.editpos = 0
      BY <2>1 DEF WellFormed
    <3>3. Field(12, file.lmdheader) = file.lmdheader
      BY <3>2 DEF Field
    <3>4. Field(24, file.lmddata) = file.lmddata
      BY <3>2 DEF Field
    <3>5. Field(40, file.editpos) = file.editpos
      BY <3>2 DEF Field
    <3>6. file.editpos > 0 => Field(32, file.editsize) = file.editsize
      BY <2>2, <3>2 DEF Field
    <3> QED BY <3>1, <3>3, <3>4, <3>5, <3>6
  <2>4. /\ pos.end = Start("lmdheader") + file.lmdheader + file.lmddata
        /\ length = pos.end + file.trailing /\ pos.end \in Nat
    <3>1. /\ EndOfFile = Start("lmdheader") + file.lmdheader + file.lmddata + file.trailing
          /\ Start("lmdheader") \in Nat
      BY <2>1, Layout
    <3> QED BY <2>1, <2>2, <2>3, <3>1 DEF PosKnown
  <2>5. RecordSize = file.firstsize
    BY <2>2, <2>4 DEF RecordSize
  <2>6. length >= pos.end + 5 <=> file.trailing >= 5
    BY <2>2, <2>4
  <2>7. RecordSize # 0 <=> file.firstsize > 0
    BY <2>2, <2>5
  <2> QED BY <2>1, <2>3, <2>6, <2>7 DEF EditsSeen, IsEdited
<1> QED
  BY <1>1, InitFileInv, NextFileInv, PTL DEF ReadSpec

(* For tables of any faces, those of at least a given size have the first  *)
(* places in reduction order, which is what the levels' counts rely on     *)
(* (utils.rs:154-179, file_info.rs:355-369).                               *)
THEOREM RankedBySize == ReadSpec => []ReducedFacesFirst
<1>1. FileInv => ReducedFacesFirst
  <2> SUFFICES ASSUME FileInv, pc = "constdata" PROVE ReducedFacesFirst
    BY DEF ReducedFacesFirst
  <2> DEFINE faces == file.faces
  <2>1. faceInfo = faces /\ rfaceids = GenRfaceids(faces) /\ faces \in Seq(Face)
    BY DEF FileInv, WellFormed, Face
  <2> HIDE DEF faces
  <2>2. \A f \in DOMAIN faces : Key(faces[f]) \in Int
    BY <2>1, LenProperties, ElementOfSeq, KeyType
  <2> DEFINE Size(f) == IF faceInfo[f].constant THEN 1 ELSE Lesser(faceInfo[f].u, faceInfo[f].v)
  <2>3. \A f \in DOMAIN faces : Size(f) = Key(faces[f])
    BY <2>1 DEF Key
  <2>4. ASSUME NEW k \in {Size(f) : f \in DOMAIN faceInfo}
        PROVE  LET atLeast == {f \in DOMAIN faceInfo : Size(f) >= k}
               IN  {rfaceids[f] : f \in atLeast} = 0..(Cardinality(atLeast) - 1)
    <3> DEFINE atLeast == {f \in DOMAIN faces : Key(faces[f]) >= k}
    <3> HIDE DEF Size
    <3>1. k \in Int /\ {f \in DOMAIN faceInfo : Size(f) >= k} = atLeast
      BY <2>1, <2>2, <2>3
    <3>2. {GenRfaceids(faces)[f] : f \in atLeast} = 0..(Cardinality(atLeast) - 1)
      BY <2>1, <3>1, RanksAreBySize
    <3> QED BY <2>1, <3>1, <3>2
  <2> QED BY <2>4 DEF ReducedFacesFirst
<1> QED
  BY <1>1, InitFileInv, NextFileInv, PTL DEF ReadSpec

-----------------------------------------------------------------------------
(* What is written: the bytes of the first n entries are a prefix of all   *)
(* bytes, at whose end the next entry starts.                              *)

(* Induction on the natural numbers, stated over a set: the intervals 1..n *)
(* of the numbers not in S would have no least one.                        *)
LEMMA NatSetInduction ==
  ASSUME NEW S, 0 \in S, \A n \in Nat : n \in S => n + 1 \in S
  PROVE  Nat \subseteq S
<1> DEFINE T == Nat \ S
           R == StrictSubsetOrdering(Nat)
           F == FiniteSubsetsOf(Nat)
           I == {1..n : n \in T}
<1> SUFFICES ASSUME T # {} PROVE FALSE
  OBVIOUS
<1>1. ASSUME NEW n \in Nat PROVE 1..n \in F
  <2>1. IsFiniteSet(1..n) /\ 1..n \in SUBSET Nat
    BY FS_Interval
  <2> QED BY <2>1 DEF FiniteSubsetsOf
<1>2. I \subseteq F /\ I # {} /\ IsWellFoundedOn(R, F)
  BY <1>1, FS_StrictSubsetOrderingWellFounded
<1> HIDE DEF R, F
<1>3. PICK m \in I : \A y \in I : ~ (<<y, m>> \in R)
  BY <1>2, WFMin
<1>4. PICK x \in T : m = 1..x
  BY <1>3
<1>5. x \in Nat /\ x # 0 /\ x - 1 \in T /\ 1..(x - 1) \in I
  <2>1. x \in Nat /\ x # 0
    OBVIOUS
  <2>2. x - 1 \in Nat /\ x - 1 \notin S
    BY <2>1
  <2> QED BY <2>1, <2>2
<1>6. <<1..(x - 1), 1..x>> \in R
  <2>1. 1..(x - 1) \subseteq 1..x /\ x \in 1..x /\ x \notin 1..(x - 1)
    BY <1>5
  <2> QED BY <1>5, <2>1 DEF R, StrictSubsetOrdering
<1> QED
  BY <1>3, <1>4, <1>5, <1>6

Byte == 0..(Radix - 1)
Entry == Small \cup Big

LEMMA BytesAre == M!Byte = Byte /\ Radix \in Nat \ {0} /\ M!MetaDataType = 0..5
BY MetaDataAssumption DEF M!Byte, Byte, M!MetaDataType

(* f[j] is the bytes of the first j entries. *)
Run(f, s) ==
  f = [j \in 0..Len(s) |-> IF j = 0 THEN << >> ELSE f[j - 1] \o M!EntryBytes(s[j])]

LEMMA BytesRun ==
  ASSUME NEW s, Len(s) \in Nat
  PROVE  \E f : Run(f, s) /\ M!BytesOf(s) = f[Len(s)]
<1> DEFINE Upto(f, n) ==
             f = [j \in 0..n |-> IF j = 0 THEN << >> ELSE f[j - 1] \o M!EntryBytes(s[j])]
           A == {n \in Nat : \E f : Upto(f, n)}
<1>1. 0 \in A
  <2> DEFINE f == [j \in 0..0 |-> << >>]
  <2>1. Upto(f, 0)
    OBVIOUS
  <2> QED BY <2>1
<1>2. ASSUME NEW n \in Nat, n \in A PROVE n + 1 \in A
  <2>1. PICK f : Upto(f, n)
    BY <1>2
  <2> DEFINE h == [j \in 0..(n + 1) |-> IF j <= n THEN f[j] ELSE f[n] \o M!EntryBytes(s[n + 1])]
             r == [j \in 0..(n + 1) |-> IF j = 0 THEN << >> ELSE h[j - 1] \o M!EntryBytes(s[j])]
  <2>2. ASSUME NEW j \in 0..(n + 1) PROVE h[j] = r[j]
    <3>1. CASE j = 0
      BY <2>1, <3>1
    <3>2. CASE j \in 1..n
      <4>1. j - 1 \in 0..n /\ j \in 0..n /\ j # 0
        BY <3>2
      <4>2. f[j] = f[j - 1] \o M!EntryBytes(s[j])
        BY <2>1, <4>1
      <4>3. h[j] = f[j] /\ h[j - 1] = f[j - 1]
        BY <3>2, <4>1
      <4>4. r[j] = h[j - 1] \o M!EntryBytes(s[j])
        BY <4>1
      <4> HIDE DEF h, r
      <4> QED BY <4>2, <4>3, <4>4
    <3>3. CASE j = n + 1
      BY <3>3
    <3> QED BY <3>1, <3>2, <3>3
  <2>3. Upto(h, n + 1)
    <3>1. h = r
      BY <2>2
    <3> QED BY <3>1
  <2> HIDE DEF h, Upto
  <2> QED BY <2>3
<1>3. Len(s) \in A
  <2> HIDE DEF A
  <2> QED BY <1>1, <1>2, NatSetInduction
<1>4. PICK f : Upto(f, Len(s))
  BY <1>3
<1> DEFINE upTo == CHOOSE g : Upto(g, Len(s))
<1>5. Upto(upTo, Len(s))
  BY <1>4
<1>6. M!BytesOf(s) = upTo[Len(s)]
  BY DEF M!BytesOf
<1> QED
  BY <1>5, <1>6 DEF Run

(* Sequences that agree on their first n entries agree on their bytes.     *)
SameUpTo(n, s, t) ==
  /\ n \in Nat /\ Len(s) \in Nat /\ Len(t) \in Nat /\ n <= Len(s) /\ n <= Len(t)
  /\ \A i \in 1..n : s[i] = t[i]

LEMMA RunsAgree ==
  ASSUME NEW s, NEW t, NEW f, NEW g, NEW n, SameUpTo(n, s, t), Run(f, s), Run(g, t)
  PROVE  f[n] = g[n]
<1> USE DEF SameUpTo
<1> DEFINE A == {k \in Nat : k <= n => f[k] = g[k]}
<1>1. 0 \in A
  BY DEF Run
<1>2. ASSUME NEW k \in Nat, k \in A PROVE k + 1 \in A
  <2> SUFFICES ASSUME k + 1 <= n PROVE f[k + 1] = g[k + 1]
    OBVIOUS
  <2>1. /\ k + 1 \in 0..Len(s) /\ k + 1 \in 0..Len(t)
        /\ k + 1 \in 1..n /\ k + 1 # 0 /\ (k + 1) - 1 = k
    OBVIOUS
  <2>2. f[k + 1] = f[k] \o M!EntryBytes(s[k + 1])
    BY <2>1 DEF Run
  <2>3. g[k + 1] = g[k] \o M!EntryBytes(t[k + 1])
    BY <2>1 DEF Run
  <2>4. f[k] = g[k] /\ s[k + 1] = t[k + 1]
    BY <1>2, <2>1
  <2> QED BY <2>2, <2>3, <2>4
<1>3. Nat \subseteq A
  <2> HIDE DEF A
  <2> QED BY <1>1, <1>2, NatSetInduction
<1> QED
  BY <1>3

(* Four digits give the number back. *)
LEMMA DigitsAre ==
  ASSUME NEW n \in Nat
  PROVE  LET d == M!Digits(n)
         IN  /\ d \in Seq(Int) /\ Len(d) = 4
             /\ n = d[1] + Radix * (d[2] + Radix * (d[3] + Radix * d[4]))
<1>1. Radix \in Nat \ {0}
  BY BytesAre
<1>2. ASSUME NEW m \in Nat
      PROVE  /\ M!Rest(m) \in Nat /\ m % Radix \in Nat
             /\ m = (m % Radix) + Radix * M!Rest(m)
  BY <1>1 DEF M!Rest
<1> DEFINE a == M!Rest(n)
           b == M!Rest(a)
           c == M!Rest(b)
<1>3. /\ a \in Nat /\ b \in Nat /\ c \in Nat
      /\ n % Radix \in Nat /\ a % Radix \in Nat /\ b % Radix \in Nat
      /\ n = (n % Radix) + Radix * a
      /\ a = (a % Radix) + Radix * b
      /\ b = (b % Radix) + Radix * c
  BY <1>2
<1>4. M!Digits(n) = <<n % Radix, a % Radix, b % Radix, c>>
  BY DEF M!Digits
<1> HIDE DEF a, b, c
<1>5. n = (n % Radix) + Radix * ((a % Radix) + Radix * ((b % Radix) + Radix * c))
  BY <1>3
<1> QED
  BY <1>3, <1>4, <1>5

(* u is t behind s. *)
Joined(S, u, s, t) ==
  /\ u \in Seq(S) /\ Len(u) = Len(s) + Len(t)
  /\ Len(s) \in Nat /\ Len(t) \in Nat
  /\ \A i \in 1..Len(s) : u[i] = s[i]
  /\ \A i \in 1..Len(t) : u[Len(s) + i] = t[i]

LEMMA ConcatIs ==
  ASSUME NEW S, NEW s \in Seq(S), NEW t \in Seq(S)
  PROVE  Joined(S, s \o t, s, t)
<1>1. Len(s) \in Nat /\ Len(t) \in Nat
  BY LenProperties
<1>2. s \o t \in Seq(S) /\ Len(s \o t) = Len(s) + Len(t)
  BY ConcatProperties
<1>3. ASSUME NEW i \in 1..Len(s) PROVE (s \o t)[i] = s[i]
  <2>1. i \in 1..(Len(s) + Len(t)) /\ i <= Len(s)
    BY <1>1
  <2> QED BY <2>1, ConcatProperties
<1>4. ASSUME NEW i \in 1..Len(t) PROVE (s \o t)[Len(s) + i] = t[i]
  <2> DEFINE j == Len(s) + i
  <2>1. j \in 1..(Len(s) + Len(t)) /\ ~(j <= Len(s)) /\ j - Len(s) = i
    BY <1>1
  <2> HIDE DEF j
  <2>2. (s \o t)[j] = t[j - Len(s)]
    BY <2>1, ConcatProperties
  <2> QED BY <2>1, <2>2 DEF j
<1> QED
  BY <1>1, <1>2, <1>3, <1>4 DEF Joined

(* Five sequences one after another, of which the first, the third and the *)
(* fourth have a fixed length.                                             *)
Pieces(s, k, a, b, c, d, v) ==
  /\ k \in Nat /\ Len(v) \in Nat /\ Len(s) = k + 7 + Len(v)
  /\ s[1] = a[1]
  /\ \A i \in 1..k : s[1 + i] = b[i]
  /\ s[k + 3] = c[2]
  /\ \A i \in 1..4 : s[k + 3 + i] = d[i]
  /\ \A i \in 1..Len(v) : s[k + 7 + i] = v[i]

LEMMA FivePieces ==
  ASSUME NEW a \in Seq(Int), NEW b \in Seq(Int), NEW c \in Seq(Int), NEW d \in Seq(Int),
         NEW v \in Seq(Int), Len(a) = 1, Len(c) = 2, Len(d) = 4,
         NEW s, s = (a \o b \o c \o d) \o v
  PROVE  Pieces(s, Len(b), a, b, c, d, v)
<1> DEFINE k == Len(b)
           ab == a \o b
           abc == ab \o c
           abcd == abc \o d
<1>1. k \in Nat /\ Len(v) \in Nat
  BY LenProperties
<1>2. /\ ab \in Seq(Int) /\ Len(ab) = 1 + k
      /\ ab[1] = a[1] /\ \A i \in 1..k : ab[1 + i] = b[i]
  <2>1. Joined(Int, ab, a, b)
    BY ConcatIs
  <2> HIDE DEF ab
  <2> QED BY <1>1, <2>1 DEF Joined
<1> HIDE DEF ab
<1>3. /\ abc \in Seq(Int) /\ Len(abc) = 1 + k + 2
      /\ \A i \in 1..(1 + k) : abc[i] = ab[i]
      /\ \A i \in 1..2 : abc[1 + k + i] = c[i]
  <2>1. Joined(Int, abc, ab, c)
    BY <1>2, ConcatIs
  <2> HIDE DEF abc
  <2> QED BY <1>1, <1>2, <2>1 DEF Joined
<1> HIDE DEF abc
<1>4. /\ abcd \in Seq(Int) /\ Len(abcd) = 1 + k + 2 + 4
      /\ \A i \in 1..(1 + k + 2) : abcd[i] = abc[i]
      /\ \A i \in 1..4 : abcd[1 + k + 2 + i] = d[i]
  <2>1. Joined(Int, abcd, abc, d)
    BY <1>3, ConcatIs
  <2> HIDE DEF abcd
  <2> QED BY <1>1, <1>3, <2>1 DEF Joined
<1> HIDE DEF abcd
<1>5. /\ Len(s) = 1 + k + 2 + 4 + Len(v)
      /\ \A i \in 1..(1 + k + 2 + 4) : s[i] = abcd[i]
      /\ \A i \in 1..Len(v) : s[1 + k + 2 + 4 + i] = v[i]
  <2>1. s = abcd \o v
    BY DEF abcd, abc, ab
  <2>2. Joined(Int, s, abcd, v)
    BY <1>4, <2>1, ConcatIs
  <2> QED BY <1>4, <2>2 DEF Joined
<1>6. ASSUME NEW i \in 1..(1 + k) PROVE s[i] = ab[i]
  <2>1. i \in 1..(1 + k + 2) /\ i \in 1..(1 + k + 2 + 4)
    BY <1>1
  <2> QED BY <1>3, <1>4, <1>5, <2>1
<1>7. s[1] = a[1]
  <2>1. 1 \in 1..(1 + k)
    BY <1>1
  <2> QED BY <1>2, <1>6, <2>1
<1>8. ASSUME NEW i \in 1..k PROVE s[1 + i] = b[i]
  <2>1. 1 + i \in 1..(1 + k)
    BY <1>1
  <2> QED BY <1>2, <1>6, <2>1
<1>9. s[k + 3] = c[2]
  <2>1. /\ k + 3 = 1 + k + 2 /\ 2 \in 1..2
        /\ k + 3 \in 1..(1 + k + 2) /\ k + 3 \in 1..(1 + k + 2 + 4)
    BY <1>1
  <2>2. abc[k + 3] = c[2]
    BY <1>3, <2>1
  <2>3. s[k + 3] = abc[k + 3]
    BY <1>4, <1>5, <2>1
  <2> QED BY <2>2, <2>3
<1>10. ASSUME NEW i \in 1..4 PROVE s[k + 3 + i] = d[i]
  <2>1. /\ 1 + k + 2 + i = k + 3 + i /\ k + 3 + i \in 1..(1 + k + 2 + 4)
    BY <1>1
  <2>2. abcd[k + 3 + i] = d[i]
    BY <1>4, <2>1
  <2> QED BY <1>5, <2>1, <2>2
<1>11. ASSUME NEW i \in 1..Len(v) PROVE s[k + 7 + i] = v[i]
  <2>1. 1 + k + 2 + 4 + i = k + 7 + i
    BY <1>1
  <2> QED BY <1>5, <2>1
<1>12. Len(s) = k + 7 + Len(v)
  BY <1>1, <1>5
<1> QED
  BY <1>1, <1>7, <1>8, <1>9, <1>10, <1>11, <1>12 DEF Pieces

(* What the bytes of an entry are, and where.                              *)
LEMMA EntryLayout ==
  ASSUME NEW e \in Entry
  PROVE  LET B == M!EntryBytes(e)
             k == Len(e.key)
         IN  /\ B \in Seq(Byte) /\ k \in Nat /\ e.key \in Seq(Byte)
             /\ Len(e.data) \in Nat /\ e.data \in Seq(Byte) /\ e.type \in 0..5
             /\ B[1] = k + 1
             /\ \A i \in 1..k : B[1 + i] = e.key[i]
             /\ B[k + 3] = e.type
             /\ \A i \in 1..4 : B[k + 3 + i] = M!Digits(Len(e.data))[i]
             /\ e \in Small => /\ Len(B) = k + 7 + Len(e.data)
                               /\ \A i \in 1..Len(e.data) : B[k + 7 + i] = e.data[i]
             /\ e \in Big => /\ Len(B) = k + 7 + 4 /\ e.zip \in Nat \ {0}
                             /\ \A i \in 1..4 : B[k + 7 + i] = M!Digits(e.zip)[i]
             /\ Len(B) \in Nat /\ Len(B) >= k + 7
<1> DEFINE a == <<Len(e.key) + 1>>
           c == <<0, e.type>>
           d == M!Digits(Len(e.data))
           v == IF M!IsLarge(e) THEN M!Digits(e.zip) ELSE e.data
<1>1. /\ e.key \in Seq(Byte) /\ e.data \in Seq(Byte) /\ e.type \in 0..5
      /\ M!EntryBytes(e) \in Seq(Byte)
      /\ e \in Small => ~M!IsLarge(e)
      /\ e \in Big => M!IsLarge(e) /\ e.zip \in Nat \ {0}
  BY MetaDataAssumption, BytesAre DEF Entry
<1>2. Len(e.key) \in Nat /\ Len(e.data) \in Nat
  BY <1>1, LenProperties
<1>3. \A s \in Seq(Byte) : s \in Seq(Int)
  BY BytesAre DEF Byte
<1>4. /\ a \in Seq(Int) /\ Len(a) = 1 /\ a[1] = Len(e.key) + 1
      /\ c \in Seq(Int) /\ Len(c) = 2 /\ c[2] = e.type
  BY <1>1, <1>2
<1>5. d \in Seq(Int) /\ Len(d) = 4
  BY <1>2, DigitsAre
<1>6. v \in Seq(Int)
  <2>1. CASE e \in Small
    BY <1>1, <1>3, <2>1
  <2>2. CASE e \in Big
    BY <1>1, <2>2, DigitsAre
  <2> QED BY <2>1, <2>2 DEF Entry
<1>7. M!EntryBytes(e) = (a \o e.key \o c \o d) \o v
  BY DEF M!EntryBytes, M!Header
<1>8. e \in Small => v = e.data
  BY <1>1
<1>9. e \in Big => v = M!Digits(e.zip) /\ Len(v) = 4
  BY <1>1, DigitsAre
<1> HIDE DEF a, c, d, v
<1> DEFINE B == M!EntryBytes(e)
           k == Len(e.key)
<1>10. /\ Len(v) \in Nat /\ Len(B) = k + 7 + Len(v)
       /\ B[1] = k + 1
       /\ \A i \in 1..k : B[1 + i] = e.key[i]
       /\ B[k + 3] = e.type
       /\ \A i \in 1..4 : B[k + 3 + i] = d[i]
       /\ \A i \in 1..Len(v) : B[k + 7 + i] = v[i]
  <2>1. e.key \in Seq(Int)
    BY <1>1, <1>3
  <2>2. Pieces(B, k, a, e.key, c, d, v)
    BY <1>4, <1>5, <1>6, <1>7, <2>1, FivePieces
  <2>3. k = Len(e.key)
    OBVIOUS
  <2> HIDE DEF k, B
  <2> QED BY <1>4, <2>2, <2>3 DEF Pieces
<1>11. Len(B) \in Nat /\ Len(B) >= k + 7
  BY <1>2, <1>10
<1> HIDE DEF B
<1>12. d = M!Digits(Len(e.data))
  BY DEF d
<1> QED
  BY <1>1, <1>2, <1>8, <1>9, <1>10, <1>11, <1>12 DEF B

(* The bytes of a prefix of the entries, in those of all of them. *)
Off(s, n) == Len(M!BytesOf(SubSeq(s, 1, n)))

LEMMA PrefixBytes ==
  ASSUME NEW s \in Seq(Entry)
  PROVE  \E f : /\ Run(f, s) /\ M!BytesOf(s) = f[Len(s)]
               /\ \A n \in 0..Len(s) : M!BytesOf(SubSeq(s, 1, n)) = f[n]
<1>1. Len(s) \in Nat
  BY LenProperties
<1>2. PICK f : Run(f, s) /\ M!BytesOf(s) = f[Len(s)]
  BY <1>1, BytesRun
<1>3. ASSUME NEW n \in 0..Len(s) PROVE M!BytesOf(SubSeq(s, 1, n)) = f[n]
  <2> DEFINE t == SubSeq(s, 1, n)
  <2>1. Len(t) = n /\ \A i \in 1..n : s[i] = t[i]
    <3>1. \A i \in 1..n : s[i] \in Entry
      BY <1>1, ElementOfSeq
    <3>2. /\ Len(t) = IF 1 <= n THEN n - 1 + 1 ELSE 0
          /\ \A i \in 1..(n - 1 + 1) : t[i] = s[1 + i - 1]
      BY <3>1, SubSeqProperties
    <3> HIDE DEF t
    <3> QED BY <3>2
  <2> HIDE DEF t
  <2>2. PICK g : Run(g, t) /\ M!BytesOf(t) = g[n]
    BY <2>1, BytesRun
  <2>3. f[n] = g[n]
    <3>1. SameUpTo(n, s, t)
      BY <1>1, <2>1 DEF SameUpTo
    <3> QED BY <1>2, <2>2, <3>1, RunsAgree
  <2> QED BY <2>2, <2>3 DEF t
<1> QED
  BY <1>2, <1>3

Starts(a, b) == Len(a) <= Len(b) /\ \A i \in 1..Len(a) : b[i] = a[i]

(* Every prefix of the entries is a prefix of the bytes, and longer with   *)
(* each entry.                                                             *)
LEMMA RunGrows ==
  ASSUME NEW s \in Seq(Entry), NEW f, Run(f, s)
  PROVE  /\ \A n \in 0..Len(s) : f[n] \in Seq(Byte)
         /\ \A n \in 1..Len(s) : Joined(Byte, f[n], f[n - 1], M!EntryBytes(s[n]))
         /\ \A n \in 0..Len(s) : \A m \in 0..n :
              Starts(f[m], f[n]) /\ (m < n => Len(f[m]) < Len(f[n]))
<1>0. Len(s) \in Nat /\ f[0] = << >>
  BY LenProperties DEF Run
<1>1. ASSUME NEW n \in 1..Len(s), f[n - 1] \in Seq(Byte)
      PROVE  /\ f[n] \in Seq(Byte)
             /\ Joined(Byte, f[n], f[n - 1], M!EntryBytes(s[n]))
  <2>1. f[n] = f[n - 1] \o M!EntryBytes(s[n])
    BY <1>0 DEF Run
  <2>2. M!EntryBytes(s[n]) \in Seq(Byte)
    BY ElementOfSeq, EntryLayout
  <2>3. Joined(Byte, f[n], f[n - 1], M!EntryBytes(s[n]))
    BY <1>1, <2>1, <2>2, ConcatIs
  <2> QED BY <2>3 DEF Joined
<1> DEFINE A == {n \in Nat : n <= Len(s) =>
                   /\ f[n] \in Seq(Byte)
                   /\ n > 0 => Joined(Byte, f[n], f[n - 1], M!EntryBytes(s[n]))
                   /\ \A m \in 0..n : Starts(f[m], f[n]) /\ (m < n => Len(f[m]) < Len(f[n]))}
<1>2. 0 \in A
  <2>1. f[0] \in Seq(Byte) /\ Len(f[0]) = 0
    BY <1>0
  <2>2. \A m \in 0..0 : m = 0
    OBVIOUS
  <2> QED BY <2>1, <2>2 DEF Starts
<1>3. ASSUME NEW n \in Nat, n \in A PROVE n + 1 \in A
  <2> SUFFICES ASSUME n + 1 <= Len(s)
               PROVE  /\ f[n + 1] \in Seq(Byte)
                      /\ Joined(Byte, f[n + 1], f[n], M!EntryBytes(s[n + 1]))
                      /\ \A m \in 0..(n + 1) :
                           Starts(f[m], f[n + 1]) /\ (m < n + 1 => Len(f[m]) < Len(f[n + 1]))
    OBVIOUS
  <2>1. /\ f[n] \in Seq(Byte)
        /\ \A m \in 0..n : Starts(f[m], f[n]) /\ (m < n => Len(f[m]) < Len(f[n]))
    BY <1>0, <1>3
  <2> HIDE DEF A
  <2>2. /\ f[n + 1] \in Seq(Byte)
        /\ Joined(Byte, f[n + 1], f[n], M!EntryBytes(s[n + 1]))
    <3>1. n + 1 \in 1..Len(s) /\ (n + 1) - 1 = n
      BY <1>0
    <3> QED BY <1>1, <2>1, <3>1
  <2>3. Len(M!EntryBytes(s[n + 1])) >= 7
    <3>1. n + 1 \in 1..Len(s)
      BY <1>0
    <3>2. s[n + 1] \in Entry
      BY <3>1, ElementOfSeq
    <3>3. /\ Len(s[n + 1].key) \in Nat /\ Len(M!EntryBytes(s[n + 1])) \in Nat
          /\ Len(M!EntryBytes(s[n + 1])) >= Len(s[n + 1].key) + 7
      BY <3>2, EntryLayout
    <3> QED BY <3>3
  <2>4. /\ Len(f[n]) < Len(f[n + 1]) /\ Starts(f[n], f[n + 1])
        /\ Len(f[n]) \in Nat /\ Len(f[n + 1]) \in Nat
    <3> DEFINE u == f[n + 1]
               r == f[n]
               e == M!EntryBytes(s[n + 1])
    <3>1. Joined(Byte, u, r, e) /\ Len(e) >= 7
      BY <2>2, <2>3
    <3> HIDE DEF u, r, e
    <3>2. Len(r) < Len(u) /\ Starts(r, u) /\ Len(r) \in Nat /\ Len(u) \in Nat
      BY <3>1 DEF Joined, Starts
    <3> QED BY <3>2 DEF u, r
  <2>5. ASSUME NEW m \in 0..(n + 1)
        PROVE  Starts(f[m], f[n + 1]) /\ (m < n + 1 => Len(f[m]) < Len(f[n + 1]))
    <3>1. CASE m = n + 1
      BY <3>1, <2>4 DEF Starts
    <3>2. CASE m \in 0..n
      <4>1. Starts(f[m], f[n]) /\ (m < n => Len(f[m]) < Len(f[n]))
        BY <2>1, <3>2
      <4>2. f[m] \in Seq(Byte) \/ m = n \/ Len(f[m]) < Len(f[n])
        BY <4>1, <3>2
      <4> QED BY <2>4, <4>1, <3>2 DEF Starts
    <3> QED BY <3>1, <3>2
  <2> QED BY <2>2, <2>5
<1>4. Nat \subseteq A
  <2> HIDE DEF A
  <2> QED BY <1>2, <1>3, NatSetInduction
<1> QED
  BY <1>0, <1>4

(* Where the n-th entry ends, and what stands behind it. *)
LEMMA EntryInPlace ==
  ASSUME NEW s \in Seq(Entry), NEW n \in 0..Len(s)
  PROVE  /\ M!BytesOf(s) \in Seq(Byte) /\ Len(M!BytesOf(s)) \in Nat
         /\ Off(s, n) \in Nat /\ Off(s, n) <= Len(M!BytesOf(s))
         /\ M!BytesOf(SubSeq(s, 1, n)) = SubSeq(M!BytesOf(s), 1, Off(s, n))
         /\ n = 0 => Off(s, n) = 0
         /\ n = Len(s) <=> Off(s, n) = Len(M!BytesOf(s))
         /\ n < Len(s) =>
              /\ Off(s, n + 1) = Off(s, n) + Len(M!EntryBytes(s[n + 1]))
              /\ Off(s, n + 1) <= Len(M!BytesOf(s))
              /\ \A i \in 1..Len(M!EntryBytes(s[n + 1])) :
                   M!BytesOf(s)[Off(s, n) + i] = M!EntryBytes(s[n + 1])[i]
<1>0. Len(s) \in Nat
  BY LenProperties
<1>1. PICK f : /\ Run(f, s) /\ M!BytesOf(s) = f[Len(s)]
               /\ \A k \in 0..Len(s) : M!BytesOf(SubSeq(s, 1, k)) = f[k]
  BY PrefixBytes
<1>2. /\ \A k \in 0..Len(s) : f[k] \in Seq(Byte)
      /\ \A k \in 1..Len(s) : Joined(Byte, f[k], f[k - 1], M!EntryBytes(s[k]))
      /\ \A k \in 0..Len(s) : \A m \in 0..k :
           Starts(f[m], f[k]) /\ (m < k => Len(f[m]) < Len(f[k]))
  BY <1>1, RunGrows
<1> DEFINE all == f[Len(s)]
<1>3. ASSUME NEW k \in 0..Len(s)
      PROVE  /\ Off(s, k) = Len(f[k]) /\ Len(f[k]) \in Nat /\ f[k] \in Seq(Byte)
             /\ Starts(f[k], all) /\ (k < Len(s) => Len(f[k]) < Len(all))
  <2>1. Off(s, k) = Len(f[k]) /\ f[k] \in Seq(Byte)
    BY <1>1, <1>2 DEF Off
  <2>2. Len(s) \in 0..Len(s) /\ k \in 0..Len(s)
    BY <1>0
  <2> QED BY <1>2, <2>1, <2>2, LenProperties
<1>4. all \in Seq(Byte) /\ Len(all) \in Nat
  BY <1>0, <1>2, LenProperties
<1>5. f[n] = SubSeq(all, 1, Len(f[n]))
  <2> DEFINE a == f[n]
             b == SubSeq(all, 1, Len(a))
  <2>1. /\ a \in Seq(Byte) /\ Len(a) \in Nat /\ Len(a) <= Len(all)
        /\ \A i \in 1..Len(a) : all[i] = a[i]
    BY <1>3 DEF Starts
  <2> HIDE DEF a, all
  <2>2. b \in Seq(Byte) /\ Len(b) = Len(a) /\ \A i \in 1..Len(a) : b[i] = all[i]
    <3>1. \A i \in 1..Len(a) : all[i] \in Byte
      BY <1>4, <2>1, ElementOfSeq
    <3>2. /\ b \in Seq(Byte)
          /\ Len(b) = IF 1 <= Len(a) THEN Len(a) - 1 + 1 ELSE 0
          /\ \A i \in 1..(Len(a) - 1 + 1) : b[i] = all[1 + i - 1]
      BY <2>1, <3>1, SubSeqProperties
    <3> HIDE DEF b
    <3> QED BY <2>1, <3>2
  <2> HIDE DEF b
  <2>3. a = b
    BY <2>1, <2>2, SeqEqual
  <2> QED BY <2>3 DEF a, b
<1>6. ASSUME n < Len(s)
      PROVE  /\ Off(s, n + 1) = Off(s, n) + Len(M!EntryBytes(s[n + 1]))
             /\ Off(s, n + 1) <= Len(all)
             /\ \A i \in 1..Len(M!EntryBytes(s[n + 1])) :
                  all[Off(s, n) + i] = M!EntryBytes(s[n + 1])[i]
  <2> DEFINE k == n + 1
             e == M!EntryBytes(s[k])
             u == f[k]
             r == f[n]
  <2>1. k \in 1..Len(s) /\ k \in 0..Len(s) /\ k - 1 = n
    BY <1>0, <1>6
  <2>2. Joined(Byte, u, r, e) /\ Starts(u, all) /\ Off(s, k) = Len(u) /\ Off(s, n) = Len(r)
    <3> HIDE DEF k
    <3> QED BY <1>2, <1>3, <2>1
  <2> HIDE DEF k, e, u, r, all
  <2>3. Off(s, k) = Off(s, n) + Len(e) /\ Off(s, k) <= Len(all)
    BY <2>2 DEF Joined, Starts
  <2>4. ASSUME NEW i \in 1..Len(e) PROVE all[Off(s, n) + i] = e[i]
    <3>1. Len(r) + i \in 1..Len(u)
      BY <2>2 DEF Joined
    <3>2. u[Len(r) + i] = e[i]
      BY <2>2 DEF Joined
    <3>3. all[Len(r) + i] = u[Len(r) + i]
      BY <2>2, <3>1 DEF Starts
    <3> QED BY <2>2, <3>2, <3>3
  <2> QED BY <2>3, <2>4 DEF k, e
<1>7. n = 0 => Len(f[n]) = 0
  BY <1>1 DEF Run
<1>8. n = Len(s) <=> Len(f[n]) = Len(all)
  BY <1>0, <1>3, <1>4
<1>9. Off(s, n) \in Nat /\ Off(s, n) <= Len(all) /\ Off(s, n) = Len(f[n])
  BY <1>3 DEF Starts
<1>10. M!BytesOf(SubSeq(s, 1, n)) = f[n] /\ M!BytesOf(s) = all
  BY <1>1
<1> HIDE DEF all
<1> QED
  BY <1>4, <1>5, <1>6, <1>7, <1>8, <1>9, <1>10

-----------------------------------------------------------------------------
(* The meta data parser, on a buffer of any bytes. *)

EntryType == [key : Seq(0..Radix), type : 0..5, data : Seq(Byte)]

MetaInv ==
  /\ mpc \in {"small", "large", "done", "err"}
  /\ buf \in Seq(Byte)
  /\ ptr \in 0..Len(buf) /\ datapos \in Nat
  /\ \A j \in DOMAIN written : written[j].data \in Seq(Byte)
  /\ entries \in Seq(EntryType)

(* What is in the buffer can be read, and is a byte.                       *)
LEMMA InsideIsByte ==
  ASSUME buf \in Seq(Byte), NEW p \in Nat, p < Len(buf)
  PROVE  M!ByteAt(p) \in Byte
<1>1. p + 1 \in 1..Len(buf)
  BY LenProperties
<1>2. buf[p + 1] \in Byte
  BY <1>1, ElementOfSeq
<1> QED
  BY <1>2 DEF M!ByteAt

LEMMA SizeIsNat ==
  ASSUME buf \in Seq(Byte), NEW p \in Nat, p + 4 <= Len(buf)
  PROVE  M!U32(p) \in Nat
<1>1. Len(buf) \in Nat
  BY LenProperties
<1>2. /\ M!ByteAt(p) \in Nat /\ M!ByteAt(p + 1) \in Nat
      /\ M!ByteAt(p + 2) \in Nat /\ M!ByteAt(p + 3) \in Nat
  BY <1>1, InsideIsByte, BytesAre DEF Byte
<1>3. \A a, b, c, d, r \in Nat : a + r * (b + r * (c + r * d)) \in Nat
  OBVIOUS
<1> QED
  BY <1>2, <1>3, BytesAre DEF M!U32

LEMMA SliceIsBytes ==
  ASSUME buf \in Seq(Byte), NEW p \in Nat, NEW n \in Nat, p + n <= Len(buf)
  PROVE  M!Slice(p, n) \in Seq(Byte) /\ Len(M!Slice(p, n)) = n
<1>1. Len(buf) \in Nat
  BY LenProperties
<1>2. ASSUME NEW j \in 1..n PROVE M!ByteAt(p + j - 1) \in Byte
  <2>1. p + j - 1 \in Nat /\ p + j - 1 < Len(buf)
    BY <1>1
  <2> QED BY <2>1, InsideIsByte
<1>3. M!Slice(p, n) \in [1..n -> Byte]
  BY <1>2 DEF M!Slice
<1> QED
  BY <1>3

(* The parts of a header that fits.                                        *)
LEMMA HeaderParts ==
  ASSUME MetaInv, M!HeaderFits
  PROVE  /\ M!AfterHeader \in Nat /\ M!AfterHeader > ptr /\ M!AfterHeader <= Len(buf)
         /\ M!Key \in Seq(0..Radix)
         /\ M!ByteAt(M!AfterKey) \in 0..5
         /\ M!DataSize \in Nat
<1>1. Len(buf) \in Nat /\ ptr \in Nat /\ ptr < Len(buf) /\ buf \in Seq(Byte)
  BY LenProperties DEF MetaInv, M!HeaderFits
<1>2. M!ByteAt(ptr) \in Byte /\ M!ByteAt(ptr) \in Nat /\ M!ByteAt(ptr) > 0
  BY <1>1, InsideIsByte, BytesAre DEF M!HeaderFits, Byte
<1>3. /\ M!AfterKey = ptr + 1 + M!ByteAt(ptr) /\ M!AfterKey \in Nat
      /\ M!AfterKey + 5 <= Len(buf) /\ M!AfterHeader = M!AfterKey + 5
      /\ M!ByteAt(M!AfterKey) \in 0..5
  BY <1>1, <1>2, BytesAre DEF M!AfterKey, M!AfterHeader, M!HeaderFits
<1>4. M!DataSize \in Nat
  <2>1. M!AfterKey + 1 \in Nat /\ (M!AfterKey + 1) + 4 <= Len(buf)
    BY <1>1, <1>3
  <2> QED BY <1>1, <2>1, SizeIsNat DEF M!DataSize
<1>5. M!Key \in Seq(0..Radix)
  <2> DEFINE raw == M!Slice(ptr + 1, M!ByteAt(ptr) - 1)
  <2>1. ptr + 1 \in Nat /\ M!ByteAt(ptr) - 1 \in Nat /\ (ptr + 1) + (M!ByteAt(ptr) - 1) <= Len(buf)
    BY <1>1, <1>2, <1>3
  <2>2. raw \in Seq(Byte)
    BY <1>1, <2>1, SliceIsBytes
  <2> HIDE DEF raw
  <2>3. DOMAIN raw = 1..Len(raw) /\ Len(raw) \in Nat /\ \A j \in 1..Len(raw) : raw[j] \in Byte
    BY <2>2, LenProperties, ElementOfSeq
  <2>4. \A j \in 1..Len(raw) : raw[j] \in 0..Radix /\ Radix \in 0..Radix
    BY <2>3, BytesAre DEF Byte
  <2>5. M!Lossy(raw) \in [1..Len(raw) -> 0..Radix]
    BY <2>3, <2>4 DEF M!Lossy, M!Replacement
  <2>6. M!Lossy(raw) \in Seq(0..Radix)
    <3> DEFINE lossy == M!Lossy(raw)
               n == Len(raw)
               T == 0..Radix
    <3>1. lossy \in [1..n -> T] /\ n \in Nat
      BY <2>3, <2>5
    <3> HIDE DEF lossy, n, T
    <3>2. lossy \in Seq(T)
      BY <3>1
    <3> QED BY <3>2 DEF lossy, T
  <2> QED BY <2>6 DEF M!Key, raw
<1> QED
  BY <1>1, <1>2, <1>3, <1>4, <1>5

LEMMA AddEntryKeeps ==
  ASSUME MetaInv, M!HeaderFits, NEW d \in Seq(Byte), M!AddEntry(d)
  PROVE  entries' \in Seq(EntryType)
<1> DEFINE e == [key |-> M!Key, type |-> M!ByteAt(M!AfterKey), data |-> d]
<1>1. e \in EntryType
  BY HeaderParts DEF EntryType
<1>2. entries' = Append(entries, e) /\ entries \in Seq(EntryType)
  BY DEF M!AddEntry, MetaInv
<1> QED
  BY <1>1, <1>2, AppendProperties

LEMMA ParseSmallKeeps ==
  ASSUME MetaInv, M!ParseSmall
  PROVE  MetaInv'
<1>0. written' = written /\ buf' = buf
  BY DEF M!ParseSmall
<1>1. CASE M!HeaderFits /\ M!EntryFits
  <2>1. /\ M!AddEntry(M!Slice(M!AfterHeader, M!DataSize))
        /\ ptr' = M!AfterHeader + M!DataSize /\ mpc' = mpc /\ datapos' = datapos
    BY <1>1 DEF M!ParseSmall
  <2>2. /\ M!AfterHeader \in Nat /\ M!DataSize \in Nat /\ Len(buf) \in Nat
        /\ M!AfterHeader + M!DataSize <= Len(buf) /\ buf \in Seq(Byte)
    BY <1>1, HeaderParts, LenProperties DEF M!EntryFits, MetaInv
  <2>3. M!Slice(M!AfterHeader, M!DataSize) \in Seq(Byte)
    BY <2>2, SliceIsBytes
  <2>4. entries' \in Seq(EntryType)
    BY <1>1, <2>1, <2>3, AddEntryKeeps
  <2>5. ptr' \in 0..Len(buf)
    BY <2>1, <2>2
  <2> QED BY <1>0, <2>1, <2>4, <2>5 DEF MetaInv
<1>2. CASE ~(M!HeaderFits /\ M!EntryFits)
  BY <1>0, <1>2 DEF M!ParseSmall, M!Fail, MetaInv
<1> QED
  BY <1>1, <1>2

LEMMA ParseLargeKeeps ==
  ASSUME MetaInv, M!ParseLarge
  PROVE  MetaInv'
<1>0. written' = written /\ buf' = buf
  BY DEF M!ParseLarge
<1> DEFINE found == M!Inflates(datapos, M!ZipSize, M!DataSize)
           Good == M!HeaderFits /\ M!AfterHeader + 4 <= Len(buf) /\ found # {}
<1>1. CASE Good
  <2> DEFINE d == written[CHOOSE j \in found : TRUE].data
  <2>1. /\ M!AddEntry(d) /\ ptr' = M!AfterHeader + 4 /\ mpc' = mpc
        /\ datapos' = datapos + M!ZipSize
    BY <1>1 DEF M!ParseLarge, M!NextPos
  <2>2. d \in Seq(Byte)
    <3>1. (CHOOSE j \in found : TRUE) \in found /\ found \subseteq DOMAIN written
      BY <1>1 DEF M!Inflates
    <3> QED BY <3>1 DEF MetaInv
  <2>3. /\ M!AfterHeader \in Nat /\ Len(buf) \in Nat /\ M!AfterHeader + 4 <= Len(buf)
        /\ buf \in Seq(Byte)
    BY <1>1, HeaderParts, LenProperties DEF MetaInv
  <2>4. M!ZipSize \in Nat
    BY <2>3, SizeIsNat DEF M!ZipSize
  <2>5. entries' \in Seq(EntryType)
    <3> HIDE DEF d
    <3> QED BY <1>1, <2>1, <2>2, AddEntryKeeps
  <2>6. ptr' \in 0..Len(buf) /\ datapos' \in Nat
    BY <2>1, <2>3, <2>4 DEF MetaInv
  <2> QED BY <1>0, <2>1, <2>5, <2>6 DEF MetaInv
<1>2. CASE ~Good
  BY <1>0, <1>2 DEF M!ParseLarge, M!Fail, MetaInv
<1> QED
  BY <1>1, <1>2

LEMMA InitMetaInv == ReadInit => MetaInv
<1>1. ASSUME M!Nothing PROVE MetaInv
  BY <1>1 DEF M!Nothing, MetaInv
<1>2. ASSUME M!Init PROVE MetaInv
  <2> DEFINE b == M!BytesOf(written)
  <2>2. b \in Seq(Byte) /\ \A j \in DOMAIN written : written[j].data \in Seq(Byte)
    <3>1. \A S : M!SeqOf(S, MaxEntries) \subseteq Seq(S)
      BY MetaDataAssumption DEF M!SeqOf
    <3>2. written \in Seq(Entry)
      BY <1>2, <3>1 DEF M!Init, Entry
    <3>3. b \in Seq(Byte)
      <4>1. 0 \in 0..Len(written)
        BY <3>2, LenProperties
      <4> QED BY <3>2, <4>1, EntryInPlace
    <3>4. \A j \in DOMAIN written : written[j] \in Entry
      BY <3>2, LenProperties, ElementOfSeq
    <3> QED BY <3>3, <3>4, EntryLayout
  <2>3. /\ mpc \in {"small", "large"} /\ ptr = 0 /\ datapos = 0 /\ entries = << >>
        /\ \/ buf = b
           \/ \E n \in 1..(Len(b) - 1) : buf = SubSeq(b, 1, n)
           \/ \E n \in DOMAIN b, x \in Byte : buf = [b EXCEPT ![n] = x]
    BY <1>2, BytesAre DEF M!Init
  <2> HIDE DEF b
  <2>4. Len(b) \in Nat /\ DOMAIN b = 1..Len(b)
    BY <2>2, LenProperties
  <2>5. buf \in Seq(Byte)
    <3>1. ASSUME NEW n \in 1..(Len(b) - 1) PROVE SubSeq(b, 1, n) \in Seq(Byte)
      BY <2>2, <2>4
    <3>2. ASSUME NEW n \in DOMAIN b, NEW x \in Byte PROVE [b EXCEPT ![n] = x] \in Seq(Byte)
      BY <2>2, <2>4, ExceptSeq
    <3> QED BY <2>2, <2>3, <3>1, <3>2
  <2>6. 0 \in 0..Len(buf)
    BY <2>5, LenProperties
  <2> QED BY <2>2, <2>3, <2>5, <2>6 DEF MetaInv
<1> QED
  BY <1>1, <1>2 DEF ReadInit

LEMMA NextMetaInv == MetaInv /\ [ReadNext]_<<vars, metaVars>> => MetaInv'
<1> SUFFICES ASSUME MetaInv, [ReadNext]_<<vars, metaVars>> PROVE MetaInv'
  OBVIOUS
<1>1. CASE UNCHANGED metaVars
  BY <1>1 DEF metaVars, MetaInv
<1>2. CASE M!End
  BY <1>2 DEF M!End, MetaInv
<1> QED
  BY <1>1, <1>2, ParseSmallKeeps, ParseLargeKeeps DEF ReadNext, Open, ReadMetaData, M!Next

(* Whatever bytes the buffer holds, nothing is read past its end           *)
(* (metadata.rs:184-234, format.rs:230-233).                               *)
THEOREM ParserStaysInside == ReadSpec => []NothingPastTheEnd
<1>1. MetaInv => NothingPastTheEnd
  <2> SUFFICES ASSUME MetaInv PROVE NothingPastTheEnd
    OBVIOUS
  <2>1. \A j \in DOMAIN entries : entries[j] \in EntryType
    BY LenProperties, ElementOfSeq DEF MetaInv
  <2>2. \A j \in DOMAIN entries :
          /\ entries[j].key \in Seq(0..Radix) /\ entries[j].type \in 0..5
          /\ entries[j].data \in Seq(Byte)
    BY <2>1 DEF EntryType
  <2> QED BY <2>2, BytesAre DEF MetaInv, NothingPastTheEnd, M!NothingPastTheEnd
<1> QED
  BY <1>1, InitMetaInv, NextMetaInv, PTL DEF ReadSpec

-----------------------------------------------------------------------------
(* What is written is read back. *)

(* The zip blocks of large entries follow one another, none of them empty. *)
LEMMA BlockStarts ==
  ASSUME written \in Seq(Big)
  PROVE  /\ M!BlockStart[1] = 0
         /\ \A j \in 1..Len(written) : M!BlockStart[j + 1] = M!BlockStart[j] + written[j].zip
         /\ \A j \in 1..(Len(written) + 1) :
              M!BlockStart[j] \in Nat /\ \A i \in 1..(j - 1) : M!BlockStart[i] < M!BlockStart[j]
<1>0. Len(written) \in Nat
  BY LenProperties
<1> DEFINE Upto(f, n) ==
             f = [j \in 1..(n + 1) |-> IF j = 1 THEN 0 ELSE f[j - 1] + written[j - 1].zip]
           A == {n \in Nat : \E f : Upto(f, n)}
<1>1. 0 \in A
  <2> DEFINE f == [j \in 1..1 |-> 0]
  <2>1. Upto(f, 0)
    OBVIOUS
  <2> QED BY <2>1
<1>2. ASSUME NEW n \in Nat, n \in A PROVE n + 1 \in A
  <2>1. PICK f : Upto(f, n)
    BY <1>2
  <2> DEFINE h == [j \in 1..(n + 2) |->
                    IF j <= n + 1 THEN f[j] ELSE f[n + 1] + written[n + 1].zip]
             r == [j \in 1..(n + 2) |-> IF j = 1 THEN 0 ELSE h[j - 1] + written[j - 1].zip]
  <2>2. ASSUME NEW j \in 1..(n + 2) PROVE h[j] = r[j]
    <3>1. CASE j = 1
      BY <2>1, <3>1
    <3>2. CASE j \in 2..(n + 1)
      <4>1. j - 1 \in 1..(n + 1) /\ j \in 1..(n + 1) /\ j # 1
        BY <3>2
      <4>2. f[j] = f[j - 1] + written[j - 1].zip
        BY <2>1, <4>1
      <4> QED BY <4>1, <4>2
    <3>3. CASE j = n + 2
      BY <3>3
    <3> QED BY <3>1, <3>2, <3>3
  <2>3. Upto(h, n + 1)
    <3>1. h = r /\ (n + 1) + 1 = n + 2
      BY <2>2
    <3> QED BY <3>1
  <2> HIDE DEF h, Upto
  <2> QED BY <2>3
<1>3. Len(written) \in A
  <2> HIDE DEF A
  <2> QED BY <1>0, <1>1, <1>2, NatSetInduction
<1>4. PICK f : Upto(f, Len(written))
  BY <1>3
<1> DEFINE start == CHOOSE g : Upto(g, Len(written))
<1>5. Upto(start, Len(written))
  BY <1>4
<1>6. M!BlockStart = start
  BY DEF M!BlockStart
<1> HIDE DEF start
<1>7. start[1] = 0
  BY <1>0, <1>5
<1>8. ASSUME NEW j \in 1..Len(written)
      PROVE  start[j + 1] = start[j] + written[j].zip /\ written[j].zip \in Nat \ {0}
  <2>1. j + 1 \in 1..(Len(written) + 1) /\ j + 1 # 1 /\ (j + 1) - 1 = j
    BY <1>0
  <2>2. start[j + 1] = start[j] + written[j].zip
    BY <1>5, <2>1
  <2>3. written[j] \in Big
    BY ElementOfSeq
  <2> QED BY <2>2, <2>3, MetaDataAssumption
<1> HIDE DEF Upto
<1> DEFINE B == {n \in Nat : n <= Len(written) =>
                   /\ start[n + 1] \in Nat
                   /\ \A i \in 1..n : start[i] \in Nat /\ start[i] < start[n + 1]}
<1>9. Nat \subseteq B
  <2>1. 0 \in B
    BY <1>7
  <2>2. ASSUME NEW n \in Nat, n \in B PROVE n + 1 \in B
    <3> SUFFICES ASSUME n + 1 <= Len(written)
                 PROVE  /\ start[(n + 1) + 1] \in Nat
                        /\ \A i \in 1..(n + 1) :
                             start[i] \in Nat /\ start[i] < start[(n + 1) + 1]
      OBVIOUS
    <3>1. /\ start[n + 1] \in Nat
          /\ \A i \in 1..n : start[i] \in Nat /\ start[i] < start[n + 1]
      BY <1>0, <2>2
    <3>2. n + 1 \in 1..Len(written)
      BY <1>0
    <3>3. /\ start[(n + 1) + 1] = start[n + 1] + written[n + 1].zip
          /\ written[n + 1].zip \in Nat \ {0}
      BY <1>8, <3>2
    <3>4. start[(n + 1) + 1] \in Nat /\ start[n + 1] < start[(n + 1) + 1]
      BY <3>1, <3>3
    <3>5. ASSUME NEW i \in 1..(n + 1)
          PROVE  start[i] \in Nat /\ start[i] < start[(n + 1) + 1]
      <4>1. CASE i = n + 1
        BY <3>1, <3>4, <4>1
      <4>2. CASE i \in 1..n
        BY <3>1, <3>4, <4>2
      <4> QED BY <4>1, <4>2
    <3> QED BY <3>4, <3>5
  <2> HIDE DEF B
  <2> QED BY <2>1, <2>2, NatSetInduction
<1>10. ASSUME NEW j \in 1..(Len(written) + 1)
       PROVE  start[j] \in Nat /\ \A i \in 1..(j - 1) : start[i] < start[j]
  <2>1. j - 1 \in Nat /\ j - 1 <= Len(written) /\ (j - 1) + 1 = j
    BY <1>0
  <2> QED BY <1>9, <2>1
<1> QED
  BY <1>6, <1>7, <1>8, <1>10

(* The buffer has, from ptr on, what it still holds of e.                  *)
Ahead(e) ==
  \A i \in 1..Len(M!EntryBytes(e)) :
    ptr + i <= Len(buf) => M!ByteAt(ptr + i - 1) = M!EntryBytes(e)[i]

LEMMA NextEntry ==
  ASSUME written \in Seq(Entry), NEW m \in 0..Len(M!BytesOf(written)),
         buf = SubSeq(M!BytesOf(written), 1, m),
         NEW n \in 0..Len(written), ptr = Off(written, n), ptr < Len(buf)
  PROVE  /\ n + 1 \in 1..Len(written) /\ written[n + 1] \in Entry
         /\ Off(written, n + 1) = ptr + Len(M!EntryBytes(written[n + 1]))
         /\ Ahead(written[n + 1])
         /\ Len(buf) = m
         /\ Off(written, n + 1) <= Len(M!BytesOf(written))
<1> DEFINE all == M!BytesOf(written)
           B == M!EntryBytes(written[n + 1])
<1>1. all \in Seq(Byte) /\ Len(all) \in Nat /\ ptr \in Nat /\ Len(written) \in Nat
  BY EntryInPlace, LenProperties
<1> HIDE DEF all
<1>2. Len(buf) = m /\ \A i \in 1..m : buf[i] = all[i]
  <2>1. buf = SubSeq(all, 1, m) /\ m \in 0..Len(all)
    BY DEF all
  <2>2. \A i \in 1..m : all[i] \in Byte
    BY <1>1, <2>1, ElementOfSeq
  <2>3. /\ Len(buf) = IF 1 <= m THEN m - 1 + 1 ELSE 0
        /\ \A i \in 1..(m - 1 + 1) : buf[i] = all[1 + i - 1]
    BY <1>1, <2>1, <2>2, SubSeqProperties
  <2> QED BY <1>1, <2>1, <2>3
<1>3. n < Len(written)
  <2>1. m <= Len(all) /\ (n = Len(written) => ptr = Len(all))
    BY <1>1, EntryInPlace DEF all
  <2> QED BY <1>1, <1>2, <2>1
<1>4. /\ Off(written, n + 1) = ptr + Len(B) /\ Off(written, n + 1) <= Len(all)
      /\ \A i \in 1..Len(B) : all[ptr + i] = B[i]
  BY <1>3, EntryInPlace DEF all
<1>5. n + 1 \in 1..Len(written) /\ written[n + 1] \in Entry
  <2>1. n + 1 \in 1..Len(written)
    BY <1>1, <1>3
  <2> QED BY <2>1, ElementOfSeq
<1>6. Len(B) \in Nat
  BY <1>5, EntryLayout
<1>7. ASSUME NEW i \in 1..Len(B), ptr + i <= Len(buf) PROVE M!ByteAt(ptr + i - 1) = B[i]
  <2>1. ptr + i \in 1..m /\ ptr + i - 1 < Len(buf) /\ (ptr + i - 1) + 1 = ptr + i
    BY <1>1, <1>2, <1>6, <1>7
  <2>2. M!ByteAt(ptr + i - 1) = buf[ptr + i]
    BY <2>1 DEF M!ByteAt
  <2> QED BY <1>2, <1>4, <2>1, <2>2
<1> QED
  BY <1>2, <1>4, <1>5, <1>7 DEF Ahead, all

(* An entry that is all there has its header, and of what has its header   *)
(* the parser gets the parts.                                              *)
LEMMA HeaderIs ==
  ASSUME NEW e \in Entry, ptr \in Nat, buf \in Seq(Byte), ptr < Len(buf), Ahead(e)
  PROVE  /\ ptr + Len(M!EntryBytes(e)) <= Len(buf) => M!HeaderFits
         /\ M!HeaderFits =>
              /\ M!AfterHeader = ptr + Len(e.key) + 7 /\ M!AfterHeader <= Len(buf)
              /\ M!Key = M!Lossy(e.key) /\ M!ByteAt(M!AfterKey) = e.type
              /\ M!DataSize = Len(e.data)
<1> DEFINE B == M!EntryBytes(e)
           k == Len(e.key)
<1>1. /\ Len(buf) \in Nat /\ k \in Nat /\ e.key \in Seq(Byte)
      /\ e.type \in 0..5 /\ Len(e.data) \in Nat
      /\ B[1] = k + 1
      /\ \A i \in 1..k : B[1 + i] = e.key[i]
      /\ B[k + 3] = e.type
      /\ \A i \in 1..4 : B[k + 3 + i] = M!Digits(Len(e.data))[i]
      /\ Len(B) \in Nat /\ Len(B) >= k + 7
  BY EntryLayout, LenProperties
<1>2. \A i \in 1..Len(B) : ptr + i <= Len(buf) => M!ByteAt(ptr + i - 1) = B[i]
  BY DEF Ahead
<1> HIDE DEF B, k
<1>0. Len(buf) \in Nat /\ k \in Nat /\ Len(B) \in Nat /\ Len(B) >= k + 7
  BY <1>1
<1>3. M!ByteAt(ptr) = k + 1
  <2>1. 1 \in 1..Len(B) /\ ptr + 1 <= Len(buf) /\ ptr + 1 - 1 = ptr
    BY <1>0
  <2> QED BY <1>1, <1>2, <2>1
<1>4. M!AfterKey = ptr + k + 2 /\ M!AfterHeader = ptr + k + 7
  BY <1>0, <1>3 DEF M!AfterKey, M!AfterHeader
<1>5. ASSUME ptr + k + 7 <= Len(buf)
      PROVE  M!ByteAt(M!AfterKey) = e.type
  <2>1. k + 3 \in 1..Len(B) /\ ptr + (k + 3) <= Len(buf) /\ ptr + (k + 3) - 1 = ptr + k + 2
    BY <1>0, <1>5
  <2> QED BY <1>1, <1>2, <1>4, <2>1
<1>6. ASSUME ptr + Len(B) <= Len(buf) PROVE M!HeaderFits
  <2>1. ptr + k + 7 <= Len(buf)
    BY <1>1, <1>6
  <2>2. M!ByteAt(M!AfterKey) = e.type
    BY <1>5, <2>1
  <2>3. M!ByteAt(M!AfterKey) \in M!MetaDataType
    BY <1>1, <2>2, BytesAre
  <2>4. /\ M!ByteAt(ptr) > 0 /\ M!AfterKey <= Len(buf)
        /\ M!AfterKey < Len(buf) /\ M!AfterKey + 5 <= Len(buf)
    BY <1>0, <1>3, <1>4, <2>1
  <2> QED BY <2>3, <2>4 DEF M!HeaderFits
<1>7. ASSUME M!HeaderFits
      PROVE  /\ ptr + k + 7 <= Len(buf)
             /\ M!Key = M!Lossy(e.key) /\ M!DataSize = Len(e.data)
  <2>1. ptr + k + 7 <= Len(buf)
    BY <1>1, <1>4, <1>7 DEF M!HeaderFits
  <2>2. M!Slice(ptr + 1, k) = e.key
    <3>1. ASSUME NEW j \in 1..k PROVE M!ByteAt(ptr + 1 + j - 1) = e.key[j]
      <4>1. 1 + j \in 1..Len(B) /\ ptr + (1 + j) <= Len(buf) /\ ptr + (1 + j) - 1 = ptr + 1 + j - 1
        BY <1>0, <2>1
      <4> QED BY <1>1, <1>2, <4>1
    <3>2. e.key = [j \in 1..k |-> e.key[j]]
      BY <1>1, LenProperties DEF k
    <3> QED BY <3>1, <3>2 DEF M!Slice
  <2>3. M!Key = M!Lossy(e.key)
    <3>1. M!ByteAt(ptr) - 1 = k
      BY <1>1, <1>3
    <3> QED BY <2>2, <3>1 DEF M!Key
  <2>4. ASSUME NEW i \in 1..4
        PROVE  M!ByteAt(ptr + k + 2 + i) = M!Digits(Len(e.data))[i]
    <3>1. /\ k + 3 + i \in 1..Len(B) /\ ptr + (k + 3 + i) <= Len(buf)
          /\ ptr + (k + 3 + i) - 1 = ptr + k + 2 + i
      BY <1>0, <2>1
    <3> QED BY <1>1, <1>2, <3>1
  <2>5. M!DataSize = Len(e.data)
    <3> DEFINE d == M!Digits(Len(e.data))
               q == ptr + k + 3
    <3>1. /\ M!ByteAt(q) = d[1] /\ M!ByteAt(q + 1) = d[2]
          /\ M!ByteAt(q + 2) = d[3] /\ M!ByteAt(q + 3) = d[4]
      <4>1. /\ q = ptr + k + 2 + 1 /\ q + 1 = ptr + k + 2 + 2
            /\ q + 2 = ptr + k + 2 + 3 /\ q + 3 = ptr + k + 2 + 4
        BY <1>1
      <4> HIDE DEF d, q
      <4>2. \A i \in 1..4 : M!ByteAt(ptr + k + 2 + i) = d[i]
        BY <2>4 DEF d
      <4> QED BY <4>1, <4>2
    <3>2. M!AfterKey + 1 = q
      BY <1>1, <1>4
    <3>3. Len(e.data) = d[1] + Radix * (d[2] + Radix * (d[3] + Radix * d[4]))
      BY <1>1, DigitsAre
    <3> HIDE DEF d, q
    <3> QED BY <3>1, <3>2, <3>3 DEF M!DataSize, M!U32
  <2> QED BY <2>1, <2>3, <2>5
<1> QED
  BY <1>1, <1>4, <1>5, <1>6, <1>7 DEF B, k

(* The parser has read the first n entries, and stands behind them. *)
ReadAsFar(n) ==
  /\ entries = M!Meant(SubSeq(written, 1, n))
  /\ ptr = Off(written, n)
  /\ mpc = "large" => datapos = M!BlockStart[n + 1]

ParsedInv ==
  /\ written \in Seq(Entry)
  /\ mpc = "small" => written \in Seq(Small)
  /\ mpc = "large" => written \in Seq(Big)
  /\ damage = "none" => buf = M!BytesOf(written)
  /\ damage # "byte" =>
       \E m \in 0..Len(M!BytesOf(written)) : buf = SubSeq(M!BytesOf(written), 1, m)
  /\ mpc = "err" => damage # "none"
  /\ damage # "byte" /\ mpc # "err" => \E n \in 0..Len(written) : ReadAsFar(n)
  /\ mpc = "done" => ptr >= Len(buf)

EntryOf(e) == [key |-> M!Lossy(e.key), type |-> e.type, data |-> e.data]

LEMMA MeantNext ==
  ASSUME NEW s \in Seq(Entry), NEW n \in Nat, n + 1 \in 1..Len(s)
  PROVE  M!Meant(SubSeq(s, 1, n + 1)) = Append(M!Meant(SubSeq(s, 1, n)), EntryOf(s[n + 1]))
<1> DEFINE t == SubSeq(s, 1, n)
           u == SubSeq(s, 1, n + 1)
           R == [key : {M!Lossy(e.key) : e \in Entry}, type : {e.type : e \in Entry},
                 data : {e.data : e \in Entry}]
<1>1. Len(s) \in Nat /\ \A i \in 1..Len(s) : s[i] \in Entry
  BY LenProperties, ElementOfSeq
<1>2. t \in Seq(Entry) /\ Len(t) = n /\ \A i \in 1..n : t[i] = s[i]
  <2>1. \A i \in 1..n : s[i] \in Entry
    BY <1>1
  <2>2. /\ t \in Seq(Entry) /\ Len(t) = IF 1 <= n THEN n - 1 + 1 ELSE 0
        /\ \A i \in 1..(n - 1 + 1) : t[i] = s[1 + i - 1]
    BY <2>1, SubSeqProperties
  <2> HIDE DEF t
  <2> QED BY <2>2
<1>3. u \in Seq(Entry) /\ Len(u) = n + 1 /\ \A i \in 1..(n + 1) : u[i] = s[i]
  <2>1. \A i \in 1..(n + 1) : s[i] \in Entry
    BY <1>1
  <2>2. /\ u \in Seq(Entry) /\ Len(u) = IF 1 <= n + 1 THEN n + 1 - 1 + 1 ELSE 0
        /\ \A i \in 1..(n + 1 - 1 + 1) : u[i] = s[1 + i - 1]
    BY <2>1, SubSeqProperties
  <2> HIDE DEF u
  <2> QED BY <2>2
<1> HIDE DEF t, u
<1>4. ASSUME NEW v \in Seq(Entry)
      PROVE  /\ M!Meant(v) \in Seq(R) /\ Len(M!Meant(v)) = Len(v)
             /\ \A i \in 1..Len(v) : M!Meant(v)[i] = EntryOf(v[i])
  <2>1. DOMAIN v = 1..Len(v) /\ Len(v) \in Nat /\ \A i \in 1..Len(v) : v[i] \in Entry
    BY LenProperties, ElementOfSeq
  <2>2. \A e \in Entry : EntryOf(e) \in R
    BY DEF EntryOf
  <2>3. M!Meant(v) = [i \in 1..Len(v) |-> EntryOf(v[i])]
    BY <2>1 DEF M!Meant, EntryOf
  <2> HIDE DEF R
  <2>4. M!Meant(v) \in [1..Len(v) -> R]
    BY <2>1, <2>2, <2>3
  <2>5. M!Meant(v) \in Seq(R) /\ Len(M!Meant(v)) = Len(v)
    BY <2>1, <2>4
  <2> QED BY <2>3, <2>5
<1>5. EntryOf(s[n + 1]) \in R
  BY <1>1 DEF EntryOf
<1> HIDE DEF R
<1> DEFINE a == Append(M!Meant(t), EntryOf(s[n + 1]))
           b == M!Meant(u)
<1>6. /\ a \in Seq(R) /\ Len(a) = n + 1
      /\ \A i \in 1..n : a[i] = EntryOf(s[i])
      /\ a[n + 1] = EntryOf(s[n + 1])
  <2>1. /\ M!Meant(t) \in Seq(R) /\ Len(M!Meant(t)) = n
        /\ \A i \in 1..n : M!Meant(t)[i] = EntryOf(s[i])
    BY <1>2, <1>4
  <2> QED BY <1>5, <2>1, AppendProperties
<1>7. b \in Seq(R) /\ Len(b) = n + 1 /\ \A i \in 1..(n + 1) : b[i] = EntryOf(s[i])
  BY <1>3, <1>4
<1> HIDE DEF a, b
<1>8. \A i \in 1..(n + 1) : i \in 1..n \/ i = n + 1
  OBVIOUS
<1>9. a = b
  BY <1>6, <1>7, <1>8, SeqEqual
<1> QED
  BY <1>9 DEF a, b, t, u

(* The value of a small entry stands behind its header. *)
LEMMA SmallValue ==
  ASSUME NEW e \in Small, ptr \in Nat, buf \in Seq(Byte), ptr < Len(buf), Ahead(e),
         M!HeaderFits
  PROVE  /\ M!EntryFits <=> ptr + Len(M!EntryBytes(e)) <= Len(buf)
         /\ M!AfterHeader + M!DataSize = ptr + Len(M!EntryBytes(e))
         /\ M!EntryFits => M!Slice(M!AfterHeader, M!DataSize) = e.data
<1> DEFINE B == M!EntryBytes(e)
           k == Len(e.key)
           n == Len(e.data)
<1>0. e \in Entry
  BY DEF Entry
<1>1. /\ M!AfterHeader = ptr + k + 7 /\ M!DataSize = n
      /\ k \in Nat /\ n \in Nat /\ e.data \in Seq(Byte) /\ Len(buf) \in Nat
      /\ Len(B) = k + 7 + n
  BY <1>0, HeaderIs, EntryLayout, LenProperties
<1>2. \A i \in 1..n : B[k + 7 + i] = e.data[i]
  BY <1>0, EntryLayout
<1>3. \A i \in 1..Len(B) : ptr + i <= Len(buf) => M!ByteAt(ptr + i - 1) = B[i]
  BY DEF Ahead
<1> HIDE DEF B, k, n
<1>4. M!AfterHeader + M!DataSize = ptr + Len(B)
  BY <1>1
<1>5. ASSUME ptr + Len(B) <= Len(buf) PROVE M!Slice(M!AfterHeader, M!DataSize) = e.data
  <2>1. ASSUME NEW j \in 1..n PROVE M!ByteAt(ptr + k + 7 + j - 1) = e.data[j]
    <3>1. /\ k + 7 + j \in 1..Len(B) /\ ptr + (k + 7 + j) <= Len(buf)
          /\ ptr + (k + 7 + j) - 1 = ptr + k + 7 + j - 1
      BY <1>1, <1>5
    <3> QED BY <1>2, <1>3, <3>1
  <2>2. e.data = [j \in 1..n |-> e.data[j]]
    BY <1>1, LenProperties DEF n
  <2> QED BY <1>1, <2>1, <2>2 DEF M!Slice
<1> QED
  BY <1>4, <1>5 DEF M!EntryFits, B

(* The size of a large entry's zip block stands there, and no other block  *)
(* starts where its does.                                                  *)
LEMMA LargeValue ==
  ASSUME written \in Seq(Big), ptr \in Nat, buf \in Seq(Byte), ptr < Len(buf),
         NEW n \in Nat, n + 1 \in 1..Len(written), Ahead(written[n + 1]),
         datapos = M!BlockStart[n + 1], M!HeaderFits, M!AfterHeader + 4 <= Len(buf)
  PROVE  /\ M!AfterHeader + 4 = ptr + Len(M!EntryBytes(written[n + 1]))
         /\ M!ZipSize = written[n + 1].zip
         /\ M!Inflates(datapos, M!ZipSize, M!DataSize) = {n + 1}
<1> DEFINE e == written[n + 1]
           B == M!EntryBytes(e)
           k == Len(e.key)
           d == M!Digits(e.zip)
<1>0. e \in Big /\ e \in Entry
  BY ElementOfSeq DEF Entry
<1>1. /\ M!AfterHeader = ptr + k + 7 /\ M!DataSize = Len(e.data)
      /\ k \in Nat /\ Len(buf) \in Nat /\ Len(B) = k + 7 + 4 /\ e.zip \in Nat \ {0}
  BY <1>0, HeaderIs, EntryLayout, LenProperties
<1>2. \A i \in 1..4 : B[k + 7 + i] = d[i]
  BY <1>0, EntryLayout
<1>3. \A i \in 1..Len(B) : ptr + i <= Len(buf) => M!ByteAt(ptr + i - 1) = B[i]
  BY DEF Ahead
<1>4. e.zip = d[1] + Radix * (d[2] + Radix * (d[3] + Radix * d[4]))
  BY <1>1, DigitsAre
<1>5. written \in Seq(Big) /\ Len(written) \in Nat /\ DOMAIN written = 1..Len(written)
  BY LenProperties
<1> HIDE DEF B, k, d
<1>6. ASSUME NEW i \in 1..4 PROVE M!ByteAt(ptr + k + 6 + i) = d[i]
  <2>1. /\ k + 7 + i \in 1..Len(B) /\ ptr + (k + 7 + i) <= Len(buf)
        /\ ptr + (k + 7 + i) - 1 = ptr + k + 6 + i
    <3>1. ptr + k + 7 + 4 <= Len(buf) /\ k \in Nat /\ Len(buf) \in Nat /\ Len(B) = k + 7 + 4
      BY <1>1
    <3> QED BY <3>1
  <2> QED BY <1>2, <1>3, <2>1
<1>7. M!ZipSize = e.zip
  <2> DEFINE q == ptr + k + 7
  <2>1. /\ q = ptr + k + 6 + 1 /\ q + 1 = ptr + k + 6 + 2
        /\ q + 2 = ptr + k + 6 + 3 /\ q + 3 = ptr + k + 6 + 4
    BY <1>1
  <2>2. M!AfterHeader = q
    BY <1>1
  <2> HIDE DEF q
  <2>3. /\ M!ByteAt(q) = d[1] /\ M!ByteAt(q + 1) = d[2]
        /\ M!ByteAt(q + 2) = d[3] /\ M!ByteAt(q + 3) = d[4]
    BY <1>6, <2>1
  <2> QED BY <1>4, <2>2, <2>3 DEF M!ZipSize, M!U32
<1>8. /\ M!BlockStart[n + 2] = M!BlockStart[n + 1] + e.zip
      /\ \A j \in 1..(Len(written) + 1) :
           M!BlockStart[j] \in Nat /\ \A i \in 1..(j - 1) : M!BlockStart[i] < M!BlockStart[j]
  <2>1. (n + 1) + 1 = n + 2
    OBVIOUS
  <2> QED BY <2>1, BlockStarts
<1>9. ASSUME NEW j \in 1..Len(written), M!BlockStart[j] = M!BlockStart[n + 1]
      PROVE  j = n + 1
  <2>1. /\ j \in 1..(Len(written) + 1) /\ n + 1 \in 1..(Len(written) + 1)
        /\ (j < n + 1 => j \in 1..((n + 1) - 1))
        /\ (n + 1 < j => n + 1 \in 1..(j - 1))
    BY <1>5
  <2>2. M!BlockStart[j] \in Nat /\ M!BlockStart[n + 1] \in Nat
    BY <1>8, <2>1
  <2>3. ~(j < n + 1)
    BY <1>8, <1>9, <2>1, <2>2
  <2>4. ~(n + 1 < j)
    BY <1>8, <1>9, <2>1, <2>2
  <2> QED BY <2>3, <2>4
<1>10. datapos + e.zip <= M!BlockStart[Len(written) + 1] + Slack
  <2>1. /\ n + 2 \in 1..(Len(written) + 1) /\ Len(written) + 1 \in 1..(Len(written) + 1)
        /\ (n + 2 = Len(written) + 1 \/ n + 2 \in 1..((Len(written) + 1) - 1))
    BY <1>5
  <2>2. M!BlockStart[n + 2] <= M!BlockStart[Len(written) + 1]
    BY <1>8, <2>1
  <2>3. Slack \in Nat /\ M!BlockStart[Len(written) + 1] \in Nat /\ M!BlockStart[n + 2] \in Nat
    BY <1>8, <2>1, MetaDataAssumption
  <2> QED BY <1>8, <2>2, <2>3
<1>11. M!Inflates(datapos, M!ZipSize, M!DataSize) = {n + 1}
  <2>1. n + 1 \in M!Inflates(datapos, M!ZipSize, M!DataSize)
    BY <1>1, <1>5, <1>7, <1>10 DEF M!Inflates
  <2>2. ASSUME NEW j \in M!Inflates(datapos, M!ZipSize, M!DataSize) PROVE j = n + 1
    BY <1>5, <1>9 DEF M!Inflates
  <2> QED BY <2>1, <2>2
<1> QED
  BY <1>1, <1>7, <1>11 DEF B

LEMMA InitParsedInv == ReadInit => ParsedInv
<1>1. ASSUME M!Nothing PROVE ParsedInv
  <2>1. /\ mpc = "small" /\ written = << >> /\ damage = "none" /\ buf = << >>
        /\ ptr = 0 /\ entries = << >>
    BY <1>1 DEF M!Nothing
  <2>2. written \in Seq(Entry) /\ written \in Seq(Small) /\ Len(written) = 0
    BY <2>1
  <2>3. 0 \in 0..Len(written)
    BY <2>2
  <2>4. /\ M!BytesOf(written) \in Seq(Byte) /\ Len(M!BytesOf(written)) = 0
        /\ Off(written, 0) = 0
    <3>1. /\ M!BytesOf(written) \in Seq(Byte)
          /\ 0 = 0 => Off(written, 0) = 0
          /\ 0 = Len(written) <=> Off(written, 0) = Len(M!BytesOf(written))
      BY <2>2, <2>3, EntryInPlace
    <3> QED BY <2>2, <3>1
  <2>5. M!BytesOf(written) = << >>
    BY <2>4, EmptySeq
  <2>6. M!Meant(SubSeq(written, 1, 0)) = << >>
    <3>1. SubSeq(written, 1, 0) = << >>
      BY SubSeqEmpty
    <3> QED BY <3>1 DEF M!Meant
  <2>7. ReadAsFar(0)
    BY <2>1, <2>4, <2>6 DEF ReadAsFar
  <2>8. buf = SubSeq(M!BytesOf(written), 1, 0) /\ 0 \in 0..Len(M!BytesOf(written))
    BY <2>1, <2>4, SubSeqEmpty
  <2> QED BY <2>1, <2>2, <2>3, <2>5, <2>7, <2>8 DEF ParsedInv
<1>2. ASSUME M!Init PROVE ParsedInv
  <2> DEFINE all == M!BytesOf(written)
  <2>1. /\ \/ mpc = "small" /\ written \in Seq(Small)
           \/ mpc = "large" /\ written \in Seq(Big)
        /\ ptr = 0 /\ datapos = 0 /\ entries = << >>
        /\ \/ damage = "none" /\ buf = all
           \/ damage = "cut" /\ \E m \in 1..(Len(all) - 1) : buf = SubSeq(all, 1, m)
           \/ damage = "byte"
    <3>1. \A S : M!SeqOf(S, MaxEntries) \subseteq Seq(S)
      BY MetaDataAssumption DEF M!SeqOf
    <3>2. /\ \/ mpc = "small" /\ written \in M!SeqOf(Small, MaxEntries)
             \/ mpc = "large" /\ written \in M!SeqOf(Big, MaxEntries)
          /\ ptr = 0 /\ datapos = 0 /\ entries = << >>
      BY <1>2 DEF M!Init
    <3>3. \/ damage = "none" /\ buf = all
          \/ damage = "cut" /\ \E m \in 1..(Len(all) - 1) : buf = SubSeq(all, 1, m)
          \/ damage = "byte"
      BY <1>2 DEF M!Init
    <3>4. \/ mpc = "small" /\ written \in Seq(Small)
          \/ mpc = "large" /\ written \in Seq(Big)
      BY <3>1, <3>2
    <3> HIDE DEF all
    <3> QED BY <3>2, <3>3, <3>4, Zenon
  <2>2. written \in Seq(Entry) /\ Len(written) \in Nat
    BY <2>1, LenProperties DEF Entry
  <2>3. 0 \in 0..Len(written)
    BY <2>2
  <2>4. all \in Seq(Byte) /\ Len(all) \in Nat /\ Off(written, 0) = 0
    BY <2>2, <2>3, EntryInPlace
  <2> HIDE DEF all
  <2>5. damage # "byte" => \E m \in 0..Len(all) : buf = SubSeq(all, 1, m)
    <3>1. ASSUME buf = all PROVE buf = SubSeq(all, 1, Len(all)) /\ Len(all) \in 0..Len(all)
      BY <2>4, <3>1, SubSeqFull
    <3> QED BY <2>1, <2>4, <3>1
  <2>6. M!Meant(SubSeq(written, 1, 0)) = << >>
    <3>1. SubSeq(written, 1, 0) = << >>
      BY SubSeqEmpty
    <3> QED BY <3>1 DEF M!Meant
  <2>7. ReadAsFar(0)
    BY <2>1, <2>4, <2>6, BlockStarts DEF ReadAsFar
  <2> QED BY <2>1, <2>2, <2>3, <2>5, <2>7 DEF ParsedInv, all
<1> QED
  BY <1>1, <1>2 DEF ReadInit

(* What the steps of the parser leave alone. *)
LEMMA ParsedKept ==
  ASSUME ParsedInv, written' = written, buf' = buf, damage' = damage
  PROVE  /\ written' \in Seq(Entry)
         /\ mpc = "small" => written' \in Seq(Small)
         /\ mpc = "large" => written' \in Seq(Big)
         /\ damage' = "none" => buf' = M!BytesOf(written')
         /\ damage' # "byte" =>
              \E m \in 0..Len(M!BytesOf(written')) : buf' = SubSeq(M!BytesOf(written'), 1, m)
         /\ M!BlockStart' = M!BlockStart
BY DEF ParsedInv, M!BlockStart

(* The position where a step finds the parser.                             *)
LEMMA ReadUpTo ==
  ASSUME MetaInv, ParsedInv, damage # "byte", mpc # "err", ptr < Len(buf)
  PROVE  \E n \in Nat :
           /\ n + 1 \in 1..Len(written) /\ written[n + 1] \in Entry
           /\ ReadAsFar(n) /\ Ahead(written[n + 1])
           /\ Off(written, n + 1) = ptr + Len(M!EntryBytes(written[n + 1]))
           /\ damage = "none" => Off(written, n + 1) <= Len(buf)
<1>1. PICK n \in 0..Len(written) : ReadAsFar(n)
  BY DEF ParsedInv
<1>2. PICK m \in 0..Len(M!BytesOf(written)) : buf = SubSeq(M!BytesOf(written), 1, m)
  BY DEF ParsedInv
<1>3. written \in Seq(Entry) /\ ptr = Off(written, n)
  BY <1>1 DEF ParsedInv, ReadAsFar
<1>4. /\ n + 1 \in 1..Len(written) /\ written[n + 1] \in Entry
      /\ Off(written, n + 1) = ptr + Len(M!EntryBytes(written[n + 1]))
      /\ Ahead(written[n + 1])
      /\ Off(written, n + 1) <= Len(M!BytesOf(written))
  BY <1>2, <1>3, NextEntry
<1>5. n \in Nat
  BY <1>3, LenProperties
<1>6. damage = "none" => Off(written, n + 1) <= Len(buf)
  BY <1>4 DEF ParsedInv
<1> QED
  BY <1>1, <1>4, <1>5, <1>6

LEMMA ParseSmallReads ==
  ASSUME MetaInv, ParsedInv, M!ParseSmall
  PROVE  ParsedInv'
<1>1. /\ mpc = "small" /\ ptr < Len(buf) /\ written \in Seq(Small)
      /\ written' = written /\ buf' = buf /\ damage' = damage
      /\ ptr \in Nat /\ buf \in Seq(Byte) /\ Len(buf) \in Nat
  BY LenProperties DEF M!ParseSmall, ParsedInv, MetaInv
<1>2. CASE M!HeaderFits /\ M!EntryFits
  <2>1. /\ entries' = Append(entries, [key |-> M!Key, type |-> M!ByteAt(M!AfterKey),
                                      data |-> M!Slice(M!AfterHeader, M!DataSize)])
        /\ ptr' = M!AfterHeader + M!DataSize /\ mpc' = "small"
    BY <1>1, <1>2 DEF M!ParseSmall, M!AddEntry
  <2>2. ASSUME damage # "byte" PROVE \E n \in 0..Len(written) : ReadAsFar(n)'
    <3>1. PICK n \in Nat :
            /\ n + 1 \in 1..Len(written) /\ written[n + 1] \in Entry
            /\ ReadAsFar(n) /\ Ahead(written[n + 1])
            /\ Off(written, n + 1) = ptr + Len(M!EntryBytes(written[n + 1]))
      BY <1>1, <2>2, ReadUpTo
    <3> DEFINE e == written[n + 1]
    <3>2. e \in Small /\ e \in Entry
      BY <1>1, <3>1, ElementOfSeq
    <3>3. M!Key = M!Lossy(e.key) /\ M!ByteAt(M!AfterKey) = e.type
      BY <1>1, <1>2, <3>1, HeaderIs
    <3>4. /\ M!Slice(M!AfterHeader, M!DataSize) = e.data
          /\ M!AfterHeader + M!DataSize = ptr + Len(M!EntryBytes(e))
      BY <1>1, <1>2, <3>1, <3>2, SmallValue
    <3>5. entries' = Append(M!Meant(SubSeq(written, 1, n)), EntryOf(e))
      BY <2>1, <3>1, <3>3, <3>4 DEF ReadAsFar, EntryOf
    <3>6. entries' = M!Meant(SubSeq(written, 1, n + 1))
      BY <3>1, <3>5, MeantNext DEF ParsedInv
    <3>7. ptr' = Off(written, n + 1)
      BY <2>1, <3>1, <3>4
    <3>8. ReadAsFar(n + 1)'
      BY <1>1, <2>1, <3>6, <3>7 DEF ReadAsFar, Off
    <3>9. n + 1 \in 0..Len(written)
      BY <3>1
    <3> QED BY <3>8, <3>9
  <2> QED BY <1>1, <2>1, <2>2, ParsedKept DEF ParsedInv
<1>3. CASE ~(M!HeaderFits /\ M!EntryFits)
  <2>1. mpc' = "err" /\ ptr' = ptr /\ entries' = entries
    BY <1>1, <1>3 DEF M!ParseSmall, M!Fail
  <2>2. damage # "none"
    <3> SUFFICES ASSUME damage = "none" PROVE FALSE
      OBVIOUS
    <3>1. PICK n \in Nat :
            /\ n + 1 \in 1..Len(written) /\ written[n + 1] \in Entry
            /\ Ahead(written[n + 1])
            /\ Off(written, n + 1) = ptr + Len(M!EntryBytes(written[n + 1]))
            /\ Off(written, n + 1) <= Len(buf)
      BY <1>1, ReadUpTo
    <3> DEFINE e == written[n + 1]
    <3>2. e \in Small /\ e \in Entry /\ ptr + Len(M!EntryBytes(e)) <= Len(buf)
      BY <1>1, <3>1, ElementOfSeq
    <3>3. M!HeaderFits
      BY <1>1, <3>1, <3>2, HeaderIs
    <3>4. M!EntryFits
      BY <1>1, <3>1, <3>2, <3>3, SmallValue
    <3> QED BY <1>3, <3>3, <3>4
  <2> QED BY <1>1, <2>1, <2>2, ParsedKept DEF ParsedInv
<1> QED
  BY <1>2, <1>3

LEMMA ParseLargeReads ==
  ASSUME MetaInv, ParsedInv, M!ParseLarge
  PROVE  ParsedInv'
<1>1. /\ mpc = "large" /\ ptr < Len(buf) /\ written \in Seq(Big)
      /\ written' = written /\ buf' = buf /\ damage' = damage
      /\ ptr \in Nat /\ buf \in Seq(Byte) /\ Len(buf) \in Nat
  BY LenProperties DEF M!ParseLarge, ParsedInv, MetaInv
<1> DEFINE found == M!Inflates(datapos, M!ZipSize, M!DataSize)
           Good == M!HeaderFits /\ M!AfterHeader + 4 <= Len(buf) /\ found # {}
<1>2. CASE Good
  <2> DEFINE v == written[CHOOSE j \in found : TRUE].data
  <2>1. /\ entries' = Append(entries, [key |-> M!Key, type |-> M!ByteAt(M!AfterKey), data |-> v])
        /\ ptr' = M!AfterHeader + 4 /\ datapos' = datapos + M!ZipSize /\ mpc' = "large"
    BY <1>1, <1>2 DEF M!ParseLarge, M!AddEntry, M!NextPos
  <2>2. ASSUME damage # "byte" PROVE \E n \in 0..Len(written) : ReadAsFar(n)'
    <3>1. PICK n \in Nat :
            /\ n + 1 \in 1..Len(written) /\ written[n + 1] \in Entry
            /\ ReadAsFar(n) /\ Ahead(written[n + 1])
            /\ Off(written, n + 1) = ptr + Len(M!EntryBytes(written[n + 1]))
      BY <1>1, <2>2, ReadUpTo
    <3> DEFINE e == written[n + 1]
    <3>2. datapos = M!BlockStart[n + 1]
      BY <1>1, <3>1 DEF ReadAsFar
    <3>3. M!Key = M!Lossy(e.key) /\ M!ByteAt(M!AfterKey) = e.type
      BY <1>1, <1>2, <3>1, HeaderIs
    <3>4. /\ M!AfterHeader + 4 = ptr + Len(M!EntryBytes(e)) /\ M!ZipSize = e.zip
          /\ found = {n + 1}
      BY <1>1, <1>2, <3>1, <3>2, LargeValue
    <3>5. v = e.data
      <4> HIDE DEF found
      <4>1. (CHOOSE j \in found : TRUE) = n + 1
        BY <3>4
      <4> QED BY <4>1
    <3> HIDE DEF v, found
    <3>6. entries' = Append(M!Meant(SubSeq(written, 1, n)), EntryOf(e))
      BY <2>1, <3>1, <3>3, <3>5 DEF ReadAsFar, EntryOf
    <3>7. entries' = M!Meant(SubSeq(written, 1, n + 1))
      BY <3>1, <3>6, MeantNext DEF ParsedInv
    <3>8. ptr' = Off(written, n + 1)
      BY <2>1, <3>1, <3>4
    <3>9. datapos' = M!BlockStart[(n + 1) + 1]
      BY <1>1, <2>1, <3>1, <3>2, <3>4, BlockStarts
    <3>10. M!BlockStart' = M!BlockStart
      BY <1>1, ParsedKept
    <3>11. ReadAsFar(n + 1)'
      BY <1>1, <3>7, <3>8, <3>9, <3>10 DEF ReadAsFar, Off
    <3>12. n + 1 \in 0..Len(written)
      BY <3>1
    <3> QED BY <3>11, <3>12
  <2> QED BY <1>1, <2>1, <2>2, ParsedKept DEF ParsedInv
<1>3. CASE ~Good
  <2>1. mpc' = "err" /\ ptr' = ptr /\ entries' = entries
    BY <1>1, <1>3 DEF M!ParseLarge, M!Fail
  <2>2. damage # "none"
    <3> SUFFICES ASSUME damage = "none" PROVE FALSE
      OBVIOUS
    <3>1. PICK n \in Nat :
            /\ n + 1 \in 1..Len(written) /\ written[n + 1] \in Entry
            /\ ReadAsFar(n) /\ Ahead(written[n + 1])
            /\ Off(written, n + 1) = ptr + Len(M!EntryBytes(written[n + 1]))
            /\ Off(written, n + 1) <= Len(buf)
      BY <1>1, ReadUpTo
    <3> DEFINE e == written[n + 1]
    <3>2. e \in Big /\ ptr + Len(M!EntryBytes(e)) <= Len(buf)
      BY <1>1, <3>1, ElementOfSeq
    <3>3. M!HeaderFits /\ M!AfterHeader = ptr + Len(e.key) + 7
      BY <1>1, <3>1, <3>2, HeaderIs
    <3>4. M!AfterHeader + 4 <= Len(buf)
      <4>1. Len(M!EntryBytes(e)) = Len(e.key) + 7 + 4 /\ Len(e.key) \in Nat
        BY <3>1, <3>2, EntryLayout
      <4> QED BY <1>1, <3>2, <3>3, <4>1
    <3>5. found = {n + 1}
      <4>1. datapos = M!BlockStart[n + 1]
        BY <1>1, <3>1 DEF ReadAsFar
      <4> QED BY <1>1, <3>1, <3>3, <3>4, <4>1, LargeValue
    <3> HIDE DEF found
    <3> QED BY <1>3, <3>3, <3>4, <3>5
  <2> HIDE DEF found
  <2> QED BY <1>1, <2>1, <2>2, ParsedKept DEF ParsedInv
<1> QED
  BY <1>2, <1>3

LEMMA NextParsedInv == MetaInv /\ ParsedInv /\ [ReadNext]_<<vars, metaVars>> => ParsedInv'
<1> SUFFICES ASSUME MetaInv, ParsedInv, [ReadNext]_<<vars, metaVars>> PROVE ParsedInv'
  OBVIOUS
<1>1. CASE UNCHANGED metaVars
  <2>1. /\ mpc' = mpc /\ written' = written /\ damage' = damage /\ buf' = buf
        /\ ptr' = ptr /\ datapos' = datapos /\ entries' = entries
    BY <1>1 DEF metaVars
  <2>2. \A n : ReadAsFar(n)' <=> ReadAsFar(n)
    BY <2>1, ParsedKept DEF ReadAsFar, Off
  <2> QED BY <2>1, <2>2, ParsedKept DEF ParsedInv
<1>2. CASE M!End
  <2>1. /\ mpc \in {"small", "large"} /\ ptr >= Len(buf) /\ mpc' = "done"
        /\ written' = written /\ damage' = damage /\ buf' = buf
        /\ ptr' = ptr /\ datapos' = datapos /\ entries' = entries
    BY <1>2 DEF M!End
  <2>2. \A n : ReadAsFar(n) => ReadAsFar(n)'
    BY <2>1 DEF ReadAsFar, Off
  <2> QED BY <2>1, <2>2, ParsedKept DEF ParsedInv
<1> QED
  BY <1>1, <1>2, ParseSmallReads, ParseLargeReads DEF ReadNext, Open, ReadMetaData, M!Next

(* Intact meta data is read as it was written, each large value from its   *)
(* own block, and never refused; a cut buffer gives the entries before a   *)
(* cut that fell between two, or an error (reader.rs:742-778,              *)
(* metadata.rs:184-201).                                                   *)
THEOREM ParsesWhatWasWritten == ReadSpec => []OnlyWhatWasWritten
<1>1. MetaInv /\ ParsedInv => OnlyWhatWasWritten
  <2> SUFFICES ASSUME MetaInv, ParsedInv PROVE M!OnlyWhatWasWritten
    BY DEF OnlyWhatWasWritten
  <2>1. ASSUME mpc = "done", damage # "byte"
        PROVE  \E n \in 0..Len(written) :
                 /\ entries = M!Meant(SubSeq(written, 1, n))
                 /\ damage = "none" => n = Len(written)
                 /\ buf = M!BytesOf(SubSeq(written, 1, n))
    <3> DEFINE all == M!BytesOf(written)
    <3>1. PICK n \in 0..Len(written) : ReadAsFar(n)
      BY <2>1 DEF ParsedInv
    <3>2. PICK m \in 0..Len(all) : buf = SubSeq(all, 1, m)
      BY <2>1 DEF ParsedInv
    <3>3. /\ all \in Seq(Byte) /\ Len(all) \in Nat
          /\ M!BytesOf(SubSeq(written, 1, n)) = SubSeq(all, 1, Off(written, n))
          /\ n = Len(written) <=> Off(written, n) = Len(all)
      BY EntryInPlace DEF ParsedInv
    <3>4. /\ entries = M!Meant(SubSeq(written, 1, n)) /\ ptr = Off(written, n)
          /\ ptr >= Len(buf) /\ ptr \in 0..Len(buf) /\ Len(buf) \in Nat
          /\ damage = "none" => buf = all
      BY <2>1, <3>1, LenProperties DEF ReadAsFar, ParsedInv, MetaInv
    <3> HIDE DEF all
    <3>5. Len(buf) = m
      <4>1. \A i \in 1..m : all[i] \in Byte
        BY <3>3, ElementOfSeq
      <4>2. Len(buf) = IF 1 <= m THEN m - 1 + 1 ELSE 0
        BY <3>2, <4>1, SubSeqProperties
      <4> QED BY <4>2
    <3>6. ptr = m
      BY <3>4, <3>5
    <3> QED BY <3>2, <3>3, <3>4, <3>5, <3>6
  <2>2. mpc = "err" => damage # "none"
    BY DEF ParsedInv
  <2> QED BY <2>1, <2>2 DEF M!OnlyWhatWasWritten
<1> QED
  BY <1>1, InitMetaInv, NextMetaInv, InitParsedInv, NextParsedInv, PTL DEF ReadSpec
=============================================================================
