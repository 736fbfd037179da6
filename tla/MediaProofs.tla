----------------------------- MODULE MediaProofs -----------------------------
(***************************************************************************)
(* Proofs about MediaCache and MediaRequests for every number of workers,   *)
(* threads, files, sizes, limits, accounts and requests: a save keeps its   *)
(* file, the index lists the files, the files fit the limit, and the counts *)
(* of the accounts settle.                                                  *)
(***************************************************************************)
EXTENDS MediaRequests, FiniteSetTheorems, WellFoundedInduction, TLAPS

-----------------------------------------------------------------------------
(* Induction.  The library states it with an operator for the property; the  *)
(* set of the numbers that have the property does as well.                   *)
Less == {ss \in Nat \X Nat : ss[1] < ss[2]}

LEMMA LessWellFounded == IsWellFoundedOn(Less, Nat)
  BY NatLessThanWellFounded, Zenon DEF OpToRel, Less

LEMMA LeastNat ==
  ASSUME NEW T \in SUBSET Nat, T # {}
  PROVE  \E m \in T : \A k \in T : m <= k
<1>1. \E x \in T : \A y \in T : ~ (<<y, x>> \in Less)
  BY LessWellFounded, WFMin
<1>2. PICK m \in T : \A y \in T : <<y, m>> \notin Less
  BY <1>1
<1>3. ASSUME NEW k \in T
      PROVE  m <= k
  <2>1. k \in Nat /\ m \in Nat /\ <<k, m>> \notin Less
    BY <1>2, <1>3
  <2>2. ~ (k < m)
    BY <2>1 DEF Less
  <2> QED BY <2>1, <2>2
<1> QED BY <1>3

LEMMA AllNat ==
  ASSUME NEW T \in SUBSET Nat, 0 \in T, \A n \in T : n + 1 \in T
  PROVE  T = Nat
<1> SUFFICES ASSUME Nat \ T # {} PROVE FALSE
  OBVIOUS
<1>1. PICK m \in Nat \ T : \A k \in Nat \ T : m <= k
  BY LeastNat
<1>2. m # 0 /\ m - 1 \in Nat
  BY <1>1
<1>3. m - 1 \in T
  BY <1>1, <1>2
<1>4. (m - 1) + 1 = m
  BY <1>2
<1> QED BY <1>1, <1>3, <1>4

(* A nonempty set of files has an oldest. *)
LEMMA OldestIsOne ==
  ASSUME NEW S \in SUBSET File, S # {}, NEW r \in [File -> Nat]
  PROVE  Oldest(S, r) \in S
<1> DEFINE T == {r[f] : f \in S}
<1>1. T \in SUBSET Nat /\ T # {}
  OBVIOUS
<1>2. PICK m \in T : \A k \in T : m <= k
  BY <1>1, LeastNat
<1>3. PICK f \in S : r[f] = m
  BY <1>2
<1>4. \A g \in S : r[f] <= r[g]
  BY <1>2, <1>3
<1> QED BY <1>4 DEF Oldest

-----------------------------------------------------------------------------
(* What the sum of the sizes of a set of files is.                           *)
Pick(s) == CHOOSE x \in s : TRUE
Rec(g, s) == IF s = {} THEN 0 ELSE Size[Pick(s)] + g[s \ {Pick(s)}]
Sum(S) == CHOOSE g : g = [s \in SUBSET S |-> Rec(g, s)]

LEMMA BytesIsSum ==
  ASSUME NEW S
  PROVE  Bytes(S) = Sum(S)[S]
  BY Zenon DEF Bytes, MapThenSumSet, MapThenFoldSet, Sum, Pick, Rec

LEMMA SubsetsOfFiles ==
  ASSUME NEW S \in SUBSET File
  PROVE  /\ IsFiniteSet(S) /\ Cardinality(S) \in Nat
         /\ Cardinality(S) = 0 <=> S = {}
         /\ \A x \in S : Cardinality(S \ {x}) = Cardinality(S) - 1
         /\ S # {} => Pick(S) \in S
<1>1. IsFiniteSet(S)
  BY FS_Subset, CacheAssumption
<1>2. S # {} => Pick(S) \in S
  BY DEF Pick
<1> QED BY <1>1, <1>2, FS_CardinalityType, FS_EmptySet, FS_RemoveElement

Upto(n, S) == {s \in SUBSET S : Cardinality(s) <= n}

(* The recursion has a solution: it is built up by the number of files.      *)
LEMMA SumExists ==
  ASSUME NEW S \in SUBSET File
  PROVE  \E g : g = [s \in SUBSET S |-> Rec(g, s)]
<1> DEFINE T == {n \in Nat : \E g : g = [s \in Upto(n, S) |-> Rec(g, s)]}
<1>1. 0 \in T
  <2> DEFINE g == [s \in Upto(0, S) |-> 0]
  <2>1. ASSUME NEW s \in Upto(0, S) PROVE s = {}
    BY SubsetsOfFiles DEF Upto
  <2>2. ASSUME NEW s \in Upto(0, S) PROVE g[s] = Rec(g, s)
    BY <2>1 DEF Rec
  <2>3. g = [s \in Upto(0, S) |-> Rec(g, s)]
    BY <2>2
  <2> QED BY <2>3
<1>2. ASSUME NEW n \in T PROVE n + 1 \in T
  <2>1. PICK g : g = [s \in Upto(n, S) |-> Rec(g, s)]
    OBVIOUS
  <2> DEFINE h == [s \in Upto(n + 1, S) |-> Rec(g, s)]
  <2>2. ASSUME NEW s \in Upto(n, S) PROVE s \in Upto(n + 1, S) /\ h[s] = g[s]
    <3>1. s \in Upto(n + 1, S)
      BY SubsetsOfFiles DEF Upto
    <3> QED BY <2>1, <3>1
  <2>3. ASSUME NEW s \in Upto(n + 1, S) PROVE h[s] = Rec(h, s)
    <3>1. CASE s = {}
      BY <3>1 DEF Rec
    <3>2. CASE s # {}
      <4>1. s \in SUBSET File /\ Cardinality(s) <= n + 1 /\ s \in SUBSET S
        BY DEF Upto
      <4>2. s \ {Pick(s)} \in Upto(n, S)
        BY <3>2, <4>1, SubsetsOfFiles DEF Upto
      <4> QED BY <2>2, <3>2, <4>2 DEF Rec
    <3> QED BY <3>1, <3>2
  <2>4. h = [s \in Upto(n + 1, S) |-> Rec(h, s)]
    BY <2>3
  <2> HIDE DEF h
  <2>5. \E k : k = [s \in Upto(n + 1, S) |-> Rec(k, s)]
    BY <2>4
  <2>6. n + 1 \in Nat
    OBVIOUS
  <2> QED BY <2>5, <2>6
<1>3. Cardinality(S) \in T
  <2> HIDE DEF T
  <2>1. T \in SUBSET Nat
    BY DEF T
  <2>2. T = Nat
    BY <1>1, <1>2, <2>1, AllNat
  <2> QED BY <2>2, SubsetsOfFiles
<1>4. Upto(Cardinality(S), S) = SUBSET S
  BY SubsetsOfFiles, FS_Subset DEF Upto
<1> QED BY <1>3, <1>4

LEMMA SumIs ==
  ASSUME NEW S \in SUBSET File
  PROVE  Sum(S) = [s \in SUBSET S |-> Rec(Sum(S), s)]
<1>1. PICK g : g = [s \in SUBSET S |-> Rec(g, s)]
  BY SumExists
<1> QED BY <1>1, Zenon DEF Sum

LEMMA SumAt ==
  ASSUME NEW S \in SUBSET File, NEW s \in SUBSET S
  PROVE  Sum(S)[s] = Rec(Sum(S), s)
<1> DEFINE g == Sum(S)
<1>1. g = [x \in SUBSET S |-> Rec(g, x)]
  BY SumIs
<1> HIDE DEF g
<1>2. g[s] = Rec(g, s)
  BY <1>1
<1> QED BY <1>2 DEF g

(* The sums over two sets agree on what the sets share. *)
LEMMA SumsAgree ==
  ASSUME NEW S \in SUBSET File, NEW R \in SUBSET S
  PROVE  \A s \in SUBSET R : Sum(S)[s] = Sum(R)[s]
<1> DEFINE T == {n \in Nat : \A s \in SUBSET R : Cardinality(s) = n => Sum(S)[s] = Sum(R)[s]}
<1>1. 0 \in T
  <2>1. ASSUME NEW s \in SUBSET R, Cardinality(s) = 0 PROVE Sum(S)[s] = Sum(R)[s]
    <3>1. s = {} /\ s \in SUBSET S /\ R \in SUBSET File
      BY <2>1, SubsetsOfFiles
    <3> QED BY <3>1, SumAt DEF Rec
  <2> QED BY <2>1
<1>2. ASSUME NEW n \in T PROVE n + 1 \in T
  <2>1. ASSUME NEW s \in SUBSET R, Cardinality(s) = n + 1
        PROVE  Sum(S)[s] = Sum(R)[s]
    <3> DEFINE u == s \ {Pick(s)}
    <3>1. s # {} /\ u \in SUBSET R /\ Cardinality(u) = n
      BY <2>1, SubsetsOfFiles
    <3>2. Sum(S)[u] = Sum(R)[u]
      BY <3>1
    <3>3. /\ Sum(S)[s] = Size[Pick(s)] + Sum(S)[u]
          /\ Sum(R)[s] = Size[Pick(s)] + Sum(R)[u]
      BY <3>1, SumAt DEF Rec
    <3> QED BY <3>2, <3>3
  <2> QED BY <2>1
<1>3. T = Nat
  <2> HIDE DEF T
  <2>1. T \in SUBSET Nat
    BY DEF T
  <2> QED BY <1>1, <1>2, <2>1, AllNat
<1> QED BY <1>3, SubsetsOfFiles

(* The recursion of the sum, for the one file it picks ...                   *)
LEMMA BytesPicked ==
  ASSUME NEW S \in SUBSET File
  PROVE  Bytes(S) = IF S = {} THEN 0 ELSE Size[Pick(S)] + Bytes(S \ {Pick(S)})
<1>1. Bytes(S) = Rec(Sum(S), S)
  BY BytesIsSum, SumAt
<1>2. CASE S = {}
  BY <1>1, <1>2 DEF Rec
<1>3. CASE S # {}
  <2> DEFINE R == S \ {Pick(S)}
  <2>1. Sum(S)[R] = Sum(R)[R]
    BY SumsAgree
  <2>2. Sum(R)[R] = Bytes(R)
    BY BytesIsSum
  <2> QED BY <1>1, <1>3, <2>1, <2>2 DEF Rec
<1> QED BY <1>2, <1>3

LEMMA BytesType ==
  ASSUME NEW S \in SUBSET File
  PROVE  Bytes(S) \in Nat
<1> DEFINE T == {n \in Nat : \A s \in SUBSET File : Cardinality(s) = n => Bytes(s) \in Nat}
<1>1. 0 \in T
  <2>1. ASSUME NEW s \in SUBSET File, Cardinality(s) = 0 PROVE Bytes(s) \in Nat
    <3>1. s = {}
      BY <2>1, SubsetsOfFiles
    <3>2. Bytes(s) = 0
      BY <3>1, BytesPicked
    <3> QED BY <3>2
  <2> QED BY <2>1
<1>2. ASSUME NEW n \in T PROVE n + 1 \in T
  <2>1. ASSUME NEW s \in SUBSET File, Cardinality(s) = n + 1
        PROVE  Bytes(s) \in Nat
    <3> DEFINE u == s \ {Pick(s)}
    <3>1. s # {} /\ u \in SUBSET File /\ Cardinality(u) = n /\ Pick(s) \in File
      BY <2>1, SubsetsOfFiles
    <3>2. Bytes(u) \in Nat /\ Size[Pick(s)] \in Nat
      BY <3>1, CacheAssumption
    <3>3. Bytes(s) = Size[Pick(s)] + Bytes(u)
      BY <3>1, BytesPicked
    <3> QED BY <3>2, <3>3
  <2> QED BY <2>1
<1>3. T = Nat
  <2> HIDE DEF T
  <2>1. T \in SUBSET Nat
    BY DEF T
  <2> QED BY <1>1, <1>2, <2>1, AllNat
<1> QED BY <1>3, SubsetsOfFiles

(* ... and for any. *)
LEMMA BytesWithout ==
  ASSUME NEW S \in SUBSET File, NEW y \in S
  PROVE  Bytes(S) = Size[y] + Bytes(S \ {y})
<1> DEFINE T == {n \in Nat : \A s \in SUBSET File :
                    Cardinality(s) = n => \A x \in s : Bytes(s) = Size[x] + Bytes(s \ {x})}
<1>1. 0 \in T
  <2>1. ASSUME NEW s \in SUBSET File, Cardinality(s) = 0 PROVE s = {}
    BY <2>1, SubsetsOfFiles
  <2> QED BY <2>1
<1>2. ASSUME NEW n \in T PROVE n + 1 \in T
  <2>1. ASSUME NEW s \in SUBSET File, Cardinality(s) = n + 1, NEW x \in s
        PROVE  Bytes(s) = Size[x] + Bytes(s \ {x})
    <3> DEFINE p == Pick(s)
    <3>1. p \in s /\ Bytes(s) = Size[p] + Bytes(s \ {p})
      BY SubsetsOfFiles, BytesPicked
    <3>2. CASE x = p
      BY <3>1, <3>2
    <3>3. CASE x # p
      <4>1. /\ Cardinality(s \ {p}) = n /\ Cardinality(s \ {x}) = n
            /\ x \in s \ {p} /\ p \in s \ {x}
        BY <2>1, <3>1, <3>3, SubsetsOfFiles
      <4>2. /\ Bytes(s \ {p}) = Size[x] + Bytes((s \ {p}) \ {x})
            /\ Bytes(s \ {x}) = Size[p] + Bytes((s \ {x}) \ {p})
        BY <4>1
      <4>3. (s \ {p}) \ {x} = (s \ {x}) \ {p}
        OBVIOUS
      <4>4. /\ Bytes((s \ {x}) \ {p}) \in Nat /\ Size[x] \in Nat /\ Size[p] \in Nat
        BY <3>1, BytesType, CacheAssumption
      <4>5. Bytes((s \ {p}) \ {x}) = Bytes((s \ {x}) \ {p})
        BY <4>3
      <4> DEFINE b == Bytes((s \ {x}) \ {p})
      <4>6. /\ Bytes(s) = Size[p] + (Size[x] + b)
            /\ Size[x] + Bytes(s \ {x}) = Size[x] + (Size[p] + b)
        BY <3>1, <4>2, <4>5
      <4>7. b \in Nat
        BY <4>4
      <4> HIDE DEF b, p
      <4> QED BY <4>4, <4>6, <4>7
    <3> QED BY <3>2, <3>3
  <2> QED BY <2>1
<1>3. T = Nat
  <2> HIDE DEF T
  <2>1. T \in SUBSET Nat
    BY DEF T
  <2> QED BY <1>1, <1>2, <2>1, AllNat
<1> QED BY <1>3, SubsetsOfFiles

(* Fewer files, fewer bytes. *)
LEMMA BytesMonotone ==
  ASSUME NEW S \in SUBSET File, NEW R \in SUBSET S
  PROVE  Bytes(R) <= Bytes(S)
<1> DEFINE T == {n \in Nat : \A s \in SUBSET File :
                    Cardinality(s) = n => \A u \in SUBSET s : Bytes(u) <= Bytes(s)}
<1>1. 0 \in T
  <2>1. ASSUME NEW s \in SUBSET File, Cardinality(s) = 0, NEW u \in SUBSET s
        PROVE  Bytes(u) <= Bytes(s)
    <3>1. s = {} /\ u = s
      BY <2>1, SubsetsOfFiles
    <3> QED BY <3>1, BytesType
  <2> QED BY <2>1
<1>2. ASSUME NEW n \in T PROVE n + 1 \in T
  <2>1. ASSUME NEW s \in SUBSET File, Cardinality(s) = n + 1, NEW u \in SUBSET s
        PROVE  Bytes(u) <= Bytes(s)
    <3>1. CASE u = s
      BY <3>1, BytesType
    <3>2. CASE u # s
      <4>1. PICK y \in s : y \notin u
        BY <3>2
      <4>2. s \ {y} \in SUBSET File /\ u \in SUBSET (s \ {y}) /\ Cardinality(s \ {y}) = n
        BY <2>1, <4>1, SubsetsOfFiles
      <4>3. Bytes(u) <= Bytes(s \ {y})
        BY <4>2
      <4>4. Bytes(s) = Size[y] + Bytes(s \ {y})
        BY BytesWithout
      <4>5. Bytes(u) \in Nat /\ Bytes(s \ {y}) \in Nat /\ Size[y] \in Nat
        BY <4>2, BytesType, CacheAssumption
      <4> QED BY <4>3, <4>4, <4>5
    <3> QED BY <3>1, <3>2
  <2> QED BY <2>1
<1>3. T = Nat
  <2> HIDE DEF T
  <2>1. T \in SUBSET Nat
    BY DEF T
  <2> QED BY <1>1, <1>2, <2>1, AllNat
<1> QED BY <1>3, SubsetsOfFiles

-----------------------------------------------------------------------------
(* The cache: what an operation under way looks like. *)
Outside == {Idle} \cup [kind : {"save"}, file : File]
                  \cup [kind : {"reconcile"}, file : {Nobody}]
Trims   == [kind : {"trim"}, rows : [File -> Nat], saved : SUBSET File, limit : Limit,
            safe : SUBSET File, rest : SUBSET File]
Removes == [kind : {"remove"}, gone : SUBSET File, rest : SUBSET File]

CacheShape == CacheTypeOK /\ op \in [Thread -> Outside \cup Trims \cup Removes]

(* An operation that trims or removes is the one that holds the lock.        *)
LockIsOperation ==
  \A t \in Thread : op[t].kind \in {"trim", "remove"} <=> guard = t

(* A trim spares what was saved; until something went wrong its rows list    *)
(* the files; and it fits the limit or goes on to take all it may.           *)
TrimFits(o) ==
  /\ o.saved \subseteq o.safe /\ o.saved \subseteq OnDisk /\ o.rest \cap o.safe = {}
  /\ ~ drift => Indexed(o.rows) = OnDisk
  /\ \/ o.limit = 0
     \/ Bytes(Indexed(o.rows)) <= o.limit
     \/ Indexed(o.rows) \subseteq o.safe \cup o.rest

(* A removal has yet to unlink what is left on disk of the files it takes;   *)
(* of the others the index is right.                                         *)
RemovalFits(o) ==
  ~ drift => /\ o.rest = OnDisk \cap o.gone /\ o.rest \subseteq Indexed(rows)
             /\ OnDisk \ o.gone = Indexed(rows) \ o.gone

OperationsFit ==
  \A t \in Thread : /\ At(t, "trim") => TrimFits(op[t])
                    /\ At(t, "remove") => RemovalFits(op[t])

(* Also while files are removed the disk stays within the last trim's limit. *)
NoTrim == guard = Nobody \/ \E t \in Thread : guard = t /\ At(t, "remove")
SettledFits ==
  NoTrim /\ ~ drift /\ settled > 0 => Bytes(OnDisk) <= settled \/ OnDisk \subseteq kept

CacheInv == CacheShape /\ LockIsOperation /\ OperationsFit /\ IndexMatchesDisk /\ SettledFits

-----------------------------------------------------------------------------
(* What a new trim is. *)
LEMMA TrimBegins ==
  ASSUME NEW r \in [File -> Nat], NEW m \in Limit, NEW saved \in SUBSET File
  PROVE  /\ Trim(r, m, saved) \in Trims /\ Trim(r, m, saved).kind = "trim"
         /\ Trim(r, m, saved).rows = r /\ Trim(r, m, saved).saved = saved
         /\ saved \subseteq Trim(r, m, saved).safe
         /\ Trim(r, m, saved).rest \cap Trim(r, m, saved).safe = {}
         /\ \/ Trim(r, m, saved).limit = 0
            \/ Bytes(Indexed(r)) <= Trim(r, m, saved).limit
            \/ Indexed(r) \subseteq Trim(r, m, saved).safe \cup Trim(r, m, saved).rest
<1> DEFINE safe == saved \cup Newest(r)
           over == m > 0 /\ Bytes(Indexed(r)) > m
           rest == IF over THEN Indexed(r) \ safe ELSE {}
<1>1. Trim(r, m, saved) = [kind |-> "trim", rows |-> r, saved |-> saved, limit |-> m,
                           safe |-> safe, rest |-> rest]
  BY DEF Trim
<1>2. Newest(r) \in SUBSET File /\ Indexed(r) \in SUBSET File
  BY DEF Newest, Indexed
<1>3. rest \in SUBSET File /\ safe \in SUBSET File /\ rest \cap safe = {}
  BY <1>2
<1>4. m \in Nat /\ Bytes(Indexed(r)) \in Nat
  BY <1>2, BytesType, CacheAssumption
<1>5. m = 0 \/ Bytes(Indexed(r)) <= m \/ Indexed(r) \subseteq safe \cup rest
  BY <1>4
<1>6. saved \subseteq safe
  OBVIOUS
<1> HIDE DEF safe, rest
<1> QED BY <1>1, <1>3, <1>5, <1>6 DEF Trims

(* The watermark a trim aims at is within the limit. *)
LEMMA TargetWithin ==
  ASSUME NEW m \in Nat
  PROVE  Target(m) \in Nat /\ Target(m) <= m
  BY DEF Target

(* A step of the thread that has, takes or releases the lock. *)
LEMMA UnderLock ==
  ASSUME CacheInv, NEW t \in Thread, NEW o \in Outside \cup Trims \cup Removes,
         guard \in {Nobody, t}, guard' \in {Nobody, t}, op' = [op EXCEPT ![t] = o],
         guard' = t <=> o.kind \in {"trim", "remove"},
         o.kind = "trim" => TrimFits(o)', o.kind = "remove" => RemovalFits(o)',
         CacheTypeOK', IndexMatchesDisk', SettledFits'
  PROVE  CacheInv'
<1>1. op' \in [Thread -> Outside \cup Trims \cup Removes] /\ op'[t] = o
  BY DEF CacheInv, CacheShape
<1>2. ASSUME NEW u \in Thread, u # t
      PROVE  op'[u] = op[u] /\ op'[u].kind \notin {"trim", "remove"} /\ guard' # u
  <2>1. op'[u] = op[u]
    BY <1>2 DEF CacheInv, CacheShape
  <2>2. u # Nobody /\ guard # u /\ guard' # u
    BY <1>2, CacheAssumption
  <2> QED BY <2>1, <2>2 DEF CacheInv, LockIsOperation
<1>3. LockIsOperation'
  BY <1>1, <1>2 DEF LockIsOperation
<1>4. OperationsFit'
  BY <1>1, <1>2 DEF OperationsFit, At
<1> QED BY <1>1, <1>3, <1>4 DEF CacheInv, CacheShape

(* A step outside the lock takes no file away and leaves the rows alone.     *)
QuietStep ==
  /\ \/ op' = op
     \/ \E t \in Thread, o \in Outside : /\ op[t].kind \notin {"trim", "remove"}
                                         /\ op' = [op EXCEPT ![t] = o]
  /\ UNCHANGED <<rows, guard, settled, kept>>
  /\ \/ UNCHANGED <<disk, drift>>
     \/ drift' /\ OnDisk \subseteq OnDisk'

LEMMA QuietKeeps ==
  ASSUME CacheInv, QuietStep, CacheTypeOK'
  PROVE  CacheInv'
<1>1. /\ op' \in [Thread -> Outside \cup Trims \cup Removes]
      /\ \A u \in Thread : \/ op'[u] = op[u]
                           \/ /\ op'[u].kind \notin {"trim", "remove"}
                              /\ op[u].kind \notin {"trim", "remove"}
  <2>1. CASE op' = op
    BY <2>1 DEF CacheInv, CacheShape
  <2>2. ASSUME NEW t \in Thread, NEW o \in Outside, op[t].kind \notin {"trim", "remove"},
               op' = [op EXCEPT ![t] = o]
        PROVE  <1>1!:
    <3>1. o.kind \notin {"trim", "remove"}
      BY DEF Outside, Idle
    <3> QED BY <2>2, <3>1 DEF CacheInv, CacheShape
  <2> QED BY <2>1, <2>2 DEF QuietStep
<1>2. LockIsOperation'
  BY <1>1 DEF LockIsOperation, CacheInv, QuietStep
<1>3. OnDisk \subseteq OnDisk' /\ (drift' \/ (OnDisk' = OnDisk /\ ~ drift))
  BY DEF QuietStep, OnDisk
<1>4. ASSUME NEW u \in Thread
      PROVE  (At(u, "trim") => TrimFits(op[u]))' /\ (At(u, "remove") => RemovalFits(op[u]))'
  <2>1. CASE op'[u].kind \notin {"trim", "remove"}
    BY <2>1 DEF At
  <2>2. CASE op'[u] = op[u]
    <3>1. (At(u, "trim") => TrimFits(op[u])) /\ (At(u, "remove") => RemovalFits(op[u]))
      BY DEF CacheInv, OperationsFit
    <3>2. ASSUME At(u, "trim") PROVE TrimFits(op[u])'
      BY <1>3, <2>2, <3>1, <3>2 DEF TrimFits
    <3>3. ASSUME At(u, "remove") PROVE RemovalFits(op[u])'
      BY <1>3, <2>2, <3>1, <3>3 DEF RemovalFits, QuietStep
    <3> QED BY <2>2, <3>2, <3>3 DEF At
  <2> QED BY <1>1, <2>1, <2>2
<1>5. OperationsFit'
  BY <1>4 DEF OperationsFit
<1>6. IndexMatchesDisk'
  BY <1>3 DEF IndexMatchesDisk, CacheInv, QuietStep
<1>7. NoTrim' => NoTrim
  BY <1>1 DEF NoTrim, At, QuietStep
<1>8. SettledFits'
  BY <1>3, <1>7 DEF SettledFits, CacheInv, QuietStep
<1> QED BY <1>1, <1>2, <1>5, <1>6, <1>8 DEF CacheInv, CacheShape

-----------------------------------------------------------------------------
(* The actions outside the lock *)
CalmAction(t) ==
  \/ \E f \in File : AsksToSave(t, f) \/ SavesUncounted(t, f)
  \/ SaveFails(t)
  \/ Reconciles(t) /\ guard' = guard
  \/ \E m \in Limit : SavesLimit(t, m)

LEMMA WrittenFile ==
  ASSUME CacheTypeOK, NEW f \in File, Writes(f)
  PROVE  /\ disk' \in [File -> Nat] /\ clock' \in Nat /\ disk'[f] > 0
         /\ OnDisk' = OnDisk \cup {f}
<1>1. /\ disk' = [disk EXCEPT ![f] = clock + 1] /\ clock' = clock + 1
      /\ clock \in Nat /\ disk \in [File -> Nat]
  BY DEF Writes, CacheTypeOK
<1>2. disk'[f] = clock + 1 /\ \A g \in File : g # f => disk'[g] = disk[g]
  BY <1>1
<1>3. \A g \in File : disk'[g] > 0 <=> g = f \/ disk[g] > 0
  BY <1>1, <1>2
<1> QED BY <1>1, <1>2, <1>3 DEF OnDisk

LEMMA CalmIsQuiet ==
  ASSUME CacheInv, NEW t \in Thread, CalmAction(t)
  PROVE  QuietStep /\ CacheTypeOK'
<1>1. CacheTypeOK /\ op \in [Thread -> Outside \cup Trims \cup Removes]
  BY DEF CacheInv, CacheShape
<1>2. op[t] = Idle => op[t].kind \notin {"trim", "remove"}
  BY DEF Idle
<1>3. Idle \in Outside /\ Waiting("reconcile", Nobody) \in Outside
      /\ \A f \in File : Waiting("save", f) \in Outside
  BY DEF Outside, Waiting
<1>4. \A o \in Outside : o.kind \in {"none", "save", "reconcile"}
  BY DEF Outside, Idle
<1>5. ASSUME NEW o \in Outside, op' = [op EXCEPT ![t] = o]
      PROVE  \A u \in Thread : op'[u].kind \in {"none", "save", "trim", "reconcile", "remove"}
  BY <1>1, <1>4, <1>5 DEF CacheTypeOK
<1>6. ASSUME NEW f \in File, AsksToSave(t, f)
      PROVE  QuietStep /\ CacheTypeOK'
  <2>1. op' = [op EXCEPT ![t] = Waiting("save", f)]
    BY <1>6 DEF AsksToSave
  <2>2. QuietStep
    BY <1>6, <1>2, <1>3, <2>1 DEF AsksToSave, QuietStep, ghosts
  <2>3. CacheTypeOK'
    BY <1>6, <1>1, <1>3, <1>5, <2>1 DEF AsksToSave, CacheTypeOK, ghosts
  <2> QED BY <2>2, <2>3
<1>7. ASSUME NEW f \in File, SavesUncounted(t, f)
      PROVE  QuietStep /\ CacheTypeOK'
  <2>1. CASE UNCHANGED <<disk, clock, drift>>
    <3>1. QuietStep
      BY <1>7, <2>1 DEF SavesUncounted, QuietStep
    <3>2. CacheTypeOK'
      BY <1>7, <1>1, <2>1 DEF SavesUncounted, CacheTypeOK
    <3> QED BY <3>1, <3>2
  <2>2. CASE Writes(f) /\ drift'
    <3>1. /\ disk' \in [File -> Nat] /\ clock' \in Nat /\ OnDisk \subseteq OnDisk'
          /\ drift' \in BOOLEAN
      BY <1>1, <1>7, <2>2, WrittenFile DEF SavesUncounted, CacheTypeOK
    <3>2. QuietStep
      BY <1>7, <2>2, <3>1 DEF SavesUncounted, QuietStep
    <3>3. CacheTypeOK'
      BY <1>7, <1>1, <3>1 DEF SavesUncounted, CacheTypeOK
    <3> QED BY <3>2, <3>3
  <2> QED BY <1>7, <2>1, <2>2 DEF SavesUncounted
<1>8. ASSUME SaveFails(t)
      PROVE  QuietStep /\ CacheTypeOK'
  <2>1. /\ op' = [op EXCEPT ![t] = Idle] /\ op[t].kind = "save"
        /\ UNCHANGED <<rows, guard, config, limit, settled, kept, upsets>>
    BY <1>8 DEF SaveFails, At
  <2>2. op[t].file \in File
    BY <1>1, <2>1 DEF Outside, Trims, Removes, Idle
  <2>3. CASE UNCHANGED <<disk, clock, drift>>
    <3>1. QuietStep
      BY <1>3, <2>1, <2>3 DEF QuietStep
    <3>2. CacheTypeOK'
      BY <1>1, <1>3, <1>5, <2>1, <2>3 DEF CacheTypeOK
    <3> QED BY <3>1, <3>2
  <2>4. CASE Writes(op[t].file) /\ drift' = TRUE
    <3>1. /\ disk' \in [File -> Nat] /\ clock' \in Nat /\ OnDisk \subseteq OnDisk'
      BY <1>1, <2>2, <2>4, WrittenFile
    <3>2. QuietStep
      BY <1>3, <2>1, <2>4, <3>1 DEF QuietStep
    <3>3. CacheTypeOK'
      BY <1>1, <1>3, <1>5, <2>1, <2>4, <3>1 DEF CacheTypeOK
    <3> QED BY <3>2, <3>3
  <2> QED BY <1>8, <2>3, <2>4 DEF SaveFails
<1>9. ASSUME Reconciles(t), guard' = guard
      PROVE  QuietStep /\ CacheTypeOK'
  <2>1. /\ op' = [op EXCEPT ![t] = Idle] /\ op[t].kind = "reconcile"
        /\ UNCHANGED <<disk, rows, config, limit, clock, settled, kept, upsets, drift>>
    BY <1>9, CacheAssumption DEF Reconciles, At
  <2>2. QuietStep
    BY <1>3, <1>9, <2>1 DEF QuietStep
  <2>3. CacheTypeOK'
    BY <1>1, <1>3, <1>5, <1>9, <2>1 DEF CacheTypeOK
  <2> QED BY <2>2, <2>3
<1>10. ASSUME NEW m \in Limit, SavesLimit(t, m)
       PROVE  QuietStep /\ CacheTypeOK'
  <2>1. /\ op' = [op EXCEPT ![t] = Waiting("reconcile", Nobody)]
        /\ limit' \in [Worker -> Limit]
    BY <1>1, <1>10 DEF SavesLimit, CacheTypeOK
  <2>2. QuietStep
    BY <1>2, <1>3, <1>10, <2>1 DEF SavesLimit, QuietStep, ghosts
  <2>3. CacheTypeOK'
    BY <1>1, <1>3, <1>5, <1>10, <2>1 DEF SavesLimit, CacheTypeOK, ghosts
  <2> QED BY <2>2, <2>3
<1> QED BY <1>6, <1>7, <1>8, <1>9, <1>10 DEF CalmAction

-----------------------------------------------------------------------------
(* The actions under the lock *)
LEMMA LockedTrim ==
  ASSUME CacheInv, NEW t \in Thread, At(t, "trim")
  PROVE  guard = t /\ op[t] \in Trims /\ TrimFits(op[t])
<1>1. op[t] \in Trims
  BY DEF CacheInv, CacheShape, At, Outside, Idle, Trims, Removes
<1> QED BY <1>1 DEF CacheInv, LockIsOperation, OperationsFit, At

LEMMA LockedRemoval ==
  ASSUME CacheInv, NEW t \in Thread, At(t, "remove")
  PROVE  guard = t /\ op[t] \in Removes /\ RemovalFits(op[t])
<1>1. op[t] \in Removes
  BY DEF CacheInv, CacheShape, At, Outside, Idle, Trims, Removes
<1> QED BY <1>1 DEF CacheInv, LockIsOperation, OperationsFit, At

(* The kinds of all operations after one has changed. *)
LEMMA KindsKept ==
  ASSUME CacheInv, NEW t \in Thread, NEW o \in Outside \cup Trims \cup Removes,
         op' = [op EXCEPT ![t] = o]
  PROVE  \A u \in Thread : op'[u].kind \in {"none", "save", "trim", "reconcile", "remove"}
<1>1. o.kind \in {"none", "save", "trim", "reconcile", "remove"}
  BY DEF Outside, Idle, Trims, Removes
<1> QED BY <1>1 DEF CacheInv, CacheShape, CacheTypeOK

(* Whoever starts or goes on with a trim answers neither for the index as a  *)
(* whole nor for the size of the disk.                                       *)
LEMMA TrimUnderway ==
  ASSUME CacheInv, NEW t \in Thread, NEW o \in Trims,
         guard \in {Nobody, t}, guard' = t, op' = [op EXCEPT ![t] = o],
         TrimFits(o)', CacheTypeOK'
  PROVE  CacheInv'
<1>1. o.kind = "trim"
  BY DEF Trims
<1>2. op'[t] = o
  BY DEF CacheInv, CacheShape
<1>3. t # Nobody
  BY CacheAssumption
<1>4. IndexMatchesDisk'
  BY <1>3 DEF IndexMatchesDisk
<1>5. ~ NoTrim'
  BY <1>1, <1>2, <1>3 DEF NoTrim, At
<1>6. SettledFits'
  BY <1>5 DEF SettledFits
<1> QED BY <1>1, <1>4, <1>6, UnderLock

LEMMA SavesKeeps ==
  ASSUME CacheInv, NEW t \in Thread, Saves(t)
  PROVE  CacheInv'
<1>1. CacheTypeOK /\ op \in [Thread -> Outside \cup Trims \cup Removes]
  BY DEF CacheInv, CacheShape
<1> DEFINE f == op[t].file
           m == limit[Home[t]]
<1>2. f \in File /\ m \in Limit
  BY <1>1, CacheAssumption DEF Saves, At, Outside, Trims, Removes, Idle, CacheTypeOK
<1>3. guard = Nobody /\ guard' = t /\ UNCHANGED <<rows, config, limit, drift, settled, kept>>
  BY DEF Saves, ghosts
<1>4. ~ drift => Indexed(rows) = OnDisk
  BY <1>3 DEF CacheInv, IndexMatchesDisk
<1>5. ASSUME NEW k \in Nat, k > 0, OnDisk' = OnDisk \cup {f},
             disk' \in [File -> Nat], clock' \in Nat,
             op' = [op EXCEPT ![t] = Trim([rows EXCEPT ![f] = k], m, {f})]
      PROVE  CacheInv'
  <2> DEFINE r == [rows EXCEPT ![f] = k]
  <2>1. r \in [File -> Nat] /\ {f} \in SUBSET File
    BY <1>1, <1>2 DEF CacheTypeOK
  <2>2. Indexed(r) = Indexed(rows) \cup {f}
    <3>1. r[f] = k /\ \A g \in File : g # f => r[g] = rows[g]
      BY <1>1, <1>2 DEF CacheTypeOK
    <3> HIDE DEF r, f
    <3> QED BY <1>2, <1>5, <3>1 DEF Indexed
  <2>3. op' = [op EXCEPT ![t] = Trim(r, m, {f})]
    BY <1>5
  <2> HIDE DEF r, f, m
  <2>4. PICK o \in Trims :
           /\ o = Trim(r, m, {f})
           /\ o.saved = {f} /\ o.saved \subseteq o.safe /\ o.rest \cap o.safe = {}
           /\ Indexed(o.rows) = Indexed(rows) \cup {f}
           /\ \/ o.limit = 0 \/ Bytes(Indexed(o.rows)) <= o.limit
              \/ Indexed(o.rows) \subseteq o.safe \cup o.rest
    BY <1>2, <2>1, <2>2, TrimBegins
  <2>5. TrimFits(o)'
    BY <1>3, <1>4, <1>5, <2>4 DEF TrimFits
  <2>6. CacheTypeOK'
    BY <1>1, <1>3, <1>5, <2>3, <2>4, KindsKept DEF CacheTypeOK
  <2> QED BY <1>3, <2>3, <2>4, <2>5, <2>6, TrimUnderway
<1>6. CASE /\ disk[f] > 0 /\ UNCHANGED <<disk, clock>>
           /\ op' = [op EXCEPT ![t] = Trim([rows EXCEPT ![f] = Upserted(f)], m, {f})]
  <2>1. Upserted(f) \in Nat /\ Upserted(f) > 0
    BY <1>1, <1>2, <1>6 DEF Upserted, CacheTypeOK
  <2>2. OnDisk' = OnDisk \cup {f}
    BY <1>2, <1>6 DEF OnDisk
  <2>3. disk' \in [File -> Nat] /\ clock' \in Nat
    BY <1>1, <1>6 DEF CacheTypeOK
  <2> HIDE DEF f, m
  <2> QED BY <1>5, <1>6, <2>1, <2>2, <2>3
<1>7. CASE /\ disk[f] = 0 /\ Writes(f)
           /\ op' = [op EXCEPT ![t] = Trim([rows EXCEPT ![f] = clock + 1], m, {f})]
  <2>1. disk' \in [File -> Nat] /\ clock' \in Nat /\ OnDisk' = OnDisk \cup {f}
    BY <1>1, <1>2, <1>7, WrittenFile
  <2> DEFINE k == clock + 1
  <2>2. k \in Nat /\ k > 0
    BY <1>1 DEF CacheTypeOK
  <2>3. op' = [op EXCEPT ![t] = Trim([rows EXCEPT ![f] = k], m, {f})]
    BY <1>7
  <2> HIDE DEF f, m, k
  <2> QED BY <1>5, <2>1, <2>2, <2>3
<1> QED BY <1>6, <1>7 DEF Saves

LEMMA RebuildKeeps ==
  ASSUME CacheInv, NEW t \in Thread, Reconciles(t), guard' # guard
  PROVE  CacheInv'
<1>1. CacheTypeOK /\ limit[Home[t]] \in Limit
  BY CacheAssumption DEF CacheInv, CacheShape, CacheTypeOK
<1> DEFINE m == limit[Home[t]]
<1>2. /\ guard = Nobody /\ guard' = t /\ op' = [op EXCEPT ![t] = Trim(disk, m, {})]
      /\ drift' = FALSE
      /\ UNCHANGED <<disk, rows, config, limit, clock, settled, kept>>
  BY DEF Reconciles
<1>3. disk \in [File -> Nat] /\ {} \in SUBSET File /\ Indexed(disk) = OnDisk
  BY <1>1 DEF CacheTypeOK, Indexed, OnDisk
<1> HIDE DEF m
<1>4. m \in Limit
  BY <1>1 DEF m
<1>5. PICK o \in Trims :
        /\ o = Trim(disk, m, {})
        /\ o.saved = {} /\ o.saved \subseteq o.safe /\ o.rest \cap o.safe = {}
        /\ Indexed(o.rows) = OnDisk
        /\ \/ o.limit = 0 \/ Bytes(Indexed(o.rows)) <= o.limit
           \/ Indexed(o.rows) \subseteq o.safe \cup o.rest
  BY <1>3, <1>4, TrimBegins
<1>6. OnDisk' = OnDisk
  BY <1>2 DEF OnDisk
<1>7. TrimFits(o)'
  BY <1>5, <1>6 DEF TrimFits
<1>8. CacheTypeOK'
  BY <1>1, <1>2, <1>5, KindsKept DEF CacheTypeOK
<1> QED BY <1>2, <1>5, <1>7, <1>8, TrimUnderway

LEMMA EvictionKeeps ==
  ASSUME CacheInv, NEW t \in Thread, Evicts(t) \/ EvictFails(t)
  PROVE  CacheInv'
<1>1. At(t, "trim") /\ op[t].rest # {}
  BY DEF Evicts, EvictFails, Trimming
<1>2. guard = t /\ op[t] \in Trims /\ TrimFits(op[t]) /\ CacheTypeOK
  BY <1>1, LockedTrim DEF CacheInv, CacheShape
<1> DEFINE f == Oldest(op[t].rest, op[t].rows)
<1>3. /\ f \in op[t].rest /\ f \in File /\ op[t].rest \in SUBSET File
      /\ op[t].rows \in [File -> Nat] /\ op[t].safe \in SUBSET File
  <2>1. op[t].rest \in SUBSET File /\ op[t].rows \in [File -> Nat] /\ op[t].safe \in SUBSET File
    BY <1>2 DEF Trims
  <2> QED BY <1>1, <2>1, OldestIsOne
<1> HIDE DEF f
<1>4. UNCHANGED <<rows, guard, config, limit, clock, drift, settled, kept>>
  BY DEF Evicts, EvictFails, ghosts
<1>5. op \in [Thread -> Outside \cup Trims \cup Removes]
  BY DEF CacheInv, CacheShape
<1>6. CASE Evicts(t)
  <2>1. /\ disk' = [disk EXCEPT ![f] = 0]
        /\ op' = [op EXCEPT ![t] = [op[t] EXCEPT !.rest = @ \ {f}, !.rows = [@ EXCEPT ![f] = 0]]]
    BY <1>2, <1>5, <1>6 DEF Evicts, f, Evicted, Trims
  <2>2. PICK o \in Trims :
          /\ op' = [op EXCEPT ![t] = o]
          /\ o.rest = op[t].rest \ {f} /\ o.rows = [op[t].rows EXCEPT ![f] = 0]
          /\ o.saved = op[t].saved /\ o.limit = op[t].limit /\ o.safe = op[t].safe
    <3> DEFINE q == [op[t] EXCEPT !.rest = @ \ {f}, !.rows = [@ EXCEPT ![f] = 0]]
    <3>1. [op[t].rows EXCEPT ![f] = 0] \in [File -> Nat] /\ op[t].rest \ {f} \in SUBSET File
      BY <1>3
    <3>2. /\ q \in Trims
          /\ q.rest = op[t].rest \ {f} /\ q.rows = [op[t].rows EXCEPT ![f] = 0]
          /\ q.saved = op[t].saved /\ q.limit = op[t].limit /\ q.safe = op[t].safe
      BY <1>2, <3>1 DEF Trims
    <3>3. op' = [op EXCEPT ![t] = q]
      BY <2>1
    <3> HIDE DEF q
    <3> QED BY <3>2, <3>3
  <2>3. OnDisk' = OnDisk \ {f} /\ disk' \in [File -> Nat]
    <3>1. disk \in [File -> Nat]
      BY <1>2 DEF CacheTypeOK
    <3>2. disk' \in [File -> Nat] /\ disk'[f] = 0
          /\ \A g \in File : g # f => disk'[g] = disk[g]
      BY <1>3, <2>1, <3>1
    <3>3. \A g \in File : disk'[g] > 0 <=> disk[g] > 0 /\ g # f
      BY <3>2
    <3> QED BY <3>2, <3>3 DEF OnDisk
  <2>4. Indexed(o.rows) = Indexed(op[t].rows) \ {f}
    <3>1. o.rows[f] = 0 /\ \A g \in File : g # f => o.rows[g] = op[t].rows[g]
      BY <1>3, <2>2
    <3> QED BY <3>1 DEF Indexed
  <2>5. \/ o.limit = 0 \/ Bytes(Indexed(o.rows)) <= o.limit
        \/ Indexed(o.rows) \subseteq o.safe \cup o.rest
    <3>1. CASE Bytes(Indexed(op[t].rows)) <= op[t].limit
      <4>1. /\ Indexed(op[t].rows) \in SUBSET File
            /\ Indexed(o.rows) \in SUBSET Indexed(op[t].rows)
        BY <2>4 DEF Indexed
      <4>2. Bytes(Indexed(o.rows)) <= Bytes(Indexed(op[t].rows))
        BY <4>1, BytesMonotone
      <4>3. /\ Bytes(Indexed(o.rows)) \in Nat /\ Bytes(Indexed(op[t].rows)) \in Nat
            /\ o.limit \in Nat
        BY <4>1, BytesType, CacheAssumption DEF Trims
      <4> QED BY <2>2, <3>1, <4>2, <4>3
    <3> QED BY <1>2, <2>2, <2>4, <3>1 DEF TrimFits
  <2>6. f \notin op[t].safe /\ f \notin op[t].saved
    BY <1>2, <1>3 DEF TrimFits
  <2>7. TrimFits(o)'
    BY <1>2, <1>4, <2>2, <2>3, <2>4, <2>5, <2>6 DEF TrimFits
  <2>8. CacheTypeOK'
    BY <1>2, <1>4, <2>2, <2>3, KindsKept DEF CacheTypeOK
  <2> QED BY <1>2, <1>4, <2>2, <2>7, <2>8, TrimUnderway
<1>7. CASE EvictFails(t)
  <2>1. /\ disk' = disk
        /\ op' = [op EXCEPT ![t] = [op[t] EXCEPT !.rest = @ \ {f}, !.safe = @ \cup {f}]]
    BY <1>2, <1>5, <1>7 DEF EvictFails, f, Trims
  <2>2. PICK o \in Trims :
          /\ op' = [op EXCEPT ![t] = o]
          /\ o.rest = op[t].rest \ {f} /\ o.safe = op[t].safe \cup {f}
          /\ o.saved = op[t].saved /\ o.limit = op[t].limit /\ o.rows = op[t].rows
    <3> DEFINE q == [op[t] EXCEPT !.rest = @ \ {f}, !.safe = @ \cup {f}]
    <3>1. op[t].safe \cup {f} \in SUBSET File /\ op[t].rest \ {f} \in SUBSET File
      BY <1>3
    <3>2. /\ q \in Trims
          /\ q.rest = op[t].rest \ {f} /\ q.safe = op[t].safe \cup {f}
          /\ q.saved = op[t].saved /\ q.limit = op[t].limit /\ q.rows = op[t].rows
      BY <1>2, <3>1 DEF Trims
    <3>3. op' = [op EXCEPT ![t] = q]
      BY <2>1
    <3> HIDE DEF q
    <3> QED BY <3>2, <3>3
  <2>3. OnDisk' = OnDisk
    BY <2>1 DEF OnDisk
  <2>4. TrimFits(o)'
    BY <1>2, <1>3, <1>4, <2>2, <2>3 DEF TrimFits
  <2>5. CacheTypeOK'
    BY <1>2, <1>4, <2>1, <2>2, KindsKept DEF CacheTypeOK
  <2> QED BY <1>2, <1>4, <2>2, <2>4, <2>5, TrimUnderway
<1> QED BY <1>6, <1>7

LEMMA CommitKeeps ==
  ASSUME CacheInv, NEW t \in Thread, Commits(t)
  PROVE  CacheInv'
<1>1. guard = t /\ op[t] \in Trims /\ TrimFits(op[t]) /\ CacheTypeOK
  BY LockedTrim DEF CacheInv, CacheShape, Commits
<1>2. /\ rows' = op[t].rows /\ settled' = op[t].limit /\ kept' = op[t].safe
      /\ guard' = Nobody /\ op' = [op EXCEPT ![t] = Idle]
      /\ UNCHANGED <<disk, config, limit, clock, drift>>
      /\ ~ Trimming(t) /\ At(t, "trim")
  BY DEF Commits, Unlocked
<1>3. /\ op[t].rows \in [File -> Nat] /\ op[t].limit \in Nat /\ op[t].safe \in SUBSET File
  BY <1>1, CacheAssumption DEF Trims
<1>4. Idle \in Outside /\ Idle.kind = "none"
  BY DEF Outside, Idle
<1>5. OnDisk' = OnDisk
  BY <1>2 DEF OnDisk
<1>6. ~ drift' => Indexed(rows)' = OnDisk'
  BY <1>1, <1>2, <1>5 DEF TrimFits, Indexed
<1>7. IndexMatchesDisk'
  BY <1>6 DEF IndexMatchesDisk
<1>8. SettledFits'
  <2> SUFFICES ASSUME ~ drift, settled' > 0
               PROVE  Bytes(OnDisk) <= settled' \/ OnDisk \subseteq kept'
    BY <1>2, <1>5 DEF SettledFits
  <2>1. Indexed(op[t].rows) = OnDisk /\ op[t].limit # 0
    BY <1>1, <1>2, <1>3 DEF TrimFits
  <2>2. Bytes(OnDisk) <= Target(op[t].limit) \/ op[t].rest = {}
    <3>1. Bytes(OnDisk) \in Nat /\ Target(op[t].limit) \in Nat
      BY <1>3, BytesType, TargetWithin DEF OnDisk
    <3> QED BY <1>2, <2>1, <3>1 DEF Trimming
  <2>3. CASE Bytes(OnDisk) <= Target(op[t].limit)
    <3>1. Bytes(OnDisk) \in Nat /\ Target(op[t].limit) \in Nat /\ Target(op[t].limit) <= op[t].limit
      BY <1>3, BytesType, TargetWithin DEF OnDisk
    <3> QED BY <1>2, <1>3, <2>3, <3>1
  <2>4. CASE op[t].rest = {}
    BY <1>1, <1>2, <2>1, <2>4 DEF TrimFits
  <2> QED BY <2>2, <2>3, <2>4
<1>9. CacheTypeOK'
  BY <1>1, <1>2, <1>3, <1>4, KindsKept DEF CacheTypeOK
<1>10. t # Nobody
  BY CacheAssumption
<1> QED BY <1>1, <1>2, <1>4, <1>7, <1>8, <1>9, <1>10, UnderLock

(* Whoever starts or goes on with a removal answers for the size of the disk. *)
LEMMA RemovalUnderway ==
  ASSUME CacheInv, NEW t \in Thread, NEW o \in Removes,
         guard \in {Nobody, t}, guard' = t, op' = [op EXCEPT ![t] = o],
         RemovalFits(o)', CacheTypeOK', SettledFits'
  PROVE  CacheInv'
<1>1. o.kind = "remove" /\ t # Nobody
  BY CacheAssumption DEF Removes
<1>2. IndexMatchesDisk'
  BY <1>1 DEF IndexMatchesDisk
<1> QED BY <1>1, <1>2, UnderLock

LEMMA RemovalBeginsKeeps ==
  ASSUME CacheInv, NEW t \in Thread, RemovalBegins(t)
  PROVE  CacheInv'
<1>1. /\ guard = Nobody /\ guard' = t
      /\ UNCHANGED <<disk, rows, config, limit, clock, drift, settled, kept>>
  BY DEF RemovalBegins, ghosts
<1>2. PICK gone \in {File} \cup {{f} : f \in File} :
        op' = [op EXCEPT ![t] = [kind |-> "remove", gone |-> gone, rest |-> gone \cap OnDisk]]
  BY DEF RemovalBegins
<1>3. PICK o \in Removes : /\ op' = [op EXCEPT ![t] = o]
                           /\ o.gone = gone /\ o.rest = gone \cap OnDisk
  <2>1. gone \in SUBSET File
    BY <1>2
  <2> DEFINE q == [kind |-> "remove", gone |-> gone, rest |-> gone \cap OnDisk]
  <2>2. q \in Removes /\ q.gone = gone /\ q.rest = gone \cap OnDisk
    BY <2>1 DEF Removes
  <2>3. op' = [op EXCEPT ![t] = q]
    BY <1>2
  <2> HIDE DEF q
  <2> QED BY <2>2, <2>3
<1>4. OnDisk' = OnDisk
  BY <1>1 DEF OnDisk
<1>5. ~ drift => Indexed(rows) = OnDisk
  BY <1>1 DEF CacheInv, IndexMatchesDisk
<1>6. RemovalFits(o)'
  BY <1>1, <1>3, <1>4, <1>5 DEF RemovalFits
<1>7. NoTrim
  BY <1>1 DEF NoTrim
<1>8. SettledFits'
  BY <1>1, <1>4, <1>7 DEF SettledFits, CacheInv
<1>9. CacheTypeOK'
  BY <1>1, <1>3, KindsKept DEF CacheInv, CacheShape, CacheTypeOK
<1> QED BY <1>1, <1>3, <1>6, <1>8, <1>9, RemovalUnderway

LEMMA UnlinksKeeps ==
  ASSUME CacheInv, NEW t \in Thread, Unlinks(t)
  PROVE  CacheInv'
<1>1. At(t, "remove") /\ UNCHANGED <<rows, guard, config, limit, clock, drift, settled, kept>>
  BY DEF Unlinks, ghosts
<1>2. guard = t /\ op[t] \in Removes /\ RemovalFits(op[t]) /\ CacheTypeOK
  BY <1>1, LockedRemoval DEF CacheInv, CacheShape
<1>3. op \in [Thread -> Outside \cup Trims \cup Removes]
  BY DEF CacheInv, CacheShape
<1>4. PICK f \in op[t].rest : /\ disk' = [disk EXCEPT ![f] = 0]
                              /\ op' = [op EXCEPT ![t].rest = @ \ {f}]
  BY DEF Unlinks
<1>5. f \in File /\ op[t].rest \in SUBSET File
  BY <1>2 DEF Removes
<1>6. PICK o \in Removes : /\ op' = [op EXCEPT ![t] = o]
                           /\ o.gone = op[t].gone /\ o.rest = op[t].rest \ {f}
  <2> DEFINE q == [op[t] EXCEPT !.rest = @ \ {f}]
  <2>1. q \in Removes /\ q.gone = op[t].gone /\ q.rest = op[t].rest \ {f}
    BY <1>2, <1>5 DEF Removes
  <2>2. op' = [op EXCEPT ![t] = q]
    BY <1>3, <1>4
  <2> HIDE DEF q
  <2> QED BY <2>1, <2>2
<1>7. OnDisk' = OnDisk \ {f} /\ disk' \in [File -> Nat]
  <2>1. /\ disk' \in [File -> Nat] /\ disk'[f] = 0
        /\ \A g \in File : g # f => disk'[g] = disk[g]
    BY <1>2, <1>4, <1>5 DEF CacheTypeOK
  <2>2. \A g \in File : disk'[g] > 0 <=> disk[g] > 0 /\ g # f
    BY <2>1
  <2> QED BY <2>1, <2>2 DEF OnDisk
<1>8. RemovalFits(o)'
  <2> SUFFICES ASSUME ~ drift
               PROVE  /\ o.rest = OnDisk' \cap o.gone /\ o.rest \subseteq Indexed(rows)
                      /\ OnDisk' \ o.gone = Indexed(rows) \ o.gone
    BY <1>1 DEF RemovalFits, Indexed
  <2>1. /\ op[t].rest = OnDisk \cap op[t].gone /\ op[t].rest \subseteq Indexed(rows)
        /\ OnDisk \ op[t].gone = Indexed(rows) \ op[t].gone
    BY <1>2 DEF RemovalFits
  <2>2. f \in op[t].gone
    BY <1>4, <2>1
  <2> QED BY <1>6, <1>7, <2>1, <2>2
<1>9. SettledFits'
  <2>1. NoTrim
    BY <1>1, <1>2 DEF NoTrim
  <2>2. ~ drift /\ settled > 0 => Bytes(OnDisk) <= settled \/ OnDisk \subseteq kept
    BY <2>1 DEF CacheInv, SettledFits
  <2>3. /\ Bytes(OnDisk') <= Bytes(OnDisk) /\ Bytes(OnDisk') \in Nat /\ Bytes(OnDisk) \in Nat
        /\ OnDisk' \subseteq OnDisk
    <3>1. OnDisk \in SUBSET File /\ OnDisk' \in SUBSET OnDisk /\ OnDisk' \in SUBSET File
      BY <1>7 DEF OnDisk
    <3> QED BY <3>1, BytesType, BytesMonotone
  <2>4. settled \in Nat
    BY <1>2 DEF CacheTypeOK
  <2>5. ~ drift /\ settled > 0 => Bytes(OnDisk') <= settled \/ OnDisk' \subseteq kept
    BY <2>2, <2>3, <2>4
  <2> QED BY <1>1, <2>5 DEF SettledFits
<1>10. CacheTypeOK'
  BY <1>1, <1>2, <1>6, <1>7, KindsKept DEF CacheTypeOK
<1> QED BY <1>1, <1>2, <1>6, <1>8, <1>9, <1>10, RemovalUnderway

LEMMA RemovalOverKeeps ==
  ASSUME CacheInv, NEW t \in Thread, RemovalEnds(t) \/ RemovalFails(t)
  PROVE  CacheInv'
<1>1. /\ At(t, "remove") /\ guard' = Nobody /\ op' = [op EXCEPT ![t] = Idle]
      /\ UNCHANGED <<disk, config, limit, clock, settled, kept>>
  BY DEF RemovalEnds, RemovalFails, Unlocked, ghosts
<1>2. guard = t /\ op[t] \in Removes /\ RemovalFits(op[t]) /\ CacheTypeOK
  BY <1>1, LockedRemoval DEF CacheInv, CacheShape
<1>3. Idle \in Outside /\ Idle.kind = "none" /\ t # Nobody
  BY CacheAssumption DEF Outside, Idle
<1>4. OnDisk' = OnDisk
  BY <1>1 DEF OnDisk
<1>5. /\ rows' \in [File -> Nat] /\ drift' \in BOOLEAN /\ (drift => drift')
      /\ ~ drift' => Indexed(rows)' = OnDisk
  <2>1. CASE RemovalEnds(t)
    <3>1. rows' = Unindexed(rows, op[t].gone) /\ op[t].rest = {} /\ drift' = drift
      BY <2>1 DEF RemovalEnds, ghosts
    <3>2. rows' \in [File -> Nat]
      BY <1>2, <3>1 DEF CacheTypeOK, Unindexed
    <3>3. Indexed(rows') = Indexed(rows) \ op[t].gone
      <4>1. \A g \in File : rows'[g] = IF g \in op[t].gone THEN 0 ELSE rows[g]
        BY <3>1 DEF Unindexed
      <4> QED BY <4>1 DEF Indexed
    <3>4. ~ drift => Indexed(rows) \ op[t].gone = OnDisk
      BY <1>2, <3>1 DEF RemovalFits
    <3> QED BY <1>2, <3>1, <3>2, <3>3, <3>4 DEF CacheTypeOK
  <2>2. CASE RemovalFails(t)
    <3>1. rows' = rows /\ drift' = (drift \/ op[t].rest # op[t].gone)
      BY <2>2 DEF RemovalFails
    <3>2. ~ drift /\ op[t].rest = op[t].gone => Indexed(rows) = OnDisk
      BY <1>2 DEF RemovalFits
    <3> QED BY <1>2, <3>1, <3>2 DEF CacheTypeOK, Indexed
  <2> QED BY <2>1, <2>2
<1>6. IndexMatchesDisk'
  BY <1>4, <1>5 DEF IndexMatchesDisk
<1>7. NoTrim
  BY <1>1, <1>2 DEF NoTrim
<1>8. SettledFits'
  BY <1>1, <1>4, <1>5, <1>7 DEF SettledFits, CacheInv
<1>9. CacheTypeOK'
  BY <1>1, <1>2, <1>3, <1>5, KindsKept DEF CacheTypeOK
<1> QED BY <1>1, <1>2, <1>3, <1>6, <1>8, <1>9, UnderLock

LEMMA LoadKeeps ==
  ASSUME CacheInv, NEW w \in Worker, LoadsLimit(w)
  PROVE  CacheInv'
<1>1. QuietStep
  BY DEF LoadsLimit, QuietStep, ghosts
<1>2. CacheTypeOK'
  BY DEF LoadsLimit, CacheInv, CacheShape, CacheTypeOK, ghosts
<1> QED BY <1>1, <1>2, QuietKeeps

(* A worker that dies under the lock leaves the index to be rebuilt.         *)
LEMMA RestartKeeps ==
  ASSUME CacheInv, NEW w \in Worker, Restarts(w)
  PROVE  CacheInv'
<1>1. CacheTypeOK /\ op \in [Thread -> Outside \cup Trims \cup Removes]
  BY DEF CacheInv, CacheShape
<1>2. /\ guard' = IF guard # Nobody /\ Home[guard] = w THEN Nobody ELSE guard
      /\ drift' = (drift \/ (guard # Nobody /\ Home[guard] = w))
      /\ limit' = [limit EXCEPT ![w] = config]
      /\ op' = [t \in Thread |-> IF Home[t] # w THEN op[t]
                                 ELSE IF t \in Keeper THEN Waiting("reconcile", Nobody) ELSE Idle]
      /\ UNCHANGED <<disk, rows, config, clock, settled, kept>>
  BY DEF Restarts, Released
<1>3. Idle \in Outside /\ Waiting("reconcile", Nobody) \in Outside
  BY DEF Outside, Idle, Waiting
<1>4. \A o \in Outside : o.kind \in {"none", "save", "reconcile"}
  BY DEF Outside, Idle
<1>5. /\ op' \in [Thread -> Outside \cup Trims \cup Removes]
      /\ \A t \in Thread : IF Home[t] = w THEN op'[t] \in Outside ELSE op'[t] = op[t]
  BY <1>1, <1>2, <1>3
<1>6. LockIsOperation'
  <2> SUFFICES ASSUME NEW t \in Thread
               PROVE  op'[t].kind \in {"trim", "remove"} <=> guard' = t
    BY DEF LockIsOperation
  <2>1. op[t].kind \in {"trim", "remove"} <=> guard = t
    BY DEF CacheInv, LockIsOperation
  <2>2. t # Nobody
    BY CacheAssumption
  <2>3. CASE Home[t] = w
    BY <1>2, <1>4, <1>5, <2>1, <2>2, <2>3
  <2>4. CASE Home[t] # w
    BY <1>2, <1>5, <2>1, <2>2, <2>4
  <2> QED BY <2>3, <2>4
<1>7. OnDisk' = OnDisk /\ Indexed(rows)' = Indexed(rows)
  BY <1>2 DEF OnDisk, Indexed
<1>8. OperationsFit'
  <2> SUFFICES ASSUME NEW t \in Thread
               PROVE  (At(t, "trim") => TrimFits(op[t]))' /\ (At(t, "remove") => RemovalFits(op[t]))'
    BY DEF OperationsFit
  <2>1. CASE Home[t] = w
    BY <1>4, <1>5, <2>1 DEF At
  <2>2. CASE Home[t] # w
    <3>1. op'[t] = op[t]
      BY <1>5, <2>2
    <3>2. (At(t, "trim") => TrimFits(op[t])) /\ (At(t, "remove") => RemovalFits(op[t]))
      BY DEF CacheInv, OperationsFit
    <3>3. ASSUME At(t, "trim") PROVE TrimFits(op[t])'
      BY <1>2, <1>7, <3>1, <3>2, <3>3 DEF TrimFits
    <3>4. ASSUME At(t, "remove") PROVE RemovalFits(op[t])'
      BY <1>2, <1>7, <3>1, <3>2, <3>4 DEF RemovalFits
    <3> QED BY <3>1, <3>3, <3>4 DEF At
  <2> QED BY <2>1, <2>2
<1>9. drift' \/ (~ drift /\ guard' = guard)
  BY <1>1, <1>2 DEF CacheTypeOK
<1>10. IndexMatchesDisk'
  BY <1>7, <1>9 DEF IndexMatchesDisk, CacheInv
<1>11. SettledFits'
  <2> SUFFICES ASSUME ~ drift', NoTrim'
               PROVE  settled > 0 => Bytes(OnDisk) <= settled \/ OnDisk \subseteq kept
    BY <1>2, <1>7 DEF SettledFits
  <2>1. NoTrim
    BY <1>4, <1>5, <1>9 DEF NoTrim, At
  <2> QED BY <1>9, <2>1 DEF CacheInv, SettledFits
<1>12. CacheTypeOK'
  <2>1. /\ guard' \in Thread \cup {Nobody} /\ drift' \in BOOLEAN /\ limit' \in [Worker -> Limit]
    BY <1>1, <1>2 DEF CacheTypeOK
  <2>2. \A t \in Thread : op'[t].kind \in {"none", "save", "trim", "reconcile", "remove"}
    BY <1>1, <1>4, <1>5 DEF CacheTypeOK
  <2> QED BY <1>1, <1>2, <2>1, <2>2 DEF CacheTypeOK
<1> QED BY <1>5, <1>6, <1>8, <1>10, <1>11, <1>12 DEF CacheInv, CacheShape

LEMMA CacheStarts == CacheInit => CacheInv
<1> SUFFICES ASSUME CacheInit PROVE CacheInv
  OBVIOUS
<1>1. /\ disk \in [File -> Nat] /\ rows = disk /\ guard = Nobody /\ clock = 1
      /\ op = [t \in Thread |-> Idle] /\ drift = FALSE /\ settled = 0 /\ kept = {}
  BY DEF CacheInit
<1>2. config \in Limit /\ limit \in [Worker -> Limit]
  BY DEF CacheInit
<1>3. \A t \in Thread : op[t] \in Outside /\ op[t].kind = "none"
  BY <1>1 DEF Outside, Idle
<1>4. CacheShape
  BY <1>1, <1>2, <1>3 DEF CacheShape, CacheTypeOK
<1>5. LockIsOperation
  BY <1>1, <1>3, CacheAssumption DEF LockIsOperation
<1>6. OperationsFit
  BY <1>3 DEF OperationsFit, At
<1>7. IndexMatchesDisk /\ SettledFits
  BY <1>1 DEF IndexMatchesDisk, SettledFits, Indexed, OnDisk
<1> QED BY <1>4, <1>5, <1>6, <1>7 DEF CacheInv

(* What a step of the whole may do to the cache. *)
CacheMoves ==
  \/ UNCHANGED cache
  \/ \E t \in Thread : \/ CalmAction(t) \/ Saves(t) \/ (Reconciles(t) /\ guard' # guard)
                       \/ Evicts(t) \/ EvictFails(t) \/ Commits(t)
                       \/ RemovalBegins(t) \/ Unlinks(t) \/ RemovalEnds(t) \/ RemovalFails(t)
  \/ \E w \in Worker : LoadsLimit(w) \/ Restarts(w)

LEMMA CacheKept ==
  ASSUME CacheInv, CacheMoves
  PROVE  CacheInv'
<1>1. CASE UNCHANGED cache
  <2>1. /\ UNCHANGED <<disk, rows, guard, config, limit, op, clock, drift, settled, kept>>
        /\ OnDisk' = OnDisk
    BY <1>1 DEF cache, ghosts, OnDisk
  <2>2. QuietStep /\ CacheTypeOK'
    BY <2>1 DEF QuietStep, CacheInv, CacheShape, CacheTypeOK
  <2> QED BY <2>2, QuietKeeps
<1>2. ASSUME NEW t \in Thread, CalmAction(t) PROVE CacheInv'
  BY <1>2, CalmIsQuiet, QuietKeeps
<1>3. ASSUME NEW t \in Thread, Saves(t) PROVE CacheInv'
  BY <1>3, SavesKeeps
<1>4. ASSUME NEW t \in Thread, Reconciles(t), guard' # guard PROVE CacheInv'
  BY <1>4, RebuildKeeps
<1>5. ASSUME NEW t \in Thread, Evicts(t) \/ EvictFails(t) PROVE CacheInv'
  BY <1>5, EvictionKeeps
<1>6. ASSUME NEW t \in Thread, Commits(t) PROVE CacheInv'
  BY <1>6, CommitKeeps
<1>7. ASSUME NEW t \in Thread, RemovalBegins(t) PROVE CacheInv'
  BY <1>7, RemovalBeginsKeeps
<1>8. ASSUME NEW t \in Thread, Unlinks(t) PROVE CacheInv'
  BY <1>8, UnlinksKeeps
<1>9. ASSUME NEW t \in Thread, RemovalEnds(t) \/ RemovalFails(t) PROVE CacheInv'
  BY <1>9, RemovalOverKeeps
<1>10. ASSUME NEW w \in Worker, LoadsLimit(w) PROVE CacheInv'
  BY <1>10, LoadKeeps
<1>11. ASSUME NEW w \in Worker, Restarts(w) PROVE CacheInv'
  BY <1>11, RestartKeeps
<1> QED BY <1>1, <1>2, <1>3, <1>4, <1>5, <1>6, <1>7, <1>8, <1>9, <1>10, <1>11 DEF CacheMoves

LEMMA StepMovesCache ==
  ASSUME Next
  PROVE  CacheMoves
<1>1. Request \subseteq Thread /\ Keeper \subseteq Thread /\ Admin \subseteq Thread
      /\ \A r \in Request : FileOf[r] \in File
  BY CacheAssumption, MediaAssumption DEF Request
<1>2. ASSUME NEW r \in Request, RequestStep(r) \/ Leaves(r) PROVE CacheMoves
  <2>1. CASE Reserves(r) \/ NoneLeft(r) \/ Probes(r) \/ Uploads(r) \/ Works(r) \/ Fetches(r)
             \/ Cancelled(r) \/ Leaves(r)
    <3>1. UNCHANGED cache
      BY <2>1 DEF Reserves, NoneLeft, Probes, Uploads, Works, Fetches, Cancelled, Leaves
    <3> QED BY <3>1 DEF CacheMoves
  <2>2. CASE AsksForSave(r)
    BY <1>1, <2>2 DEF AsksForSave, CacheMoves, CalmAction
  <2>3. CASE SavesAtOnce(r)
    BY <1>1, <2>3 DEF SavesAtOnce, CacheMoves, CalmAction
  <2>4. CASE SaveReturns(r)
    BY <1>1, <2>4 DEF SaveReturns, CacheMoves
  <2>5. CASE SaveRaises(r)
    BY <1>1, <2>5 DEF SaveRaises, CacheMoves, CalmAction
  <2> QED BY <1>2, <2>1, <2>2, <2>3, <2>4, <2>5 DEF RequestStep
<1>3. ASSUME NEW t \in Thread, CacheStep(t) PROVE CacheMoves
  BY <1>3 DEF CacheStep, CacheMoves, CalmAction
<1>4. ASSUME NEW t \in Admin, Console(t) PROVE CacheMoves
  BY <1>1, <1>4 DEF Console, CacheMoves, CalmAction
<1>5. ASSUME NEW t \in Keeper, Reconciled(t) PROVE CacheMoves
  BY <1>1, <1>5 DEF Reconciled, CacheMoves
<1>6. ASSUME NEW w \in Worker, LoadsLimit(w) \/ Crashes(w) PROVE CacheMoves
  BY <1>6 DEF Crashes, CacheMoves
<1> QED BY <1>2, <1>3, <1>4, <1>5, <1>6 DEF Next

(* The invariant of the cache under a specification of the whole. *)
LEMMA CacheInvariant == Spec => []CacheInv
<1>1. Init => CacheInv
  BY CacheStarts DEF Init
<1>2. CacheInv /\ [Next]_vars => CacheInv'
  <2>1. ASSUME CacheInv, UNCHANGED vars PROVE CacheInv'
    BY <2>1, CacheKept DEF vars, CacheMoves
  <2> QED BY <2>1, StepMovesCache, CacheKept
<1> QED BY <1>1, <1>2, PTL DEF Spec

(* A trim never takes the file its own save has written or found, whatever   *)
(* other workers save, trim, remove or reconfigure meanwhile (media_cache.py, *)
(* protected_names of _save).                                                *)
THEOREM MediaSavedFileStays == Spec => []SavedFileStays
<1>1. CacheInv => SavedFileStays
  BY DEF CacheInv, OperationsFit, TrimFits, SavedFileStays
<1> QED BY <1>1, CacheInvariant, PTL

(* While nobody holds the lock the index lists the files on disk, but for    *)
(* the three causes of drift (_save, _enforce_limit_locked, delete, clear     *)
(* and reconcile of media_cache.py).                                         *)
THEOREM MediaIndexMatchesDisk == Spec => []IndexMatchesDisk
<1>1. CacheInv => IndexMatchesDisk
  BY DEF CacheInv
<1> QED BY <1>1, CacheInvariant, PTL

(* While nobody holds the lock and nothing drifted the files fit the limit   *)
(* of the last trim, or are all among those it had to keep                   *)
(* (_enforce_limit_locked of media_cache.py).                                *)
THEOREM MediaDiskBounded == Spec => []DiskBounded
<1>1. CacheInv => DiskBounded
  BY DEF CacheInv, SettledFits, NoTrim, DiskBounded
<1> QED BY <1>1, CacheInvariant, PTL

-----------------------------------------------------------------------------
(* The accounts of requests *)
Phases  == {"new", "probing", "uploading", "working", "fetching", "saving", "stored", "ended"}
Results == {"none", "ok", "failed", "cancelled", "lost"}

LivesOK ==
  /\ phase \in [Request -> Phases] /\ result \in [Request -> Results]
  /\ account \in [Request -> Account \cup {NoAccount}] /\ tried \in [Request -> SUBSET Account]
  /\ left \in [Request -> BOOLEAN] /\ usable \subseteq Account
  /\ inflight \in [Worker -> [Account -> Int]]

(* In these phases a request cannot have lost its account, for its client    *)
(* leaving, alone, takes it from one that runs.                              *)
AtWork(r) == \/ phase[r] = "probing"
             \/ phase[r] \in {"uploading", "working", "fetching"} /\ kind[r] \notin {"edit", "paint"}
PhaseFits(r) ==
  /\ phase[r] \in {"new", "ended"} => account[r] = NoAccount
  /\ AtWork(r) => account[r] \in Account

Holders(w, a) == {r \in Request : Home[r] = w /\ account[r] = a}
CountsFit == \A w \in Worker, a \in Account : inflight[w][a] = Cardinality(Holders(w, a))

LeaseInv == LivesOK /\ (\A r \in Request : PhaseFits(r)) /\ CountsFit

(* What a step of a request does to leases: none, one taken or one given     *)
(* back.                                                                     *)
Same    == UNCHANGED <<account, inflight>>
Gets(r) == \E a \in Account : /\ account[r] = NoAccount
                              /\ account' = [account EXCEPT ![r] = a]
                              /\ inflight' = [inflight EXCEPT ![Home[r]][a] = @ + 1]
Gives(r) == /\ account[r] \in Account
            /\ account' = [account EXCEPT ![r] = NoAccount] /\ inflight' = GivenBack(r)

LeaseMove(r) ==
  /\ kind' = kind /\ usable' \subseteq Account /\ tried' \in [Request -> SUBSET Account]
  /\ result' \in [Request -> Results] /\ left' \in [Request -> BOOLEAN]
  /\ \E p \in Phases : phase' = [phase EXCEPT ![r] = p]
  /\ Same \/ Gets(r) \/ Gives(r)
  /\ PhaseFits(r)'

LEMMA RequestsAre == Request \subseteq Thread /\ IsFiniteSet(Request)
                     /\ \A r \in Request : Home[r] \in Worker
<1>1. Request \subseteq Thread
  BY DEF Request
<1> QED BY <1>1, FS_Subset, CacheAssumption

LEMMA SettlesMoves ==
  ASSUME LivesOK, NEW r \in Request, NEW v, Settles(r, v)
  PROVE  /\ Same \/ Gives(r)
         /\ account' \in [Request -> Account \cup {NoAccount}] /\ account'[r] = NoAccount
         /\ usable' \subseteq Account
<1>1. CASE account[r] = NoAccount
  BY <1>1 DEF Settles, Same, LivesOK, pool
<1>2. CASE account[r] # NoAccount
  <2>1. account[r] \in Account
    BY <1>2 DEF LivesOK
  <2>2. /\ inflight' = GivenBack(r) /\ account' = [account EXCEPT ![r] = NoAccount]
        /\ usable' = IF v = "unauthorized" THEN usable \ {account[r]} ELSE usable
    BY <1>2 DEF Settles
  <2> QED BY <2>1, <2>2 DEF Gives, LivesOK
<1> QED BY <1>1, <1>2

LEMMA GoesTo ==
  ASSUME LivesOK, NEW r \in Request, NEW p \in Phases, Goes(r, p)
  PROVE  phase' = [phase EXCEPT ![r] = p] /\ phase'[r] = p
  BY DEF Goes, LivesOK

LEMMA EndsWith ==
  ASSUME LivesOK, NEW r \in Request, NEW how \in Results, Ends(r, how)
  PROVE  /\ phase' = [phase EXCEPT ![r] = "ended"] /\ phase'[r] = "ended"
         /\ result' \in [Request -> Results]
  BY GoesTo DEF Ends, LivesOK, Phases

(* A request that settles its account and ends, or starts again. *)
LEMMA OverMoves ==
  ASSUME LivesOK, NEW r \in Request, NEW v, Settles(r, v),
         NEW how \in Results, Ends(r, how), kind' = kind,
         tried' \in [Request -> SUBSET Account], left' \in [Request -> BOOLEAN]
  PROVE  LeaseMove(r)
<1>1. phase' = [phase EXCEPT ![r] = "ended"] /\ phase'[r] = "ended" /\ "ended" \in Phases
  BY EndsWith DEF Phases
<1>2. (Same \/ Gives(r)) /\ account'[r] = NoAccount /\ usable' \subseteq Account
  BY SettlesMoves
<1>3. PhaseFits(r)'
  BY <1>1, <1>2 DEF PhaseFits, AtWork
<1> QED BY <1>1, <1>2, <1>3, EndsWith DEF LeaseMove

LEMMA FailsMoves ==
  ASSUME LivesOK, NEW r \in Request, PhaseFits(r), NEW v, Fails(r, v),
         AtWork(r) \/ kind[r] # "lite", UNCHANGED <<kind, left>>
  PROVE  LeaseMove(r)
<1>1. Settles(r, v) /\ left' \in [Request -> BOOLEAN]
  BY DEF Fails, LivesOK
<1>2. CASE Retries(r, v) /\ Goes(r, "new") /\ UNCHANGED result
           /\ tried' = [tried EXCEPT ![r] = @ \cup {account[r]}]
  <2>1. account[r] \in Account
    BY <1>2 DEF Retries, PhaseFits
  <2>2. tried' \in [Request -> SUBSET Account]
    BY <1>2, <2>1 DEF LivesOK
  <2>3. phase' = [phase EXCEPT ![r] = "new"] /\ phase'[r] = "new" /\ "new" \in Phases
    BY <1>2, GoesTo DEF Phases
  <2>4. (Same \/ Gives(r)) /\ account'[r] = NoAccount /\ usable' \subseteq Account
    BY <1>1, SettlesMoves
  <2>5. PhaseFits(r)'
    BY <2>3, <2>4 DEF PhaseFits, AtWork
  <2> QED BY <1>1, <1>2, <2>2, <2>3, <2>4, <2>5 DEF LeaseMove, LivesOK
<1>3. CASE Ends(r, "failed") /\ UNCHANGED tried
  BY <1>1, <1>3, OverMoves DEF LivesOK, Results
<1> QED BY <1>2, <1>3 DEF Fails

LEMMA DeliversMoves ==
  ASSUME LivesOK, NEW r \in Request, Delivers(r), UNCHANGED <<kind, left>>
  PROVE  LeaseMove(r)
  BY OverMoves DEF Delivers, LivesOK, Results

(* A request that goes on with what it has. *)
LEMMA GoesOn ==
  ASSUME LivesOK, NEW r \in Request, PhaseFits(r), NEW p \in Phases, Goes(r, p),
         UNCHANGED <<kind, account, tried, result, left, pool>>,
         p \notin {"new", "probing", "ended"}, AtWork(r) \/ kind[r] \in {"edit", "paint"}
                                                       \/ p \in {"saving", "stored"}
  PROVE  LeaseMove(r)
<1>1. phase' = [phase EXCEPT ![r] = p] /\ phase'[r] = p
  BY GoesTo
<1>2. PhaseFits(r)'
  BY <1>1 DEF PhaseFits, AtWork
<1> QED BY <1>1, <1>2 DEF LeaseMove, Same, LivesOK, pool

LEMMA ReservesMoves ==
  ASSUME LivesOK, NEW r \in Request, PhaseFits(r), Reserves(r)
  PROVE  LeaseMove(r)
<1>1. /\ phase[r] = "new" /\ UNCHANGED <<kind, tried, result, left, usable>>
      /\ Goes(r, FirstPhase(r)) /\ account[r] = NoAccount
  BY DEF Reserves, PhaseFits
<1>2. PICK a \in Account : /\ account' = [account EXCEPT ![r] = a]
                           /\ inflight' = [inflight EXCEPT ![Home[r]][a] = @ + 1]
  BY DEF Reserves, Untried, LivesOK
<1>3. Gets(r) /\ account'[r] = a
  BY <1>1, <1>2 DEF Gets, LivesOK
<1>4. FirstPhase(r) \in {"probing", "uploading", "working"}
  BY DEF FirstPhase
<1>5. FirstPhase(r) \in Phases
  BY <1>4 DEF Phases
<1>6. phase' = [phase EXCEPT ![r] = FirstPhase(r)] /\ phase'[r] = FirstPhase(r)
  BY <1>1, <1>5, GoesTo
<1>7. PhaseFits(r)'
  BY <1>3, <1>4, <1>6, MediaAssumption DEF PhaseFits
<1> QED BY <1>1, <1>3, <1>5, <1>6, <1>7 DEF LeaseMove, LivesOK

LEMMA ProbesMoves ==
  ASSUME LivesOK, NEW r \in Request, PhaseFits(r), Probes(r)
  PROVE  LeaseMove(r)
<1>1. phase[r] = "probing" /\ account[r] \in Account /\ UNCHANGED <<kind, result, left>>
  BY DEF Probes, PhaseFits, AtWork
<1>2. CASE Goes(r, "new") /\ Skips(r)
  <2>1. phase' = [phase EXCEPT ![r] = "new"] /\ phase'[r] = "new" /\ "new" \in Phases
    BY <1>2, GoesTo DEF Phases
  <2>2. /\ Gives(r) /\ account'[r] = NoAccount /\ usable' = usable
        /\ tried' \in [Request -> SUBSET Account]
    BY <1>1, <1>2 DEF Skips, Gives, LivesOK
  <2>3. PhaseFits(r)'
    BY <2>1, <2>2 DEF PhaseFits, AtWork
  <2> QED BY <1>1, <2>1, <2>2, <2>3 DEF LeaseMove, LivesOK
<1>3. CASE /\ Goes(r, IF r \in Referring THEN "uploading" ELSE "working")
           /\ UNCHANGED <<account, tried, inflight>>
           /\ usable' \subseteq usable
  <2> DEFINE p == IF r \in Referring THEN "uploading" ELSE "working"
  <2>1. p \in Phases /\ p \notin {"new", "probing", "ended"}
    BY DEF Phases
  <2> HIDE DEF p
  <2>2. phase' = [phase EXCEPT ![r] = p] /\ phase'[r] = p
    BY <1>3, <2>1, GoesTo DEF p
  <2>3. PhaseFits(r)'
    BY <1>1, <1>3, <2>1, <2>2 DEF PhaseFits
  <2> QED BY <1>1, <1>3, <2>1, <2>2, <2>3 DEF LeaseMove, LivesOK, Same
<1>4. \A answer \in QuotaAnswers : Condemned(r, answer) \subseteq usable
  BY DEF Condemned
<1> QED BY <1>2, <1>3, <1>4 DEF Probes

LEMMA UploadsMoves ==
  ASSUME LivesOK, NEW r \in Request, PhaseFits(r), Uploads(r)
  PROVE  LeaseMove(r)
<1>1. phase[r] = "uploading" /\ UNCHANGED <<kind, left>>
  BY DEF Uploads
<1>2. AtWork(r) \/ kind[r] \in {"edit", "paint"}
  BY <1>1 DEF AtWork
<1>3. CASE Goes(r, "working") /\ UNCHANGED <<account, tried, result, pool>>
  BY <1>1, <1>2, <1>3, GoesOn DEF Phases
<1>4. CASE Ends(r, "failed") /\ Settles(r, "unreported") /\ UNCHANGED tried
  BY <1>1, <1>4, OverMoves DEF LivesOK, Results
<1>5. ASSUME NEW x, Fails(r, x) PROVE LeaseMove(r)
  BY <1>1, <1>2, <1>5, FailsMoves
<1> QED BY <1>3, <1>4, <1>5 DEF Uploads, UploadsFilm, UploadsEdit

LEMMA WorksMoves ==
  ASSUME LivesOK, NEW r \in Request, PhaseFits(r), Works(r)
  PROVE  LeaseMove(r)
<1>1. phase[r] = "working" /\ UNCHANGED <<kind, left>>
  BY DEF Works
<1>2. AtWork(r) \/ kind[r] \in {"edit", "paint"}
  BY <1>1 DEF AtWork
<1>3. ASSUME NEW x, Fails(r, x) PROVE LeaseMove(r)
  BY <1>1, <1>2, <1>3, FailsMoves
<1>4. ASSUME Pictured(r) PROVE LeaseMove(r)
  <2>1. CASE Delivers(r)
    BY <1>1, <2>1, DeliversMoves
  <2>2. CASE Goes(r, "fetching") /\ UNCHANGED <<account, tried, result, pool>>
    BY <1>1, <1>2, <2>2, GoesOn DEF Phases
  <2> QED BY <1>4, <2>1, <2>2 DEF Pictured
<1> QED BY <1>3, <1>4 DEF Works, CollectsEdit, CollectsLite, CollectsFilm, CollectsPaint

LEMMA FetchesMoves ==
  ASSUME LivesOK, NEW r \in Request, PhaseFits(r), Fetches(r)
  PROVE  LeaseMove(r)
<1>1. phase[r] = "fetching" /\ UNCHANGED <<kind, left>>
  BY DEF Fetches
<1>2. AtWork(r) \/ kind[r] \in {"edit", "paint"}
  BY <1>1 DEF AtWork
<1>3. ASSUME NEW x, Fails(r, x) PROVE LeaseMove(r)
  BY <1>1, <1>2, <1>3, FailsMoves
<1>4. CASE Delivers(r)
  BY <1>1, <1>4, DeliversMoves
<1>5. CASE Goes(r, "saving") /\ UNCHANGED <<tried, result>> /\ Settles(r, "success")
  <2>1. phase' = [phase EXCEPT ![r] = "saving"] /\ phase'[r] = "saving" /\ "saving" \in Phases
    BY <1>5, GoesTo DEF Phases
  <2>2. (Same \/ Gives(r)) /\ account'[r] = NoAccount /\ usable' \subseteq Account
    BY <1>5, SettlesMoves
  <2>3. PhaseFits(r)'
    BY <2>1, <2>2 DEF PhaseFits, AtWork
  <2> QED BY <1>1, <1>5, <2>1, <2>2, <2>3 DEF LeaseMove, LivesOK
<1>6. CASE Goes(r, "saving") /\ UNCHANGED <<account, tried, result, pool>>
  BY <1>1, <1>6, GoesOn DEF Phases
<1> QED BY <1>3, <1>4, <1>5, <1>6 DEF Fetches

LEMMA SavingMoves ==
  ASSUME LivesOK, NEW r \in Request, PhaseFits(r),
         AsksForSave(r) \/ SavesAtOnce(r) \/ SaveReturns(r) \/ SaveRaises(r)
  PROVE  LeaseMove(r)
<1>1. CASE AsksForSave(r)
  BY <1>1, GoesOn DEF AsksForSave, Phases
<1>2. CASE SavesAtOnce(r)
  BY <1>2, DeliversMoves DEF SavesAtOnce
<1>3. ASSUME UNCHANGED <<lives, pool>> PROVE LeaseMove(r)
  <2>1. phase' = [phase EXCEPT ![r] = phase[r]] /\ phase[r] \in Phases
    BY <1>3 DEF LivesOK, lives
  <2>2. PhaseFits(r)'
    BY <1>3 DEF PhaseFits, AtWork, lives
  <2> QED BY <1>3, <2>1, <2>2 DEF LeaseMove, Same, LivesOK, lives, pool
<1>4. CASE SaveReturns(r)
  BY <1>3, <1>4, DeliversMoves DEF SaveReturns, lives
<1>5. ASSUME Unsaved(r), UNCHANGED <<kind, left>> PROVE LeaseMove(r)
  <2>1. CASE Delivers(r)
    BY <1>5, <2>1, DeliversMoves
  <2>2. CASE Settles(r, "broken") /\ Ends(r, "failed") /\ UNCHANGED tried
    BY <1>5, <2>2, OverMoves DEF LivesOK, Results
  <2> QED BY <1>5, <2>1, <2>2 DEF Unsaved
<1>6. CASE SaveRaises(r)
  BY <1>3, <1>5, <1>6 DEF SaveRaises, lives
<1> QED BY <1>1, <1>2, <1>4, <1>6

LEMMA CancelMoves ==
  ASSUME LivesOK, NEW r \in Request, PhaseFits(r), NoneLeft(r) \/ Cancelled(r) \/ Leaves(r)
  PROVE  LeaseMove(r)
<1>1. CASE NoneLeft(r)
  <2>1. Settles(r, "none")
    BY <1>1 DEF NoneLeft, PhaseFits, Settles
  <2> QED BY <1>1, <2>1, OverMoves DEF NoneLeft, LivesOK, Results
<1>2. CASE Cancelled(r)
  BY <1>2, OverMoves DEF Cancelled, LivesOK, Results
<1>3. CASE Leaves(r)
  <2>1. /\ Settles(r, "broken") /\ UNCHANGED <<kind, tried>> /\ left' \in [Request -> BOOLEAN]
        /\ kind[r] \in {"edit", "paint"} /\ phase[r] \in {"working", "fetching", "saving", "stored"}
    BY <1>3 DEF Leaves, LivesOK
  <2>2. CASE Ends(r, "cancelled")
    BY <2>1, <2>2, OverMoves DEF LivesOK, Results
  <2>3. CASE UNCHANGED <<phase, result>>
    <3>1. phase' = [phase EXCEPT ![r] = phase[r]] /\ phase[r] \in Phases
      BY <2>3 DEF LivesOK
    <3>2. (Same \/ Gives(r)) /\ account'[r] = NoAccount /\ usable' \subseteq Account
      BY <2>1, SettlesMoves
    <3>3. PhaseFits(r)'
      BY <2>1, <2>3, <3>2 DEF PhaseFits, AtWork
    <3> QED BY <2>1, <2>3, <3>1, <3>2, <3>3 DEF LeaseMove, LivesOK
  <2> QED BY <1>3, <2>2, <2>3 DEF Leaves
<1> QED BY <1>1, <1>2, <1>3

-----------------------------------------------------------------------------
(* The counts follow the leases. *)
LEMMA HoldersFinite ==
  ASSUME NEW w \in Worker, NEW a \in Account
  PROVE  IsFiniteSet(Holders(w, a)) /\ Cardinality(Holders(w, a)) \in Nat
  BY RequestsAre, FS_Subset, FS_CardinalityType DEF Holders

LEMMA CountsFollow ==
  ASSUME LivesOK, CountsFit, NEW r \in Request, Same \/ Gets(r) \/ Gives(r)
  PROVE  CountsFit' /\ inflight' \in [Worker -> [Account -> Int]]
                    /\ account' \in [Request -> Account \cup {NoAccount}]
<1>1. CASE Same
  BY <1>1 DEF Same, LivesOK, CountsFit, Holders
<1>2. Home[r] \in Worker
  BY RequestsAre
<1>3. CASE Gets(r)
  <2>1. PICK b \in Account : /\ account[r] = NoAccount
                             /\ account' = [account EXCEPT ![r] = b]
                             /\ inflight' = [inflight EXCEPT ![Home[r]][b] = @ + 1]
    BY <1>3 DEF Gets
  <2>2. inflight' \in [Worker -> [Account -> Int]] /\ account' \in [Request -> Account \cup {NoAccount}]
    BY <1>2, <2>1 DEF LivesOK
  <2>3. ASSUME NEW w \in Worker, NEW a \in Account
        PROVE  inflight'[w][a] = Cardinality(Holders(w, a)')
    <3>1. inflight[w][a] = Cardinality(Holders(w, a))
      BY DEF CountsFit
    <3>2. account'[r] = b /\ \A q \in Request : q # r => account'[q] = account[q]
      BY <2>1 DEF LivesOK
    <3>3. CASE w = Home[r] /\ a = b
      <4>1. Holders(w, a)' = Holders(w, a) \cup {r} /\ r \notin Holders(w, a)
        BY <2>1, <3>2, <3>3, MediaAssumption DEF Holders
      <4>2. Cardinality(Holders(w, a)') = Cardinality(Holders(w, a)) + 1
        BY <4>1, HoldersFinite, FS_AddElement
      <4>3. inflight'[w][a] = inflight[w][a] + 1
        BY <1>2, <2>1, <3>3 DEF LivesOK
      <4> QED BY <3>1, <4>2, <4>3
    <3>4. CASE ~ (w = Home[r] /\ a = b)
      <4>1. Holders(w, a)' = Holders(w, a)
        BY <2>1, <3>2, <3>4, MediaAssumption DEF Holders
      <4>2. inflight'[w][a] = inflight[w][a]
        BY <1>2, <2>1, <3>4 DEF LivesOK
      <4> QED BY <3>1, <4>1, <4>2
    <3> QED BY <3>3, <3>4
  <2> QED BY <2>2, <2>3 DEF CountsFit
<1>4. CASE Gives(r)
  <2> DEFINE b == account[r]
  <2>1. /\ b \in Account /\ account' = [account EXCEPT ![r] = NoAccount]
        /\ inflight' = [inflight EXCEPT ![Home[r]][b] = @ - 1]
    BY <1>4 DEF Gives, GivenBack
  <2> HIDE DEF b
  <2>2. inflight' \in [Worker -> [Account -> Int]] /\ account' \in [Request -> Account \cup {NoAccount}]
    BY <1>2, <2>1 DEF LivesOK
  <2>3. ASSUME NEW w \in Worker, NEW a \in Account
        PROVE  inflight'[w][a] = Cardinality(Holders(w, a)')
    <3>1. inflight[w][a] = Cardinality(Holders(w, a))
      BY DEF CountsFit
    <3>2. account'[r] = NoAccount /\ \A q \in Request : q # r => account'[q] = account[q]
      BY <2>1 DEF LivesOK
    <3>3. CASE w = Home[r] /\ a = b
      <4>1. Holders(w, a)' = Holders(w, a) \ {r} /\ r \in Holders(w, a)
        BY <2>1, <3>2, <3>3, MediaAssumption DEF Holders, b
      <4>2. Cardinality(Holders(w, a)') = Cardinality(Holders(w, a)) - 1
        BY <4>1, HoldersFinite, FS_RemoveElement
      <4>3. inflight'[w][a] = inflight[w][a] - 1
        BY <1>2, <2>1, <3>3 DEF LivesOK
      <4> QED BY <3>1, <4>2, <4>3
    <3>4. CASE ~ (w = Home[r] /\ a = b)
      <4>1. Holders(w, a)' = Holders(w, a)
        BY <2>1, <3>2, <3>4, MediaAssumption DEF Holders, b
      <4>2. inflight'[w][a] = inflight[w][a]
        BY <1>2, <2>1, <3>4 DEF LivesOK
      <4> QED BY <3>1, <4>1, <4>2
    <3> QED BY <3>3, <3>4
  <2> QED BY <2>2, <2>3 DEF CountsFit
<1> QED BY <1>1, <1>3, <1>4

LEMMA RequestKeepsLeases ==
  ASSUME LeaseInv, NEW r \in Request, LeaseMove(r)
  PROVE  LeaseInv'
<1>1. LivesOK /\ CountsFit /\ PhaseFits(r)' /\ (Same \/ Gets(r) \/ Gives(r))
  BY DEF LeaseInv, LeaseMove
<1>2. CountsFit' /\ inflight' \in [Worker -> [Account -> Int]]
                 /\ account' \in [Request -> Account \cup {NoAccount}]
  BY <1>1, CountsFollow
<1>3. PICK p \in Phases : phase' = [phase EXCEPT ![r] = p]
  BY DEF LeaseMove
<1>4. LivesOK'
  BY <1>1, <1>2, <1>3 DEF LeaseMove, LivesOK
<1>5. ASSUME NEW q \in Request, q # r PROVE PhaseFits(q)'
  <2>1. phase'[q] = phase[q] /\ account'[q] = account[q] /\ kind' = kind
    BY <1>1, <1>3, <1>5 DEF LeaseMove, LivesOK, Same, Gets, Gives
  <2>2. PhaseFits(q)
    BY DEF LeaseInv
  <2> QED BY <2>1, <2>2 DEF PhaseFits, AtWork
<1> QED BY <1>1, <1>2, <1>4, <1>5 DEF LeaseInv

LEMMA CrashKeepsLeases ==
  ASSUME LeaseInv, NEW w \in Worker, Crashes(w)
  PROVE  LeaseInv'
<1> DEFINE lost == {r \in Request : Home[r] = w /\ Begun(r)}
<1>1. /\ phase' = [r \in Request |-> IF r \in lost THEN "ended" ELSE phase[r]]
      /\ result' = [r \in Request |-> IF r \in lost THEN "lost" ELSE result[r]]
      /\ account' = [r \in Request |-> IF r \in lost THEN NoAccount ELSE account[r]]
      /\ inflight' = [inflight EXCEPT ![w] = [a \in Account |-> 0]]
      /\ UNCHANGED <<kind, tried, left, usable>>
  BY DEF Crashes
<1>2. LivesOK /\ CountsFit /\ \A r \in Request : PhaseFits(r)
  BY DEF LeaseInv
<1>3. ASSUME NEW r \in Request, Home[r] = w PROVE account'[r] = NoAccount
  <2>1. CASE r \in lost
    BY <1>1, <2>1
  <2>2. CASE r \notin lost
    <3>1. phase[r] \in {"new", "ended"}
      BY <1>3, <2>2 DEF Begun, Started
    <3> QED BY <1>1, <1>2, <2>2, <3>1 DEF PhaseFits
  <2> QED BY <2>1, <2>2
<1>4. ASSUME NEW r \in Request PROVE PhaseFits(r)'
  <2>1. CASE r \in lost
    BY <1>1, <2>1 DEF PhaseFits, AtWork
  <2>2. CASE r \notin lost
    <3>1. phase'[r] = phase[r] /\ account'[r] = account[r] /\ kind' = kind
      BY <1>1, <2>2
    <3> QED BY <1>2, <3>1 DEF PhaseFits, AtWork
  <2> QED BY <2>1, <2>2
<1>5. LivesOK'
  <2> HIDE DEF lost
  <2> QED BY <1>1, <1>2 DEF LivesOK, Phases, Results
<1>6. ASSUME NEW v \in Worker, NEW a \in Account
      PROVE  inflight'[v][a] = Cardinality(Holders(v, a)')
  <2>1. CASE v = w
    <3>1. Holders(v, a)' = {}
      BY <1>3, <2>1, MediaAssumption DEF Holders
    <3>2. inflight'[v][a] = 0
      BY <1>1, <1>2, <2>1 DEF LivesOK
    <3> QED BY <3>1, <3>2, FS_EmptySet
  <2>2. CASE v # w
    <3>1. \A r \in Request : Home[r] = v => account'[r] = account[r]
      BY <1>1, <2>2
    <3>2. Holders(v, a)' = Holders(v, a)
      BY <3>1 DEF Holders
    <3>3. inflight'[v][a] = inflight[v][a]
      BY <1>1, <1>2, <2>2 DEF LivesOK
    <3> QED BY <1>2, <3>2, <3>3 DEF CountsFit
  <2> QED BY <2>1, <2>2
<1> QED BY <1>4, <1>5, <1>6 DEF LeaseInv, CountsFit

LEMMA LeasesStart == Init => LeaseInv
<1> SUFFICES ASSUME Init PROVE LeaseInv
  OBVIOUS
<1>1. LivesOK /\ \A r \in Request : account[r] = NoAccount /\ phase[r] = "new"
  BY DEF Init, LivesOK, Phases, Results
<1>2. \A r \in Request : PhaseFits(r)
  BY <1>1 DEF PhaseFits, AtWork
<1>3. ASSUME NEW w \in Worker, NEW a \in Account
      PROVE  inflight[w][a] = Cardinality(Holders(w, a))
  <2>1. Holders(w, a) = {}
    BY <1>1, MediaAssumption DEF Holders
  <2>2. inflight[w][a] = 0
    BY DEF Init
  <2> QED BY <2>1, <2>2, FS_EmptySet
<1> QED BY <1>1, <1>2, <1>3 DEF LeaseInv, CountsFit

LEMMA LeasesKept ==
  ASSUME LeaseInv, [Next]_vars
  PROVE  LeaseInv'
<1>1. LivesOK /\ \A r \in Request : PhaseFits(r)
  BY DEF LeaseInv
<1>2. ASSUME NEW r \in Request, RequestStep(r) \/ Leaves(r) PROVE LeaseInv'
  <2>1. LeaseMove(r)
    BY <1>1, <1>2, ReservesMoves, ProbesMoves, UploadsMoves, WorksMoves, FetchesMoves,
       SavingMoves, CancelMoves DEF RequestStep
  <2> QED BY <2>1, RequestKeepsLeases
<1>3. ASSUME UNCHANGED <<lives, pool>> PROVE LeaseInv'
  BY <1>3 DEF LeaseInv, LivesOK, PhaseFits, AtWork, CountsFit, Holders, lives, pool
<1>4. ASSUME NEW w \in Worker, Crashes(w) PROVE LeaseInv'
  BY <1>4, CrashKeepsLeases
<1>5. CASE UNCHANGED vars
  BY <1>3, <1>5 DEF vars
<1>6. CASE Next
  BY <1>2, <1>3, <1>4, <1>6 DEF Next, Beside, Console, Reconciled
<1> QED BY <1>5, <1>6

LEMMA LeaseInvariant == Spec => []LeaseInv
<1> QED BY LeasesStart, LeasesKept, PTL DEF Spec

(* In every worker the in-flight count of an account is the number of its    *)
(* requests that hold it, and a request that is over holds none: through      *)
(* failed probes, retries, cancelled batches, clients that leave and workers  *)
(* that die (the finally blocks of images.py and video.py).                   *)
THEOREM MediaLeasesSettle == Spec => []LeasesSettle
<1>1. LeaseInv => LeasesSettle
  BY DEF LeaseInv, CountsFit, Holders, PhaseFits, LeasesSettle
<1> QED BY <1>1, LeaseInvariant, PTL

(* The types of the variables of requests, accounts and files. *)
THEOREM MediaTypes == Spec => []MediaTypeOK
<1>1. ASSUME CacheInv, LeaseInv PROVE MediaTypeOK
  <2>1. ASSUME NEW w \in Worker, NEW a \in Account
        PROVE  inflight[w][a] \in 0..Cardinality(Request)
    <3>1. inflight[w][a] = Cardinality(Holders(w, a))
      BY <1>1 DEF LeaseInv, CountsFit
    <3>2. Holders(w, a) \subseteq Request
      BY DEF Holders
    <3>3. Cardinality(Holders(w, a)) <= Cardinality(Request) /\ Cardinality(Request) \in Nat
      BY <3>2, RequestsAre, FS_Subset, FS_CardinalityType
    <3> QED BY <3>1, <3>3, HoldersFinite
  <2>2. inflight \in [Worker -> [Account -> 0..Cardinality(Request)]]
    BY <1>1, <2>1 DEF LeaseInv, LivesOK
  <2> QED BY <1>1, <2>2 DEF CacheInv, CacheShape, LeaseInv, LivesOK, MediaTypeOK, Phases, Results
<1> QED BY <1>1, CacheInvariant, LeaseInvariant, PTL

=============================================================================
