------------------------------ MODULE VmProofs ------------------------------
(***************************************************************************)
(* Proofs about Vm: for any processes, frames and shared regions, any size *)
(* and geometry of the page tables and any layout of a process in them.    *)
(***************************************************************************)
EXTENDS Vm, FunctionTheorems, FiniteSetTheorems, SequenceTheorems,
        NaturalsInduction, WellFoundedInduction, TLAPS

-----------------------------------------------------------------------------
(* The inductive invariant *)

RegionType == [start : Nat, end : Nat, perm : {"URW"}, store : Stores \cup {NULL},
               heap : BOOLEAN]

(* The regions of a process: the heap is one of them, and the only one     *)
(* that may be empty; a shared region has a page for each of its store.    *)
RegionsSound(rs) ==
  /\ rs \in Seq(RegionType)
  /\ \A i \in DOMAIN rs :
       /\ rs[i].start \in VPages /\ rs[i].end \in VPages /\ rs[i].start <= rs[i].end
       /\ ~rs[i].heap => rs[i].start < rs[i].end
       /\ rs[i].heap => rs[i].store = NULL
       /\ rs[i].store # NULL => rs[i].end = rs[i].start + StorePages
  /\ \A i, j \in DOMAIN rs : rs[i].heap /\ rs[j].heap => i = j
  /\ rs # <<>> => \E i \in DOMAIN rs : rs[i].heap

Ordered(rs) == \A i, j \in DOMAIN rs : i < j => rs[i].end <= rs[j].start

VmType ==
  /\ regions \in [Procs -> Seq(RegionType)]
  /\ \A p \in Procs : RegionsSound(regions[p])
  /\ pt \in [Procs -> [VPages -> [f : Frames, w : BOOLEAN] \cup {NULL}]]
  /\ refcnt \in [Frames -> Nat]
  /\ content \in [Frames -> Vals]
  /\ cached \in [SharedPages -> Frames \cup {NULL}]
  /\ lock \in [Frames -> Procs \cup {NULL}]
  /\ pc \in [Procs -> {"run", "cow", "mapped", "unlock", "failed", "setup"}]
  /\ fault \in [Procs -> [v : VPages, user : BOOLEAN]]
  /\ cp \in [Procs -> Frames \cup {NULL}]
  /\ panicked \in BOOLEAN /\ overlaid \in BOOLEAN

(* A process in handleCOW has a private page there, and in the end a frame *)
(* that it has locked.                                                     *)
Handler(p) ==
  /\ pc[p] # "run" =>
       pt[p][fault[p].v] # NULL /\ fault[p].v \in PrivateOf(regions[p])
  /\ pc[p] \in {"mapped", "unlock", "failed"} => cp[p] \in Frames

(* A page of a shared region is never read-only: the second fault on a     *)
(* page would count its frame again.                                       *)
SharedWritable ==
  \A p \in Procs : \A v \in SharedOf(regions[p]) : pt[p][v] # NULL => pt[p][v].w

Inv ==
  /\ VmType /\ WritableAlone /\ SharedSeen /\ LockHeld
  /\ RefcntExact /\ RegionsApart
  /\ ~overlaid => SharedWritable /\ \A p \in Procs : Handler(p)


(* The invariant of a state in which nothing is overlaid: every frame is   *)
(* counted, and the count of a frame of a writable private page is one.    *)
Counted == \A f \in Frames : refcnt[f] = Users(f)

CountedAlone ==
  \A p \in Procs : \A v \in PrivateOf(regions[p]) :
    pt[p][v] # NULL /\ pt[p][v].w => refcnt[pt[p][v].f] = 1

Good ==
  /\ VmType /\ Counted /\ CountedAlone /\ SharedSeen /\ LockHeld
  /\ Apart /\ SharedWritable
  /\ \A p \in Procs : Handler(p)

(* References to a frame, from tables t, a page cache c, and handlers at k *)
(* with the frames d: what Users counts.                                   *)
PteType == [f : Frames, w : BOOLEAN]
Tables == [Procs -> [VPages -> PteType \cup {NULL}]]

PtUses(t, f) ==
  {m \in Procs \X VPages : t[m[1]][m[2]] # NULL /\ t[m[1]][m[2]].f = f}
CacheUses(c, f) == {o \in SharedPages : c[o] = f}
CowUses(k, d, f) == {p \in Procs : k[p] = "mapped" /\ d[p] = f}

Count(t, c, k, d, f) ==
  Cardinality(PtUses(t, f)) + Cardinality(CacheUses(c, f)) + Cardinality(CowUses(k, d, f))

-----------------------------------------------------------------------------
(* Sets and sequences *)

LEMMA MinIn ==
  ASSUME NEW S, S \subseteq Nat, S # {}
  PROVE  Min(S) \in S /\ \A y \in S : Min(S) <= y
<1>1. \E x \in S : \A y \in S : ~(<<y, x>> \in OpToRel(<, Nat))
  BY NatLessThanWellFounded, WFMin
<1>2. PICK x \in S : \A y \in S : ~(<<y, x>> \in OpToRel(<, Nat))
  BY <1>1
<1>3. \A y \in S : x <= y
  <2> TAKE y \in S
  <2>1. x \in Nat /\ y \in Nat
    OBVIOUS
  <2>2. ~(y < x)
    BY <1>2, <2>1 DEF OpToRel
  <2> QED
    BY <2>1, <2>2
<1> QED
  BY <1>3 DEF Min

LEMMA InsertAtIs ==
  ASSUME NEW T, NEW s \in Seq(T), NEW i \in 1..(Len(s) + 1), NEW e \in T
  PROVE  /\ InsertAt(s, i, e) \in Seq(T)
         /\ Len(InsertAt(s, i, e)) = Len(s) + 1
         /\ \A j \in 1..(Len(s) + 1) :
              InsertAt(s, i, e)[j] = IF j < i THEN s[j] ELSE IF j = i THEN e ELSE s[j - 1]
<1> DEFINE a == SubSeq(s, 1, i - 1)
           b == SubSeq(s, i, Len(s))
<1>1. Len(s) \in Nat /\ i \in Nat
  OBVIOUS
<1>2. /\ a \in Seq(T) /\ Len(a) = i - 1 /\ \A j \in 1..(i - 1) : a[j] = s[j]
  BY <1>1
<1>3. /\ b \in Seq(T) /\ Len(b) = Len(s) - i + 1
      /\ \A j \in 1..(Len(s) - i + 1) : b[j] = s[i + j - 1]
  BY <1>1
<1> HIDE DEF a, b
<1>4. PICK c : c = a \o <<e>>
  OBVIOUS
<1>5. /\ c \in Seq(T) /\ Len(c) = i /\ c[i] = e
      /\ \A j \in 1..(i - 1) : c[j] = a[j]
  BY <1>1, <1>2, <1>4
<1>6. PICK d : d = c \o b
  OBVIOUS
<1>7. /\ d \in Seq(T) /\ Len(d) = Len(s) + 1
      /\ \A j \in 1..(Len(s) + 1) : d[j] = IF j <= i THEN c[j] ELSE b[j - i]
  BY <1>1, <1>3, <1>5, <1>6
<1>8. InsertAt(s, i, e) = d
  BY <1>4, <1>6 DEF InsertAt, a, b
<1>9. ASSUME NEW j \in 1..(Len(s) + 1)
      PROVE  d[j] = IF j < i THEN s[j] ELSE IF j = i THEN e ELSE s[j - 1]
  <2>1. CASE j < i
    <3>1. j \in 1..(i - 1) /\ j <= i
      BY <1>1, <2>1
    <3> QED
      BY <1>2, <1>5, <1>7, <2>1, <3>1
  <2>2. CASE j = i
    BY <1>1, <1>5, <1>7, <2>2
  <2>3. CASE j > i
    <3>1. PICK k \in 1..(Len(s) - i + 1) : k = j - i
      BY <1>1, <2>3
    <3>2. d[j] = b[k] /\ b[k] = s[i + k - 1]
      BY <1>1, <1>3, <1>7, <2>3, <3>1
    <3>3. i + k - 1 = j - 1 /\ ~(j < i) /\ j # i
      BY <1>1, <2>3, <3>1
    <3> QED
      BY <3>2, <3>3
  <2> QED
    BY <1>1, <2>1, <2>2, <2>3
<1> QED
  BY <1>7, <1>8, <1>9

LEMMA RemoveAtIs ==
  ASSUME NEW T, NEW s \in Seq(T), NEW i \in 1..Len(s)
  PROVE  /\ RemoveAt(s, i) \in Seq(T)
         /\ Len(RemoveAt(s, i)) = Len(s) - 1
         /\ \A j \in 1..(Len(s) - 1) :
              RemoveAt(s, i)[j] = IF j < i THEN s[j] ELSE s[j + 1]
<1> DEFINE a == SubSeq(s, 1, i - 1)
           b == SubSeq(s, i + 1, Len(s))
<1>1. Len(s) \in Nat /\ i \in Nat
  OBVIOUS
<1>2. /\ a \in Seq(T) /\ Len(a) = i - 1 /\ \A j \in 1..(i - 1) : a[j] = s[j]
  BY <1>1
<1>3. /\ b \in Seq(T) /\ Len(b) = Len(s) - i
      /\ \A j \in 1..(Len(s) - i) : b[j] = s[i + j]
  BY <1>1
<1> HIDE DEF a, b
<1>4. PICK d : d = a \o b
  OBVIOUS
<1>5. /\ d \in Seq(T) /\ Len(d) = Len(s) - 1
      /\ \A j \in 1..(Len(s) - 1) : d[j] = IF j <= i - 1 THEN a[j] ELSE b[j - (i - 1)]
  <2>1. /\ d \in Seq(T) /\ Len(d) = Len(a) + Len(b)
        /\ \A j \in 1..(Len(a) + Len(b)) :
             d[j] = IF j <= Len(a) THEN a[j] ELSE b[j - Len(a)]
    BY <1>2, <1>3, <1>4, ConcatProperties
  <2>2. Len(a) + Len(b) = Len(s) - 1
    BY <1>1, <1>2, <1>3
  <2> QED
    BY <1>2, <2>1, <2>2
<1>6. RemoveAt(s, i) = d
  BY <1>4 DEF RemoveAt, a, b
<1>7. ASSUME NEW j \in 1..(Len(s) - 1)
      PROVE  d[j] = IF j < i THEN s[j] ELSE s[j + 1]
  <2>1. CASE j < i
    <3>1. j \in 1..(i - 1) /\ j <= i - 1
      BY <1>1, <2>1
    <3> QED
      BY <1>2, <1>5, <2>1, <3>1
  <2>2. CASE ~(j < i)
    <3>1. /\ j - (i - 1) \in 1..(Len(s) - i) /\ ~(j <= i - 1)
          /\ i + (j - (i - 1)) = j + 1
      BY <1>1, <2>2
    <3> QED
      BY <1>1, <1>3, <1>5, <2>2, <3>1
  <2> QED
    BY <2>1, <2>2
<1> QED
  BY <1>5, <1>6, <1>7

-----------------------------------------------------------------------------
(* References to frames *)

LEMMA Consts ==
  /\ N_PTE * N_PDE \in Nat /\ VPages \subseteq Nat
  /\ CodePages \in Nat /\ StackPages \in Nat /\ StorePages \in Nat /\ LowEnd \in Nat
  /\ CodePages > 0 /\ StackPages > 0 /\ StorePages > 0
  /\ IsFiniteSet(VPages) /\ IsFiniteSet(SharedPages)
<1>1. N_PTE \in Nat /\ N_PDE \in Nat
  BY VmAssumption
<1>2. PICK n \in Nat : n = N_PTE * N_PDE
  BY <1>1
<1>3. VPages = 0..(n - 1) /\ VPages \subseteq Nat
  BY <1>2 DEF VPages
<1>4. IsFiniteSet(VPages)
  BY <1>3, FS_Interval
<1>5. /\ CodePages \in Nat /\ StackPages \in Nat /\ StorePages \in Nat /\ LowEnd \in Nat
      /\ CodePages > 0 /\ StackPages > 0 /\ StorePages > 0
  BY VmAssumption
<1>6. IsFiniteSet(SharedPages)
  <2>1. IsFiniteSet(0..(StorePages - 1))
    BY <1>5, FS_Interval
  <2> QED
    BY <2>1, VmAssumption, FS_Product DEF SharedPages
<1> QED
  BY <1>2, <1>3, <1>4, <1>5, <1>6

LEMMA UsersIs ==
  ASSUME NEW f
  PROVE  /\ Users(f) = Count(pt, cached, pc, cp, f)
         /\ Users(f)' = Count(pt', cached', pc', cp', f)
BY DEF Users, Count, PtUses, CacheUses, CowUses

LEMMA UsesFinite ==
  ASSUME NEW t, NEW c, NEW k, NEW d, NEW f
  PROVE  /\ IsFiniteSet(PtUses(t, f)) /\ Cardinality(PtUses(t, f)) \in Nat
         /\ IsFiniteSet(CacheUses(c, f)) /\ Cardinality(CacheUses(c, f)) \in Nat
         /\ IsFiniteSet(CowUses(k, d, f)) /\ Cardinality(CowUses(k, d, f)) \in Nat
         /\ Count(t, c, k, d, f) \in Nat
<1>1. IsFiniteSet(Procs \X VPages)
  BY Consts, VmAssumption, FS_Product
<1>2. IsFiniteSet(PtUses(t, f))
  <2>1. PtUses(t, f) \in SUBSET (Procs \X VPages)
    BY DEF PtUses
  <2> QED
    BY <1>1, <2>1, FS_Subset
<1>3. IsFiniteSet(CacheUses(c, f))
  <2>1. CacheUses(c, f) \in SUBSET SharedPages
    BY DEF CacheUses
  <2> QED
    BY <2>1, Consts, FS_Subset
<1>4. IsFiniteSet(CowUses(k, d, f))
  <2>1. CowUses(k, d, f) \in SUBSET Procs
    BY DEF CowUses
  <2> QED
    BY <2>1, VmAssumption, FS_Subset
<1>5. /\ Cardinality(PtUses(t, f)) \in Nat /\ Cardinality(CacheUses(c, f)) \in Nat
      /\ Cardinality(CowUses(k, d, f)) \in Nat
  BY <1>2, <1>3, <1>4, FS_CardinalityType
<1> QED
  BY <1>2, <1>3, <1>4, <1>5 DEF Count

(* A frame that is not used is in no table, and a frame that is used once  *)
(* is used where it is seen.                                               *)
LEMMA CountZero ==
  ASSUME NEW t, NEW c, NEW k, NEW d, NEW f, Count(t, c, k, d, f) = 0
  PROVE  PtUses(t, f) = {} /\ CacheUses(c, f) = {} /\ CowUses(k, d, f) = {}
<1>1. /\ Cardinality(PtUses(t, f)) = 0 /\ Cardinality(CacheUses(c, f)) = 0
      /\ Cardinality(CowUses(k, d, f)) = 0
  BY UsesFinite DEF Count
<1> QED
  BY <1>1, UsesFinite, FS_EmptySet

LEMMA CountOne ==
  ASSUME NEW t, NEW c, NEW k, NEW d, NEW f, Count(t, c, k, d, f) = 1,
         NEW m \in PtUses(t, f)
  PROVE  PtUses(t, f) = {m} /\ CacheUses(c, f) = {} /\ CowUses(k, d, f) = {}
<1>1. Cardinality(PtUses(t, f)) # 0
  BY UsesFinite, FS_EmptySet
<1>2. /\ Cardinality(PtUses(t, f)) = 1 /\ Cardinality(CacheUses(c, f)) = 0
      /\ Cardinality(CowUses(k, d, f)) = 0
  BY <1>1, UsesFinite DEF Count
<1>3. \E x : PtUses(t, f) = {x}
  BY <1>2, UsesFinite, FS_Singleton
<1> QED
  BY <1>2, <1>3, UsesFinite, FS_EmptySet

(* A frame that is in use is counted. *)
LEMMA CountSome ==
  ASSUME NEW t, NEW c, NEW k, NEW d, NEW f,
         \/ PtUses(t, f) # {} \/ CacheUses(c, f) # {} \/ CowUses(k, d, f) # {}
  PROVE  Count(t, c, k, d, f) > 0
<1>1. Count(t, c, k, d, f) # 0
  BY CountZero
<1> QED
  BY <1>1, UsesFinite

LEMMA PtUsesIs ==
  ASSUME NEW t, NEW f, NEW p \in Procs, NEW v \in VPages
  PROVE  <<p, v>> \in PtUses(t, f) <=> t[p][v] # NULL /\ t[p][v].f = f
BY DEF PtUses

(* Tables that name f in the same places. *)
LEMMA PtUsesSame ==
  ASSUME NEW t, NEW u, NEW f,
         \A p \in Procs, v \in VPages :
           (t[p][v] # NULL /\ t[p][v].f = f) <=> (u[p][v] # NULL /\ u[p][v].f = f)
  PROVE  PtUses(u, f) = PtUses(t, f)
<1>1. ASSUME NEW m \in Procs \X VPages
      PROVE  m \in PtUses(t, f) <=> m \in PtUses(u, f)
  <2>1. m[1] \in Procs /\ m[2] \in VPages
    OBVIOUS
  <2> QED
    BY <2>1 DEF PtUses
<1>2. PtUses(t, f) \subseteq Procs \X VPages /\ PtUses(u, f) \subseteq Procs \X VPages
  BY DEF PtUses
<1> QED
  BY <1>1, <1>2

(* Tables that differ in the pages S of p: what u names there, and what    *)
(* the rest of t names.                                                    *)
LEMMA PtUsesChange ==
  ASSUME NEW t, NEW u, NEW f, NEW p \in Procs, NEW S, S \subseteq VPages,
         NEW R, R \subseteq S,
         \A q \in Procs, v \in VPages : ~(q = p /\ v \in S) => u[q][v] = t[q][v],
         \A v \in S : v \in R <=> u[p][v] # NULL /\ u[p][v].f = f
  PROVE  PtUses(u, f) = (PtUses(t, f) \ ({p} \X S)) \cup ({p} \X R)
<1>1. ASSUME NEW m \in Procs \X VPages
      PROVE  m \in PtUses(u, f) <=> m \in (PtUses(t, f) \ ({p} \X S)) \cup ({p} \X R)
  <2>1. m[1] \in Procs /\ m[2] \in VPages /\ m = <<m[1], m[2]>>
    OBVIOUS
  <2>2. /\ m \in {p} \X S <=> m[1] = p /\ m[2] \in S
        /\ m \in {p} \X R <=> m[1] = p /\ m[2] \in R
    BY <2>1
  <2>3. CASE m[1] = p /\ m[2] \in S
    BY <2>1, <2>2, <2>3 DEF PtUses
  <2>4. CASE ~(m[1] = p /\ m[2] \in S)
    BY <2>1, <2>2, <2>4 DEF PtUses
  <2> QED
    BY <2>3, <2>4
<1>2. /\ PtUses(t, f) \subseteq Procs \X VPages /\ PtUses(u, f) \subseteq Procs \X VPages
      /\ {p} \X R \subseteq Procs \X VPages
  BY DEF PtUses
<1> QED
  BY <1>1, <1>2

LEMMA RowCard ==
  ASSUME NEW p, NEW R, IsFiniteSet(R)
  PROVE  /\ IsFiniteSet({p} \X R) /\ Cardinality({p} \X R) = Cardinality(R)
         /\ Cardinality(R) \in Nat
<1>1. IsFiniteSet({p}) /\ Cardinality({p}) = 1
  BY FS_Singleton
<1>2. Cardinality({p} \X R) = 1 * Cardinality(R) /\ IsFiniteSet({p} \X R)
  BY <1>1, FS_Product
<1> QED
  BY <1>2, FS_CardinalityType

(* The pages of p that t maps to f. *)
MappedIn(t, p, f) == {v \in VPages : t[p][v] # NULL /\ t[p][v].f = f}

LEMMA MappedFinite ==
  ASSUME NEW t, NEW p, NEW f, NEW S
  PROVE  /\ IsFiniteSet(MappedIn(t, p, f) \cap S)
         /\ Cardinality(MappedIn(t, p, f) \cap S) \in Nat
<1>1. MappedIn(t, p, f) \cap S \in SUBSET VPages
  BY DEF MappedIn
<1> QED
  BY <1>1, Consts, FS_Subset, FS_CardinalityType

(* Entries cleared *)
LEMMA PtCleared ==
  ASSUME NEW t, NEW u, NEW f, NEW p \in Procs, NEW S,
         \A q \in Procs \ {p}, v \in VPages : u[q][v] = t[q][v],
         \A v \in VPages : u[p][v] = IF v \in S THEN NULL ELSE t[p][v]
  PROVE  /\ Cardinality(PtUses(u, f))
              = Cardinality(PtUses(t, f)) - Cardinality(MappedIn(t, p, f) \cap S)
         /\ Cardinality(MappedIn(t, p, f) \cap S) <= Cardinality(PtUses(t, f))
<1> DEFINE R == MappedIn(t, p, f) \cap S
<1>1. PtUses(u, f) = PtUses(t, f) \ ({p} \X R)
  <2>1. ASSUME NEW m \in Procs \X VPages
        PROVE  m \in PtUses(u, f) <=> m \in PtUses(t, f) \ ({p} \X R)
    <3>1. m[1] \in Procs /\ m[2] \in VPages /\ m = <<m[1], m[2]>>
      OBVIOUS
    <3>2. m \in {p} \X R <=> m[1] = p /\ m[2] \in R
      BY <3>1
    <3>3. CASE m[1] = p
      BY <3>1, <3>2, <3>3 DEF PtUses, MappedIn
    <3>4. CASE m[1] # p
      <4>1. u[m[1]][m[2]] = t[m[1]][m[2]]
        BY <3>1, <3>4
      <4> QED
        BY <3>1, <3>2, <3>4, <4>1 DEF PtUses
    <3> QED
      BY <3>3, <3>4
  <2>2. PtUses(t, f) \subseteq Procs \X VPages /\ PtUses(u, f) \subseteq Procs \X VPages
    BY DEF PtUses
  <2> HIDE DEF R
  <2> QED
    BY <2>1, <2>2
<1>2. {p} \X R \in SUBSET PtUses(t, f)
  BY DEF PtUses, MappedIn
<1>3. IsFiniteSet(R)
  BY MappedFinite
<1> HIDE DEF R
<1>4. IsFiniteSet(PtUses(t, f)) /\ Cardinality(PtUses(t, f)) \in Nat
  BY UsesFinite
<1>5. PtUses(t, f) \cap ({p} \X R) = {p} \X R
  BY <1>2
<1>6. Cardinality(PtUses(u, f)) = Cardinality(PtUses(t, f)) - Cardinality({p} \X R)
  BY <1>1, <1>4, <1>5, FS_Difference
<1>7. Cardinality({p} \X R) = Cardinality(R)
  BY <1>3, RowCard
<1>8. Cardinality({p} \X R) <= Cardinality(PtUses(t, f))
  BY <1>2, <1>4, FS_Subset
<1> QED
  BY <1>6, <1>7, <1>8 DEF R

(* Entries of p copied to q, which has none *)
Copied(t, u, p, q, S, f) ==
  /\ p \in Procs /\ q \in Procs /\ p # q
  /\ \A v \in VPages : t[q][v] = NULL
  /\ \A o \in Procs \ {q}, v \in VPages :
       (t[o][v] # NULL /\ t[o][v].f = f) <=> (u[o][v] # NULL /\ u[o][v].f = f)
  /\ \A v \in VPages :
       (u[q][v] # NULL /\ u[q][v].f = f) <=> v \in MappedIn(t, p, f) \cap S

LEMMA PtCopied ==
  ASSUME NEW t, NEW u, NEW f, NEW p, NEW q, NEW S, Copied(t, u, p, q, S, f)
  PROVE  Cardinality(PtUses(u, f))
           = Cardinality(PtUses(t, f)) + Cardinality(MappedIn(t, p, f) \cap S)
<1> DEFINE R == MappedIn(t, p, f) \cap S
<1> USE DEF Copied
<1>1. PtUses(u, f) = PtUses(t, f) \cup ({q} \X R)
  <2>1. ASSUME NEW m \in Procs \X VPages
        PROVE  m \in PtUses(u, f) <=> m \in PtUses(t, f) \cup ({q} \X R)
    <3>1. m[1] \in Procs /\ m[2] \in VPages /\ m = <<m[1], m[2]>>
      OBVIOUS
    <3>2. m \in {q} \X R <=> m[1] = q /\ m[2] \in R
      BY <3>1
    <3>3. CASE m[1] = q
      BY <3>1, <3>2, <3>3 DEF PtUses
    <3>4. CASE m[1] # q
      BY <3>1, <3>2, <3>4 DEF PtUses
    <3> QED
      BY <3>3, <3>4
  <2>2. /\ PtUses(t, f) \subseteq Procs \X VPages /\ PtUses(u, f) \subseteq Procs \X VPages
        /\ {q} \X R \subseteq Procs \X VPages
    BY DEF PtUses, MappedIn
  <2> HIDE DEF R
  <2> QED
    BY <2>1, <2>2
<1>2. PtUses(t, f) \cap ({q} \X R) = {}
  <2>1. ASSUME NEW m \in PtUses(t, f), m \in {q} \X R PROVE FALSE
    BY <2>1 DEF PtUses, MappedIn
  <2> QED
    BY <2>1
<1>3. IsFiniteSet(R)
  BY MappedFinite
<1> HIDE DEF R, Copied
<1>4. IsFiniteSet(PtUses(t, f)) /\ Cardinality(PtUses(t, f)) \in Nat
  BY UsesFinite
<1>5. /\ Cardinality({q} \X R) = Cardinality(R) /\ IsFiniteSet({q} \X R)
      /\ Cardinality(R) \in Nat
  BY <1>3, RowCard
<1>6. Cardinality(PtUses(u, f)) = Cardinality(PtUses(t, f)) + Cardinality({q} \X R) - 0
  <2>1. PICK A : A = PtUses(t, f)
    OBVIOUS
  <2>2. PICK E : E = {q} \X R
    OBVIOUS
  <2>3. Cardinality(A \cup E) = Cardinality(A) + Cardinality(E) - Cardinality(A \cap E)
    BY ONLY <1>4, <1>5, <2>1, <2>2, FS_Union
  <2>4. A \cap E = {}
    BY <1>2, <2>1, <2>2
  <2> QED
    BY <1>1, <2>1, <2>2, <2>3, <2>4, FS_EmptySet
<1> QED
  BY <1>4, <1>5, <1>6 DEF R

(* One entry changed *)
OnlyAt(t, u, p, v, f) ==
  /\ p \in Procs /\ v \in VPages
  /\ \A q \in Procs, w \in VPages : ~(q = p /\ w = v) =>
       ((t[q][w] # NULL /\ t[q][w].f = f) <=> (u[q][w] # NULL /\ u[q][w].f = f))

GainsAt(t, u, p, v, f) ==
  /\ ~(t[p][v] # NULL /\ t[p][v].f = f) /\ u[p][v] # NULL /\ u[p][v].f = f
  /\ OnlyAt(t, u, p, v, f)

LosesAt(t, u, p, v, f) ==
  /\ t[p][v] # NULL /\ t[p][v].f = f /\ ~(u[p][v] # NULL /\ u[p][v].f = f)
  /\ OnlyAt(t, u, p, v, f)

LEMMA PtGains ==
  ASSUME NEW t, NEW u, NEW f, NEW p, NEW v, GainsAt(t, u, p, v, f)
  PROVE  /\ PtUses(u, f) = PtUses(t, f) \cup {<<p, v>>}
         /\ Cardinality(PtUses(u, f)) = Cardinality(PtUses(t, f)) + 1
<1>1. PtUses(u, f) = PtUses(t, f) \cup {<<p, v>>}
  <2>1. ASSUME NEW m \in Procs \X VPages
        PROVE  m \in PtUses(u, f) <=> m \in PtUses(t, f) \cup {<<p, v>>}
    <3>1. m[1] \in Procs /\ m[2] \in VPages /\ m = <<m[1], m[2]>>
      OBVIOUS
    <3>2. CASE m[1] = p /\ m[2] = v
      BY <3>1, <3>2 DEF PtUses, GainsAt
    <3>3. CASE ~(m[1] = p /\ m[2] = v)
      BY <3>1, <3>3 DEF PtUses, OnlyAt, GainsAt
    <3> QED
      BY <3>2, <3>3
  <2>2. PtUses(t, f) \subseteq Procs \X VPages /\ PtUses(u, f) \subseteq Procs \X VPages
    BY DEF PtUses
  <2>3. <<p, v>> \in Procs \X VPages
    BY DEF OnlyAt, GainsAt
  <2> QED
    BY <2>1, <2>2, <2>3
<1>2. <<p, v>> \notin PtUses(t, f)
  BY DEF PtUses, GainsAt
<1> QED
  BY <1>1, <1>2, UsesFinite, FS_AddElement

LEMMA PtLoses ==
  ASSUME NEW t, NEW u, NEW f, NEW p, NEW v, LosesAt(t, u, p, v, f)
  PROVE  Cardinality(PtUses(u, f)) = Cardinality(PtUses(t, f)) - 1
<1>1. PtUses(u, f) = PtUses(t, f) \ {<<p, v>>}
  <2>1. ASSUME NEW m \in Procs \X VPages
        PROVE  m \in PtUses(u, f) <=> m \in PtUses(t, f) \ {<<p, v>>}
    <3>1. m[1] \in Procs /\ m[2] \in VPages /\ m = <<m[1], m[2]>>
      OBVIOUS
    <3>2. CASE m[1] = p /\ m[2] = v
      BY <3>1, <3>2 DEF PtUses, LosesAt
    <3>3. CASE ~(m[1] = p /\ m[2] = v)
      BY <3>1, <3>3 DEF PtUses, OnlyAt, LosesAt
    <3> QED
      BY <3>2, <3>3
  <2>2. PtUses(t, f) \subseteq Procs \X VPages /\ PtUses(u, f) \subseteq Procs \X VPages
    BY DEF PtUses
  <2>3. <<p, v>> \in Procs \X VPages
    BY DEF OnlyAt, LosesAt
  <2> QED
    BY <2>1, <2>2, <2>3
<1>2. <<p, v>> \in PtUses(t, f)
  BY DEF PtUses, OnlyAt, LosesAt
<1>3. IsFiniteSet(PtUses(t, f))
  BY UsesFinite
<1> QED
  BY <1>1, <1>2, <1>3, FS_RemoveElement

CacheGainsAt(c, e, o, f) ==
  /\ o \in SharedPages /\ c[o] # f /\ e[o] = f
  /\ \A x \in SharedPages \ {o} : c[x] = f <=> e[x] = f

LEMMA CacheGains ==
  ASSUME NEW c, NEW e, NEW f, NEW o, CacheGainsAt(c, e, o, f)
  PROVE  Cardinality(CacheUses(e, f)) = Cardinality(CacheUses(c, f)) + 1
<1>1. CacheUses(e, f) = CacheUses(c, f) \cup {o} /\ o \notin CacheUses(c, f)
  BY DEF CacheUses, CacheGainsAt
<1> QED
  BY <1>1, UsesFinite, FS_AddElement

LEMMA CacheSame ==
  ASSUME NEW c, NEW e, NEW f, \A x \in SharedPages : c[x] = f <=> e[x] = f
  PROVE  CacheUses(e, f) = CacheUses(c, f)
BY DEF CacheUses

CowGainsAt(k, l, c, d, p, f) ==
  /\ p \in Procs
  /\ ~(k[p] = "mapped" /\ c[p] = f) /\ l[p] = "mapped" /\ d[p] = f
  /\ \A x \in Procs \ {p} :
       (k[x] = "mapped" /\ c[x] = f) <=> (l[x] = "mapped" /\ d[x] = f)

LEMMA CowGains ==
  ASSUME NEW k, NEW l, NEW c, NEW d, NEW f, NEW p, CowGainsAt(k, l, c, d, p, f)
  PROVE  Cardinality(CowUses(l, d, f)) = Cardinality(CowUses(k, c, f)) + 1
<1>1. CowUses(l, d, f) = CowUses(k, c, f) \cup {p} /\ p \notin CowUses(k, c, f)
  BY DEF CowUses, CowGainsAt
<1> QED
  BY <1>1, UsesFinite, FS_AddElement

LEMMA CowSame ==
  ASSUME NEW k, NEW l, NEW c, NEW d, NEW f,
         \A x \in Procs : (k[x] = "mapped" /\ c[x] = f) <=> (l[x] = "mapped" /\ d[x] = f)
  PROVE  CowUses(l, d, f) = CowUses(k, c, f)
BY DEF CowUses

-----------------------------------------------------------------------------
(* Regions *)

LEMMA PrivateIs ==
  ASSUME NEW rs, NEW v
  PROVE  /\ v \in PrivateOf(rs) <=>
              \E i \in DOMAIN rs : rs[i].store = NULL /\ v \in Inside(rs[i])
         /\ v \in SharedOf(rs) <=>
              \E i \in DOMAIN rs : rs[i].store # NULL /\ v \in Inside(rs[i])
BY DEF PrivateOf, SharedOf

LEMMA NoRegions == PrivateOf(<<>>) = {} /\ SharedOf(<<>>) = {}
BY PrivateIs

LEMMA RegionIn ==
  ASSUME NEW rs, RegionsSound(rs), NEW i \in DOMAIN rs
  PROVE  /\ rs[i] \in RegionType
         /\ rs[i].start \in VPages /\ rs[i].end \in VPages
         /\ rs[i].start \in Nat /\ rs[i].end \in Nat /\ rs[i].start <= rs[i].end
         /\ rs[i].heap \in BOOLEAN /\ rs[i].store \in Stores \cup {NULL}
         /\ Inside(rs[i]) \subseteq VPages
         /\ \A v : v \in Inside(rs[i]) <=> v \in Nat /\ rs[i].start <= v /\ v < rs[i].end
<1>1. rs \in Seq(RegionType)
  BY DEF RegionsSound
<1>2. rs[i] \in RegionType
  BY <1>1
<1>3. /\ rs[i].start \in Nat /\ rs[i].end \in Nat
      /\ rs[i].heap \in BOOLEAN /\ rs[i].store \in Stores \cup {NULL}
  BY <1>2 DEF RegionType
<1>4. rs[i].start \in VPages /\ rs[i].end \in VPages /\ rs[i].start <= rs[i].end
  BY DEF RegionsSound
<1>5. \A v : v \in Inside(rs[i]) <=> v \in Nat /\ rs[i].start <= v /\ v < rs[i].end
  BY <1>3 DEF Inside
<1>6. Inside(rs[i]) \subseteq VPages
  <2>1. PICK n \in Nat : n = N_PTE * N_PDE
    BY Consts
  <2> QED
    BY <1>3, <1>4, <1>5, <2>1 DEF VPages
<1> QED
  BY <1>2, <1>3, <1>4, <1>5, <1>6

LEMMA PrivateIn ==
  ASSUME NEW rs, RegionsSound(rs)
  PROVE  PrivateOf(rs) \subseteq VPages /\ SharedOf(rs) \subseteq VPages
BY PrivateIs, RegionIn

(* A page is in one region at most. *)
LEMMA InOne ==
  ASSUME NEW rs, RegionsSound(rs), Ordered(rs), NEW i \in DOMAIN rs, NEW j \in DOMAIN rs,
         NEW v, v \in Inside(rs[i]), v \in Inside(rs[j])
  PROVE  i = j
<1>1. rs \in Seq(RegionType) /\ i \in Nat /\ j \in Nat
  BY DEF RegionsSound
<1>2. /\ v \in Nat /\ rs[i].start <= v /\ v < rs[i].end
      /\ rs[j].start <= v /\ v < rs[j].end
      /\ rs[i].start \in Nat /\ rs[i].end \in Nat /\ rs[j].start \in Nat /\ rs[j].end \in Nat
  BY RegionIn
<1>3. /\ i < j => rs[i].end <= rs[j].start
      /\ j < i => rs[j].end <= rs[i].start
  BY DEF Ordered
<1> QED
  BY <1>1, <1>2, <1>3

LEMMA PrivateShared ==
  ASSUME NEW rs, RegionsSound(rs), Ordered(rs), NEW v \in PrivateOf(rs)
  PROVE  v \notin SharedOf(rs)
<1>1. PICK i \in DOMAIN rs : rs[i].store = NULL /\ v \in Inside(rs[i])
  BY PrivateIs
<1>2. ASSUME v \in SharedOf(rs) PROVE FALSE
  <2>1. PICK j \in DOMAIN rs : rs[j].store # NULL /\ v \in Inside(rs[j])
    BY <1>2, PrivateIs
  <2> QED
    BY <1>1, <2>1, InOne
<1> QED
  BY <1>2

(* A new region *)
NewRegion(r) ==
  /\ r \in RegionType /\ ~r.heap
  /\ r.start \in VPages /\ r.end \in VPages /\ r.start < r.end
  /\ r.store # NULL => r.end = r.start + StorePages

LEMMA LinkedIs ==
  ASSUME NEW rs, rs \in Seq(RegionType), NEW r \in RegionType
  PROVE  \E k \in 1..(Len(rs) + 1) :
           /\ Linked(rs, r) = InsertAt(rs, k, r)
           /\ \A i \in DOMAIN rs : i < k => rs[i].start < r.end
           /\ k <= Len(rs) => rs[k].start >= r.end
<1> DEFINE Later == {i \in DOMAIN rs : rs[i].start >= r.end}
<1>1. DOMAIN rs = 1..Len(rs) /\ Len(rs) \in Nat
  OBVIOUS
<1>2. \A i \in DOMAIN rs : rs[i].start \in Nat /\ rs[i].end \in Nat
  <2> TAKE i \in DOMAIN rs
  <2>1. rs[i] \in RegionType
    OBVIOUS
  <2> QED
    BY <2>1 DEF RegionType
<1>3. r.start \in Nat /\ r.end \in Nat
  BY DEF RegionType
<1>4. CASE Later = {}
  <2>1. Linked(rs, r) = InsertAt(rs, Len(rs) + 1, r)
    BY <1>4 DEF Linked
  <2>2. \A i \in DOMAIN rs : rs[i].start < r.end
    BY <1>2, <1>3, <1>4
  <2>3. Len(rs) + 1 \in 1..(Len(rs) + 1) /\ ~(Len(rs) + 1 <= Len(rs))
    BY <1>1
  <2> QED
    BY <2>1, <2>2, <2>3
<1>5. CASE Later # {}
  <2>1. Linked(rs, r) = InsertAt(rs, Min(Later), r)
    BY <1>5 DEF Linked
  <2>2. Later \subseteq Nat /\ Later \subseteq 1..Len(rs)
    BY <1>1
  <2>3. Min(Later) \in Later /\ \A i \in Later : Min(Later) <= i
    BY <1>5, <2>2, MinIn
  <2>4. PICK k \in Later : k = Min(Later)
    BY <2>3
  <2>5. ASSUME NEW i \in DOMAIN rs, i < k PROVE rs[i].start < r.end
    <3>1. i \notin Later
      <4>1. i \in Nat /\ k \in Nat
        BY <1>1, <2>2
      <4>2. i \in Later => k <= i
        BY <2>3, <2>4
      <4> QED
        BY <2>5, <4>1, <4>2
    <3> QED
      BY <1>2, <1>3, <3>1
  <2>6. k \in 1..(Len(rs) + 1) /\ rs[k].start >= r.end
    BY <1>1, <2>2
  <2> QED
    BY <2>1, <2>4, <2>5, <2>6
<1> QED
  BY <1>4, <1>5

LEMMA LinkedSound ==
  ASSUME NEW rs, RegionsSound(rs), Ordered(rs), rs # <<>>, NEW r, NewRegion(r),
         ~memregion_allocated(rs, r.start, r.end)
  PROVE  /\ RegionsSound(Linked(rs, r)) /\ Ordered(Linked(rs, r))
         /\ \A i \in DOMAIN Linked(rs, r) :
              Linked(rs, r)[i] = r \/ \E j \in DOMAIN rs : Linked(rs, r)[i] = rs[j]
         /\ \A j \in DOMAIN rs : \E i \in DOMAIN Linked(rs, r) : Linked(rs, r)[i] = rs[j]
<1>1. rs \in Seq(RegionType) /\ DOMAIN rs = 1..Len(rs) /\ Len(rs) \in Nat /\ r \in RegionType
  BY DEF RegionsSound, NewRegion
<1>2. PICK k \in 1..(Len(rs) + 1) :
        /\ Linked(rs, r) = InsertAt(rs, k, r)
        /\ \A i \in DOMAIN rs : i < k => rs[i].start < r.end
        /\ k <= Len(rs) => rs[k].start >= r.end
  BY <1>1, LinkedIs
<1>3. PICK l : l = Linked(rs, r)
  OBVIOUS
<1>4. /\ l \in Seq(RegionType) /\ Len(l) = Len(rs) + 1 /\ DOMAIN l = 1..(Len(rs) + 1)
      /\ \A j \in 1..(Len(rs) + 1) :
           l[j] = IF j < k THEN rs[j] ELSE IF j = k THEN r ELSE rs[j - 1]
  <2>1. /\ InsertAt(rs, k, r) \in Seq(RegionType)
        /\ Len(InsertAt(rs, k, r)) = Len(rs) + 1
        /\ \A j \in 1..(Len(rs) + 1) :
             InsertAt(rs, k, r)[j] = IF j < k THEN rs[j] ELSE IF j = k THEN r ELSE rs[j - 1]
    BY <1>1, InsertAtIs
  <2>2. l = InsertAt(rs, k, r)
    BY <1>2, <1>3
  <2>3. /\ l \in Seq(RegionType) /\ Len(l) = Len(rs) + 1
        /\ \A j \in 1..(Len(rs) + 1) :
             l[j] = IF j < k THEN rs[j] ELSE IF j = k THEN r ELSE rs[j - 1]
    BY ONLY <2>1, <2>2
  <2> QED
    BY <2>3
<1>5. \A i \in DOMAIN rs : rs[i].start \in Nat /\ rs[i].end \in Nat /\ rs[i].start <= rs[i].end
  BY RegionIn
<1>6. r.start \in Nat /\ r.end \in Nat /\ r.start < r.end /\ r.heap = FALSE
  BY DEF NewRegion, RegionType
<1>7. \A i \in DOMAIN rs : r.start >= rs[i].end \/ r.end <= rs[i].start
  BY <1>5, <1>6 DEF memregion_allocated
<1>8. \A i \in DOMAIN rs : i < k => rs[i].end <= r.start
  BY <1>2, <1>5, <1>6, <1>7
<1>9. ASSUME NEW i \in DOMAIN rs, i >= k PROVE rs[i].start >= r.end
  <2>1. k \in DOMAIN rs /\ k \in Nat /\ i \in Nat
    BY <1>1, <1>9
  <2>2. rs[k].start >= r.end
    BY <1>1, <1>2, <2>1
  <2>3. k < i => rs[k].end <= rs[i].start
    BY <2>1 DEF Ordered
  <2> QED
    BY <1>5, <1>6, <1>9, <2>1, <2>2, <2>3
<1>10. ASSUME NEW i \in DOMAIN l
       PROVE  \/ i = k /\ l[i] = r
              \/ i < k /\ i \in DOMAIN rs /\ l[i] = rs[i]
              \/ i > k /\ i - 1 \in DOMAIN rs /\ l[i] = rs[i - 1]
  BY <1>1, <1>2, <1>4
<1>11. \A i \in DOMAIN l : l[i] = r \/ \E j \in DOMAIN rs : l[i] = rs[j]
  BY <1>10
<1>12. ASSUME NEW j \in DOMAIN rs PROVE \E i \in DOMAIN l : l[i] = rs[j]
  <2>1. CASE j < k
    BY <1>1, <1>4, <2>1
  <2>2. CASE ~(j < k)
    <3>1. j + 1 \in DOMAIN l /\ ~(j + 1 < k) /\ j + 1 # k /\ (j + 1) - 1 = j
      BY <1>1, <1>4, <2>2
    <3>2. l[j + 1] = rs[j]
      BY <1>4, <3>1
    <3> QED
      BY <3>1, <3>2
  <2> QED
    BY <2>1, <2>2
<1>13. Ordered(l)
  <2> SUFFICES ASSUME NEW i \in DOMAIN l, NEW j \in DOMAIN l, i < j
               PROVE  l[i].end <= l[j].start
    BY DEF Ordered
  <2>1. i \in Nat /\ j \in Nat /\ k \in Nat
    BY <1>4
  <2>2. CASE i < k
    <3>1. i \in DOMAIN rs /\ l[i] = rs[i]
      BY <1>10, <2>1, <2>2
    <3>2. CASE j < k
      <4>1. j \in DOMAIN rs /\ l[j] = rs[j]
        BY <1>10, <2>1, <3>2
      <4> QED
        BY <3>1, <4>1 DEF Ordered
    <3>3. CASE j = k
      BY <1>4, <1>8, <2>2, <3>1, <3>3
    <3>4. CASE j > k
      <4>1. j - 1 \in DOMAIN rs /\ l[j] = rs[j - 1] /\ i < j - 1
        BY <1>10, <2>1, <2>2, <3>4
      <4> QED
        BY <3>1, <4>1 DEF Ordered
    <3> QED
      BY <2>1, <3>2, <3>3, <3>4
  <2>3. CASE i = k
    <3>1. j - 1 \in DOMAIN rs /\ l[j] = rs[j - 1] /\ j - 1 >= k
      BY <1>10, <2>1, <2>3
    <3>2. rs[j - 1].start >= r.end /\ l[i] = r
      BY <1>4, <1>9, <2>3, <3>1
    <3> QED
      BY <1>5, <1>6, <3>1, <3>2
  <2>4. CASE i > k
    <3>1. /\ i - 1 \in DOMAIN rs /\ l[i] = rs[i - 1]
          /\ j - 1 \in DOMAIN rs /\ l[j] = rs[j - 1] /\ i - 1 < j - 1
      BY <1>10, <2>1, <2>4
    <3> QED
      BY <3>1 DEF Ordered
  <2> QED
    BY <2>1, <2>2, <2>3, <2>4
<1>14. RegionsSound(l)
  <2>1. ASSUME NEW i \in DOMAIN l
        PROVE  /\ l[i].start \in VPages /\ l[i].end \in VPages /\ l[i].start <= l[i].end
               /\ ~l[i].heap => l[i].start < l[i].end
               /\ l[i].heap => l[i].store = NULL
               /\ l[i].store # NULL => l[i].end = l[i].start + StorePages
    <3>1. CASE l[i] = r
      BY <1>6, <3>1 DEF NewRegion
    <3>2. CASE \E j \in DOMAIN rs : l[i] = rs[j]
      BY <3>2 DEF RegionsSound
    <3> QED
      BY <1>11, <3>1, <3>2
  <2>2. ASSUME NEW i \in DOMAIN l, NEW j \in DOMAIN l, l[i].heap, l[j].heap
        PROVE  i = j
    <3> DEFINE Back(n) == IF n < k THEN n ELSE n - 1
    <3>1. i # k /\ j # k
      BY <1>4, <1>6, <2>2
    <3>2. /\ Back(i) \in DOMAIN rs /\ l[i] = rs[Back(i)]
          /\ Back(j) \in DOMAIN rs /\ l[j] = rs[Back(j)]
      BY <1>4, <1>10, <3>1
    <3>3. Back(i) = Back(j)
      BY <2>2, <3>2 DEF RegionsSound
    <3> QED
      BY <1>4, <3>1, <3>3
  <2>3. \E i \in DOMAIN l : l[i].heap
    <3>1. PICK j \in DOMAIN rs : rs[j].heap
      BY DEF RegionsSound
    <3> QED
      BY <1>12, <3>1
  <2> QED
    BY <1>4, <2>1, <2>2, <2>3 DEF RegionsSound
<1> QED
  BY <1>3, <1>11, <1>12, <1>13, <1>14

(* A shared region that goes *)
LEMMA RemovedSound ==
  ASSUME NEW rs, RegionsSound(rs), NEW k \in DOMAIN rs, rs[k].store # NULL
  PROVE  /\ RegionsSound(RemoveAt(rs, k))
         /\ Ordered(rs) => Ordered(RemoveAt(rs, k))
         /\ \A i \in DOMAIN RemoveAt(rs, k) :
              \E j \in DOMAIN rs \ {k} : RemoveAt(rs, k)[i] = rs[j]
         /\ \A j \in DOMAIN rs \ {k} :
              \E i \in DOMAIN RemoveAt(rs, k) : RemoveAt(rs, k)[i] = rs[j]
<1>1. rs \in Seq(RegionType) /\ DOMAIN rs = 1..Len(rs) /\ Len(rs) \in Nat
  BY DEF RegionsSound
<1>2. PICK l : l = RemoveAt(rs, k)
  OBVIOUS
<1>3. /\ l \in Seq(RegionType) /\ Len(l) = Len(rs) - 1 /\ DOMAIN l = 1..(Len(rs) - 1)
      /\ \A j \in 1..(Len(rs) - 1) : l[j] = IF j < k THEN rs[j] ELSE rs[j + 1]
  <2>1. /\ RemoveAt(rs, k) \in Seq(RegionType)
        /\ Len(RemoveAt(rs, k)) = Len(rs) - 1
        /\ \A j \in 1..(Len(rs) - 1) :
             RemoveAt(rs, k)[j] = IF j < k THEN rs[j] ELSE rs[j + 1]
    BY <1>1, RemoveAtIs
  <2>2. /\ l \in Seq(RegionType) /\ Len(l) = Len(rs) - 1
        /\ \A j \in 1..(Len(rs) - 1) : l[j] = IF j < k THEN rs[j] ELSE rs[j + 1]
    BY ONLY <1>2, <2>1
  <2> QED
    BY <2>2
<1> DEFINE Was(n) == IF n < k THEN n ELSE n + 1
<1>4. \A i \in DOMAIN l : Was(i) \in DOMAIN rs \ {k} /\ l[i] = rs[Was(i)]
  BY <1>1, <1>3
<1>5. \A i, j \in DOMAIN l : /\ Was(i) = Was(j) => i = j
                             /\ i < j => Was(i) < Was(j)
  BY <1>1, <1>3
<1>6. ASSUME NEW j \in DOMAIN rs \ {k} PROVE \E i \in DOMAIN l : l[i] = rs[j]
  <2>1. CASE j < k
    BY <1>1, <1>3, <2>1
  <2>2. CASE ~(j < k)
    <3>1. j - 1 \in DOMAIN l /\ ~(j - 1 < k) /\ (j - 1) + 1 = j
      BY <1>1, <1>3, <2>2
    <3>2. l[j - 1] = rs[j]
      BY <1>3, <3>1
    <3> QED
      BY <3>1, <3>2
  <2> QED
    BY <2>1, <2>2
<1> HIDE DEF Was
<1>7. ASSUME Ordered(rs) PROVE Ordered(l)
  BY <1>4, <1>5, <1>7 DEF Ordered
<1>8. RegionsSound(l)
  <2>1. ASSUME NEW i \in DOMAIN l
        PROVE  /\ l[i].start \in VPages /\ l[i].end \in VPages /\ l[i].start <= l[i].end
               /\ ~l[i].heap => l[i].start < l[i].end
               /\ l[i].heap => l[i].store = NULL
               /\ l[i].store # NULL => l[i].end = l[i].start + StorePages
    BY <1>4 DEF RegionsSound
  <2>2. ASSUME NEW i \in DOMAIN l, NEW j \in DOMAIN l, l[i].heap, l[j].heap
        PROVE  i = j
    <3>1. Was(i) = Was(j)
      BY <1>4, <2>2 DEF RegionsSound
    <3> QED
      BY <1>5, <3>1
  <2>3. \E i \in DOMAIN l : l[i].heap
    <3>1. PICK j \in DOMAIN rs : rs[j].heap
      <4>1. rs # <<>>
        BY <1>1
      <4> QED
        BY <4>1 DEF RegionsSound
    <3>2. j # k
      BY <3>1 DEF RegionsSound
    <3> QED
      BY <1>6, <3>1, <3>2
  <2> QED
    BY <1>3, <2>1, <2>2, <2>3 DEF RegionsSound
<1> QED
  BY <1>2, <1>4, <1>6, <1>7, <1>8

-----------------------------------------------------------------------------
(* The invariant in the states that have a next one *)

LEMMA InvGood == Inv /\ ~overlaid => Good
<1> SUFFICES ASSUME Inv, ~overlaid PROVE Good
  OBVIOUS
<1>1. /\ VmType /\ WritableAlone /\ SharedSeen /\ LockHeld /\ Counted /\ Apart
      /\ SharedWritable /\ \A p \in Procs : Handler(p)
  BY DEF Inv, RefcntExact, RegionsApart, Counted
<1>2. CountedAlone
  <2> SUFFICES ASSUME NEW p \in Procs, NEW v \in PrivateOf(regions[p]),
                      pt[p][v] # NULL, pt[p][v].w
               PROVE  refcnt[pt[p][v].f] = 1
    BY DEF CountedAlone
  <2>1. RegionsSound(regions[p]) /\ Ordered(regions[p])
    BY <1>1 DEF VmType, Apart, Ordered
  <2>2. v \notin SharedOf(regions[p]) /\ v \in VPages
    BY <2>1, PrivateShared, PrivateIn
  <2>3. Users(pt[p][v].f) = 1
    BY <1>1, <2>2 DEF WritableAlone
  <2>4. pt[p][v].f \in Frames
    <3>1. pt[p][v] \in [f : Frames, w : BOOLEAN]
      BY <1>1, <2>2 DEF VmType
    <3> QED
      BY <3>1
  <2> QED
    BY <1>1, <2>3, <2>4 DEF Counted
<1> QED
  BY <1>1, <1>2 DEF Good

LEMMA GoodInv == Good => Inv
<1> SUFFICES ASSUME Good PROVE Inv
  OBVIOUS
<1>1. /\ VmType /\ Counted /\ CountedAlone /\ SharedSeen /\ LockHeld
      /\ Apart /\ SharedWritable /\ \A p \in Procs : Handler(p)
  BY DEF Good
<1>2. WritableAlone
  <2> SUFFICES ASSUME NEW p \in Procs,
                      NEW v \in PrivateOf(regions[p]) \ SharedOf(regions[p]),
                      pt[p][v] # NULL, pt[p][v].w
               PROVE  Users(pt[p][v].f) = 1
    BY DEF WritableAlone
  <2>1. RegionsSound(regions[p])
    BY <1>1 DEF VmType
  <2>2. v \in VPages
    BY <2>1, PrivateIn
  <2>3. pt[p][v].f \in Frames
    <3>1. pt[p][v] \in [f : Frames, w : BOOLEAN]
      BY <1>1, <2>2 DEF VmType
    <3> QED
      BY <3>1
  <2> QED
    BY <1>1, <2>3 DEF Counted, CountedAlone
<1> QED
  BY <1>1, <1>2 DEF Inv, RefcntExact, RegionsApart, Counted

LEMMA GoodNext == Good' => Inv'
BY GoodInv, PTL

LEMMA TypeIs ==
  ASSUME VmType
  PROVE  TypeOK
<1>1. ASSUME NEW p \in Procs, NEW i \in DOMAIN regions[p]
      PROVE  regions[p][i].start \in VPages /\ regions[p][i].end \in VPages
  BY RegionIn DEF VmType
<1> QED
  BY <1>1 DEF VmType, TypeOK

LEMMA PteIs ==
  ASSUME NEW t \in Tables, NEW p \in Procs, NEW v \in VPages, t[p][v] # NULL
  PROVE  /\ t[p][v] \in PteType /\ t[p][v].f \in Frames /\ t[p][v].w \in BOOLEAN
         /\ t[p][v].f # NULL
<1>1. t[p][v] \in PteType
  BY DEF Tables
<1>2. t[p][v].f \in Frames /\ t[p][v].w \in BOOLEAN
  BY <1>1 DEF PteType
<1> QED
  BY <1>1, <1>2, VmAssumption

LEMMA PteMade ==
  ASSUME NEW f \in Frames, NEW w \in BOOLEAN
  PROVE  Pte(f, w) \in PteType /\ Pte(f, w) # NULL /\ Pte(f, w).f = f /\ Pte(f, w).w = w
<1>1. Pte(f, w) \in PteType /\ Pte(f, w).f = f /\ Pte(f, w).w = w
  BY DEF Pte, PteType
<1> QED
  BY <1>1, VmAssumption DEF PteType

LEMMA GoodIs ==
  ASSUME Good
  PROVE  /\ VmType /\ pt \in Tables
         /\ \A p \in Procs : RegionsSound(regions[p]) /\ Ordered(regions[p])
         /\ \A f \in Frames : refcnt[f] = Count(pt, cached, pc, cp, f)
<1>1. VmType /\ pt \in Tables
  BY DEF Good, VmType, Tables, PteType
<1>2. \A p \in Procs : RegionsSound(regions[p]) /\ Ordered(regions[p])
  BY <1>1 DEF Good, VmType, Apart, Ordered
<1>3. \A f \in Frames : refcnt[f] = Count(pt, cached, pc, cp, f)
  BY UsersIs DEF Good, Counted
<1> QED
  BY <1>1, <1>2, <1>3

(* A page that its process may write in private is nobody else's. *)
LEMMA AloneIs ==
  ASSUME Good, NEW p \in Procs, NEW v \in PrivateOf(regions[p]),
         pt[p][v] # NULL, pt[p][v].w
  PROVE  /\ v \in VPages /\ pt[p][v].f \in Frames /\ refcnt[pt[p][v].f] = 1
         /\ PtUses(pt, pt[p][v].f) = {<<p, v>>}
         /\ CacheUses(cached, pt[p][v].f) = {} /\ CowUses(pc, cp, pt[p][v].f) = {}
<1>1. v \in VPages
  BY GoodIs, PrivateIn
<1>2. pt[p][v].f \in Frames
  BY <1>1, GoodIs, PteIs
<1>3. refcnt[pt[p][v].f] = 1
  BY DEF Good, CountedAlone
<1>4. Count(pt, cached, pc, cp, pt[p][v].f) = 1
  BY <1>2, <1>3, GoodIs
<1>5. <<p, v>> \in PtUses(pt, pt[p][v].f)
  BY <1>1 DEF PtUses
<1> QED
  BY <1>1, <1>2, <1>3, <1>4, <1>5, CountOne

(* A free frame is used nowhere. *)
LEMMA FreeUnused ==
  ASSUME Good, NEW f \in Frames, refcnt[f] = 0
  PROVE  /\ PtUses(pt, f) = {} /\ CacheUses(cached, f) = {} /\ CowUses(pc, cp, f) = {}
         /\ \A p \in Procs, v \in VPages : ~(pt[p][v] # NULL /\ pt[p][v].f = f)
         /\ \A o \in SharedPages : cached[o] # f
<1>1. /\ PtUses(pt, f) = {} /\ CacheUses(cached, f) = {} /\ CowUses(pc, cp, f) = {}
  BY GoodIs, CountZero
<1> QED
  BY <1>1, PtUsesIs DEF CacheUses

LEMMA AllocIs ==
  ASSUME VmType, Free # {}, NEW v
  PROVE  pmem_alloc(v) \in Frames /\ refcnt[pmem_alloc(v)] = 0
<1> DEFINE Like == {f \in Free : f % Cardinality(VPages) = v}
           Use == IF Like # {} THEN Like ELSE Free
<1>1. Use # {} /\ Use \subseteq Free
  OBVIOUS
<1>2. Free \subseteq Frames /\ Free \subseteq Nat
  BY VmAssumption DEF Free
<1>3. Min(Use) \in Use
  BY <1>1, <1>2, MinIn
<1>4. pmem_alloc(v) = Min(Use)
  BY DEF pmem_alloc
<1> HIDE DEF Use
<1> QED
  BY <1>1, <1>3, <1>4 DEF Free

LEMMA FoundIs ==
  ASSUME NEW p \in Procs, NEW v \in VPages, RegionsSound(regions[p]),
         as_find_memregion(p, v, 1) # None
  PROVE  /\ as_find_memregion(p, v, 1) \in DOMAIN regions[p]
         /\ v \in Inside(regions[p][as_find_memregion(p, v, 1)])
<1> DEFINE R == {i \in DOMAIN regions[p] :
                   v >= regions[p][i].start /\ v + 1 <= regions[p][i].end}
<1>1. R # {} /\ as_find_memregion(p, v, 1) = Min(R)
  BY DEF as_find_memregion
<1>2. R \subseteq Nat
  BY DEF RegionsSound
<1>3. Min(R) \in R
  BY <1>1, <1>2, MinIn
<1>4. PICK i \in R : i = as_find_memregion(p, v, 1)
  BY <1>1, <1>3
<1>5. v \in Nat
  BY Consts
<1>6. v \in Inside(regions[p][i])
  BY <1>5, RegionIn
<1> QED
  BY <1>4, <1>6

LEMMA FreeAddr ==
  ASSUME NEW rs, RegionsSound(rs), NEW size, find_free_vaddr(rs, size) # None
  PROVE  find_free_vaddr(rs, size) \in Nat
<1> DEFINE After(i) == IF i = 1 THEN 0 ELSE rs[i - 1].end
           Fits == {i \in DOMAIN rs : After(i) + size < rs[i].start}
<1>1. rs \in Seq(RegionType) /\ DOMAIN rs = 1..Len(rs) /\ Len(rs) \in Nat
  BY DEF RegionsSound
<1>2. ASSUME NEW i \in 1..(Len(rs) + 1) PROVE After(i) \in Nat
  <2>1. CASE i = 1
    BY <2>1
  <2>2. CASE i # 1
    <3>1. i - 1 \in DOMAIN rs
      BY <1>1, <2>2
    <3> QED
      BY <2>2, <3>1, RegionIn
  <2> QED
    BY <2>1, <2>2
<1>3. \/ Fits # {} /\ find_free_vaddr(rs, size) = After(Min(Fits))
      \/ find_free_vaddr(rs, size) = After(Len(rs) + 1)
  BY DEF find_free_vaddr
<1>4. Fits # {} => Min(Fits) \in 1..(Len(rs) + 1)
  <2>1. Fits \subseteq Nat /\ Fits \subseteq 1..(Len(rs) + 1)
    BY <1>1
  <2> QED
    BY <2>1, MinIn
<1>5. Len(rs) + 1 \in 1..(Len(rs) + 1)
  BY <1>1
<1> HIDE DEF After, Fits
<1> QED
  BY <1>2, <1>3, <1>4, <1>5

-----------------------------------------------------------------------------
(* Pages unmapped: as_destroy and memregion_unmap *)

LEMMA ClearStep ==
  ASSUME Good, NEW p \in Procs, NEW S, ClearPtes(p, S),
         NEW rs, regions' = [regions EXCEPT ![p] = rs], RegionsSound(rs), Ordered(rs),
         \A i \in DOMAIN rs : \E j \in DOMAIN regions[p] : rs[i] = regions[p][j],
         pc[p] \in {"run", "setup"}, pc' = [pc EXCEPT ![p] = "run"],
         fault' \in [Procs -> [v : VPages, user : BOOLEAN]],
         \A o \in Procs \ {p} : fault'[o] = fault[o],
         UNCHANGED <<cached, lock, cp, panicked>>, overlaid' \in BOOLEAN
  PROVE  Good'
<1>1. /\ VmType /\ pt \in Tables
      /\ \A o \in Procs : RegionsSound(regions[o]) /\ Ordered(regions[o])
      /\ \A f \in Frames : refcnt[f] = Count(pt, cached, pc, cp, f)
  BY GoodIs
<1>2. /\ regions'[p] = rs /\ \A o \in Procs \ {p} : regions'[o] = regions[o]
      /\ regions' \in [Procs -> Seq(RegionType)]
  BY <1>1 DEF VmType, RegionsSound
<1>3. /\ pt' \in Tables
      /\ \A o \in Procs \ {p}, v \in VPages : pt'[o][v] = pt[o][v]
      /\ \A v \in VPages : pt'[p][v] = IF v \in S THEN NULL ELSE pt[p][v]
  <2>1. PICK row : row = [v \in VPages |-> IF v \in S THEN NULL ELSE pt[p][v]]
    OBVIOUS
  <2>2. pt' = [pt EXCEPT ![p] = row]
    BY <2>1 DEF ClearPtes
  <2>3. row \in [VPages -> PteType \cup {NULL}]
    BY <1>1, <2>1 DEF Tables
  <2>4. pt' \in Tables
    BY <1>1, <2>2, <2>3 DEF Tables
  <2> QED
    BY <1>1, <2>1, <2>2, <2>4 DEF Tables
<1>4. /\ \A f \in Frames :
           refcnt'[f] = refcnt[f] - Cardinality(MappedIn(pt, p, f) \cap S)
      /\ content' \in [Frames -> Vals]
      /\ DOMAIN refcnt' = Frames
  BY <1>1, VmAssumption DEF ClearPtes, SetCounts, Mapped, MappedIn, VmType
<1>5. /\ pc' \in [Procs -> {"run", "cow", "mapped", "unlock", "failed", "setup"}]
      /\ pc'[p] = "run" /\ \A o \in Procs \ {p} : pc'[o] = pc[o]
  BY <1>1 DEF VmType
<1>6. cached' = cached /\ lock' = lock /\ cp' = cp /\ panicked' = panicked
  OBVIOUS
<1>7. \A f \in Frames : refcnt'[f] = Count(pt', cached', pc', cp', f) /\ refcnt'[f] \in Nat
  <2> TAKE f \in Frames
  <2>1. /\ Cardinality(PtUses(pt', f))
             = Cardinality(PtUses(pt, f)) - Cardinality(MappedIn(pt, p, f) \cap S)
        /\ Cardinality(MappedIn(pt, p, f) \cap S) <= Cardinality(PtUses(pt, f))
    BY <1>3, PtCleared
  <2>2. CowUses(pc', cp', f) = CowUses(pc, cp, f)
    BY <1>5, <1>6 DEF CowUses
  <2>3. /\ Cardinality(PtUses(pt, f)) \in Nat /\ Cardinality(CacheUses(cached, f)) \in Nat
        /\ Cardinality(CowUses(pc, cp, f)) \in Nat
        /\ Cardinality(MappedIn(pt, p, f) \cap S) \in Nat
    BY UsesFinite, MappedFinite
  <2>4. refcnt'[f] = refcnt[f] - Cardinality(MappedIn(pt, p, f) \cap S)
    BY <1>4
  <2>5. refcnt[f] = Cardinality(PtUses(pt, f)) + Cardinality(CacheUses(cached, f))
                    + Cardinality(CowUses(pc, cp, f))
    BY <1>1 DEF Count
  <2> QED
    BY <1>6, <2>1, <2>2, <2>3, <2>4, <2>5 DEF Count
<1>8. VmType'
  <2>1. \A o \in Procs : RegionsSound(regions'[o])
    BY <1>1, <1>2
  <2>2. refcnt' \in [Frames -> Nat]
    <3>1. refcnt' = [f \in Frames |-> refcnt[f] - Cardinality(Mapped(p, f) \cap S)]
      BY DEF ClearPtes, SetCounts
    <3> QED
      BY <1>7, <3>1
  <2>3. pt' \in [Procs -> [VPages -> [f : Frames, w : BOOLEAN] \cup {NULL}]]
    BY <1>3 DEF Tables, PteType
  <2> QED
    BY <1>1, <1>2, <1>4, <1>5, <1>6, <2>1, <2>2, <2>3 DEF VmType
<1>9. Counted'
  BY <1>7, UsersIs DEF Counted
<1>10. ASSUME NEW v, v \in PrivateOf(rs) PROVE v \in PrivateOf(regions[p])
  BY <1>10, PrivateIs
<1>11. ASSUME NEW v, v \in SharedOf(rs) PROVE v \in SharedOf(regions[p])
  BY <1>11, PrivateIs
<1>12. CountedAlone'
  <2> SUFFICES ASSUME NEW o \in Procs, NEW v \in PrivateOf(regions'[o]),
                      pt'[o][v] # NULL, pt'[o][v].w
               PROVE  refcnt'[pt'[o][v].f] = 1
    BY DEF CountedAlone
  <2>1. v \in PrivateOf(regions[o])
    BY <1>2, <1>10
  <2>2. v \in VPages
    BY <1>1, <2>1, PrivateIn
  <2>3. pt'[o][v] = pt[o][v]
    BY <1>3, <2>2
  <2>4. PICK f : f = pt[o][v].f
    OBVIOUS
  <2>5. f \in Frames /\ refcnt[f] = 1 /\ PtUses(pt, f) = {<<o, v>>}
    BY <2>1, <2>3, <2>4, AloneIs
  <2>6. MappedIn(pt, p, f) \cap S = {}
    <3> SUFFICES ASSUME NEW w \in VPages, pt[p][w] # NULL, pt[p][w].f = f, w \in S
                 PROVE  FALSE
      BY DEF MappedIn
    <3>1. <<p, w>> \in PtUses(pt, f)
      BY DEF PtUses
    <3>2. p = o /\ w = v
      BY <2>5, <3>1
    <3> QED
      BY <1>3, <3>2
  <2>7. refcnt'[f] = 1 - 0
    BY <1>4, <2>5, <2>6, FS_EmptySet
  <2> QED
    BY <2>3, <2>4, <2>7
<1>13. SharedSeen'
  <2> SUFFICES ASSUME NEW o \in Procs, NEW i \in DOMAIN regions'[o],
                      regions'[o][i].store # NULL,
                      NEW v \in Inside(regions'[o][i]), pt'[o][v] # NULL
               PROVE  pt'[o][v].f
                        = cached'[<<regions'[o][i].store, v - regions'[o][i].start>>]
    BY DEF SharedSeen, Inside
  <2>1. PICK j \in DOMAIN regions[o] : regions'[o][i] = regions[o][j]
    BY <1>2
  <2>2. v \in VPages
    BY <1>1, <2>1, RegionIn
  <2>3. pt'[o][v] = pt[o][v]
    BY <1>3, <2>2
  <2> QED
    BY <1>6, <2>1, <2>3 DEF Good, SharedSeen
<1>14. LockHeld'
  <2> SUFFICES ASSUME NEW f \in Frames, lock'[f] # NULL
               PROVE  pc'[lock'[f]] \in {"mapped", "unlock", "failed"} /\ cp'[lock'[f]] = f
    BY DEF LockHeld
  <2>1. pc[lock[f]] \in {"mapped", "unlock", "failed"} /\ cp[lock[f]] = f
    BY <1>6 DEF Good, LockHeld
  <2>2. lock[f] \in Procs /\ lock[f] # p
    BY <1>1, <1>6, <2>1 DEF VmType
  <2> QED
    BY <1>5, <1>6, <2>1, <2>2
<1>15. Apart'
  <2> SUFFICES ASSUME NEW o \in Procs, NEW i \in DOMAIN regions'[o],
                      NEW j \in DOMAIN regions'[o], i < j
               PROVE  regions'[o][i].end <= regions'[o][j].start
    BY DEF Apart
  <2> QED
    BY <1>1, <1>2 DEF Ordered
<1>16. SharedWritable'
  <2> SUFFICES ASSUME NEW o \in Procs, NEW v \in SharedOf(regions'[o]), pt'[o][v] # NULL
               PROVE  pt'[o][v].w
    BY DEF SharedWritable
  <2>1. v \in SharedOf(regions[o])
    BY <1>2, <1>11
  <2>2. v \in VPages
    BY <1>1, <2>1, PrivateIn
  <2>3. pt'[o][v] = pt[o][v]
    BY <1>3, <2>2
  <2> QED
    BY <2>1, <2>3 DEF Good, SharedWritable
<1>17. ASSUME NEW o \in Procs PROVE Handler(o)'
  <2>1. CASE o = p
    BY <1>5, <2>1 DEF Handler
  <2>2. CASE o # p
    <3>1. Handler(o)
      BY DEF Good
    <3>2. /\ pc'[o] = pc[o] /\ fault'[o] = fault[o] /\ regions'[o] = regions[o]
          /\ cp'[o] = cp[o]
      BY <1>2, <1>5, <1>6, <2>2
    <3>3. fault[o].v \in VPages
      BY <1>1 DEF VmType
    <3>4. pt'[o][fault[o].v] = pt[o][fault[o].v]
      BY <1>3, <2>2, <3>3
    <3> QED
      BY <3>1, <3>2, <3>4 DEF Handler
  <2> QED
    BY <2>1, <2>2
<1> QED
  BY <1>8, <1>9, <1>12, <1>13, <1>14, <1>15, <1>16, <1>17 DEF Good

LEMMA DestroyStep ==
  ASSUME Good, NEW p \in Procs, pc[p] \in {"run", "setup"}, as_destroy(p),
         overlaid' \in BOOLEAN
  PROVE  Good' /\ regions'[p] = <<>> /\ panicked' = panicked
<1>1. VmType
  BY GoodIs
<1>2. RegionsSound(<<>>) /\ Ordered(<<>>) /\ DOMAIN <<>> = {}
  BY DEF RegionsSound, Ordered
<1>3. \A i \in DOMAIN <<>> : \E j \in DOMAIN regions[p] : <<>>[i] = regions[p][j]
  BY <1>2
<1>4. ClearPtes(p, Cleared(0, USTACK_UPPERBOUND))
  BY DEF as_destroy
<1>5. regions' = [regions EXCEPT ![p] = <<>>]
  BY DEF as_destroy
<1>6. /\ pc' = [pc EXCEPT ![p] = "run"]
      /\ fault' = [fault EXCEPT ![p] = NoFault]
      /\ UNCHANGED <<cached, lock, cp, panicked>>
  BY DEF as_destroy, Return
<1>7. NoFault \in [v : VPages, user : BOOLEAN]
  <2>1. N_PTE \in Nat \ {0} /\ N_PDE \in Nat \ {0}
    BY VmAssumption
  <2>2. PICK n \in Nat : n = N_PTE * N_PDE /\ n > 0
    BY <2>1, VmAssumption
  <2>3. 0 \in VPages
    BY <2>2 DEF VPages
  <2> QED
    BY <2>3 DEF NoFault
<1>8. /\ fault' \in [Procs -> [v : VPages, user : BOOLEAN]]
      /\ \A o \in Procs \ {p} : fault'[o] = fault[o]
  BY <1>1, <1>6, <1>7 DEF VmType
<1>9. Good'
  BY <1>2, <1>3, <1>4, <1>5, <1>6, <1>8, ClearStep
<1> QED
  BY <1>1, <1>5, <1>6, <1>9 DEF VmType

LEMMA UnmapStep ==
  ASSUME Good, NEW p \in Procs, NEW i \in DOMAIN regions[p], memregion_unmap(p, i),
         UNCHANGED overlaid
  PROVE  Good'
<1>1. VmType /\ RegionsSound(regions[p]) /\ Ordered(regions[p])
  BY GoodIs
<1>2. /\ regions[p][i].store # NULL /\ pc[p] = "run"
      /\ ClearPtes(p, Cleared(regions[p][i].start, regions[p][i].end))
      /\ regions' = [regions EXCEPT ![p] = RemoveAt(regions[p], i)]
      /\ UNCHANGED <<cached, lock, pc, fault, cp, panicked>>
  BY DEF memregion_unmap
<1>3. /\ RegionsSound(RemoveAt(regions[p], i)) /\ Ordered(RemoveAt(regions[p], i))
      /\ \A k \in DOMAIN RemoveAt(regions[p], i) :
           \E j \in DOMAIN regions[p] : RemoveAt(regions[p], i)[k] = regions[p][j]
  BY <1>1, <1>2, RemovedSound
<1>4. /\ pc' = [pc EXCEPT ![p] = "run"]
      /\ fault' \in [Procs -> [v : VPages, user : BOOLEAN]]
      /\ \A o \in Procs \ {p} : fault'[o] = fault[o]
      /\ overlaid' \in BOOLEAN
  BY <1>1, <1>2 DEF VmType
<1>5. UNCHANGED <<cached, lock, cp, panicked>> /\ pc[p] \in {"run", "setup"}
  BY <1>2
<1>6. PICK rs : rs = RemoveAt(regions[p], i)
  OBVIOUS
<1>7. /\ RegionsSound(rs) /\ Ordered(rs)
      /\ \A k \in DOMAIN rs : \E j \in DOMAIN regions[p] : rs[k] = regions[p][j]
      /\ regions' = [regions EXCEPT ![p] = rs]
  BY <1>2, <1>3, <1>6
<1>8. PICK S : ClearPtes(p, S)
  BY <1>2
<1> QED
  BY <1>4, <1>5, <1>7, <1>8, ClearStep

-----------------------------------------------------------------------------
(* Steps that leave the regions alone *)

(* Counts of frames that are only in page tables keep the value one, but   *)
(* for the page v of p, which gets the entry e.                            *)
PageSet(p, v, e) ==
  /\ p \in Procs /\ v \in VPages /\ e \in PteType /\ e.w = TRUE
  /\ pt' = [pt EXCEPT ![p][v] = e] /\ regions' = regions
  /\ v \in PrivateOf(regions[p]) => refcnt'[e.f] = 1
  /\ \A f \in Frames :
       refcnt[f] = 1 /\ CacheUses(cached, f) = {} /\ CowUses(pc, cp, f) = {} =>
         refcnt'[f] = 1
  /\ \A o \in SharedPages : cached[o] # NULL => cached'[o] = cached[o]
  /\ \A i \in DOMAIN regions[p] :
       regions[p][i].store # NULL /\ v \in Inside(regions[p][i]) =>
         e.f = cached'[<<regions[p][i].store, v - regions[p][i].start>>]

LEMMA PageStep ==
  ASSUME Good, NEW p, NEW v, NEW e, PageSet(p, v, e)
  PROVE  /\ pt' \in Tables /\ pt'[p][v] = e
         /\ \A q \in Procs, w \in VPages : ~(q = p /\ w = v) => pt'[q][w] = pt[q][w]
         /\ CountedAlone' /\ SharedSeen' /\ Apart' /\ SharedWritable'
<1> USE DEF PageSet
<1>1. /\ VmType /\ pt \in Tables
      /\ \A o \in Procs : RegionsSound(regions[o]) /\ Ordered(regions[o])
      /\ \A f \in Frames : refcnt[f] = Count(pt, cached, pc, cp, f)
  BY GoodIs
<1>2. /\ pt' \in Tables /\ pt'[p][v] = e
      /\ \A q \in Procs, w \in VPages : ~(q = p /\ w = v) => pt'[q][w] = pt[q][w]
  BY <1>1 DEF Tables
<1>3. CountedAlone'
  <2> SUFFICES ASSUME NEW o \in Procs, NEW w \in PrivateOf(regions[o]),
                      pt'[o][w] # NULL, pt'[o][w].w
               PROVE  refcnt'[pt'[o][w].f] = 1
    BY DEF CountedAlone
  <2>1. CASE o = p /\ w = v
    BY <1>2, <2>1
  <2>2. CASE ~(o = p /\ w = v)
    <3>1. w \in VPages
      BY <1>1, PrivateIn
    <3>2. pt'[o][w] = pt[o][w]
      BY <1>2, <2>2, <3>1
    <3>3. /\ pt[o][w].f \in Frames /\ refcnt[pt[o][w].f] = 1
          /\ CacheUses(cached, pt[o][w].f) = {} /\ CowUses(pc, cp, pt[o][w].f) = {}
      BY <3>2, AloneIs
    <3> QED
      BY <3>2, <3>3
  <2> QED
    BY <2>1, <2>2
<1>4. SharedSeen'
  <2> SUFFICES ASSUME NEW o \in Procs, NEW i \in DOMAIN regions[o],
                      regions[o][i].store # NULL,
                      NEW w \in Inside(regions[o][i]), pt'[o][w] # NULL
               PROVE  pt'[o][w].f = cached'[<<regions[o][i].store, w - regions[o][i].start>>]
    BY DEF SharedSeen, Inside
  <2>1. CASE o = p /\ w = v
    BY <1>2, <2>1
  <2>2. CASE ~(o = p /\ w = v)
    <3>1. w \in VPages
      BY <1>1, RegionIn
    <3>2. pt'[o][w] = pt[o][w]
      BY <1>2, <2>2, <3>1
    <3>3. pt[o][w].f = cached[<<regions[o][i].store, w - regions[o][i].start>>]
      BY <3>2 DEF Good, SharedSeen
    <3>4. pt[o][w].f # NULL
      BY <1>1, <3>1, <3>2, PteIs
    <3>5. <<regions[o][i].store, w - regions[o][i].start>> \in SharedPages
      <4>1. /\ regions[o][i].start \in Nat /\ w \in Nat /\ regions[o][i].start <= w
            /\ w < regions[o][i].end /\ regions[o][i].store \in Stores
        BY <1>1, RegionIn
      <4>2. regions[o][i].end = regions[o][i].start + StorePages
        BY <1>1 DEF RegionsSound
      <4> QED
        BY <4>1, <4>2, Consts DEF SharedPages
    <3> QED
      BY <3>2, <3>3, <3>4, <3>5
  <2> QED
    BY <2>1, <2>2
<1>5. Apart'
  BY DEF Good, Apart
<1>6. SharedWritable'
  <2> SUFFICES ASSUME NEW o \in Procs, NEW w \in SharedOf(regions[o]), pt'[o][w] # NULL
               PROVE  pt'[o][w].w
    BY DEF SharedWritable
  <2>1. CASE o = p /\ w = v
    BY <1>2, <2>1
  <2>2. CASE ~(o = p /\ w = v)
    <3>1. w \in VPages
      BY <1>1, PrivateIn
    <3>2. pt'[o][w] = pt[o][w]
      BY <1>2, <2>2, <3>1
    <3> QED
      BY <3>2 DEF Good, SharedWritable
  <2> QED
    BY <2>1, <2>2
<1> QED
  BY <1>2, <1>3, <1>4, <1>5, <1>6

(* The same, of a step that changes no page table. *)
LEMMA KeepStep ==
  ASSUME Good, UNCHANGED <<regions, pt, cached>>,
         \A f \in Frames : /\ refcnt[f] = 1 /\ CacheUses(cached, f) = {}
                           /\ CowUses(pc, cp, f) = {}
                           => refcnt'[f] = 1
  PROVE  CountedAlone' /\ SharedSeen' /\ Apart' /\ SharedWritable'
<1>1. CountedAlone'
  <2> SUFFICES ASSUME NEW o \in Procs, NEW w \in PrivateOf(regions[o]),
                      pt[o][w] # NULL, pt[o][w].w
               PROVE  refcnt'[pt[o][w].f] = 1
    BY DEF CountedAlone
  <2>1. /\ pt[o][w].f \in Frames /\ refcnt[pt[o][w].f] = 1
        /\ CacheUses(cached, pt[o][w].f) = {} /\ CowUses(pc, cp, pt[o][w].f) = {}
    BY AloneIs
  <2> QED
    BY <2>1
<1>2. SharedSeen' /\ Apart' /\ SharedWritable'
  BY DEF Good, SharedSeen, Apart, SharedWritable, Inside
<1> QED
  BY <1>1, <1>2

LEMMA ReturnIs ==
  ASSUME VmType, NEW p \in Procs, Return(p)
  PROVE  /\ pc' \in [Procs -> {"run", "cow", "mapped", "unlock", "failed", "setup"}]
         /\ pc'[p] = "run" /\ \A o \in Procs \ {p} : pc'[o] = pc[o]
         /\ fault' \in [Procs -> [v : VPages, user : BOOLEAN]]
         /\ \A o \in Procs \ {p} : fault'[o] = fault[o]
<1>1. NoFault \in [v : VPages, user : BOOLEAN]
  <2>1. PICK n \in Nat : n = N_PTE * N_PDE /\ n > 0
    BY VmAssumption, Consts
  <2>2. 0 \in VPages
    BY <2>1 DEF VPages
  <2> QED
    BY <2>2 DEF NoFault
<1> QED
  BY <1>1 DEF Return, VmType

(* A zeroed frame for a private page of p: setup_page.  The frame that the *)
(* page had, if any, is counted once too often.                            *)
LEMMA AllocStep ==
  ASSUME Good, NEW p \in Procs, NEW v \in PrivateOf(regions[p]), Free # {},
         pc[p] \in {"run", "setup"},
         pt' = [pt EXCEPT ![p][v] = Pte(pmem_alloc(v), TRUE)],
         refcnt' = [refcnt EXCEPT ![pmem_alloc(v)] = 1],
         lock' = [lock EXCEPT ![pmem_alloc(v)] = NULL],
         Return(p), UNCHANGED <<regions, content, cached, cp, panicked>>,
         overlaid' \in BOOLEAN
  PROVE  /\ VmType' /\ CountedAlone' /\ SharedSeen' /\ LockHeld' /\ Apart'
         /\ SharedWritable' /\ \A o \in Procs : Handler(o)'
         /\ \A f \in Frames : ~(pt[p][v] # NULL /\ pt[p][v].f = f) =>
              refcnt'[f] = Users(f)'
<1>1. /\ VmType /\ pt \in Tables
      /\ \A o \in Procs : RegionsSound(regions[o]) /\ Ordered(regions[o])
      /\ \A f \in Frames : refcnt[f] = Count(pt, cached, pc, cp, f)
  BY GoodIs
<1>2. PICK a : a = pmem_alloc(v)
  OBVIOUS
<1>3. a \in Frames /\ refcnt[a] = 0
  BY <1>1, <1>2, AllocIs
<1>4. PICK e : e = Pte(a, TRUE)
  OBVIOUS
<1>5. e \in PteType /\ e # NULL /\ e.f = a /\ e.w = TRUE
  BY <1>3, <1>4, PteMade
<1>6. /\ pt' = [pt EXCEPT ![p][v] = e] /\ refcnt' = [refcnt EXCEPT ![a] = 1]
      /\ lock' = [lock EXCEPT ![a] = NULL]
      /\ regions' = regions /\ content' = content /\ cached' = cached /\ cp' = cp
      /\ panicked' = panicked
  BY <1>2, <1>4
<1>7. /\ refcnt' \in [Frames -> Nat] /\ refcnt'[a] = 1
      /\ \A f \in Frames \ {a} : refcnt'[f] = refcnt[f]
  BY <1>1, <1>3, <1>6 DEF VmType
<1>8. v \in VPages
  BY <1>1, PrivateIn
<1>9. v \notin SharedOf(regions[p])
  BY <1>1, PrivateShared
<1>10. /\ pt' \in Tables /\ pt'[p][v] = e
       /\ \A q \in Procs, w \in VPages : ~(q = p /\ w = v) => pt'[q][w] = pt[q][w]
       /\ CountedAlone' /\ SharedSeen' /\ Apart' /\ SharedWritable'
  <2>1. \A f \in Frames : refcnt[f] = 1 => refcnt'[f] = 1
    BY <1>3, <1>7
  <2>2. \A o \in SharedPages : cached[o] # NULL => cached'[o] = cached[o]
    BY <1>6
  <2>3. \A i \in DOMAIN regions[p] :
          ~(regions[p][i].store # NULL /\ v \in Inside(regions[p][i]))
    BY <1>9, PrivateIs
  <2>4. PageSet(p, v, e)
    BY <1>5, <1>6, <1>7, <1>8, <2>1, <2>2, <2>3 DEF PageSet
  <2> QED
    BY ONLY Good, <2>4, PageStep
<1>11. /\ pc' \in [Procs -> {"run", "cow", "mapped", "unlock", "failed", "setup"}]
       /\ pc'[p] = "run" /\ \A o \in Procs \ {p} : pc'[o] = pc[o]
       /\ fault' \in [Procs -> [v : VPages, user : BOOLEAN]]
       /\ \A o \in Procs \ {p} : fault'[o] = fault[o]
  BY <1>1, ReturnIs
<1>12. /\ lock' \in [Frames -> Procs \cup {NULL}] /\ lock'[a] = NULL
       /\ \A f \in Frames \ {a} : lock'[f] = lock[f]
  BY <1>1, <1>3, <1>6 DEF VmType
<1>13. VmType'
  <2>1. pt' \in [Procs -> [VPages -> [f : Frames, w : BOOLEAN] \cup {NULL}]]
    BY <1>10 DEF Tables, PteType
  <2> QED
    BY <1>1, <1>6, <1>7, <1>11, <1>12, <2>1 DEF VmType
<1>14. LockHeld'
  <2> SUFFICES ASSUME NEW f \in Frames, lock'[f] # NULL
               PROVE  pc'[lock'[f]] \in {"mapped", "unlock", "failed"} /\ cp'[lock'[f]] = f
    BY DEF LockHeld
  <2>1. lock'[f] = lock[f]
    BY <1>12
  <2>2. pc[lock[f]] \in {"mapped", "unlock", "failed"} /\ cp[lock[f]] = f
    BY <2>1 DEF Good, LockHeld
  <2>3. lock[f] \in Procs /\ lock[f] # p
    BY <1>1, <2>1, <2>2 DEF VmType
  <2> QED
    BY <1>6, <1>11, <2>1, <2>2, <2>3
<1>15. ASSUME NEW o \in Procs PROVE Handler(o)'
  <2>1. CASE o = p
    BY <1>11, <2>1 DEF Handler
  <2>2. CASE o # p
    <3>1. Handler(o)
      BY DEF Good
    <3>2. pc'[o] = pc[o] /\ fault'[o] = fault[o] /\ regions'[o] = regions[o] /\ cp'[o] = cp[o]
      BY <1>6, <1>11, <2>2
    <3>3. fault[o].v \in VPages
      BY <1>1 DEF VmType
    <3>4. pt'[o][fault[o].v] = pt[o][fault[o].v]
      BY <1>10, <2>2, <3>3
    <3> QED
      BY <3>1, <3>2, <3>4 DEF Handler
  <2> QED
    BY <2>1, <2>2
<1>16. ASSUME NEW f \in Frames, ~(pt[p][v] # NULL /\ pt[p][v].f = f)
       PROVE  refcnt'[f] = Users(f)'
  <2>1. CacheUses(cached', f) = CacheUses(cached, f)
    BY <1>6
  <2>2. CowUses(pc', cp', f) = CowUses(pc, cp, f)
    BY <1>6, <1>11 DEF CowUses
  <2>3. CASE f = a
    <3>1. Cardinality(PtUses(pt', f)) = Cardinality(PtUses(pt, f)) + 1
      <4>1. GainsAt(pt, pt', p, v, f)
        BY <1>5, <1>8, <1>10, <1>16, <2>3 DEF OnlyAt, GainsAt
      <4> QED
        BY ONLY <4>1, PtGains
    <3>2. PtUses(pt, f) = {} /\ CacheUses(cached, f) = {} /\ CowUses(pc, cp, f) = {}
      BY <1>3, <2>3, FreeUnused
    <3>3. Count(pt', cached', pc', cp', f) = 1
      BY <2>1, <2>2, <3>1, <3>2, FS_EmptySet DEF Count
    <3> QED
      BY <1>7, <2>3, <3>3, UsersIs
  <2>4. CASE f # a
    <3>1. \A q \in Procs, w \in VPages :
            (pt[q][w] # NULL /\ pt[q][w].f = f) <=> (pt'[q][w] # NULL /\ pt'[q][w].f = f)
      BY <1>5, <1>10, <1>16, <2>4
    <3>2. PtUses(pt', f) = PtUses(pt, f)
      BY ONLY <3>1, PtUsesSame
    <3>3. Count(pt', cached', pc', cp', f) = Count(pt, cached, pc, cp, f)
      BY <2>1, <2>2, <3>2 DEF Count
    <3> QED
      BY <1>1, <1>7, <2>4, <3>3, UsersIs
  <2> QED
    BY <2>3, <2>4
<1> QED
  BY <1>10, <1>13, <1>14, <1>15, <1>16

LEMMA FillStep ==
  ASSUME Good, NEW p \in Procs, NEW v \in PrivateOf(regions[p]), Free # {},
         pc[p] \in {"run", "setup"}, pt[p][v] = NULL,
         pt' = [pt EXCEPT ![p][v] = Pte(pmem_alloc(v), TRUE)],
         refcnt' = [refcnt EXCEPT ![pmem_alloc(v)] = 1],
         lock' = [lock EXCEPT ![pmem_alloc(v)] = NULL],
         Return(p), UNCHANGED <<regions, content, cached, cp, panicked>>,
         overlaid' \in BOOLEAN
  PROVE  Good'
<1>1. /\ VmType' /\ CountedAlone' /\ SharedSeen' /\ LockHeld' /\ Apart'
      /\ SharedWritable' /\ \A o \in Procs : Handler(o)'
      /\ \A f \in Frames : ~(pt[p][v] # NULL /\ pt[p][v].f = f) =>
           refcnt'[f] = Users(f)'
  BY AllocStep
<1>2. Counted'
  BY <1>1 DEF Counted
<1> QED
  BY <1>1, <1>2 DEF Good

LEMMA OverlayStep ==
  ASSUME Good, NEW p \in Procs, NEW v \in PrivateOf(regions[p]), Free # {},
         pc[p] \in {"run", "setup"},
         pt' = [pt EXCEPT ![p][v] = Pte(pmem_alloc(v), TRUE)],
         refcnt' = [refcnt EXCEPT ![pmem_alloc(v)] = 1],
         lock' = [lock EXCEPT ![pmem_alloc(v)] = NULL],
         Return(p), UNCHANGED <<regions, content, cached, cp, panicked>>,
         overlaid' = TRUE
  PROVE  Inv'
<1>1. /\ VmType' /\ CountedAlone' /\ SharedSeen' /\ LockHeld'
      /\ \A f \in Frames : ~(pt[p][v] # NULL /\ pt[p][v].f = f) =>
           refcnt'[f] = Users(f)'
  BY AllocStep
<1>2. /\ VmType /\ pt \in Tables
      /\ \A o \in Procs : RegionsSound(regions[o]) /\ Ordered(regions[o])
  BY GoodIs
<1>3. v \in VPages /\ regions' = regions
  BY <1>2, PrivateIn
<1>4. PICK a : a = pmem_alloc(v)
  OBVIOUS
<1>5. a \in Frames /\ refcnt[a] = 0
  BY <1>2, <1>4, AllocIs
<1>6. /\ pt'[p][v] = Pte(a, TRUE) /\ Pte(a, TRUE).f = a
      /\ \A q \in Procs, w \in VPages : ~(q = p /\ w = v) => pt'[q][w] = pt[q][w]
  BY <1>2, <1>3, <1>4, <1>5, PteMade DEF Tables
<1>7. WritableAlone'
  <2> SUFFICES ASSUME NEW o \in Procs, NEW w \in PrivateOf(regions[o]), NEW f,
                      pt'[o][w] # NULL, pt'[o][w].w, f = pt'[o][w].f
               PROVE  Users(f)' = 1
    BY <1>3 DEF WritableAlone
  <2>1. w \in VPages
    BY <1>2, PrivateIn
  <2>2. refcnt'[f] = 1
    <3>1. w \in PrivateOf(regions'[o])
      BY <1>3
    <3>2. /\ CountedAlone' /\ pt'[o][w] # NULL /\ pt'[o][w].w /\ f = pt'[o][w].f
          /\ o \in Procs
      BY <1>1
    <3> QED
      BY ONLY <3>1, <3>2 DEF CountedAlone
  <2>3. f \in Frames /\ ~(pt[p][v] # NULL /\ pt[p][v].f = f)
    <3>1. CASE o = p /\ w = v
      <4>1. f = a
        BY <1>6, <3>1
      <4> QED
        BY <1>3, <1>5, <4>1, FreeUnused
    <3>2. CASE ~(o = p /\ w = v)
      <4>1. pt'[o][w] = pt[o][w]
        BY <1>6, <2>1, <3>2
      <4>2. pt[o][w].f \in Frames /\ PtUses(pt, pt[o][w].f) = {<<o, w>>}
        BY <4>1, AloneIs
      <4>3. <<p, v>> \notin PtUses(pt, pt[o][w].f)
        BY <3>2, <4>2
      <4> QED
        BY <1>3, <4>1, <4>2, <4>3 DEF PtUses
    <3> QED
      BY <3>1, <3>2
  <2> QED
    BY <1>1, <2>2, <2>3
<1> QED
  BY <1>1, <1>7 DEF Inv, RefcntExact, RegionsApart

(* A page of a shared region: handleSharedRegion *)
LEMMA SharedStep ==
  ASSUME Good, NEW p \in Procs, NEW v \in VPages, as_find_memregion(p, v, 1) # None,
         regions[p][as_find_memregion(p, v, 1)].store # NULL,
         cached[CachedAt(p, v)] # NULL \/ Free # {},
         pt[p][v] = NULL, handleSharedRegion(p, v), UNCHANGED overlaid
  PROVE  Good'
<1>1. /\ VmType /\ pt \in Tables
      /\ \A o \in Procs : RegionsSound(regions[o]) /\ Ordered(regions[o])
      /\ \A f \in Frames : refcnt[f] = Count(pt, cached, pc, cp, f)
  BY GoodIs
<1>2. PICK i \in DOMAIN regions[p] :
        i = as_find_memregion(p, v, 1) /\ v \in Inside(regions[p][i])
  BY <1>1, FoundIs
<1>3. PICK o : o = CachedAt(p, v)
  OBVIOUS
<1>4. o = <<regions[p][i].store, v - regions[p][i].start>>
  BY <1>2, <1>3 DEF CachedAt
<1>5. o \in SharedPages
  <2>1. /\ regions[p][i].start \in Nat /\ v \in Nat /\ regions[p][i].start <= v
        /\ v < regions[p][i].end /\ regions[p][i].store \in Stores
    BY <1>1, <1>2, RegionIn
  <2>2. regions[p][i].end = regions[p][i].start + StorePages
    BY <1>1, <1>2 DEF RegionsSound
  <2> QED
    BY <1>4, <2>1, <2>2, Consts DEF SharedPages
<1>6. PICK f : f = IF cached[o] # NULL THEN cached[o] ELSE pmem_alloc(v)
  OBVIOUS
<1>7. f \in Frames /\ (cached[o] = NULL => refcnt[f] = 0) /\ (cached[o] # NULL => f = cached[o])
  <2>1. CASE cached[o] # NULL
    BY <1>1, <1>5, <1>6, <2>1 DEF VmType
  <2>2. CASE cached[o] = NULL
    BY <1>1, <1>3, <1>6, <2>2, AllocIs
  <2> QED
    BY <2>1, <2>2
<1>8. PICK e : e = Pte(f, TRUE)
  OBVIOUS
<1>9. e \in PteType /\ e # NULL /\ e.f = f /\ e.w = TRUE
  BY <1>7, <1>8, PteMade
<1>10. /\ pt' = [pt EXCEPT ![p][v] = e]
       /\ cached' = [cached EXCEPT ![o] = f]
       /\ refcnt' = [refcnt EXCEPT ![f] = IF cached[o] = NULL THEN 2 ELSE refcnt[f] + 1]
       /\ lock' = [lock EXCEPT ![f] = IF cached[o] = NULL THEN NULL ELSE lock[f]]
       /\ UNCHANGED <<regions, content, pc, fault, cp, panicked>>
  BY <1>3, <1>6, <1>8 DEF handleSharedRegion
<1>11. /\ refcnt' \in [Frames -> Nat]
       /\ refcnt'[f] = IF cached[o] = NULL THEN 2 ELSE refcnt[f] + 1
       /\ \A g \in Frames \ {f} : refcnt'[g] = refcnt[g]
  BY <1>1, <1>7, <1>10 DEF VmType
<1>12. /\ cached' \in [SharedPages -> Frames \cup {NULL}] /\ cached'[o] = f
       /\ \A x \in SharedPages \ {o} : cached'[x] = cached[x]
  BY <1>1, <1>5, <1>7, <1>10 DEF VmType
<1>13. /\ lock' \in [Frames -> Procs \cup {NULL}]
       /\ \A g \in Frames : lock'[g] # NULL => lock'[g] = lock[g]
  BY <1>1, <1>7, <1>10 DEF VmType
<1>14. /\ pt' \in Tables /\ pt'[p][v] = e
       /\ \A q \in Procs, w \in VPages : ~(q = p /\ w = v) => pt'[q][w] = pt[q][w]
       /\ CountedAlone' /\ SharedSeen' /\ Apart' /\ SharedWritable'
  <2>1. ASSUME NEW g \in Frames, refcnt[g] = 1, CacheUses(cached, g) = {}
        PROVE  refcnt'[g] = 1
    <3>1. CASE g = f
      <4>1. cached[o] # NULL /\ cached[o] = g
        BY <1>7, <2>1, <3>1
      <4> QED
        BY <1>5, <2>1, <4>1 DEF CacheUses
    <3>2. CASE g # f
      BY <1>11, <2>1, <3>2
    <3> QED
      BY <3>1, <3>2
  <2>2. \A x \in SharedPages : cached[x] # NULL => cached'[x] = cached[x]
    BY <1>7, <1>12
  <2>3. ASSUME NEW j \in DOMAIN regions[p], v \in Inside(regions[p][j])
        PROVE  e.f = cached'[<<regions[p][j].store, v - regions[p][j].start>>]
    <3>1. j = i
      BY <1>1, <1>2, <2>3, InOne
    <3> QED
      BY <1>4, <1>9, <1>12, <3>1
  <2>4. v \notin PrivateOf(regions[p])
    <3>1. v \in SharedOf(regions[p])
      BY <1>2, PrivateIs
    <3> QED
      BY <1>1, <3>1, PrivateShared
  <2>5. regions' = regions
    BY <1>10
  <2>6. PageSet(p, v, e)
    BY <1>9, <1>10, <2>1, <2>2, <2>3, <2>4, <2>5 DEF PageSet
  <2> QED
    BY ONLY Good, <2>6, PageStep
<1>15. VmType'
  <2>1. pt' \in [Procs -> [VPages -> [f : Frames, w : BOOLEAN] \cup {NULL}]]
    BY <1>14 DEF Tables, PteType
  <2>2. overlaid' = overlaid
    OBVIOUS
  <2> QED
    BY <1>1, <1>10, <1>11, <1>12, <1>13, <2>1, <2>2 DEF VmType
<1>16. LockHeld'
  BY <1>10, <1>13 DEF Good, LockHeld
<1>17. ASSUME NEW q \in Procs PROVE Handler(q)'
  <2>1. Handler(q)
    BY DEF Good
  <2>2. pc' = pc /\ fault' = fault /\ regions' = regions /\ cp' = cp
    BY <1>10
  <2>3. fault[q].v \in VPages
    BY <1>1 DEF VmType
  <2>4. pt[q][fault[q].v] # NULL => pt'[q][fault[q].v] # NULL
    BY <1>9, <1>14, <2>3
  <2> QED
    BY <2>1, <2>2, <2>4 DEF Handler
<1>18. ASSUME NEW g \in Frames PROVE refcnt'[g] = Count(pt', cached', pc', cp', g)
  <2>1. CowUses(pc', cp', g) = CowUses(pc, cp, g)
    BY <1>10
  <2>2. CASE g = f
    <3>1. Cardinality(PtUses(pt', g)) = Cardinality(PtUses(pt, g)) + 1
      <4>1. GainsAt(pt, pt', p, v, g)
        BY <1>9, <1>14, <2>2 DEF OnlyAt, GainsAt
      <4> QED
        BY ONLY <4>1, PtGains
    <3>2. CASE cached[o] = NULL
      <4>1. PtUses(pt, g) = {} /\ CacheUses(cached, g) = {} /\ CowUses(pc, cp, g) = {}
        BY <1>7, <2>2, <3>2, FreeUnused
      <4>2. Cardinality(CacheUses(cached', g)) = Cardinality(CacheUses(cached, g)) + 1
        <5>1. cached[o] # g /\ cached'[o] = g
          BY <1>7, <1>12, <2>2, <3>2, VmAssumption
        <5>2. \A x \in SharedPages \ {o} : cached[x] = g <=> cached'[x] = g
          BY <1>12
        <5>3. CacheGainsAt(cached, cached', o, g)
          BY <1>5, <5>1, <5>2 DEF CacheGainsAt
        <5> QED
          BY ONLY <5>3, CacheGains
      <4>3. /\ Cardinality(PtUses(pt', g)) = 1 /\ Cardinality(CacheUses(cached', g)) = 1
            /\ Cardinality(CowUses(pc', cp', g)) = 0
        BY <2>1, <3>1, <4>1, <4>2, FS_EmptySet
      <4>4. refcnt'[g] = 2
        BY <1>11, <2>2, <3>2
      <4> QED
        BY ONLY <4>3, <4>4 DEF Count
    <3>3. CASE cached[o] # NULL
      <4>1. CacheUses(cached', g) = CacheUses(cached, g)
        BY <1>7, <1>12, <2>2, <3>3 DEF CacheUses
      <4>2. refcnt'[g] = refcnt[g] + 1
        BY <1>11, <2>2, <3>3
      <4>3. refcnt[g] = Count(pt, cached, pc, cp, g)
        BY <1>1
      <4>4. /\ Cardinality(PtUses(pt, g)) \in Nat /\ Cardinality(CacheUses(cached, g)) \in Nat
            /\ Cardinality(CowUses(pc, cp, g)) \in Nat
        BY UsesFinite
      <4> QED
        BY ONLY <2>1, <3>1, <4>1, <4>2, <4>3, <4>4 DEF Count
    <3> QED
      BY <3>2, <3>3
  <2>3. CASE g # f
    <3>1. \A q \in Procs, w \in VPages :
            (pt[q][w] # NULL /\ pt[q][w].f = g) <=> (pt'[q][w] # NULL /\ pt'[q][w].f = g)
      <4> TAKE q \in Procs, w \in VPages
      <4>1. CASE q = p /\ w = v
        BY <1>9, <1>14, <2>3, <4>1
      <4>2. CASE ~(q = p /\ w = v)
        BY <1>14, <4>2
      <4> QED
        BY <4>1, <4>2
    <3>2. PtUses(pt', g) = PtUses(pt, g)
      BY ONLY <3>1, PtUsesSame
    <3>3. CacheUses(cached', g) = CacheUses(cached, g)
      <4>1. cached[o] # g /\ cached'[o] # g
        BY <1>7, <1>12, <2>3, VmAssumption
      <4> QED
        BY <1>12, <4>1 DEF CacheUses
    <3>4. refcnt'[g] = refcnt[g]
      BY <1>11, <2>3
    <3> QED
      BY <1>1, <2>1, <3>2, <3>3, <3>4 DEF Count
  <2> QED
    BY <2>2, <2>3
<1>19. Counted'
  BY <1>18, UsersIs DEF Counted
<1> QED
  BY <1>14, <1>15, <1>16, <1>17, <1>19 DEF Good

-----------------------------------------------------------------------------
(* Copy on write *)

(* What handleCOW starts from *)
LEMMA CowPage ==
  ASSUME Good, NEW p \in Procs, pc[p] # "run"
  PROVE  /\ fault[p].v \in VPages /\ fault[p].v \in PrivateOf(regions[p])
         /\ fault[p].v \notin SharedOf(regions[p]) /\ fault[p].user \in BOOLEAN
         /\ pt[p][fault[p].v] # NULL /\ pt[p][fault[p].v] \in PteType
         /\ pt[p][fault[p].v].f \in Frames /\ refcnt[pt[p][fault[p].v].f] > 0
<1>1. fault[p].v \in VPages /\ fault[p].user \in BOOLEAN
  BY GoodIs DEF VmType
<1>2. pt[p][fault[p].v] # NULL /\ fault[p].v \in PrivateOf(regions[p])
  BY DEF Good, Handler
<1>3. fault[p].v \notin SharedOf(regions[p])
  BY <1>2, GoodIs, PrivateShared
<1>4. pt[p][fault[p].v] \in PteType /\ pt[p][fault[p].v].f \in Frames
  BY <1>1, <1>2, GoodIs, PteIs
<1>5. refcnt[pt[p][fault[p].v].f] # 0
  BY <1>1, <1>2, <1>4, FreeUnused
<1>6. refcnt \in [Frames -> Nat]
  BY GoodIs DEF VmType
<1> QED
  BY <1>1, <1>2, <1>3, <1>4, <1>5, <1>6

(* What a step of p in handleCOW does to the other processes: nothing. *)
LEMMA OthersStep ==
  ASSUME Good, NEW p \in Procs, UNCHANGED <<regions, fault>>,
         \A q \in Procs \ {p} : pc'[q] = pc[q] /\ cp'[q] = cp[q],
         \A q \in Procs \ {p}, w \in VPages : pt'[q][w] = pt[q][w]
  PROVE  \A q \in Procs \ {p} : Handler(q)'
<1> SUFFICES ASSUME NEW q \in Procs \ {p} PROVE Handler(q)'
  OBVIOUS
<1>1. Handler(q) /\ fault[q].v \in VPages
  BY GoodIs DEF Good, VmType
<1> QED
  BY <1>1 DEF Handler

LEMMA LastUserStep ==
  ASSUME Good, NEW p \in Procs, handleCOW(p), refcnt[pt[p][fault[p].v].f] = 1,
         LastUser(p, pt[p][fault[p].v].f), UNCHANGED overlaid
  PROVE  Good'
<1>1. /\ VmType /\ pt \in Tables
      /\ \A o \in Procs : RegionsSound(regions[o]) /\ Ordered(regions[o])
      /\ \A f \in Frames : refcnt[f] = Count(pt, cached, pc, cp, f)
  BY GoodIs
<1>2. PICK v : v = fault[p].v
  OBVIOUS
<1>3. PICK f : f = pt[p][v].f
  OBVIOUS
<1>4. pc[p] = "cow" /\ lock[f] = NULL /\ refcnt[f] = 1
  BY <1>2, <1>3 DEF handleCOW
<1>5. /\ v \in VPages /\ v \in PrivateOf(regions[p]) /\ v \notin SharedOf(regions[p])
      /\ pt[p][v] # NULL /\ pt[p][v] \in PteType /\ f \in Frames
  BY <1>2, <1>3, <1>4, CowPage
<1>6. PICK e : e = [pt[p][v] EXCEPT !.w = TRUE]
  OBVIOUS
<1>7. e \in PteType /\ e.f = f /\ e.w = TRUE /\ e # NULL
  <2>1. PICK z \in PteType : z = pt[p][v]
    BY <1>5
  <2>2. e \in PteType /\ e.f = z.f /\ e.w = TRUE
    BY <1>6, <2>1 DEF PteType
  <2> QED
    BY <1>3, <2>1, <2>2, VmAssumption DEF PteType
<1>8. /\ pt' = [pt EXCEPT ![p][v] = e]
      /\ pc' = [pc EXCEPT ![p] = "unlock"]
      /\ lock' = [lock EXCEPT ![f] = p]
      /\ cp' = [cp EXCEPT ![p] = f]
      /\ refcnt' = refcnt /\ content' = content
      /\ regions' = regions /\ cached' = cached /\ fault' = fault /\ panicked' = panicked
      /\ overlaid' = overlaid
  BY <1>2, <1>3, <1>6 DEF handleCOW, LastUser, Goto
<1>9. /\ pt' \in Tables /\ pt'[p][v] = e
      /\ \A q \in Procs, w \in VPages : ~(q = p /\ w = v) => pt'[q][w] = pt[q][w]
      /\ CountedAlone' /\ SharedSeen' /\ Apart' /\ SharedWritable'
  <2>1. PageSet(p, v, e)
    BY <1>4, <1>5, <1>7, <1>8, PrivateIs DEF PageSet
  <2> QED
    BY ONLY Good, <2>1, PageStep
<1>10. /\ pc' \in [Procs -> {"run", "cow", "mapped", "unlock", "failed", "setup"}]
       /\ pc'[p] = "unlock" /\ \A q \in Procs \ {p} : pc'[q] = pc[q]
       /\ cp' \in [Procs -> Frames \cup {NULL}] /\ cp'[p] = f
       /\ \A q \in Procs \ {p} : cp'[q] = cp[q]
       /\ lock' \in [Frames -> Procs \cup {NULL}] /\ lock'[f] = p
       /\ \A g \in Frames \ {f} : lock'[g] = lock[g]
  BY <1>1, <1>5, <1>8 DEF VmType
<1>11. VmType'
  <2>1. pt' \in [Procs -> [VPages -> [f : Frames, w : BOOLEAN] \cup {NULL}]]
    BY <1>9 DEF Tables, PteType
  <2> QED
    BY <1>1, <1>8, <1>10, <2>1 DEF VmType
<1>12. LockHeld'
  <2> SUFFICES ASSUME NEW g \in Frames, lock'[g] # NULL
               PROVE  pc'[lock'[g]] \in {"mapped", "unlock", "failed"} /\ cp'[lock'[g]] = g
    BY DEF LockHeld
  <2>1. CASE g = f
    BY <1>10, <2>1
  <2>2. CASE g # f
    <3>1. lock'[g] = lock[g]
      BY <1>10, <2>2
    <3>2. pc[lock[g]] \in {"mapped", "unlock", "failed"} /\ cp[lock[g]] = g
      BY <3>1 DEF Good, LockHeld
    <3>3. lock[g] \in Procs \ {p}
      BY <1>1, <1>4, <3>1, <3>2 DEF VmType
    <3> QED
      BY <1>10, <3>1, <3>2, <3>3
  <2> QED
    BY <2>1, <2>2
<1>13. ASSUME NEW q \in Procs PROVE Handler(q)'
  <2>1. CASE q = p
    BY <1>2, <1>5, <1>7, <1>8, <1>9, <1>10, <2>1 DEF Handler
  <2>2. CASE q # p
    <3>1. /\ UNCHANGED <<regions, fault>>
          /\ \A x \in Procs \ {p} : pc'[x] = pc[x] /\ cp'[x] = cp[x]
          /\ \A x \in Procs \ {p}, w \in VPages : pt'[x][w] = pt[x][w]
      BY <1>8, <1>9, <1>10
    <3> QED
      BY <2>2, <3>1, OthersStep
  <2> QED
    BY <2>1, <2>2
<1>14. ASSUME NEW g \in Frames PROVE refcnt'[g] = Count(pt', cached', pc', cp', g)
  <2>1. \A q \in Procs, w \in VPages :
          (pt[q][w] # NULL /\ pt[q][w].f = g) <=> (pt'[q][w] # NULL /\ pt'[q][w].f = g)
    <3> TAKE q \in Procs, w \in VPages
    <3>1. CASE q = p /\ w = v
      BY <1>3, <1>5, <1>7, <1>9, <3>1
    <3>2. CASE ~(q = p /\ w = v)
      BY <1>9, <3>2
    <3> QED
      BY <3>1, <3>2
  <2>2. PtUses(pt', g) = PtUses(pt, g)
    BY ONLY <2>1, PtUsesSame
  <2>3. CowUses(pc', cp', g) = CowUses(pc, cp, g)
    BY <1>4, <1>10 DEF CowUses
  <2> QED
    BY <1>1, <1>8, <2>2, <2>3 DEF Count
<1>15. Counted'
  BY <1>14, UsersIs DEF Counted
<1> QED
  BY <1>9, <1>11, <1>12, <1>13, <1>15 DEF Good

LEMMA CopyStep ==
  ASSUME Good, NEW p \in Procs, handleCOW(p), Free # {},
         CopyFrame(p, pt[p][fault[p].v].f), UNCHANGED overlaid
  PROVE  Good'
<1>1. /\ VmType /\ pt \in Tables
      /\ \A o \in Procs : RegionsSound(regions[o]) /\ Ordered(regions[o])
      /\ \A f \in Frames : refcnt[f] = Count(pt, cached, pc, cp, f)
  BY GoodIs
<1>2. PICK v : v = fault[p].v
  OBVIOUS
<1>3. PICK f : f = pt[p][v].f
  OBVIOUS
<1>4. pc[p] = "cow" /\ lock[f] = NULL
  BY <1>2, <1>3 DEF handleCOW
<1>5. /\ v \in VPages /\ v \in PrivateOf(regions[p]) /\ v \notin SharedOf(regions[p])
      /\ pt[p][v] # NULL /\ pt[p][v] \in PteType /\ f \in Frames /\ refcnt[f] > 0
  BY <1>2, <1>3, <1>4, CowPage
<1>6. PICK a : a = pmem_alloc(v)
  OBVIOUS
<1>7. a \in Frames /\ refcnt[a] = 0 /\ a # f
  BY <1>1, <1>5, <1>6, AllocIs
<1>8. PICK e : e = Pte(a, TRUE)
  OBVIOUS
<1>9. e \in PteType /\ e.f = a /\ e.w = TRUE /\ e # NULL
  BY <1>7, <1>8, PteMade
<1>10. /\ pt' = [pt EXCEPT ![p][v] = e]
       /\ refcnt' = [refcnt EXCEPT ![a] = 1]
       /\ content' = [content EXCEPT ![a] = content[f]]
       /\ lock' = [lock EXCEPT ![a] = NULL, ![f] = p]
       /\ pc' = [pc EXCEPT ![p] = "mapped"]
       /\ cp' = [cp EXCEPT ![p] = f]
       /\ regions' = regions /\ cached' = cached /\ fault' = fault /\ panicked' = panicked
       /\ overlaid' = overlaid
  BY <1>2, <1>3, <1>6, <1>8 DEF handleCOW, CopyFrame, Goto
<1>11. /\ pc' \in [Procs -> {"run", "cow", "mapped", "unlock", "failed", "setup"}]
       /\ pc'[p] = "mapped" /\ \A q \in Procs \ {p} : pc'[q] = pc[q]
       /\ cp' \in [Procs -> Frames \cup {NULL}] /\ cp'[p] = f
       /\ \A q \in Procs \ {p} : cp'[q] = cp[q]
  BY <1>1, <1>5, <1>10 DEF VmType
<1>12. /\ lock' \in [Frames -> Procs \cup {NULL}] /\ lock'[f] = p /\ lock'[a] = NULL
       /\ \A g \in Frames \ {f, a} : lock'[g] = lock[g]
       /\ refcnt' \in [Frames -> Nat] /\ refcnt'[a] = 1
       /\ \A g \in Frames \ {a} : refcnt'[g] = refcnt[g]
       /\ content' \in [Frames -> Vals]
  BY <1>1, <1>5, <1>7, <1>10 DEF VmType
<1>13. /\ pt' \in Tables /\ pt'[p][v] = e
       /\ \A q \in Procs, w \in VPages : ~(q = p /\ w = v) => pt'[q][w] = pt[q][w]
       /\ CountedAlone' /\ SharedSeen' /\ Apart' /\ SharedWritable'
  <2>1. \A g \in Frames : refcnt[g] = 1 => refcnt'[g] = 1
    BY <1>7, <1>12
  <2>2. \A i \in DOMAIN regions[p] :
          ~(regions[p][i].store # NULL /\ v \in Inside(regions[p][i]))
    BY <1>5, PrivateIs
  <2>3. PageSet(p, v, e)
    BY <1>5, <1>9, <1>10, <1>12, <2>1, <2>2 DEF PageSet
  <2> QED
    BY ONLY Good, <2>3, PageStep
<1>14. VmType'
  <2>1. pt' \in [Procs -> [VPages -> [f : Frames, w : BOOLEAN] \cup {NULL}]]
    BY <1>13 DEF Tables, PteType
  <2> QED
    BY <1>1, <1>10, <1>11, <1>12, <2>1 DEF VmType
<1>15. LockHeld'
  <2> SUFFICES ASSUME NEW g \in Frames, lock'[g] # NULL
               PROVE  pc'[lock'[g]] \in {"mapped", "unlock", "failed"} /\ cp'[lock'[g]] = g
    BY DEF LockHeld
  <2>1. CASE g = f
    BY <1>11, <1>12, <2>1
  <2>2. CASE g # f
    <3>1. lock'[g] = lock[g]
      BY <1>12, <2>2
    <3>2. pc[lock[g]] \in {"mapped", "unlock", "failed"} /\ cp[lock[g]] = g
      BY <3>1 DEF Good, LockHeld
    <3>3. lock[g] \in Procs \ {p}
      BY <1>1, <1>4, <3>1, <3>2 DEF VmType
    <3> QED
      BY <1>11, <3>1, <3>2, <3>3
  <2> QED
    BY <2>1, <2>2
<1>16. ASSUME NEW q \in Procs PROVE Handler(q)'
  <2>1. CASE q = p
    BY <1>2, <1>5, <1>9, <1>10, <1>11, <1>13, <2>1 DEF Handler
  <2>2. CASE q # p
    <3>1. /\ UNCHANGED <<regions, fault>>
          /\ \A x \in Procs \ {p} : pc'[x] = pc[x] /\ cp'[x] = cp[x]
          /\ \A x \in Procs \ {p}, w \in VPages : pt'[x][w] = pt[x][w]
      BY <1>10, <1>11, <1>13
    <3> QED
      BY <2>2, <3>1, OthersStep
  <2> QED
    BY <2>1, <2>2
<1>17. ASSUME NEW g \in Frames PROVE refcnt'[g] = Count(pt', cached', pc', cp', g)
  <2>1. /\ Cardinality(PtUses(pt, g)) \in Nat /\ Cardinality(CacheUses(cached, g)) \in Nat
        /\ Cardinality(CowUses(pc, cp, g)) \in Nat
    BY UsesFinite
  <2>2. refcnt[g] = Count(pt, cached, pc, cp, g) /\ CacheUses(cached', g) = CacheUses(cached, g)
    BY <1>1, <1>10
  <2>3. CASE g = a
    <3>1. GainsAt(pt, pt', p, v, g)
      BY <1>3, <1>5, <1>7, <1>9, <1>13, <2>3 DEF GainsAt, OnlyAt
    <3>2. Cardinality(PtUses(pt', g)) = Cardinality(PtUses(pt, g)) + 1
      BY ONLY <3>1, PtGains
    <3>3. CowUses(pc', cp', g) = CowUses(pc, cp, g)
      BY <1>4, <1>7, <1>11, <2>3 DEF CowUses
    <3>4. refcnt[g] = 0 /\ refcnt'[g] = 1
      BY <1>7, <1>12, <2>3
    <3> QED
      BY ONLY <2>1, <2>2, <3>2, <3>3, <3>4 DEF Count
  <2>4. CASE g = f
    <3>1. LosesAt(pt, pt', p, v, g)
      BY <1>3, <1>5, <1>7, <1>9, <1>13, <2>4 DEF LosesAt, OnlyAt
    <3>2. Cardinality(PtUses(pt', g)) = Cardinality(PtUses(pt, g)) - 1
      BY ONLY <3>1, PtLoses
    <3>3. CowGainsAt(pc, pc', cp, cp', p, g)
      BY <1>4, <1>11, <2>4 DEF CowGainsAt
    <3>4. Cardinality(CowUses(pc', cp', g)) = Cardinality(CowUses(pc, cp, g)) + 1
      BY ONLY <3>3, CowGains
    <3>5. refcnt'[g] = refcnt[g]
      BY <1>7, <1>12, <2>4
    <3> QED
      BY ONLY <2>1, <2>2, <3>2, <3>4, <3>5 DEF Count
  <2>5. CASE g # a /\ g # f
    <3>1. \A q \in Procs, w \in VPages :
            (pt[q][w] # NULL /\ pt[q][w].f = g) <=> (pt'[q][w] # NULL /\ pt'[q][w].f = g)
      <4> TAKE q \in Procs, w \in VPages
      <4>1. CASE q = p /\ w = v
        BY <1>3, <1>9, <1>13, <2>5, <4>1
      <4>2. CASE ~(q = p /\ w = v)
        BY <1>13, <4>2
      <4> QED
        BY <4>1, <4>2
    <3>2. PtUses(pt', g) = PtUses(pt, g)
      BY ONLY <3>1, PtUsesSame
    <3>3. CowUses(pc', cp', g) = CowUses(pc, cp, g)
      BY <1>4, <1>11, <2>5 DEF CowUses
    <3>4. refcnt'[g] = refcnt[g]
      BY <1>12, <2>5
    <3> QED
      BY <2>2, <3>2, <3>3, <3>4 DEF Count
  <2> QED
    BY <2>3, <2>4, <2>5
<1>18. Counted'
  BY <1>17, UsersIs DEF Counted
<1> QED
  BY <1>13, <1>14, <1>15, <1>16, <1>18 DEF Good

LEMMA NoMemStep ==
  ASSUME Good, NEW p \in Procs, handleCOW(p),
         lock' = [lock EXCEPT ![pt[p][fault[p].v].f] = p], Goto(p, "failed"),
         UNCHANGED <<pt, refcnt, content>>, UNCHANGED overlaid
  PROVE  Good'
<1>1. /\ VmType /\ \A f \in Frames : refcnt[f] = Count(pt, cached, pc, cp, f)
  BY GoodIs
<1>2. PICK f : f = pt[p][fault[p].v].f
  OBVIOUS
<1>3. pc[p] = "cow" /\ lock[f] = NULL
  BY <1>2 DEF handleCOW
<1>4. f \in Frames
  BY <1>2, <1>3, CowPage
<1>5. /\ lock' = [lock EXCEPT ![f] = p] /\ pc' = [pc EXCEPT ![p] = "failed"]
      /\ cp' = [cp EXCEPT ![p] = f]
      /\ pt' = pt /\ refcnt' = refcnt /\ content' = content /\ regions' = regions
      /\ cached' = cached /\ fault' = fault /\ panicked' = panicked /\ overlaid' = overlaid
  BY <1>2 DEF handleCOW, Goto
<1>6. /\ pc' \in [Procs -> {"run", "cow", "mapped", "unlock", "failed", "setup"}]
      /\ pc'[p] = "failed" /\ \A q \in Procs \ {p} : pc'[q] = pc[q]
      /\ cp' \in [Procs -> Frames \cup {NULL}] /\ cp'[p] = f
      /\ \A q \in Procs \ {p} : cp'[q] = cp[q]
      /\ lock' \in [Frames -> Procs \cup {NULL}] /\ lock'[f] = p
      /\ \A g \in Frames \ {f} : lock'[g] = lock[g]
  BY <1>1, <1>4, <1>5 DEF VmType
<1>7. VmType'
  BY <1>1, <1>5, <1>6 DEF VmType
<1>8. CountedAlone' /\ SharedSeen' /\ Apart' /\ SharedWritable'
  BY <1>5, KeepStep
<1>9. LockHeld'
  <2> SUFFICES ASSUME NEW g \in Frames, lock'[g] # NULL
               PROVE  pc'[lock'[g]] \in {"mapped", "unlock", "failed"} /\ cp'[lock'[g]] = g
    BY DEF LockHeld
  <2>1. CASE g = f
    BY <1>6, <2>1
  <2>2. CASE g # f
    <3>1. lock'[g] = lock[g]
      BY <1>6, <2>2
    <3>2. pc[lock[g]] \in {"mapped", "unlock", "failed"} /\ cp[lock[g]] = g
      BY <3>1 DEF Good, LockHeld
    <3>3. lock[g] \in Procs \ {p}
      BY <1>1, <1>3, <3>1, <3>2 DEF VmType
    <3> QED
      BY <1>6, <3>1, <3>2, <3>3
  <2> QED
    BY <2>1, <2>2
<1>10. ASSUME NEW q \in Procs PROVE Handler(q)'
  <2>1. CASE q = p
    <3>1. Handler(p)
      BY DEF Good
    <3> QED
      BY <1>3, <1>4, <1>5, <1>6, <2>1, <3>1 DEF Handler
  <2>2. CASE q # p
    <3>1. Handler(q)
      BY DEF Good
    <3> QED
      BY <1>5, <1>6, <2>2, <3>1 DEF Handler
  <2> QED
    BY <2>1, <2>2
<1>11. ASSUME NEW g \in Frames PROVE refcnt'[g] = Count(pt', cached', pc', cp', g)
  <2>1. CowUses(pc', cp', g) = CowUses(pc, cp, g)
    BY <1>3, <1>6 DEF CowUses
  <2> QED
    BY <1>1, <1>5, <2>1 DEF Count
<1>12. Counted'
  BY <1>11, UsersIs DEF Counted
<1> QED
  BY <1>7, <1>8, <1>9, <1>10, <1>12 DEF Good

LEMMA HandleCOWStep ==
  ASSUME Good, NEW p \in Procs, handleCOW(p), UNCHANGED overlaid
  PROVE  Good'
<1> DEFINE f == pt[p][fault[p].v].f
<1>1. \/ refcnt[f] = 1 /\ LastUser(p, f)
      \/ refcnt[f] # 1 /\ Free # {} /\ CopyFrame(p, f)
      \/ /\ lock' = [lock EXCEPT ![f] = p] /\ Goto(p, "failed")
         /\ UNCHANGED <<pt, refcnt, content>>
  BY DEF handleCOW
<1>2. CASE refcnt[f] = 1 /\ LastUser(p, f)
  BY <1>2, LastUserStep
<1>3. CASE refcnt[f] # 1 /\ Free # {} /\ CopyFrame(p, f)
  BY <1>3, CopyStep
<1>4. CASE /\ lock' = [lock EXCEPT ![f] = p] /\ Goto(p, "failed")
           /\ UNCHANGED <<pt, refcnt, content>>
  BY <1>4, NoMemStep
<1> QED
  BY <1>1, <1>2, <1>3, <1>4

LEMMA CowDropStep ==
  ASSUME Good, NEW p \in Procs, CowDrop(p), UNCHANGED overlaid
  PROVE  Good'
<1>1. /\ VmType /\ \A f \in Frames : refcnt[f] = Count(pt, cached, pc, cp, f)
  BY GoodIs
<1>2. PICK f : f = cp[p]
  OBVIOUS
<1>3. pc[p] = "mapped"
  BY DEF CowDrop
<1>4. f \in Frames /\ p \in CowUses(pc, cp, f)
  BY <1>2, <1>3 DEF Good, Handler, CowUses
<1>5. refcnt[f] > 0
  BY <1>1, <1>4, CountSome
<1>6. /\ refcnt' = [refcnt EXCEPT ![f] = refcnt[f] - 1]
      /\ content' = [g \in Frames |-> IF refcnt'[g] = 0 THEN 0 ELSE content[g]]
      /\ pc' = [pc EXCEPT ![p] = "unlock"]
      /\ regions' = regions /\ pt' = pt /\ cached' = cached /\ lock' = lock
      /\ fault' = fault /\ cp' = cp /\ panicked' = panicked /\ overlaid' = overlaid
  BY <1>2 DEF CowDrop, SetCounts, Goto
<1>7. /\ refcnt' \in [Frames -> Nat] /\ refcnt'[f] = refcnt[f] - 1
      /\ \A g \in Frames \ {f} : refcnt'[g] = refcnt[g]
  BY <1>1, <1>4, <1>5, <1>6 DEF VmType
<1>8. content' \in [Frames -> Vals]
  BY <1>1, <1>6, VmAssumption DEF VmType
<1>9. /\ pc' \in [Procs -> {"run", "cow", "mapped", "unlock", "failed", "setup"}]
      /\ pc'[p] = "unlock" /\ \A q \in Procs \ {p} : pc'[q] = pc[q]
  BY <1>1, <1>6 DEF VmType
<1>10. VmType'
  BY <1>1, <1>6, <1>7, <1>8, <1>9 DEF VmType
<1>11. CountedAlone' /\ SharedSeen' /\ Apart' /\ SharedWritable'
  <2>1. \A g \in Frames : refcnt[g] = 1 /\ CowUses(pc, cp, g) = {} => refcnt'[g] = 1
    BY <1>4, <1>7
  <2> QED
    BY <1>6, <2>1, KeepStep
<1>12. LockHeld'
  <2> SUFFICES ASSUME NEW g \in Frames, lock[g] # NULL
               PROVE  pc'[lock[g]] \in {"mapped", "unlock", "failed"} /\ cp[lock[g]] = g
    BY <1>6 DEF LockHeld
  <2>1. pc[lock[g]] \in {"mapped", "unlock", "failed"} /\ cp[lock[g]] = g
    BY DEF Good, LockHeld
  <2>2. lock[g] \in Procs
    BY <1>1 DEF VmType
  <2> QED
    BY <1>9, <2>1, <2>2
<1>13. ASSUME NEW q \in Procs PROVE Handler(q)'
  <2>1. Handler(q)
    BY DEF Good
  <2> QED
    BY <1>3, <1>6, <1>9, <2>1 DEF Handler
<1>14. ASSUME NEW g \in Frames PROVE refcnt'[g] = Count(pt', cached', pc', cp', g)
  <2>1. CASE g = f
    <3>1. CowGainsAt(pc', pc, cp', cp, p, g)
      BY <1>2, <1>3, <1>6, <1>9, <2>1 DEF CowGainsAt
    <3>2. Cardinality(CowUses(pc, cp, g)) = Cardinality(CowUses(pc', cp', g)) + 1
      BY ONLY <3>1, CowGains
    <3>3. /\ Cardinality(PtUses(pt, g)) \in Nat /\ Cardinality(CacheUses(cached, g)) \in Nat
          /\ Cardinality(CowUses(pc', cp', g)) \in Nat
      BY UsesFinite
    <3>4. /\ refcnt'[g] = refcnt[g] - 1 /\ refcnt[g] = Count(pt, cached, pc, cp, g)
          /\ pt' = pt /\ cached' = cached
      BY <1>1, <1>6, <1>7, <2>1
    <3> QED
      BY ONLY <3>2, <3>3, <3>4 DEF Count
  <2>2. CASE g # f
    <3>1. CowUses(pc', cp', g) = CowUses(pc, cp, g)
      BY <1>2, <1>6, <1>9, <2>2 DEF CowUses
    <3>2. refcnt'[g] = refcnt[g]
      BY <1>7, <2>2
    <3> QED
      BY <1>1, <1>6, <3>1, <3>2 DEF Count
  <2> QED
    BY <2>1, <2>2
<1>15. Counted'
  BY <1>14, UsersIs DEF Counted
<1> QED
  BY <1>10, <1>11, <1>12, <1>13, <1>15 DEF Good

LEMMA CowUnlockStep ==
  ASSUME Good, NEW p \in Procs, CowUnlock(p), UNCHANGED overlaid
  PROVE  Good'
<1>1. /\ VmType /\ \A f \in Frames : refcnt[f] = Count(pt, cached, pc, cp, f)
  BY GoodIs
<1>2. PICK f : f = cp[p]
  OBVIOUS
<1>3. pc[p] \in {"unlock", "failed"}
  BY DEF CowUnlock
<1>4. f \in Frames
  BY <1>2, <1>3 DEF Good, Handler
<1>5. /\ cp' = [cp EXCEPT ![p] = NULL]
      /\ regions' = regions /\ pt' = pt /\ refcnt' = refcnt /\ content' = content
      /\ cached' = cached /\ overlaid' = overlaid
  BY DEF CowUnlock
<1>6. /\ lock' \in [Frames -> Procs \cup {NULL}]
      /\ lock'[f] # p
      /\ \A g \in Frames : lock'[g] # NULL => lock'[g] = lock[g]
      /\ panicked' \in BOOLEAN
  <2>1. NULL \notin Procs
    BY VmAssumption
  <2>2. CASE lock[f] = p /\ lock' = [lock EXCEPT ![f] = NULL] /\ UNCHANGED panicked
    BY <1>1, <1>4, <2>1, <2>2 DEF VmType
  <2>3. CASE lock[f] # p /\ panicked' = TRUE /\ UNCHANGED lock
    BY <1>1, <2>3 DEF VmType
  <2> QED
    BY <1>2, <2>2, <2>3 DEF CowUnlock
<1>7. /\ pc' \in [Procs -> {"run", "cow", "mapped", "unlock", "failed", "setup"}]
      /\ \A q \in Procs \ {p} : pc'[q] = pc[q] /\ fault'[q] = fault[q]
      /\ fault' \in [Procs -> [v : VPages, user : BOOLEAN]]
      /\ pc'[p] = "run" \/ (pc'[p] = "setup" /\ fault'[p] = fault[p])
  <2>1. CASE Goto(p, "setup") /\ UNCHANGED fault
    BY <1>1, <2>1 DEF Goto, VmType
  <2>2. CASE Return(p)
    BY <1>1, <2>2, ReturnIs
  <2> QED
    BY <2>1, <2>2 DEF CowUnlock
<1>8. cp' \in [Procs -> Frames \cup {NULL}] /\ \A q \in Procs \ {p} : cp'[q] = cp[q]
  BY <1>1, <1>5 DEF VmType
<1>9. VmType'
  BY <1>1, <1>5, <1>6, <1>7, <1>8 DEF VmType
<1>10. CountedAlone' /\ SharedSeen' /\ Apart' /\ SharedWritable'
  BY <1>5, KeepStep
<1>11. LockHeld'
  <2> SUFFICES ASSUME NEW g \in Frames, lock'[g] # NULL
               PROVE  pc'[lock'[g]] \in {"mapped", "unlock", "failed"} /\ cp'[lock'[g]] = g
    BY DEF LockHeld
  <2>1. lock'[g] = lock[g]
    BY <1>6
  <2>2. pc[lock[g]] \in {"mapped", "unlock", "failed"} /\ cp[lock[g]] = g
    BY <2>1 DEF Good, LockHeld
  <2>3. lock[g] \in Procs
    BY <1>1, <2>1 DEF VmType
  <2>4. lock[g] # p
    <3>1. ASSUME lock[g] = p PROVE FALSE
      <4>1. g = f
        BY <1>2, <2>2, <3>1
      <4> QED
        BY <1>6, <2>1, <3>1, <4>1
    <3> QED
      BY <3>1
  <2> QED
    BY <1>7, <1>8, <2>1, <2>2, <2>3, <2>4
<1>12. ASSUME NEW q \in Procs PROVE Handler(q)'
  <2>1. Handler(q)
    BY DEF Good
  <2>2. CASE q = p
    BY <1>3, <1>5, <1>7, <2>1, <2>2 DEF Handler
  <2>3. CASE q # p
    BY <1>5, <1>7, <1>8, <2>1, <2>3 DEF Handler
  <2> QED
    BY <2>2, <2>3
<1>13. ASSUME NEW g \in Frames PROVE refcnt'[g] = Count(pt', cached', pc', cp', g)
  <2>1. CowUses(pc', cp', g) = CowUses(pc, cp, g)
    BY <1>3, <1>7, <1>8 DEF CowUses
  <2> QED
    BY <1>1, <1>5, <2>1 DEF Count
<1>14. Counted'
  BY <1>13, UsersIs DEF Counted
<1> QED
  BY <1>9, <1>10, <1>11, <1>12, <1>14 DEF Good

-----------------------------------------------------------------------------
(* Faults and accesses *)

(* A step that changes no more than pc and fault of a process that runs,   *)
(* contents of frames, and the flags *)
LEMMA QuietStep ==
  ASSUME Good, NEW p \in Procs, UNCHANGED <<regions, pt, refcnt, cached, lock, cp>>,
         content' \in [Frames -> Vals], panicked' \in BOOLEAN, overlaid' \in BOOLEAN,
         \/ UNCHANGED <<pc, fault>>
         \/ /\ pc[p] = "run" /\ pc' = [pc EXCEPT ![p] = "cow"]
            /\ fault' \in [Procs -> [v : VPages, user : BOOLEAN]]
            /\ \A q \in Procs \ {p} : fault'[q] = fault[q]
            /\ pt[p][fault'[p].v] # NULL /\ fault'[p].v \in PrivateOf(regions[p])
  PROVE  Good'
<1>1. /\ VmType /\ \A f \in Frames : refcnt[f] = Count(pt, cached, pc, cp, f)
  BY GoodIs
<1>2. /\ pc' \in [Procs -> {"run", "cow", "mapped", "unlock", "failed", "setup"}]
      /\ fault' \in [Procs -> [v : VPages, user : BOOLEAN]]
      /\ \A q \in Procs : \/ pc'[q] = pc[q] /\ fault'[q] = fault[q]
                          \/ /\ pc[q] = "run" /\ pc'[q] = "cow"
                             /\ pt[q][fault'[q].v] # NULL
                             /\ fault'[q].v \in PrivateOf(regions[q])
  BY <1>1 DEF VmType
<1>3. /\ regions' = regions /\ pt' = pt /\ refcnt' = refcnt /\ cached' = cached
      /\ lock' = lock /\ cp' = cp
  OBVIOUS
<1>4. VmType'
  BY <1>1, <1>2, <1>3 DEF VmType
<1>5. CountedAlone' /\ SharedSeen' /\ Apart' /\ SharedWritable'
  BY <1>3, KeepStep
<1>6. LockHeld'
  <2> SUFFICES ASSUME NEW g \in Frames, lock[g] # NULL
               PROVE  pc'[lock[g]] \in {"mapped", "unlock", "failed"} /\ cp[lock[g]] = g
    BY <1>3 DEF LockHeld
  <2>1. pc[lock[g]] \in {"mapped", "unlock", "failed"} /\ cp[lock[g]] = g
    BY DEF Good, LockHeld
  <2>2. lock[g] \in Procs
    BY <1>1 DEF VmType
  <2> QED
    BY <1>2, <2>1, <2>2
<1>7. ASSUME NEW q \in Procs PROVE Handler(q)'
  <2>1. Handler(q)
    BY DEF Good
  <2> QED
    BY <1>2, <1>3, <2>1 DEF Handler
<1>8. ASSUME NEW g \in Frames PROVE refcnt'[g] = Count(pt', cached', pc', cp', g)
  <2>1. CowUses(pc', cp', g) = CowUses(pc, cp, g)
    BY <1>2, <1>3 DEF CowUses
  <2> QED
    BY <1>1, <1>3, <2>1 DEF Count
<1>9. Counted'
  BY <1>8, UsersIs DEF Counted
<1> QED
  BY <1>4, <1>5, <1>6, <1>7, <1>9 DEF Good

LEMMA WriteStep ==
  ASSUME Good, NEW p \in Procs, NEW v \in VPages, NEW x \in Vals, Write(p, v, x),
         UNCHANGED overlaid
  PROVE  Good'
<1>1. VmType
  BY GoodIs
<1>2. content' \in [Frames -> Vals] /\ panicked' \in BOOLEAN /\ overlaid' \in BOOLEAN
  BY <1>1 DEF VmType, Write
<1>3. UNCHANGED <<regions, pt, refcnt, cached, lock, cp>> /\ UNCHANGED <<pc, fault>>
  BY DEF Write
<1> QED
  BY <1>2, <1>3, QuietStep

LEMMA PanicStep ==
  ASSUME Good, NEW p \in Procs, panicked' = TRUE, overlaid' \in BOOLEAN,
         UNCHANGED <<regions, pt, refcnt, content, cached, lock, pc, fault, cp>>
  PROVE  Good'
<1>1. content' \in [Frames -> Vals] /\ panicked' \in BOOLEAN
  BY GoodIs DEF VmType
<1>2. UNCHANGED <<regions, pt, refcnt, cached, lock, cp>> /\ UNCHANGED <<pc, fault>>
  OBVIOUS
<1> QED
  BY <1>1, <1>2, QuietStep

LEMMA SetupStep ==
  ASSUME Good, NEW p \in Procs, NEW v \in VPages, NEW user \in BOOLEAN,
         pc[p] = "run", pt[p][v] = NULL, Free # {} => v \in PrivateOf(regions[p]),
         setup_page(p, v, user), UNCHANGED overlaid
  PROVE  Good'
<1>1. VmType /\ overlaid' \in BOOLEAN
  BY GoodIs DEF VmType
<1>2. \/ /\ panicked' = TRUE
         /\ UNCHANGED <<regions, pt, refcnt, content, cached, lock, pc, fault, cp>>
      \/ /\ Free # {}
         /\ pt' = [pt EXCEPT ![p][v] = Pte(pmem_alloc(v), TRUE)]
         /\ refcnt' = [refcnt EXCEPT ![pmem_alloc(v)] = 1]
         /\ lock' = [lock EXCEPT ![pmem_alloc(v)] = NULL]
         /\ Return(p)
         /\ UNCHANGED <<regions, content, cached, cp, panicked>>
      \/ as_destroy(p)
  BY DEF setup_page
<1>3. CASE /\ panicked' = TRUE
           /\ UNCHANGED <<regions, pt, refcnt, content, cached, lock, pc, fault, cp>>
  BY <1>1, <1>3, PanicStep
<1>4. CASE /\ Free # {}
           /\ pt' = [pt EXCEPT ![p][v] = Pte(pmem_alloc(v), TRUE)]
           /\ refcnt' = [refcnt EXCEPT ![pmem_alloc(v)] = 1]
           /\ lock' = [lock EXCEPT ![pmem_alloc(v)] = NULL]
           /\ Return(p)
           /\ UNCHANGED <<regions, content, cached, cp, panicked>>
  BY <1>1, <1>4, FillStep
<1>5. CASE as_destroy(p)
  BY <1>1, <1>5, DestroyStep
<1> QED
  BY <1>2, <1>3, <1>4, <1>5

LEMMA FaultStep ==
  ASSUME Good, NEW p \in Procs, NEW v \in VPages, NEW write \in BOOLEAN,
         NEW user \in BOOLEAN, Fault(p, v, write, user), UNCHANGED overlaid
  PROVE  Good'
<1> DEFINE i == as_find_memregion(p, v, 1)
           served == /\ regions[p][i].store # NULL
                     /\ cached[CachedAt(p, v)] # NULL \/ Free # {}
           cow == pt[p][v] # NULL /\ write
<1>1. VmType /\ pt \in Tables /\ RegionsSound(regions[p]) /\ Ordered(regions[p])
  BY GoodIs
<1>2. pc[p] = "run" /\ ~(pt[p][v] # NULL /\ (write => pt[p][v].w))
  BY DEF Fault
<1>3. \/ i = None /\ as_destroy(p)
      \/ i # None /\ served /\ handleSharedRegion(p, v)
      \/ /\ i # None /\ ~served /\ cow
         /\ fault' = [fault EXCEPT ![p] = [v |-> v, user |-> user]]
         /\ Goto(p, "cow")
         /\ UNCHANGED <<regions, pt, refcnt, content, cached, lock, cp, panicked>>
      \/ i # None /\ ~served /\ ~cow /\ setup_page(p, v, user)
  BY DEF Fault, handle_page_fault
<1>4. overlaid' \in BOOLEAN
  BY <1>1 DEF VmType
<1>5. i # None => i \in DOMAIN regions[p] /\ v \in Inside(regions[p][i])
  BY <1>1, FoundIs
<1>6. CASE i = None /\ as_destroy(p)
  BY <1>2, <1>4, <1>6, DestroyStep
<1>7. CASE i # None /\ served /\ handleSharedRegion(p, v)
  <2>1. v \in SharedOf(regions[p])
    BY <1>5, <1>7, PrivateIs
  <2>2. pt[p][v] = NULL
    BY <1>2, <2>1 DEF Good, SharedWritable
  <2> QED
    BY <1>7, <2>2, SharedStep
<1>8. CASE /\ i # None /\ ~served /\ cow
           /\ fault' = [fault EXCEPT ![p] = [v |-> v, user |-> user]]
           /\ Goto(p, "cow")
           /\ UNCHANGED <<regions, pt, refcnt, content, cached, lock, cp, panicked>>
  <2>1. v \in PrivateOf(regions[p])
    <3>1. regions[p][i].store = NULL
      <4>1. ASSUME regions[p][i].store # NULL PROVE FALSE
        <5>1. pt[p][v].f = cached[<<regions[p][i].store, v - regions[p][i].start>>]
          BY <1>5, <1>8, <4>1 DEF Good, SharedSeen
        <5>2. pt[p][v].f # NULL
          BY <1>1, <1>8, PteIs
        <5> QED
          BY <1>8, <4>1, <5>1, <5>2 DEF CachedAt
      <4> QED
        BY <4>1
    <3> QED
      BY <1>5, <1>8, <3>1, PrivateIs
  <2>2. /\ fault' \in [Procs -> [v : VPages, user : BOOLEAN]] /\ fault'[p].v = v
        /\ \A q \in Procs \ {p} : fault'[q] = fault[q]
    BY <1>1, <1>8 DEF VmType
  <2>3. pc' = [pc EXCEPT ![p] = "cow"]
    BY <1>8 DEF Goto
  <2>4. content' \in [Frames -> Vals] /\ panicked' \in BOOLEAN
    BY <1>1, <1>8 DEF VmType
  <2>5. UNCHANGED <<regions, pt, refcnt, cached, lock, cp>>
    BY <1>8
  <2>6. pt[p][fault'[p].v] # NULL /\ fault'[p].v \in PrivateOf(regions[p])
    BY <1>8, <2>1, <2>2
  <2> QED
    BY <1>2, <1>4, <2>2, <2>3, <2>4, <2>5, <2>6, QuietStep
<1>9. CASE i # None /\ ~served /\ ~cow /\ setup_page(p, v, user)
  <2>1. pt[p][v] = NULL
    BY <1>2, <1>9
  <2>2. Free # {} => v \in PrivateOf(regions[p])
    <3>1. Free # {} => regions[p][i].store = NULL
      BY <1>9
    <3> QED
      BY <1>5, <1>9, <3>1, PrivateIs
  <2> QED
    BY <1>2, <1>9, <2>1, <2>2, SetupStep
<1> HIDE DEF i, served, cow
<1> QED
  BY <1>3, <1>6, <1>7, <1>8, <1>9

LEMMA AfterCOWStep ==
  ASSUME Good, ~panicked, NEW p \in Procs, AfterCOW(p)
  PROVE  Inv'
<1>1. VmType
  BY GoodIs
<1>2. pc[p] = "setup"
  BY DEF AfterCOW
<1>3. PICK v : v = fault[p].v
  OBVIOUS
<1>4. v \in VPages /\ v \in PrivateOf(regions[p])
  BY <1>2, <1>3, CowPage
<1>5. overlaid' = (regions'[p] # <<>> /\ ~panicked') /\ overlaid' \in BOOLEAN
  BY DEF AfterCOW, Alive
<1>6. regions[p] # <<>>
  BY <1>4, NoRegions
<1>7. \/ /\ panicked' = TRUE
         /\ UNCHANGED <<regions, pt, refcnt, content, cached, lock, pc, fault, cp>>
      \/ /\ Free # {}
         /\ pt' = [pt EXCEPT ![p][v] = Pte(pmem_alloc(v), TRUE)]
         /\ refcnt' = [refcnt EXCEPT ![pmem_alloc(v)] = 1]
         /\ lock' = [lock EXCEPT ![pmem_alloc(v)] = NULL]
         /\ Return(p)
         /\ UNCHANGED <<regions, content, cached, cp, panicked>>
      \/ as_destroy(p)
  BY <1>3 DEF AfterCOW, setup_page
<1>8. CASE /\ panicked' = TRUE
           /\ UNCHANGED <<regions, pt, refcnt, content, cached, lock, pc, fault, cp>>
  BY <1>5, <1>8, PanicStep, GoodNext
<1>9. CASE /\ Free # {}
           /\ pt' = [pt EXCEPT ![p][v] = Pte(pmem_alloc(v), TRUE)]
           /\ refcnt' = [refcnt EXCEPT ![pmem_alloc(v)] = 1]
           /\ lock' = [lock EXCEPT ![pmem_alloc(v)] = NULL]
           /\ Return(p)
           /\ UNCHANGED <<regions, content, cached, cp, panicked>>
  <2>1. overlaid' = TRUE
    BY <1>5, <1>6, <1>9
  <2> QED
    BY <1>2, <1>4, <1>9, <2>1, OverlayStep
<1>10. CASE as_destroy(p)
  BY <1>2, <1>5, <1>10, DestroyStep, GoodNext
<1> QED
  BY <1>7, <1>8, <1>9, <1>10

-----------------------------------------------------------------------------
(* Forks *)

LEMMA NoPages ==
  ASSUME NEW p \in Procs, ~LeftBehind(p), ~Alive(p)
  PROVE  regions[p] = <<>> /\ \A v \in VPages : pt[p][v] = NULL
BY DEF LeftBehind, Alive

LEMMA ReadOnlyIs ==
  ASSUME VmType, NEW p \in Procs, NEW S, NEW v \in VPages
  PROVE  /\ ReadOnly(p, S)[v] \in PteType \cup {NULL}
         /\ ReadOnly(p, S)[v] = NULL <=> pt[p][v] = NULL
         /\ pt[p][v] # NULL => ReadOnly(p, S)[v].f = pt[p][v].f
         /\ pt[p][v] # NULL /\ v \in S => ~ReadOnly(p, S)[v].w
         /\ v \notin S => ReadOnly(p, S)[v] = pt[p][v]
<1>1. ReadOnly(p, S)[v]
        = IF v \in S /\ pt[p][v] # NULL THEN [pt[p][v] EXCEPT !.w = FALSE] ELSE pt[p][v]
  BY DEF ReadOnly
<1>2. pt[p][v] \in PteType \cup {NULL}
  BY DEF VmType, PteType
<1>3. NULL \notin PteType
  BY VmAssumption DEF PteType
<1>4. CASE v \in S /\ pt[p][v] # NULL
  <2>1. PICK z \in PteType : z = pt[p][v]
    BY <1>2, <1>4
  <2>2. PICK e : e = [z EXCEPT !.w = FALSE]
    OBVIOUS
  <2>3. e \in PteType /\ e.f = z.f /\ e.w = FALSE
    BY <2>2 DEF PteType
  <2>4. ReadOnly(p, S)[v] = e
    BY <1>1, <1>4, <2>1, <2>2
  <2> QED
    BY <1>3, <1>4, <2>1, <2>3, <2>4
<1>5. CASE ~(v \in S /\ pt[p][v] # NULL)
  BY <1>1, <1>2, <1>5
<1> QED
  BY <1>4, <1>5

LEMMA ForkFailsStep ==
  ASSUME Good, NEW p \in Procs, proc_forkFails(p), UNCHANGED overlaid
  PROVE  Good'
<1>1. /\ VmType /\ pt \in Tables
      /\ \A o \in Procs : RegionsSound(regions[o]) /\ Ordered(regions[o])
      /\ \A f \in Frames : refcnt[f] = Count(pt, cached, pc, cp, f)
  BY GoodIs
<1>2. PICK i \in DOMAIN regions[p] :
        pt' = [pt EXCEPT ![p] = ReadOnly(p, PrivateOf(SubSeq(regions[p], 1, i)))]
  BY DEF proc_forkFails
<1>3. PICK S : S = PrivateOf(SubSeq(regions[p], 1, i))
  OBVIOUS
<1>4. S \subseteq PrivateOf(regions[p])
  <2>1. regions[p] \in Seq(RegionType) /\ DOMAIN regions[p] = 1..Len(regions[p])
        /\ Len(regions[p]) \in Nat
    BY <1>1 DEF RegionsSound
  <2>2. \A j \in DOMAIN SubSeq(regions[p], 1, i) :
          j \in DOMAIN regions[p] /\ SubSeq(regions[p], 1, i)[j] = regions[p][j]
    BY <2>1
  <2> SUFFICES ASSUME NEW v \in S PROVE v \in PrivateOf(regions[p])
    OBVIOUS
  <2>3. PICK j \in DOMAIN SubSeq(regions[p], 1, i) :
          /\ SubSeq(regions[p], 1, i)[j].store = NULL
          /\ v \in Inside(SubSeq(regions[p], 1, i)[j])
    BY <1>3, PrivateIs
  <2>4. j \in DOMAIN regions[p] /\ regions[p][j].store = NULL /\ v \in Inside(regions[p][j])
    BY <2>2, <2>3
  <2> QED
    BY <2>4, PrivateIs
<1>5. PICK row : row = ReadOnly(p, S)
  OBVIOUS
<1>6. \A v \in VPages :
        /\ row[v] \in PteType \cup {NULL}
        /\ row[v] = NULL <=> pt[p][v] = NULL
        /\ pt[p][v] # NULL => row[v].f = pt[p][v].f
        /\ pt[p][v] # NULL /\ v \in S => ~row[v].w
        /\ v \notin S => row[v] = pt[p][v]
  BY <1>1, <1>5, ReadOnlyIs
<1>7. row \in [VPages -> PteType \cup {NULL}]
  BY <1>5, <1>6 DEF ReadOnly
<1>8. /\ pt' = [pt EXCEPT ![p] = row]
      /\ regions' = regions /\ refcnt' = refcnt /\ content' = content /\ cached' = cached
      /\ lock' = lock /\ pc' = pc /\ fault' = fault /\ cp' = cp /\ panicked' = panicked
      /\ overlaid' = overlaid
  BY <1>2, <1>3, <1>5 DEF proc_forkFails
<1>9. /\ pt' \in Tables /\ pt'[p] = row /\ \A q \in Procs \ {p} : pt'[q] = pt[q]
  BY <1>1, <1>7, <1>8 DEF Tables
<1>10. \A q \in Procs, v \in VPages :
         /\ pt'[q][v] = NULL <=> pt[q][v] = NULL
         /\ pt[q][v] # NULL => pt'[q][v].f = pt[q][v].f
         /\ v \notin PrivateOf(regions[q]) => pt'[q][v] = pt[q][v]
         /\ pt[q][v] # NULL /\ pt'[q][v].w => pt'[q][v] = pt[q][v]
  <2> TAKE q \in Procs, v \in VPages
  <2>1. CASE q = p
    BY <1>4, <1>6, <1>9, <2>1
  <2>2. CASE q # p
    BY <1>9, <2>2
  <2> QED
    BY <2>1, <2>2
<1>11. VmType'
  <2>1. pt' \in [Procs -> [VPages -> [f : Frames, w : BOOLEAN] \cup {NULL}]]
    BY <1>9 DEF Tables, PteType
  <2> QED
    BY <1>1, <1>8, <2>1 DEF VmType
<1>12. CountedAlone'
  <2> SUFFICES ASSUME NEW o \in Procs, NEW v \in PrivateOf(regions[o]),
                      pt'[o][v] # NULL, pt'[o][v].w
               PROVE  refcnt[pt'[o][v].f] = 1
    BY <1>8 DEF CountedAlone
  <2>1. v \in VPages
    BY <1>1, PrivateIn
  <2>2. pt'[o][v] = pt[o][v]
    BY <1>10, <2>1
  <2> QED
    BY <2>2 DEF Good, CountedAlone
<1>13. SharedSeen'
  <2> SUFFICES ASSUME NEW o \in Procs, NEW j \in DOMAIN regions[o],
                      regions[o][j].store # NULL,
                      NEW v \in Inside(regions[o][j]), pt'[o][v] # NULL
               PROVE  pt'[o][v].f = cached[<<regions[o][j].store, v - regions[o][j].start>>]
    BY <1>8 DEF SharedSeen, Inside
  <2>1. v \in VPages
    BY <1>1, RegionIn
  <2>2. pt[o][v] # NULL /\ pt'[o][v].f = pt[o][v].f
    BY <1>10, <2>1
  <2> QED
    BY <2>2 DEF Good, SharedSeen
<1>14. LockHeld' /\ Apart'
  BY <1>8 DEF Good, LockHeld, Apart
<1>15. SharedWritable'
  <2> SUFFICES ASSUME NEW o \in Procs, NEW v \in SharedOf(regions[o]), pt'[o][v] # NULL
               PROVE  pt'[o][v].w
    BY <1>8 DEF SharedWritable
  <2>1. v \in VPages
    BY <1>1, PrivateIn
  <2>2. v \notin PrivateOf(regions[o])
    BY <1>1, PrivateShared
  <2>3. pt'[o][v] = pt[o][v]
    BY <1>10, <2>1, <2>2
  <2> QED
    BY <2>3 DEF Good, SharedWritable
<1>16. ASSUME NEW q \in Procs PROVE Handler(q)'
  <2>1. Handler(q) /\ fault[q].v \in VPages
    BY <1>1 DEF Good, VmType
  <2> QED
    BY <1>8, <1>10, <2>1 DEF Handler
<1>17. ASSUME NEW g \in Frames PROVE refcnt'[g] = Count(pt', cached', pc', cp', g)
  <2>1. \A q \in Procs, v \in VPages :
          (pt[q][v] # NULL /\ pt[q][v].f = g) <=> (pt'[q][v] # NULL /\ pt'[q][v].f = g)
    BY <1>10
  <2>2. PtUses(pt', g) = PtUses(pt, g)
    BY ONLY <2>1, PtUsesSame
  <2> QED
    BY <1>1, <1>8, <2>2 DEF Count
<1>18. Counted'
  BY <1>17, UsersIs DEF Counted
<1> QED
  BY <1>11, <1>12, <1>13, <1>14, <1>15, <1>16, <1>18 DEF Good

LEMMA ForkStep ==
  ASSUME Good, NEW p \in Procs, NEW q \in Procs \ {p}, ~LeftBehind(q), proc_fork(p, q),
         UNCHANGED overlaid
  PROVE  Good'
<1>1. /\ VmType /\ pt \in Tables
      /\ \A o \in Procs : RegionsSound(regions[o]) /\ Ordered(regions[o])
      /\ \A f \in Frames : refcnt[f] = Count(pt, cached, pc, cp, f)
  BY GoodIs
<1>2. PICK S : S = PrivateOf(regions[p])
  OBVIOUS
<1>3. regions[q] = <<>> /\ \A v \in VPages : pt[q][v] = NULL
  BY NoPages DEF proc_fork
<1>4. PICK row : row = ReadOnly(p, S)
  OBVIOUS
<1>5. \A v \in VPages :
        /\ row[v] \in PteType \cup {NULL}
        /\ row[v] = NULL <=> pt[p][v] = NULL
        /\ pt[p][v] # NULL => row[v].f = pt[p][v].f
        /\ pt[p][v] # NULL /\ v \in S => ~row[v].w
        /\ v \notin S => row[v] = pt[p][v]
  BY <1>1, <1>4, ReadOnlyIs
<1>6. PICK child : child = [v \in VPages |-> IF v \in S THEN row[v] ELSE NULL]
  OBVIOUS
<1>7. /\ row \in [VPages -> PteType \cup {NULL}]
      /\ child \in [VPages -> PteType \cup {NULL}]
  BY <1>4, <1>5, <1>6 DEF ReadOnly
<1>8. /\ pt' = [pt EXCEPT ![p] = row, ![q] = child]
      /\ refcnt' = [f \in Frames |-> refcnt[f] + Cardinality(MappedIn(pt, p, f) \cap S)]
      /\ regions' = [regions EXCEPT ![q] = regions[p]]
      /\ content' = content /\ cached' = cached /\ lock' = lock /\ pc' = pc
      /\ fault' = fault /\ cp' = cp /\ panicked' = panicked /\ overlaid' = overlaid
      /\ pc[p] = "run" /\ pc[q] = "run"
  BY <1>2, <1>4, <1>6 DEF proc_fork, vpmap_cow_copy, Mapped, MappedIn
<1>9. /\ pt' \in Tables /\ pt'[p] = row /\ pt'[q] = child
      /\ \A o \in Procs \ {p, q} : pt'[o] = pt[o]
  BY <1>1, <1>7, <1>8 DEF Tables
<1>10. /\ regions' \in [Procs -> Seq(RegionType)] /\ regions'[q] = regions[p]
       /\ \A o \in Procs \ {q} : regions'[o] = regions[o]
  BY <1>1, <1>8 DEF VmType
<1>11. \A f \in Frames :
         /\ refcnt'[f] = refcnt[f] + Cardinality(MappedIn(pt, p, f) \cap S)
         /\ Cardinality(MappedIn(pt, p, f) \cap S) \in Nat
  BY <1>8, MappedFinite
<1>12. VmType'
  <2>1. pt' \in [Procs -> [VPages -> [f : Frames, w : BOOLEAN] \cup {NULL}]]
    BY <1>9 DEF Tables, PteType
  <2>2. refcnt' \in [Frames -> Nat]
    <3>1. \A f \in Frames : refcnt[f] \in Nat
      BY <1>1 DEF VmType
    <3>2. \A f \in Frames : refcnt'[f] \in Nat
      <4> TAKE f \in Frames
      <4>1. PICK n \in Nat : n = Cardinality(MappedIn(pt, p, f) \cap S)
        BY <1>11
      <4>2. refcnt'[f] = refcnt[f] + n
        BY <1>11, <4>1
      <4> QED
        BY <3>1, <4>2
    <3> QED
      BY <1>8, <3>2
  <2>3. \A o \in Procs : RegionsSound(regions'[o])
    BY <1>1, <1>10
  <2> QED
    BY <1>1, <1>8, <1>10, <2>1, <2>2, <2>3 DEF VmType
<1>13. CountedAlone'
  <2> SUFFICES ASSUME NEW o \in Procs, NEW v \in PrivateOf(regions'[o]),
                      pt'[o][v] # NULL, pt'[o][v].w
               PROVE  refcnt'[pt'[o][v].f] = 1
    BY DEF CountedAlone
  <2>1. v \in VPages
    BY <1>12, PrivateIn DEF VmType
  <2>2. o # p
    BY <1>2, <1>5, <1>9, <1>10, <2>1
  <2>3. o # q
    BY <1>2, <1>5, <1>6, <1>9, <1>10, <2>1
  <2>4. pt'[o][v] = pt[o][v] /\ v \in PrivateOf(regions[o])
    BY <1>9, <1>10, <2>2, <2>3
  <2>5. PICK f : f = pt[o][v].f
    OBVIOUS
  <2>6. f \in Frames /\ refcnt[f] = 1 /\ PtUses(pt, f) = {<<o, v>>}
    BY <2>4, <2>5, AloneIs
  <2>7. MappedIn(pt, p, f) \cap S = {}
    <3> SUFFICES ASSUME NEW w \in VPages, pt[p][w] # NULL, pt[p][w].f = f
                 PROVE  FALSE
      BY DEF MappedIn
    <3>1. <<p, w>> \in PtUses(pt, f)
      BY DEF PtUses
    <3> QED
      BY <2>2, <2>6, <3>1
  <2>8. refcnt'[f] = 1 + 0
    BY <1>11, <2>6, <2>7, FS_EmptySet
  <2> QED
    BY <2>4, <2>5, <2>8
<1>14. SharedSeen'
  <2> SUFFICES ASSUME NEW o \in Procs, NEW j \in DOMAIN regions'[o],
                      regions'[o][j].store # NULL,
                      NEW v \in Inside(regions'[o][j]), pt'[o][v] # NULL
               PROVE  pt'[o][v].f
                        = cached'[<<regions'[o][j].store, v - regions'[o][j].start>>]
    BY DEF SharedSeen, Inside
  <2>1. v \in VPages
    BY <1>12, RegionIn DEF VmType
  <2>2. o # q
    <3>1. ASSUME o = q PROVE FALSE
      <4>1. v \in SharedOf(regions[p])
        BY <1>10, <3>1, PrivateIs
      <4>2. v \notin S
        BY <1>1, <1>2, <4>1, PrivateShared
      <4> QED
        BY <1>6, <1>9, <2>1, <3>1, <4>2
    <3> QED
      BY <3>1
  <2>3. pt[o][v] # NULL /\ pt'[o][v].f = pt[o][v].f /\ regions'[o] = regions[o]
    BY <1>5, <1>9, <1>10, <2>1, <2>2
  <2> QED
    BY <1>8, <2>3 DEF Good, SharedSeen
<1>15. LockHeld'
  BY <1>8 DEF Good, LockHeld
<1>16. Apart'
  <2> SUFFICES ASSUME NEW o \in Procs, NEW i \in DOMAIN regions'[o],
                      NEW j \in DOMAIN regions'[o], i < j
               PROVE  regions'[o][i].end <= regions'[o][j].start
    BY DEF Apart
  <2> QED
    BY <1>1, <1>10 DEF Ordered
<1>17. SharedWritable'
  <2> SUFFICES ASSUME NEW o \in Procs, NEW v \in SharedOf(regions'[o]), pt'[o][v] # NULL
               PROVE  pt'[o][v].w
    BY DEF SharedWritable
  <2>1. v \in VPages
    BY <1>12, PrivateIn DEF VmType
  <2>2. o # q
    <3>1. ASSUME o = q PROVE FALSE
      <4>1. v \notin S
        BY <1>1, <1>2, <1>10, <3>1, PrivateShared
      <4> QED
        BY <1>6, <1>9, <2>1, <3>1, <4>1
    <3> QED
      BY <3>1
  <2>3. v \in SharedOf(regions[o]) /\ v \notin PrivateOf(regions[o])
    BY <1>1, <1>10, <2>2, PrivateShared
  <2>4. pt'[o][v] = pt[o][v]
    BY <1>2, <1>5, <1>9, <2>1, <2>2, <2>3
  <2> QED
    BY <2>3, <2>4 DEF Good, SharedWritable
<1>18. ASSUME NEW o \in Procs PROVE Handler(o)'
  <2>1. Handler(o)
    BY DEF Good
  <2>2. CASE o \in {p, q}
    BY <1>8, <2>2 DEF Handler
  <2>3. CASE o \notin {p, q}
    BY <1>8, <1>9, <1>10, <2>1, <2>3 DEF Handler
  <2> QED
    BY <2>2, <2>3
<1>19. ASSUME NEW g \in Frames PROVE refcnt'[g] = Count(pt', cached', pc', cp', g)
  <2>1. PICK u : u = pt'
    OBVIOUS
  <2>2. \A o \in Procs \ {q}, v \in VPages :
          (pt[o][v] # NULL /\ pt[o][v].f = g) <=> (u[o][v] # NULL /\ u[o][v].f = g)
    <3> TAKE o \in Procs \ {q}, v \in VPages
    <3>1. CASE o = p
      BY <1>5, <1>9, <2>1, <3>1
    <3>2. CASE o # p
      BY <1>9, <2>1, <3>2
    <3> QED
      BY <3>1, <3>2
  <2>3. \A v \in VPages : (u[q][v] # NULL /\ u[q][v].f = g)
                            <=> v \in MappedIn(pt, p, g) \cap S
    BY <1>5, <1>6, <1>9, <2>1 DEF MappedIn
  <2>4. p \in Procs /\ q \in Procs /\ p # q
    OBVIOUS
  <2>5. Cardinality(PtUses(u, g))
          = Cardinality(PtUses(pt, g)) + Cardinality(MappedIn(pt, p, g) \cap S)
    <3>1. Copied(pt, u, p, q, S, g)
      BY <1>3, <2>2, <2>3, <2>4 DEF Copied
    <3> QED
      BY ONLY <3>1, PtCopied
  <2>6. /\ Cardinality(PtUses(pt, g)) \in Nat /\ Cardinality(CacheUses(cached, g)) \in Nat
        /\ Cardinality(CowUses(pc, cp, g)) \in Nat
    BY UsesFinite
  <2>7. /\ refcnt[g] = Count(pt, cached, pc, cp, g)
        /\ refcnt'[g] = refcnt[g] + Cardinality(MappedIn(pt, p, g) \cap S)
        /\ Cardinality(MappedIn(pt, p, g) \cap S) \in Nat
        /\ cached' = cached /\ pc' = pc /\ cp' = cp
    BY <1>1, <1>8, <1>11
  <2> QED
    BY ONLY <2>1, <2>5, <2>6, <2>7 DEF Count
<1>20. Counted'
  BY <1>19, UsersIs DEF Counted
<1> QED
  BY <1>12, <1>13, <1>14, <1>15, <1>16, <1>17, <1>18, <1>20 DEF Good

-----------------------------------------------------------------------------
(* A new process *)

Layout(rs) ==
  /\ rs \in Seq(RegionType) /\ Len(rs) = 3
  /\ rs[1] = Region(0, CodePages, "URW", NULL, FALSE)
  /\ rs[2] = Region(CodePages, CodePages, "URW", NULL, TRUE)
  /\ rs[3] = Region(USTACK_LOWERBOUND, USTACK_UPPERBOUND, "URW", NULL, FALSE)

LEMMA StackIs ==
  /\ USTACK_LOWERBOUND \in Nat /\ USTACK_UPPERBOUND \in Nat
  /\ CodePages < USTACK_LOWERBOUND /\ USTACK_LOWERBOUND < USTACK_UPPERBOUND
  /\ USTACK_LOWERBOUND \in VPages /\ USTACK_UPPERBOUND \in VPages
  /\ 0 \in VPages /\ CodePages \in VPages
  /\ 0..(CodePages - 1) \subseteq VPages /\ USTACK_UPPERBOUND - 1 \in VPages
<1>1. PICK n \in Nat : n = N_PTE * N_PDE
  BY Consts
<1>2. CodePages + StackPages + 1 < n
  BY <1>1, VmAssumption
<1>3. VPages = 0..(n - 1) /\ USTACK_UPPERBOUND = n - 1
  BY <1>1 DEF VPages, USTACK_UPPERBOUND
<1>4. USTACK_LOWERBOUND = n - 1 - StackPages
  BY <1>3 DEF USTACK_LOWERBOUND
<1> QED
  BY <1>2, <1>3, <1>4, Consts

LEMMA RegionMade ==
  ASSUME NEW a \in Nat, NEW b \in Nat, NEW s \in Stores \cup {NULL}, NEW h \in BOOLEAN
  PROVE  /\ Region(a, b, "URW", s, h) \in RegionType
         /\ Region(a, b, "URW", s, h).start = a /\ Region(a, b, "URW", s, h).end = b
         /\ Region(a, b, "URW", s, h).store = s /\ Region(a, b, "URW", s, h).heap = h
BY DEF Region, RegionType

LEMMA LayoutIs ==
  LET code  == Region(0, CodePages, "URW", NULL, FALSE)
      h     == find_free_vaddr(<<code>>, 0)
      heap  == Region(h, h, "URW", NULL, TRUE)
      stack == Region(USTACK_LOWERBOUND, USTACK_UPPERBOUND, "URW", NULL, FALSE)
  IN  Layout(Linked(Linked(<<code>>, heap), stack))
<1> DEFINE code == Region(0, CodePages, "URW", NULL, FALSE)
           h == find_free_vaddr(<<code>>, 0)
           heap == Region(CodePages, CodePages, "URW", NULL, TRUE)
           stack == Region(USTACK_LOWERBOUND, USTACK_UPPERBOUND, "URW", NULL, FALSE)
<1>1. CodePages \in Nat /\ CodePages > 0
  BY Consts
<1>2. code \in RegionType /\ code.start = 0 /\ code.end = CodePages
  BY <1>1 DEF Region, RegionType
<1>3. heap \in RegionType /\ heap.start = CodePages /\ heap.end = CodePages
  BY <1>1 DEF Region, RegionType
<1>4. /\ stack \in RegionType /\ stack.start = USTACK_LOWERBOUND
      /\ stack.end = USTACK_UPPERBOUND
  BY StackIs DEF Region, RegionType
<1> HIDE DEF code, heap, stack
<1>5. PICK c : c = <<code>>
  OBVIOUS
<1>6. c \in Seq(RegionType) /\ Len(c) = 1 /\ c[1] = code /\ DOMAIN c = {1}
  BY <1>2, <1>5
<1>7. h = CodePages
  <2> DEFINE After(i) == IF i = 1 THEN 0 ELSE c[i - 1].end
             Fits == {i \in DOMAIN c : After(i) + 0 < c[i].start}
             last == After(Len(c) + 1)
  <2>1. Fits = {}
    BY <1>2, <1>6
  <2>2. last = CodePages
    BY <1>2, <1>6
  <2>3. last + 0 < USTACK_LOWERBOUND - 0
    BY <2>2, <1>1, StackIs
  <2>4. find_free_vaddr(c, 0) = IF Fits # {} THEN After(Min(Fits))
                                ELSE IF last + 0 < USTACK_LOWERBOUND - 0 THEN last ELSE None
    BY DEF find_free_vaddr
  <2> HIDE DEF After, Fits, last
  <2> QED
    BY <1>5, <2>1, <2>2, <2>3, <2>4
<1>8. PICK b : b = Linked(c, heap)
  OBVIOUS
<1>9. b \in Seq(RegionType) /\ Len(b) = 2 /\ b[1] = code /\ b[2] = heap
  <2>1. PICK k \in 1..(Len(c) + 1) :
          /\ Linked(c, heap) = InsertAt(c, k, heap)
          /\ k <= Len(c) => c[k].start >= heap.end
    BY <1>3, <1>6, LinkedIs
  <2>2. k = 2
    BY <1>1, <1>2, <1>3, <1>6, <2>1
  <2>3. /\ InsertAt(c, k, heap) \in Seq(RegionType)
        /\ Len(InsertAt(c, k, heap)) = Len(c) + 1
        /\ \A j \in 1..(Len(c) + 1) : InsertAt(c, k, heap)[j]
             = IF j < k THEN c[j] ELSE IF j = k THEN heap ELSE c[j - 1]
    <3>0. PICK r : r = heap
      OBVIOUS
    <3>1. c \in Seq(RegionType) /\ k \in 1..(Len(c) + 1) /\ r \in RegionType
      BY <1>3, <1>6, <2>1, <3>0
    <3>2. /\ InsertAt(c, k, r) \in Seq(RegionType)
          /\ Len(InsertAt(c, k, r)) = Len(c) + 1
          /\ \A j \in 1..(Len(c) + 1) :
               InsertAt(c, k, r)[j] = IF j < k THEN c[j] ELSE IF j = k THEN r ELSE c[j - 1]
      BY <3>1, InsertAtIs
    <3> QED
      BY <3>0, <3>2
  <2>4. b = InsertAt(c, k, heap)
    BY <1>8, <2>1
  <2>5. b \in Seq(RegionType) /\ Len(b) = Len(c) + 1
        /\ \A j \in 1..(Len(c) + 1) : b[j]
             = IF j < k THEN c[j] ELSE IF j = k THEN heap ELSE c[j - 1]
    BY ONLY <2>3, <2>4
  <2> QED
    BY <1>6, <2>2, <2>5
<1>10. PICK d : d = Linked(b, stack)
  OBVIOUS
<1>11. d \in Seq(RegionType) /\ Len(d) = 3 /\ d[1] = code /\ d[2] = heap /\ d[3] = stack
  <2>1. PICK k \in 1..(Len(b) + 1) :
          /\ Linked(b, stack) = InsertAt(b, k, stack)
          /\ k <= Len(b) => b[k].start >= stack.end
    BY <1>4, <1>9, LinkedIs
  <2>2. k = 3
    <3>1. CASE k = 1
      BY <1>1, <1>2, <1>4, <1>9, <2>1, <3>1, StackIs
    <3>2. CASE k = 2
      BY <1>1, <1>3, <1>4, <1>9, <2>1, <3>2, StackIs
    <3> QED
      BY <1>9, <3>1, <3>2
  <2>3. /\ InsertAt(b, k, stack) \in Seq(RegionType)
        /\ Len(InsertAt(b, k, stack)) = Len(b) + 1
        /\ \A j \in 1..(Len(b) + 1) : InsertAt(b, k, stack)[j]
             = IF j < k THEN b[j] ELSE IF j = k THEN stack ELSE b[j - 1]
    <3>0. PICK r : r = stack
      OBVIOUS
    <3>1. b \in Seq(RegionType) /\ k \in 1..(Len(b) + 1) /\ r \in RegionType
      BY <1>4, <1>9, <2>1, <3>0
    <3>2. /\ InsertAt(b, k, r) \in Seq(RegionType)
          /\ Len(InsertAt(b, k, r)) = Len(b) + 1
          /\ \A j \in 1..(Len(b) + 1) :
               InsertAt(b, k, r)[j] = IF j < k THEN b[j] ELSE IF j = k THEN r ELSE b[j - 1]
      BY <3>1, InsertAtIs
    <3> QED
      BY <3>0, <3>2
  <2>4. d = InsertAt(b, k, stack)
    BY <1>10, <2>1
  <2>5. d \in Seq(RegionType) /\ Len(d) = Len(b) + 1
        /\ \A j \in 1..(Len(b) + 1) : d[j]
             = IF j < k THEN b[j] ELSE IF j = k THEN stack ELSE b[j - 1]
    BY ONLY <2>3, <2>4
  <2> QED
    BY <1>9, <2>2, <2>5
<1>12. Layout(d)
  BY <1>11 DEF Layout, code, heap, stack
<1>13. d = Linked(Linked(<<code>>, Region(h, h, "URW", NULL, TRUE)), stack)
  BY <1>5, <1>7, <1>8, <1>10 DEF heap
<1> QED
  BY <1>12, <1>13 DEF code, stack

LEMMA LayoutSound ==
  ASSUME NEW rs, Layout(rs)
  PROVE  /\ RegionsSound(rs) /\ Ordered(rs) /\ SharedOf(rs) = {}
         /\ PrivateOf(rs) = 0..(CodePages - 1) \cup USTACK_LOWERBOUND..(USTACK_UPPERBOUND - 1)
<1>1. /\ rs \in Seq(RegionType) /\ DOMAIN rs = {1, 2, 3}
  <2>1. rs \in Seq(RegionType) /\ DOMAIN rs = 1..3
    BY DEF Layout
  <2> QED
    BY <2>1
<1>2. /\ rs[1].start = 0 /\ rs[1].end = CodePages /\ rs[1].store = NULL /\ rs[1].heap = FALSE
  BY DEF Layout, Region
<1>3. /\ rs[2].start = CodePages /\ rs[2].end = CodePages /\ rs[2].store = NULL
      /\ rs[2].heap = TRUE
  BY DEF Layout, Region
<1>4. /\ rs[3].start = USTACK_LOWERBOUND /\ rs[3].end = USTACK_UPPERBOUND
      /\ rs[3].store = NULL /\ rs[3].heap = FALSE
  BY DEF Layout, Region
<1>5. RegionsSound(rs)
  <2>1. ASSUME NEW i \in DOMAIN rs
        PROVE  /\ rs[i].start \in VPages /\ rs[i].end \in VPages /\ rs[i].start <= rs[i].end
               /\ ~rs[i].heap => rs[i].start < rs[i].end
               /\ rs[i].heap => rs[i].store = NULL
               /\ rs[i].store # NULL => rs[i].end = rs[i].start + StorePages
    <3>1. CASE i = 1
      BY <1>2, <3>1, Consts, StackIs
    <3>2. CASE i = 2
      BY <1>3, <3>2, Consts, StackIs
    <3>3. CASE i = 3
      BY <1>4, <3>3, StackIs
    <3> QED
      BY <1>1, <3>1, <3>2, <3>3
  <2>2. \A i, j \in DOMAIN rs : rs[i].heap /\ rs[j].heap => i = j
    BY <1>1, <1>2, <1>3, <1>4
  <2>3. \E i \in DOMAIN rs : rs[i].heap
    BY <1>1, <1>3
  <2> QED
    BY <1>1, <2>1, <2>2, <2>3 DEF RegionsSound
<1>6. Ordered(rs)
  <2> SUFFICES ASSUME NEW i \in DOMAIN rs, NEW j \in DOMAIN rs, i < j
               PROVE  rs[i].end <= rs[j].start
    BY DEF Ordered
  <2>1. CASE i = 1 /\ j = 2
    BY <1>2, <1>3, <2>1, Consts
  <2>2. CASE i = 1 /\ j = 3
    BY <1>2, <1>4, <2>2, Consts, StackIs
  <2>3. CASE i = 2 /\ j = 3
    BY <1>3, <1>4, <2>3, Consts, StackIs
  <2> QED
    BY <1>1, <2>1, <2>2, <2>3
<1>7. SharedOf(rs) = {}
  BY <1>1, <1>2, <1>3, <1>4, PrivateIs
<1>8. ASSUME NEW v
      PROVE  v \in PrivateOf(rs) <=>
               v \in 0..(CodePages - 1) \cup USTACK_LOWERBOUND..(USTACK_UPPERBOUND - 1)
  <2>1. v \in PrivateOf(rs) <=> v \in Inside(rs[1]) \/ v \in Inside(rs[2]) \/ v \in Inside(rs[3])
    BY <1>1, <1>2, <1>3, <1>4, PrivateIs
  <2>2. /\ Inside(rs[1]) = 0..(CodePages - 1) /\ Inside(rs[2]) = CodePages..(CodePages - 1)
        /\ Inside(rs[3]) = USTACK_LOWERBOUND..(USTACK_UPPERBOUND - 1)
    BY <1>2, <1>3, <1>4 DEF Inside
  <2>3. CodePages..(CodePages - 1) = {}
    BY Consts
  <2> QED
    BY <2>1, <2>2, <2>3
<1> QED
  BY <1>5, <1>6, <1>7, <1>8

LEMMA SpawnStep ==
  ASSUME Good, NEW p \in Procs, ~LeftBehind(p), proc_spawn(p), UNCHANGED overlaid
  PROVE  Good'
<1> DEFINE In == 0..(CodePages - 1) \cup {USTACK_UPPERBOUND - 1}
<1>1. /\ VmType /\ pt \in Tables
      /\ \A o \in Procs : RegionsSound(regions[o]) /\ Ordered(regions[o])
      /\ \A f \in Frames : refcnt[f] = Count(pt, cached, pc, cp, f)
  BY GoodIs
<1>2. regions[p] = <<>> /\ \A v \in VPages : pt[p][v] = NULL
  BY NoPages DEF proc_spawn
<1>3. PICK rs : regions' = [regions EXCEPT ![p] = rs] /\ Layout(rs)
  BY LayoutIs DEF proc_spawn
<1>4. /\ RegionsSound(rs) /\ Ordered(rs) /\ SharedOf(rs) = {} /\ rs \in Seq(RegionType)
  BY <1>3, LayoutSound DEF RegionsSound
<1>5. PICK At : At = [v \in In |-> pmem_alloc(v)]
  OBVIOUS
<1>6. PICK New : New = {At[v] : v \in In}
  OBVIOUS
<1>7. PICK row : row = [v \in VPages |-> IF v \in In THEN Pte(At[v], TRUE) ELSE NULL]
  OBVIOUS
<1>8. /\ Cardinality(New) = Cardinality(In) /\ Free # {} /\ pc[p] = "run"
      /\ pt' = [pt EXCEPT ![p] = row]
      /\ refcnt' = [f \in Frames |-> IF f \in New THEN 1 ELSE refcnt[f]]
      /\ lock' = [f \in Frames |-> IF f \in New THEN NULL ELSE lock[f]]
      /\ content' = content /\ cached' = cached /\ pc' = pc /\ fault' = fault /\ cp' = cp
      /\ panicked' = panicked /\ overlaid' = overlaid
  BY <1>5, <1>6, <1>7 DEF proc_spawn
<1>9. IsFiniteSet(In) /\ In \subseteq VPages
  <2>1. IsFiniteSet(0..(CodePages - 1))
    BY Consts, FS_Interval
  <2> QED
    BY <2>1, StackIs, FS_AddElement
<1> HIDE DEF In
<1>10. \A v \in In : At[v] \in Frames /\ refcnt[At[v]] = 0
  BY <1>1, <1>5, <1>8, AllocIs
<1>11. ASSUME NEW v \in In, NEW w \in In, At[v] = At[w] PROVE v = w
  <2>1. At \in Surjection(In, New)
    BY <1>5, <1>6 DEF Surjection
  <2>2. At \in Injection(In, New)
    BY <1>8, <1>9, <2>1, FS_Surjection
  <2> QED
    BY <1>11, <2>2 DEF Injection, IsInjective
<1>12. \A v \in VPages :
         /\ row[v] \in PteType \cup {NULL}
         /\ row[v] # NULL <=> v \in In
         /\ v \in In => row[v].f = At[v] /\ row[v].w = TRUE
  <2> TAKE v \in VPages
  <2>1. CASE v \in In
    <3>1. row[v] = Pte(At[v], TRUE)
      BY <1>7, <2>1
    <3> QED
      BY <1>10, <2>1, <3>1, PteMade
  <2>2. CASE v \notin In
    BY <1>7, <2>2
  <2> QED
    BY <2>1, <2>2
<1>13. /\ pt' \in Tables /\ pt'[p] = row /\ \A o \in Procs \ {p} : pt'[o] = pt[o]
  <2>1. row \in [VPages -> PteType \cup {NULL}]
    BY <1>7, <1>12
  <2> QED
    BY <1>1, <1>8, <2>1 DEF Tables
<1>14. /\ regions' \in [Procs -> Seq(RegionType)] /\ regions'[p] = rs
       /\ \A o \in Procs \ {p} : regions'[o] = regions[o]
  BY <1>1, <1>3, <1>4 DEF VmType
<1>15. /\ refcnt' \in [Frames -> Nat] /\ lock' \in [Frames -> Procs \cup {NULL}]
       /\ \A f \in Frames : /\ refcnt'[f] = IF f \in New THEN 1 ELSE refcnt[f]
                            /\ lock'[f] # NULL => lock'[f] = lock[f]
  BY <1>1, <1>8 DEF VmType
<1>16. VmType'
  <2>1. pt' \in [Procs -> [VPages -> [f : Frames, w : BOOLEAN] \cup {NULL}]]
    BY <1>13 DEF Tables, PteType
  <2>2. \A o \in Procs : RegionsSound(regions'[o])
    BY <1>1, <1>4, <1>14
  <2> QED
    BY <1>1, <1>8, <1>14, <1>15, <2>1, <2>2 DEF VmType
<1>17. CountedAlone'
  <2> SUFFICES ASSUME NEW o \in Procs, NEW v \in PrivateOf(regions'[o]),
                      pt'[o][v] # NULL, pt'[o][v].w
               PROVE  refcnt'[pt'[o][v].f] = 1
    BY DEF CountedAlone
  <2>1. v \in VPages
    BY <1>16, PrivateIn DEF VmType
  <2>2. CASE o = p
    <3>1. v \in In /\ pt'[o][v].f = At[v]
      BY <1>12, <1>13, <2>1, <2>2
    <3>2. At[v] \in New /\ At[v] \in Frames
      BY <1>6, <1>10, <3>1
    <3> QED
      BY <1>15, <3>1, <3>2
  <2>3. CASE o # p
    <3>1. pt'[o][v] = pt[o][v] /\ v \in PrivateOf(regions[o])
      BY <1>13, <1>14, <2>3
    <3>2. pt[o][v].f \in Frames /\ refcnt[pt[o][v].f] = 1
      BY <3>1, AloneIs
    <3> QED
      BY <1>15, <3>1, <3>2
  <2> QED
    BY <2>2, <2>3
<1>18. SharedSeen'
  <2> SUFFICES ASSUME NEW o \in Procs, NEW j \in DOMAIN regions'[o],
                      regions'[o][j].store # NULL,
                      NEW v \in Inside(regions'[o][j]), pt'[o][v] # NULL
               PROVE  pt'[o][v].f
                        = cached'[<<regions'[o][j].store, v - regions'[o][j].start>>]
    BY DEF SharedSeen, Inside
  <2>1. o # p
    BY <1>4, <1>14, PrivateIs
  <2>2. pt'[o] = pt[o] /\ regions'[o] = regions[o]
    BY <1>13, <1>14, <2>1
  <2> QED
    BY <1>8, <2>2 DEF Good, SharedSeen
<1>19. LockHeld'
  BY <1>8, <1>15 DEF Good, LockHeld
<1>20. Apart'
  <2> SUFFICES ASSUME NEW o \in Procs, NEW i \in DOMAIN regions'[o],
                      NEW j \in DOMAIN regions'[o], i < j
               PROVE  regions'[o][i].end <= regions'[o][j].start
    BY DEF Apart
  <2> QED
    BY <1>1, <1>4, <1>14 DEF Ordered
<1>21. SharedWritable'
  <2> SUFFICES ASSUME NEW o \in Procs, NEW v \in SharedOf(regions'[o]), pt'[o][v] # NULL
               PROVE  pt'[o][v].w
    BY DEF SharedWritable
  <2>1. o # p
    BY <1>4, <1>14
  <2>2. pt'[o] = pt[o] /\ regions'[o] = regions[o]
    BY <1>13, <1>14, <2>1
  <2> QED
    BY <2>2 DEF Good, SharedWritable
<1>22. ASSUME NEW o \in Procs PROVE Handler(o)'
  <2>1. Handler(o)
    BY DEF Good
  <2>2. CASE o = p
    BY <1>8, <2>2 DEF Handler
  <2>3. CASE o # p
    BY <1>8, <1>13, <1>14, <2>1, <2>3 DEF Handler
  <2> QED
    BY <2>2, <2>3
<1>23. ASSUME NEW g \in Frames PROVE refcnt'[g] = Count(pt', cached', pc', cp', g)
  <2>1. CASE g \in New
    <3>1. PICK w \in In : g = At[w]
      BY <1>6, <2>1
    <3>2. refcnt[g] = 0
      BY <1>10, <3>1
    <3>3. /\ PtUses(pt, g) = {} /\ CacheUses(cached, g) = {} /\ CowUses(pc, cp, g) = {}
          /\ \A o \in Procs, v \in VPages : ~(pt[o][v] # NULL /\ pt[o][v].f = g)
      BY <3>2, FreeUnused
    <3>4. w \in VPages /\ pt'[p][w] # NULL /\ pt'[p][w].f = g
      BY <1>9, <1>12, <1>13, <3>1
    <3>5. ASSUME NEW o \in Procs, NEW v \in VPages, ~(o = p /\ v = w)
          PROVE  ~(pt'[o][v] # NULL /\ pt'[o][v].f = g)
      <4>1. CASE o = p
        BY <1>11, <1>12, <1>13, <3>1, <3>5, <4>1
      <4>2. CASE o # p
        BY <1>13, <3>3, <4>2
      <4> QED
        BY <4>1, <4>2
    <3>6. GainsAt(pt, pt', p, w, g)
      BY <3>3, <3>4, <3>5 DEF GainsAt, OnlyAt
    <3>7. Cardinality(PtUses(pt', g)) = Cardinality(PtUses(pt, g)) + 1
      BY ONLY <3>6, PtGains
    <3>8. refcnt'[g] = 1 /\ cached' = cached /\ pc' = pc /\ cp' = cp
      BY <1>8, <1>15, <2>1
    <3> QED
      BY ONLY <3>3, <3>7, <3>8, FS_EmptySet DEF Count
  <2>2. CASE g \notin New
    <3>1. \A o \in Procs, v \in VPages :
            (pt[o][v] # NULL /\ pt[o][v].f = g) <=> (pt'[o][v] # NULL /\ pt'[o][v].f = g)
      <4> TAKE o \in Procs, v \in VPages
      <4>1. CASE o = p
        <5>1. pt[o][v] = NULL
          BY <1>2, <4>1
        <5>2. ~(pt'[o][v] # NULL /\ pt'[o][v].f = g)
          BY <1>6, <1>12, <1>13, <2>2, <4>1
        <5> QED
          BY <5>1, <5>2
      <4>2. CASE o # p
        BY <1>13, <4>2
      <4> QED
        BY <4>1, <4>2
    <3>2. PtUses(pt', g) = PtUses(pt, g)
      BY ONLY <3>1, PtUsesSame
    <3>3. refcnt'[g] = refcnt[g]
      BY <1>15, <2>2
    <3> QED
      BY <1>1, <1>8, <3>2, <3>3 DEF Count
  <2> QED
    BY <2>1, <2>2
<1>24. Counted'
  BY <1>23, UsersIs DEF Counted
<1> QED
  BY <1>16, <1>17, <1>18, <1>19, <1>20, <1>21, <1>22, <1>24 DEF Good

-----------------------------------------------------------------------------
(* Regions mapped, and the heap *)

(* A step that changes the regions of p only, and none of its shared ones  *)
(* but for new ones without pages.                                         *)
LEMMA RegionStep ==
  ASSUME Good, NEW p \in Procs, pc[p] = "run",
         NEW rs, regions' = [regions EXCEPT ![p] = rs], RegionsSound(rs),
         \A v \in PrivateOf(rs) \ SharedOf(rs) : pt[p][v] # NULL => v \in PrivateOf(regions[p]),
         \A i \in DOMAIN rs : rs[i].store # NULL =>
           \/ \E j \in DOMAIN regions[p] : rs[i] = regions[p][j]
           \/ \A v \in Inside(rs[i]) : pt[p][v] = NULL,
         UNCHANGED <<pt, refcnt, content, cached, lock, pc, fault, cp, panicked>>,
         overlaid' \in BOOLEAN, Ordered(rs) \/ overlaid'
  PROVE  Inv'
<1>1. /\ VmType /\ pt \in Tables
      /\ \A o \in Procs : RegionsSound(regions[o]) /\ Ordered(regions[o])
      /\ \A f \in Frames : refcnt[f] = Count(pt, cached, pc, cp, f)
  BY GoodIs
<1>2. /\ regions' \in [Procs -> Seq(RegionType)] /\ regions'[p] = rs
      /\ \A o \in Procs \ {p} : regions'[o] = regions[o]
  BY <1>1 DEF VmType, RegionsSound
<1>3. /\ pt' = pt /\ refcnt' = refcnt /\ content' = content /\ cached' = cached
      /\ lock' = lock /\ pc' = pc /\ fault' = fault /\ cp' = cp /\ panicked' = panicked
  OBVIOUS
<1>4. VmType'
  <2>1. \A o \in Procs : RegionsSound(regions'[o])
    BY <1>1, <1>2
  <2> QED
    BY <1>1, <1>2, <1>3, <2>1 DEF VmType
<1>5. \A f \in Frames : refcnt'[f] = Users(f)'
  <2> TAKE f \in Frames
  <2>1. refcnt[f] = Count(pt, cached, pc, cp, f)
    BY <1>1
  <2> QED
    BY <1>3, <2>1, UsersIs
<1>6. WritableAlone'
  <2> SUFFICES ASSUME NEW o \in Procs,
                      NEW v \in PrivateOf(regions'[o]) \ SharedOf(regions'[o]), NEW f,
                      pt[o][v] # NULL, pt[o][v].w, f = pt[o][v].f
               PROVE  Users(f)' = 1
    BY <1>3 DEF WritableAlone
  <2>1. v \in PrivateOf(regions[o])
    BY <1>2
  <2>2. f \in Frames /\ refcnt[f] = 1
    BY <2>1, AloneIs
  <2> QED
    BY <1>3, <1>5, <2>2
<1>7. SharedSeen'
  <2> SUFFICES ASSUME NEW o \in Procs, NEW i \in DOMAIN regions'[o],
                      regions'[o][i].store # NULL,
                      NEW v \in Inside(regions'[o][i]), pt[o][v] # NULL
               PROVE  pt[o][v].f = cached[<<regions'[o][i].store, v - regions'[o][i].start>>]
    BY <1>3 DEF SharedSeen, Inside
  <2>1. PICK j \in DOMAIN regions[o] : regions'[o][i] = regions[o][j]
    BY <1>2
  <2> QED
    BY <2>1 DEF Good, SharedSeen
<1>8. LockHeld'
  BY <1>3 DEF Good, LockHeld
<1>9. RefcntExact'
  BY <1>5 DEF RefcntExact
<1>10. RegionsApart'
  <2> SUFFICES ASSUME ~overlaid', NEW o \in Procs, NEW i \in DOMAIN regions'[o],
                      NEW j \in DOMAIN regions'[o], i < j
               PROVE  regions'[o][i].end <= regions'[o][j].start
    BY DEF RegionsApart, Apart
  <2> QED
    BY <1>1, <1>2 DEF Ordered
<1>11. ASSUME ~overlaid' PROVE SharedWritable'
  <2> SUFFICES ASSUME NEW o \in Procs, NEW v \in SharedOf(regions'[o]), pt[o][v] # NULL
               PROVE  pt[o][v].w
    BY <1>3 DEF SharedWritable
  <2>1. v \in SharedOf(regions[o])
    <3>1. PICK i \in DOMAIN regions'[o] :
            regions'[o][i].store # NULL /\ v \in Inside(regions'[o][i])
      BY PrivateIs
    <3>2. PICK j \in DOMAIN regions[o] : regions'[o][i] = regions[o][j]
      BY <1>2, <3>1
    <3> QED
      BY <3>1, <3>2, PrivateIs
  <2> QED
    BY <2>1 DEF Good, SharedWritable
<1>12. ASSUME NEW o \in Procs PROVE Handler(o)'
  <2>1. Handler(o)
    BY DEF Good
  <2>2. CASE o = p
    BY <1>3, <2>2 DEF Handler
  <2>3. CASE o # p
    BY <1>2, <1>3, <2>1, <2>3 DEF Handler
  <2> QED
    BY <2>2, <2>3
<1> QED
  BY <1>4, <1>6, <1>7, <1>8, <1>9, <1>10, <1>11, <1>12 DEF Inv

LEMMA MapStep ==
  ASSUME Good, NEW p \in Procs, ~LeftBehind(p), NEW s \in Stores, as_map_memregion(p, s),
         UNCHANGED overlaid
  PROVE  Inv'
<1>1. VmType /\ RegionsSound(regions[p]) /\ Ordered(regions[p])
  BY GoodIs
<1>2. PICK a : a = find_free_vaddr(regions[p], StorePages)
  OBVIOUS
<1>3. PICK r : r = Region(a, a + StorePages, "URW", s, FALSE)
  OBVIOUS
<1>4. /\ regions[p] # <<>> /\ pc[p] = "run" /\ a # None
      /\ ~memregion_allocated(regions[p], a, a + StorePages)
      /\ a + StorePages <= LowEnd
      /\ regions' = [regions EXCEPT ![p] = Linked(regions[p], r)]
      /\ UNCHANGED <<pt, refcnt, content, cached, lock, pc, fault, cp, panicked>>
  BY <1>2, <1>3 DEF as_map_memregion, Alive
<1>5. a \in Nat
  BY <1>1, <1>2, <1>4, FreeAddr
<1>6. /\ r \in RegionType /\ r.start = a /\ r.end = a + StorePages /\ r.store = s
      /\ r.heap = FALSE
  BY <1>3, <1>5, Consts DEF Region, RegionType
<1>7. NewRegion(r)
  <2>1. PICK n \in Nat : n = N_PTE * N_PDE
    BY Consts
  <2>2. LowEnd < n
    BY <2>1, VmAssumption
  <2>3. a \in VPages /\ a + StorePages \in VPages /\ a < a + StorePages
    BY <1>4, <1>5, <2>1, <2>2, Consts DEF VPages
  <2> QED
    BY <1>6, <2>3 DEF NewRegion
<1>8. PICK rs : rs = Linked(regions[p], r)
  OBVIOUS
<1>9. /\ RegionsSound(rs) /\ Ordered(rs)
      /\ \A i \in DOMAIN rs : rs[i] = r \/ \E j \in DOMAIN regions[p] : rs[i] = regions[p][j]
  BY <1>1, <1>4, <1>6, <1>7, <1>8, LinkedSound
<1>10. s # NULL
  BY VmAssumption
<1>11. \A v \in PrivateOf(rs) : v \in PrivateOf(regions[p])
  <2> TAKE v \in PrivateOf(rs)
  <2>1. PICK i \in DOMAIN rs : rs[i].store = NULL /\ v \in Inside(rs[i])
    BY PrivateIs
  <2>2. PICK j \in DOMAIN regions[p] : rs[i] = regions[p][j]
    BY <1>6, <1>9, <1>10, <2>1
  <2> QED
    BY <2>1, <2>2, PrivateIs
<1>12. ASSUME NEW v \in Inside(r) PROVE pt[p][v] = NULL
  <2>1. v \in Nat /\ a <= v /\ v < a + StorePages
    BY <1>5, <1>6, Consts DEF Inside
  <2>2. v \in VPages
    <3>1. PICK n \in Nat : n = N_PTE * N_PDE
      BY Consts
    <3>2. a + StorePages \in 0..(n - 1)
      BY <1>6, <1>7, <3>1 DEF NewRegion, VPages
    <3> QED
      BY <1>5, <2>1, <3>1, <3>2, Consts DEF VPages
  <2>3. ASSUME NEW j \in DOMAIN regions[p], v \in Inside(regions[p][j]) PROVE FALSE
    <3>1. /\ regions[p][j].start \in Nat /\ regions[p][j].end \in Nat
          /\ regions[p][j].start <= v /\ v < regions[p][j].end
      BY <1>1, <2>3, RegionIn
    <3>2. ~(a < regions[p][j].end /\ a + StorePages > regions[p][j].start)
      BY <1>4 DEF memregion_allocated
    <3> QED
      BY <1>5, <2>1, <3>1, <3>2, Consts
  <2> QED
    BY <2>2, <2>3 DEF LeftBehind
<1>13. \A i \in DOMAIN rs : rs[i].store # NULL =>
         \/ \E j \in DOMAIN regions[p] : rs[i] = regions[p][j]
         \/ \A v \in Inside(rs[i]) : pt[p][v] = NULL
  BY <1>9, <1>12
<1>14. overlaid' \in BOOLEAN /\ regions' = [regions EXCEPT ![p] = rs]
  BY <1>1, <1>4, <1>8 DEF VmType
<1> QED
  BY <1>4, <1>9, <1>11, <1>13, <1>14, RegionStep

LEMMA ExtendStep ==
  ASSUME Good, NEW p \in Procs, ~LeftBehind(p), NEW size \in SbrkSizes,
         memregion_extend(p, size)
  PROVE  Inv'
<1>1. VmType /\ RegionsSound(regions[p]) /\ Ordered(regions[p])
  BY GoodIs
<1>2. PICK h : h = HeapOf(p)
  OBVIOUS
<1>3. regions[p] # <<>> /\ pc[p] = "run"
  BY DEF memregion_extend, Alive
<1>4. h \in DOMAIN regions[p] /\ regions[p][h].heap
  <2>1. \E i \in DOMAIN regions[p] : regions[p][i].heap
    BY <1>1, <1>3 DEF RegionsSound
  <2> QED
    BY <1>2, <2>1 DEF HeapOf
<1>5. PICK r : r = regions[p][h]
  OBVIOUS
<1>6. /\ r \in RegionType /\ r.start \in Nat /\ r.end \in Nat /\ r.start <= r.end
      /\ r.start \in VPages /\ r.end \in VPages /\ r.heap = TRUE /\ r.store = NULL
  BY <1>1, <1>4, <1>5, RegionIn DEF RegionsSound
<1>7. size \in Int
  BY VmAssumption
<1>8. PICK e : e = IF r.end - r.start >= -size THEN r.end + size ELSE r.end
  OBVIOUS
<1>9. PICK rs : rs = [regions[p] EXCEPT ![h].end = e]
  OBVIOUS
<1>10. /\ size > 0 => r.end < LowEnd
       /\ size > 0 => as_find_memregion(p, r.end, size) \in {None, h}
       /\ overlaid' = (size > 0 /\ Straddles(regions[p], r.end, r.end + size))
       /\ UNCHANGED <<pt, refcnt, content, cached, lock, pc, fault, cp, panicked>>
  BY <1>2, <1>5 DEF memregion_extend
<1>11. regions' = [regions EXCEPT ![p] = rs]
  <2>1. regions' = [regions EXCEPT ![p][h].end =
                      IF r.end - r.start >= -size THEN @ + size ELSE @]
    BY <1>2, <1>5 DEF memregion_extend
  <2> QED
    BY <1>1, <1>4, <1>5, <1>8, <1>9, <2>1 DEF VmType
<1>12. e \in VPages /\ r.start <= e /\ e \in Nat /\ (size <= 0 => e <= r.end)
       /\ (size > 0 => e = r.end + size)
  <2>1. PICK n \in Nat : n = N_PTE * N_PDE
    BY Consts
  <2>2. LowEnd + size <= n
    BY <2>1, VmAssumption
  <2>3. r.end \in 0..(n - 1)
    BY <1>6, <2>1 DEF VPages
  <2>4. e \in 0..(n - 1) /\ r.start <= e /\ (size <= 0 => e <= r.end)
        /\ (size > 0 => e = r.end + size)
    BY <1>6, <1>7, <1>8, <1>10, <2>2, <2>3, Consts
  <2> QED
    BY <2>1, <2>4 DEF VPages
<1>13. PICK r2 : r2 = [r EXCEPT !.end = e]
  OBVIOUS
<1>14. /\ r2 \in RegionType /\ r2.start = r.start /\ r2.end = e /\ r2.heap = TRUE
       /\ r2.store = NULL
  BY <1>6, <1>12, <1>13 DEF RegionType
<1>15. /\ rs \in Seq(RegionType) /\ DOMAIN rs = DOMAIN regions[p]
       /\ rs[h] = r2 /\ \A i \in DOMAIN rs \ {h} : rs[i] = regions[p][i]
  <2>1. rs = [regions[p] EXCEPT ![h] = r2]
    BY <1>4, <1>5, <1>9, <1>13
  <2>2. regions[p] \in Seq(RegionType)
    BY <1>1 DEF RegionsSound
  <2> QED
    BY <1>4, <1>14, <2>1, <2>2
<1>16. RegionsSound(rs)
  <2>1. ASSUME NEW i \in DOMAIN rs
        PROVE  /\ rs[i].start \in VPages /\ rs[i].end \in VPages /\ rs[i].start <= rs[i].end
               /\ ~rs[i].heap => rs[i].start < rs[i].end
               /\ rs[i].heap => rs[i].store = NULL
               /\ rs[i].store # NULL => rs[i].end = rs[i].start + StorePages
    <3>1. CASE i = h
      BY <1>6, <1>12, <1>14, <1>15, <3>1
    <3>2. CASE i # h
      BY <1>1, <1>15, <3>2 DEF RegionsSound
    <3> QED
      BY <3>1, <3>2
  <2>2. \A i \in DOMAIN rs : rs[i].heap = regions[p][i].heap
    BY <1>5, <1>6, <1>14, <1>15
  <2>3. \A i, j \in DOMAIN rs : rs[i].heap /\ rs[j].heap => i = j
    BY <1>1, <1>15, <2>2 DEF RegionsSound
  <2>4. \E i \in DOMAIN rs : rs[i].heap
    BY <1>4, <1>15, <2>2
  <2> QED
    BY <1>15, <2>1, <2>3, <2>4 DEF RegionsSound
<1>17. ASSUME NEW v \in PrivateOf(rs) \ SharedOf(rs), pt[p][v] # NULL
       PROVE  v \in PrivateOf(regions[p])
  <2>1. v \in VPages
    BY <1>16, PrivateIn
  <2>2. PICK j \in DOMAIN regions[p] : v \in Inside(regions[p][j])
    BY <1>17, <2>1 DEF LeftBehind
  <2>3. regions[p][j].store = NULL
    <3>1. ASSUME regions[p][j].store # NULL PROVE FALSE
      <4>1. j # h
        BY <1>5, <1>6, <3>1
      <4>2. j \in DOMAIN rs /\ rs[j] = regions[p][j]
        BY <1>15, <4>1
      <4> QED
        BY <1>17, <2>2, <3>1, <4>2, PrivateIs
    <3> QED
      BY <3>1
  <2> QED
    BY <2>2, <2>3, PrivateIs
<1>18. \A i \in DOMAIN rs : rs[i].store # NULL =>
         \E j \in DOMAIN regions[p] : rs[i] = regions[p][j]
  BY <1>14, <1>15
<1>19. ASSUME ~overlaid' PROVE Ordered(rs)
  <2> SUFFICES ASSUME NEW i \in DOMAIN rs, NEW j \in DOMAIN rs, i < j
               PROVE  rs[i].end <= rs[j].start
    BY DEF Ordered
  <2>1. i \in DOMAIN regions[p] /\ j \in DOMAIN regions[p] /\ i # j
    <3>1. regions[p] \in Seq(RegionType)
      BY <1>1 DEF RegionsSound
    <3> QED
      BY <1>15, <3>1
  <2>2. regions[p][i].end <= regions[p][j].start
    BY <1>1, <2>1 DEF Ordered
  <2>3. rs[j].start = regions[p][j].start
    BY <1>5, <1>14, <1>15
  <2>4. CASE i # h
    BY <1>15, <2>2, <2>3, <2>4
  <2>5. CASE i = h
    <3>1. /\ regions[p][j].start \in Nat /\ regions[p][j].end \in Nat
          /\ regions[p][j].start < regions[p][j].end
      <4>1. ~regions[p][j].heap
        BY <1>1, <1>4, <2>1, <2>5 DEF RegionsSound
      <4> QED
        BY <1>1, <2>1, <4>1, RegionIn DEF RegionsSound
    <3>2. r.end <= regions[p][j].start /\ rs[i].end = e
      BY <1>5, <1>14, <1>15, <2>2, <2>5
    <3>3. CASE size <= 0
      BY <1>6, <1>12, <2>3, <3>1, <3>2, <3>3
    <3>4. CASE size > 0
      <4>1. ~Straddles(regions[p], r.end, r.end + size)
        BY <1>10, <1>19, <3>4
      <4>2. \/ ~memregion_allocated(<<regions[p][j]>>, r.end, r.end + size)
            \/ /\ r.end >= regions[p][j].start
               /\ r.end + size <= regions[p][j].end
        BY <2>1, <4>1 DEF Straddles
      <4>3. CASE ~memregion_allocated(<<regions[p][j]>>, r.end, r.end + size)
        <5>1. ~(r.end < regions[p][j].end /\ r.end + size > regions[p][j].start)
          <6>1. 1 \in DOMAIN <<regions[p][j]>> /\ <<regions[p][j]>>[1] = regions[p][j]
            OBVIOUS
          <6> QED
            BY <4>3, <6>1 DEF memregion_allocated
        <5> QED
          BY <1>6, <1>7, <1>12, <2>3, <3>1, <3>2, <3>4, <5>1
      <4>4. CASE r.end >= regions[p][j].start /\ r.end + size <= regions[p][j].end
        <5> DEFINE R == {k \in DOMAIN regions[p] :
                           r.end >= regions[p][k].start /\ r.end + size <= regions[p][k].end}
        <5>1. j \in R
          BY <2>1, <4>4
        <5>2. R \subseteq Nat
          BY <1>1 DEF RegionsSound
        <5>3. Min(R) \in R
          BY <5>1, <5>2, MinIn
        <5>4. as_find_memregion(p, r.end, size) = Min(R)
          BY <5>1 DEF as_find_memregion
        <5>5. h \notin R
          BY <1>5, <1>6, <1>7, <3>4
        <5>6. Min(R) # None
          <6>1. ASSUME NEW k \in Nat PROVE k # None
            BY DEF None
          <6>2. Min(R) \in Nat
            BY <5>2, <5>3
          <6> QED
            BY <6>1, <6>2
        <5> QED
          BY <1>10, <3>4, <5>3, <5>4, <5>5, <5>6
      <4> QED
        BY <4>2, <4>3, <4>4
    <3> QED
      BY <1>7, <3>3, <3>4
  <2> QED
    BY <2>4, <2>5
<1>20. overlaid' \in BOOLEAN
  BY <1>10
<1> QED
  BY <1>3, <1>10, <1>11, <1>16, <1>17, <1>18, <1>19, <1>20, RegionStep

-----------------------------------------------------------------------------
(* The invariant holds *)

LEMMA InitInv == Init => Inv
<1> SUFFICES ASSUME Init PROVE Inv
  OBVIOUS
<1>1. /\ \A p \in Procs : regions[p] = <<>>
      /\ \A p \in Procs : pc[p] = "run"
      /\ \A p \in Procs, v \in VPages : pt[p][v] = NULL
      /\ \A f \in Frames : refcnt[f] = 0 /\ lock[f] = NULL
      /\ \A o \in SharedPages : cached[o] = NULL
      /\ panicked = FALSE /\ overlaid = FALSE
  BY DEF Init
<1>2. RegionsSound(<<>>) /\ DOMAIN <<>> = {} /\ <<>> \in Seq(RegionType)
  BY DEF RegionsSound
<1>3. PrivateOf(<<>>) = {} /\ SharedOf(<<>>) = {}
  BY <1>2 DEF PrivateOf, SharedOf
<1>4. VmType
  <2>1. regions \in [Procs -> Seq(RegionType)] /\ \A p \in Procs : RegionsSound(regions[p])
    BY <1>2 DEF Init
  <2>2. NoFault \in [v : VPages, user : BOOLEAN]
    <3>1. PICK n \in Nat : n = N_PTE * N_PDE
      BY Consts
    <3>2. LowEnd < n /\ LowEnd \in Nat
      BY <3>1, VmAssumption
    <3>3. 0 \in VPages
      BY <3>1, <3>2 DEF VPages
    <3> QED
      BY <3>3 DEF NoFault
  <2>3. 0 \in Vals
    BY VmAssumption
  <2> QED
    BY <2>1, <2>2, <2>3 DEF Init, VmType
<1>5. ASSUME NEW f \in Frames PROVE refcnt[f] = Users(f)
  <2>1. NULL # f
    BY VmAssumption
  <2>2. {m \in Procs \X VPages : pt[m[1]][m[2]] # NULL /\ pt[m[1]][m[2]].f = f} = {}
    BY <1>1
  <2>3. {o \in SharedPages : cached[o] = f} = {}
    BY <1>1, <2>1
  <2>4. {p \in Procs : pc[p] = "mapped" /\ cp[p] = f} = {}
    BY <1>1
  <2>5. Cardinality({}) = 0 /\ refcnt[f] = 0
    BY <1>1, FS_EmptySet
  <2>6. Users(f) = 0 + 0 + 0
    BY <2>2, <2>3, <2>4, <2>5, Zenon DEF Users
  <2> QED
    BY <2>5, <2>6
<1>6. WritableAlone /\ SharedSeen /\ LockHeld /\ SharedWritable /\ Apart
  BY <1>1, <1>2, <1>3 DEF WritableAlone, SharedSeen, LockHeld, SharedWritable, Apart
<1>7. \A p \in Procs : Handler(p)
  BY <1>1 DEF Handler
<1> QED
  BY <1>4, <1>5, <1>6, <1>7 DEF Inv, RefcntExact, RegionsApart

LEMMA StepInv ==
  ASSUME Good, ~panicked, NEW p \in Procs, Step(p)
  PROVE  Inv'
<1>1. CASE AfterCOW(p)
  BY <1>1, AfterCOWStep
<1>2. CASE handleCOW(p) /\ UNCHANGED overlaid
  BY <1>2, HandleCOWStep, GoodNext
<1>3. CASE CowDrop(p) /\ UNCHANGED overlaid
  BY <1>3, CowDropStep, GoodNext
<1>4. CASE CowUnlock(p) /\ UNCHANGED overlaid
  BY <1>4, CowUnlockStep, GoodNext
<1> QED
  BY <1>1, <1>2, <1>3, <1>4 DEF Step

LEMMA CallInv ==
  ASSUME Good, \A q \in Procs : ~LeftBehind(q), NEW p \in Procs, Call(p), UNCHANGED overlaid
  PROVE  Inv'
<1>1. CASE proc_spawn(p)
  BY <1>1, SpawnStep, GoodNext
<1>2. CASE proc_exit(p)
  <2>1. pc[p] \in {"run", "setup"} /\ as_destroy(p)
    BY <1>2 DEF proc_exit
  <2>2. overlaid' \in BOOLEAN
    BY GoodIs DEF VmType
  <2> QED
    BY <2>1, <2>2, DestroyStep, GoodNext
<1>3. CASE proc_forkFails(p)
  BY <1>3, ForkFailsStep, GoodNext
<1>4. CASE \E q \in Procs \ {p} : proc_fork(p, q)
  <2>1. PICK q \in Procs \ {p} : proc_fork(p, q)
    BY <1>4
  <2>2. ~LeftBehind(q)
    OBVIOUS
  <2> QED
    BY <2>1, <2>2, ForkStep, GoodNext
<1>5. CASE \E s \in Stores : as_map_memregion(p, s)
  <2>1. PICK s \in Stores : as_map_memregion(p, s)
    BY <1>5
  <2>2. ~LeftBehind(p)
    OBVIOUS
  <2> QED
    BY <2>1, <2>2, MapStep
<1>6. CASE \E i \in DOMAIN regions[p] : memregion_unmap(p, i)
  <2>1. PICK i \in DOMAIN regions[p] : memregion_unmap(p, i)
    BY <1>6
  <2> QED
    BY <2>1, UnmapStep, GoodNext
<1> QED
  BY <1>1, <1>2, <1>3, <1>4, <1>5, <1>6 DEF Call

LEMMA AccessInv ==
  ASSUME Good, NEW p \in Procs, Access(p), UNCHANGED overlaid
  PROVE  Inv'
<1>1. PICK v \in Touched : \/ \E x \in Vals : Write(p, v, x)
                           \/ \E write, user \in BOOLEAN : Fault(p, v, write, user)
  BY DEF Access
<1>2. v \in VPages
  BY VmAssumption DEF VPages
<1>3. CASE \E x \in Vals : Write(p, v, x)
  <2>1. PICK x \in Vals : Write(p, v, x)
    BY <1>3
  <2> QED
    BY <1>2, <2>1, WriteStep, GoodNext
<1>4. CASE \E write, user \in BOOLEAN : Fault(p, v, write, user)
  <2>1. PICK write \in BOOLEAN, user \in BOOLEAN : Fault(p, v, write, user)
    BY <1>4
  <2> QED
    BY <1>2, <2>1, FaultStep, GoodNext
<1> QED
  BY <1>1, <1>3, <1>4

LEMMA NextInv == Inv /\ [Next]_vars => Inv'
<1> SUFFICES ASSUME Inv, [Next]_vars PROVE Inv'
  OBVIOUS
<1>1. CASE Next
  <2>1. ~panicked /\ ~overlaid /\ \A q \in Procs : ~LeftBehind(q)
    BY <1>1 DEF Next
  <2>2. Good
    BY <2>1, InvGood
  <2>3. PICK p \in Procs : \/ Step(p)
                           \/ (Call(p) \/ Access(p)) /\ UNCHANGED overlaid
                           \/ \E size \in SbrkSizes : memregion_extend(p, size)
    BY <1>1 DEF Next
  <2>4. CASE Step(p)
    BY <2>1, <2>2, <2>4, StepInv
  <2>5. CASE Call(p) /\ UNCHANGED overlaid
    BY <2>1, <2>2, <2>5, CallInv
  <2>6. CASE Access(p) /\ UNCHANGED overlaid
    BY <2>2, <2>6, AccessInv
  <2>7. CASE \E size \in SbrkSizes : memregion_extend(p, size)
    <3>1. PICK size \in SbrkSizes : memregion_extend(p, size)
      BY <2>7
    <3>2. ~LeftBehind(p)
      BY <2>1
    <3> QED
      BY <2>2, <3>1, <3>2, ExtendStep
  <2> QED
    BY <2>3, <2>4, <2>5, <2>6, <2>7
<1>2. CASE UNCHANGED vars
  <2>1. UNCHANGED <<regions, pt, refcnt, content, cached, lock, pc, fault, cp, panicked,
                    overlaid>>
    BY <1>2 DEF vars
  <2>2. VmType'
    BY <2>1 DEF Inv, VmType
  <2>3. \A f : Users(f)' = Users(f)
    BY <2>1 DEF Users
  <2>4. WritableAlone'
    <3> SUFFICES ASSUME NEW p \in Procs,
                        NEW v \in (PrivateOf(regions[p]) \ SharedOf(regions[p])),
                        pt[p][v] # NULL, pt[p][v].w
                 PROVE  Users(pt[p][v].f)' = 1
      BY <2>1 DEF WritableAlone
    <3>1. Users(pt[p][v].f) = 1
      BY DEF Inv, WritableAlone
    <3>2. Users(pt[p][v].f)' = Users(pt[p][v].f)
      BY <2>1 DEF Users
    <3> QED
      BY <3>1, <3>2
  <2>5. SharedSeen' /\ LockHeld' /\ SharedWritable' = SharedWritable
    BY <2>1 DEF Inv, SharedSeen, LockHeld, SharedWritable
  <2>6. RefcntExact' /\ RegionsApart'
    BY <2>1, <2>3 DEF Inv, RefcntExact, RegionsApart, Apart
  <2>7. ASSUME NEW p \in Procs PROVE Handler(p)' = Handler(p)
    BY <2>1 DEF Handler
  <2> QED
    BY <2>1, <2>2, <2>4, <2>5, <2>6, <2>7 DEF Inv
<1> QED
  BY <1>1, <1>2

(* Invariance: in every reachable state the regions of a process are well  *)
(* formed, frames are counted as often as they are used, a process that is *)
(* in handleCOW has a private page there and holds the lock of the frame   *)
(* it looked up, and a shared page is never read-only.                     *)
THEOREM Invariance == Spec => []Inv
<1> QED
  BY InitInv, NextInv, PTL DEF Spec

(* References: for any number of processes, frames and shared regions, the *)
(* count that pmem_inc_refcnt and pmem_dec_refcnt keep of a frame is the   *)
(* number of page table entries, page cache entries and copy-on-write      *)
(* handlers that use it, so no frame is freed under a user and none is     *)
(* lost, until setup_page maps a zeroed page over a present one.           *)
THEOREM References == Spec => []RefcntExact
<1>1. Inv => RefcntExact
  BY DEF Inv
<1> QED
  BY <1>1, Invariance, PTL

(* CopyOnWrite: a private page that is mapped writable is the only use of  *)
(* its frame although handleCOW tests the count outside pmem_lock; a       *)
(* mapped shared page is the frame in the page cache; the lock of a page   *)
(* is held only by a handler that goes on to release it.                   *)
THEOREM CopyOnWrite == Spec => []CowSound
<1>1. Inv => CowSound
  BY TypeIs DEF Inv, CowSound
<1> QED
  BY <1>1, Invariance, PTL

(* Regions: find_free_vaddr, list_append_ordered, memregion_unmap and sbrk *)
(* keep the regions of an address space sorted and disjoint, unless sbrk   *)
(* extends the heap over part of another region.                           *)
THEOREM Regions == Spec => []RegionsApart
<1>1. Inv => RegionsApart
  BY DEF Inv
<1> QED
  BY <1>1, Invariance, PTL

-----------------------------------------------------------------------------
(* The memory of processes *)

(* What the refinement needs besides Good: a free frame holds zeros; a     *)
(* frame of the page cache is one page of one shared region and no private *)
(* page; code and heap are in front, the stack is behind, and the shared   *)
(* regions are between them.                                               *)
Zeroed == \A f \in Frames : refcnt[f] = 0 => content[f] = 0

CachedOnce ==
  \A o1, o2 \in SharedPages : cached[o1] # NULL /\ cached[o1] = cached[o2] => o1 = o2

NotCached ==
  \A p \in Procs : \A v \in PrivateOf(regions[p]) : \A o \in SharedPages :
    pt[p][v] # NULL => cached[o] # pt[p][v].f

Shape(rs) ==
  rs # <<>> =>
    /\ Len(rs) >= 3
    /\ rs[1] = Region(0, CodePages, "URW", NULL, FALSE)
    /\ rs[2].heap /\ rs[2].start = CodePages
    /\ rs[Len(rs)] = Region(USTACK_LOWERBOUND, USTACK_UPPERBOUND, "URW", NULL, FALSE)
    /\ \A i \in 3..(Len(rs) - 1) : rs[i].store # NULL /\ rs[i].end <= LowEnd

Extra ==
  Zeroed /\ CachedOnce /\ NotCached /\ \A p \in Procs : Shape(regions[p])

(* Unmapping a shared region does not reach the stack: Cleared goes beyond *)
(* the end of a region.                                                    *)
StackSpared ==
  \A a \in Nat : a + StorePages <= LowEnd =>
    \A v \in Cleared(a, a + StorePages) : v < USTACK_LOWERBOUND

Dom == [p \in Procs |-> PrivateOf(regions[p])]

(* The contents of a page, of q or of a shared region, stay. *)
RowKept(q) ==
  /\ PrivateOf(regions'[q]) = PrivateOf(regions[q])
  /\ RegionsSound(regions'[q]) /\ Ordered(regions'[q])
  /\ \A v \in PrivateOf(regions[q]) :
       \/ pt[q][v] = NULL /\ pt'[q][v] = NULL
       \/ pt[q][v] = NULL /\ pt'[q][v] # NULL /\ content'[pt'[q][v].f] = 0
       \/ /\ pt[q][v] # NULL /\ pt'[q][v] # NULL
          /\ content'[pt'[q][v].f] = content[pt[q][v].f]

PageKept(o) ==
  \/ cached[o] = NULL /\ cached'[o] = NULL
  \/ cached[o] = NULL /\ cached'[o] # NULL /\ content'[cached'[o]] = 0
  \/ cached[o] # NULL /\ cached'[o] = cached[o] /\ content'[cached[o]] = content[cached[o]]

LEMMA MemIs ==
  ASSUME NEW q \in Procs, RegionsSound(regions[q]), Ordered(regions[q])
  PROVE  MemView[q] = [v \in VPages |->
           IF pt[q][v] # NULL /\ v \in PrivateOf(regions[q]) THEN content[pt[q][v].f] ELSE 0]
<1>1. ASSUME NEW v \in VPages
      PROVE  v \in PrivateOf(regions[q]) \ SharedOf(regions[q]) <=> v \in PrivateOf(regions[q])
  BY PrivateShared
<1> QED
  BY <1>1 DEF MemView

LEMMA RowIs ==
  ASSUME Good, NEW q \in Procs, RowKept(q)
  PROVE  MemView'[q] = MemView[q] /\ Dom'[q] = Dom[q]
<1>1. RegionsSound(regions[q]) /\ Ordered(regions[q])
  BY GoodIs
<1>2. RegionsSound(regions'[q]) /\ Ordered(regions'[q])
  BY DEF RowKept
<1>3. MemView[q] = [v \in VPages |->
        IF pt[q][v] # NULL /\ v \in PrivateOf(regions[q]) THEN content[pt[q][v].f] ELSE 0]
  BY <1>1, MemIs
<1>4. MemView'[q] = [v \in VPages |->
        IF pt'[q][v] # NULL /\ v \in PrivateOf(regions'[q]) THEN content'[pt'[q][v].f] ELSE 0]
  <2>1. ASSUME NEW v \in VPages
        PROVE  v \in PrivateOf(regions'[q]) \ SharedOf(regions'[q])
                 <=> v \in PrivateOf(regions'[q])
    BY <1>2, PrivateShared
  <2> QED
    BY <2>1 DEF MemView
<1>5. PrivateOf(regions'[q]) = PrivateOf(regions[q])
  BY DEF RowKept
<1>6. ASSUME NEW v \in VPages
      PROVE  (IF pt'[q][v] # NULL /\ v \in PrivateOf(regions'[q])
              THEN content'[pt'[q][v].f] ELSE 0)
             = (IF pt[q][v] # NULL /\ v \in PrivateOf(regions[q])
                THEN content[pt[q][v].f] ELSE 0)
  BY <1>5 DEF RowKept
<1> QED
  BY <1>3, <1>4, <1>5, <1>6 DEF Dom

LEMMA StoreIs ==
  ASSUME \A o \in SharedPages : PageKept(o)
  PROVE  StoreView' = StoreView
<1>1. ASSUME NEW o \in SharedPages
      PROVE  (IF cached'[o] = NULL THEN 0 ELSE content'[cached'[o]])
             = (IF cached[o] = NULL THEN 0 ELSE content[cached[o]])
  BY DEF PageKept
<1> QED
  BY <1>1 DEF StoreView

(* Abstract steps *)
AbsNext == [Memory!Next]_<<Dom, MemView, StoreView>>

LEMMA CalmStep ==
  ASSUME Good, \A q \in Procs : RowKept(q), \A o \in SharedPages : PageKept(o)
  PROVE  AbsNext
<1>1. StoreView' = StoreView
  BY StoreIs
<1>2. \A q \in Procs : MemView'[q] = MemView[q] /\ Dom'[q] = Dom[q]
  BY RowIs
<1>3. MemView' = MemView
  BY <1>2 DEF MemView
<1>4. Dom' = Dom
  BY <1>2 DEF Dom
<1> QED
  BY <1>1, <1>3, <1>4 DEF AbsNext

OthersKept(p) ==
  \A q \in Procs \ {p} : MemView'[q] = MemView[q] /\ Dom'[q] = Dom[q]

LEMMA OthersIs ==
  ASSUME Good, NEW p, \A q \in Procs \ {p} : RowKept(q)
  PROVE  OthersKept(p)
BY RowIs DEF OthersKept

LEMMA ZerosIs ==
  ASSUME NEW p \in Procs, regions[p] = <<>>
  PROVE  Dom[p] = {} /\ MemView[p] = Memory!Zeros
BY NoRegions DEF Dom, MemView, Memory!Zeros

LEMMA ZerosNext ==
  ASSUME NEW p \in Procs, regions'[p] = <<>>
  PROVE  Dom'[p] = {} /\ MemView'[p] = Memory!Zeros
BY NoRegions DEF Dom, MemView, Memory!Zeros

LEMMA ExitStep ==
  ASSUME NEW p \in Procs, OthersKept(p), StoreView' = StoreView, regions'[p] = <<>>
  PROVE  AbsNext
<1>1. Dom'[p] = {} /\ MemView'[p] = Memory!Zeros
  BY ZerosNext
<1>2. Dom' = [Dom EXCEPT ![p] = {}]
  BY <1>1 DEF Dom, OthersKept
<1>3. MemView' = [MemView EXCEPT ![p] = Memory!Zeros]
  BY <1>1 DEF MemView, OthersKept
<1>4. Memory!Exit(p)
  BY <1>2, <1>3 DEF Memory!Exit, Dom
<1> QED
  BY <1>4 DEF AbsNext, Memory!Next

LEMMA CreateStep ==
  ASSUME NEW p \in Procs, OthersKept(p), StoreView' = StoreView, regions[p] = <<>>,
         Dom'[p] # {}, Dom'[p] \subseteq VPages, MemView'[p] = Memory!Zeros
  PROVE  AbsNext
<1>1. Dom[p] = {} /\ MemView[p] = Memory!Zeros
  BY ZerosIs
<1>2. Dom' = [Dom EXCEPT ![p] = Dom'[p]]
  BY DEF Dom, OthersKept
<1>3. MemView' = MemView
  BY <1>1 DEF MemView, OthersKept
<1>4. Dom'[p] \in (SUBSET VPages) \ {{}}
  OBVIOUS
<1>5. Memory!Create(p)
  BY <1>1, <1>2, <1>3, <1>4 DEF Memory!Create, Dom
<1> QED
  BY <1>5 DEF AbsNext, Memory!Next

LEMMA ResizeStep ==
  ASSUME NEW p \in Procs, OthersKept(p), StoreView' = StoreView,
         Dom[p] # {}, Dom'[p] # {}, Dom'[p] \subseteq VPages,
         \A v \in VPages : MemView'[p][v] = IF v \in Dom'[p] THEN MemView[p][v] ELSE 0
  PROVE  AbsNext
<1>1. Dom' = [Dom EXCEPT ![p] = Dom'[p]]
  BY DEF Dom, OthersKept
<1>2. MemView'[p] = [v \in VPages |-> IF v \in Dom'[p] THEN MemView[p][v] ELSE 0]
  BY DEF MemView
<1>3. MemView' = [MemView EXCEPT ![p] = [v \in VPages |-> IF v \in Dom'[p] THEN @[v] ELSE 0]]
  BY <1>2 DEF MemView, OthersKept
<1>4. Dom'[p] \in (SUBSET VPages) \ {{}}
  OBVIOUS
<1>5. Memory!Resize(p)
  BY <1>1, <1>3, <1>4 DEF Memory!Resize, Dom
<1> QED
  BY <1>5 DEF AbsNext, Memory!Next

LEMMA ForkedStep ==
  ASSUME NEW p \in Procs, NEW q \in Procs, OthersKept(q), StoreView' = StoreView,
         Dom[p] # {}, regions[q] = <<>>, Dom'[q] = Dom[p], MemView'[q] = MemView[p]
  PROVE  AbsNext
<1>1. Dom[q] = {}
  BY ZerosIs
<1>2. Dom' = [Dom EXCEPT ![q] = Dom[p]]
  BY DEF Dom, OthersKept
<1>3. MemView' = [MemView EXCEPT ![q] = MemView[p]]
  BY DEF MemView, OthersKept
<1>4. Memory!Fork(p, q)
  BY <1>1, <1>2, <1>3 DEF Memory!Fork, Dom
<1> QED
  BY <1>4 DEF AbsNext, Memory!Next

LEMMA WrittenStep ==
  ASSUME NEW p \in Procs, NEW v \in Dom[p], NEW x \in Vals, OthersKept(p),
         StoreView' = StoreView, Dom'[p] = Dom[p],
         \A w \in VPages : MemView'[p][w] = IF w = v THEN x ELSE MemView[p][w]
  PROVE  AbsNext
<1>1. Dom' = Dom
  BY DEF Dom, OthersKept
<1>2. MemView' = [MemView EXCEPT ![p][v] = x]
  <2>1. MemView'[p] = [MemView[p] EXCEPT ![v] = x]
    BY DEF MemView
  <2> QED
    BY <2>1 DEF MemView, OthersKept
<1>3. Memory!Write(p)
  BY <1>1, <1>2 DEF Memory!Write, Dom
<1> QED
  BY <1>3 DEF AbsNext, Memory!Next

LEMMA SharedWritten ==
  ASSUME NEW o \in SharedPages, NEW x \in Vals, Dom' = Dom, MemView' = MemView,
         \A o2 \in SharedPages : StoreView'[o2] = IF o2 = o THEN x ELSE StoreView[o2]
  PROVE  AbsNext
<1>1. StoreView' = [StoreView EXCEPT ![o] = x]
  BY DEF StoreView
<1>2. Memory!WriteShared
  BY <1>1 DEF Memory!WriteShared, Dom
<1> QED
  BY <1>2 DEF AbsNext, Memory!Next

(* What counts say of contents: a frame that is used keeps its contents    *)
(* when the counts are set.                                                *)
Used ==
  /\ \A p \in Procs, v \in VPages :
       pt[p][v] # NULL => pt[p][v].f \in Frames /\ refcnt[pt[p][v].f] # 0
  /\ \A o \in SharedPages :
       cached[o] # NULL => cached[o] \in Frames /\ refcnt[cached[o]] # 0

LEMMA UsedIs == Good => Used
<1> SUFFICES ASSUME Good PROVE Used
  OBVIOUS
<1>1. VmType /\ pt \in Tables
  BY GoodIs
<1>2. ASSUME NEW p \in Procs, NEW v \in VPages, pt[p][v] # NULL
      PROVE  pt[p][v].f \in Frames /\ refcnt[pt[p][v].f] # 0
  <2>1. pt[p][v].f \in Frames
    BY <1>1, <1>2, PteIs
  <2> QED
    BY <1>2, <2>1, FreeUnused
<1>3. ASSUME NEW o \in SharedPages, cached[o] # NULL
      PROVE  cached[o] \in Frames /\ refcnt[cached[o]] # 0
  <2>1. cached[o] \in Frames
    BY <1>1, <1>3 DEF VmType
  <2> QED
    BY <2>1, FreeUnused
<1> QED
  BY <1>2, <1>3 DEF Used

LEMMA UsedNext == Good' => Used'
BY UsedIs, PTL

(* Frames of private pages: those of before, or free ones. *)
Known(f) ==
  \/ f \in Frames /\ refcnt[f] = 0
  \/ \E q \in Procs : \E w \in PrivateOf(regions[q]) : pt[q][w] # NULL /\ pt[q][w].f = f

KnownOnly ==
  \A q \in Procs : \A w \in PrivateOf(regions'[q]) : pt'[q][w] # NULL => Known(pt'[q][w].f)

LEMMA KnownIs ==
  ASSUME Good, Extra, UNCHANGED cached, KnownOnly
  PROVE  NotCached' /\ CachedOnce'
<1>1. CachedOnce'
  BY DEF Extra, CachedOnce
<1>2. ASSUME NEW q \in Procs, NEW w \in PrivateOf(regions'[q]), NEW o \in SharedPages,
             pt'[q][w] # NULL, cached[o] = pt'[q][w].f
      PROVE  FALSE
  <2>1. Known(cached[o])
    BY <1>2 DEF KnownOnly
  <2>2. CASE cached[o] \in Frames /\ refcnt[cached[o]] = 0
    BY <2>2, FreeUnused
  <2>3. CASE \E r \in Procs : \E u \in PrivateOf(regions[r]) :
               pt[r][u] # NULL /\ pt[r][u].f = cached[o]
    BY <2>3 DEF Extra, NotCached
  <2> QED
    BY <2>1, <2>2, <2>3 DEF Known
<1>3. NotCached'
  BY <1>2 DEF NotCached
<1> QED
  BY <1>1, <1>3

LEMMA SameRegions ==
  ASSUME Good, NEW q \in Procs, regions'[q] = regions[q],
         \A v \in PrivateOf(regions[q]) :
           \/ pt[q][v] = NULL /\ pt'[q][v] = NULL
           \/ pt[q][v] = NULL /\ pt'[q][v] # NULL /\ content'[pt'[q][v].f] = 0
           \/ /\ pt[q][v] # NULL /\ pt'[q][v] # NULL
              /\ content'[pt'[q][v].f] = content[pt[q][v].f]
  PROVE  RowKept(q)
<1>1. RegionsSound(regions[q]) /\ Ordered(regions[q])
  BY GoodIs
<1> QED
  BY <1>1 DEF RowKept

LEMMA CountsSet ==
  ASSUME Good, Good', NEW cnt, SetCounts(cnt), UNCHANGED cached
  PROVE  /\ Zeroed'
         /\ \A q \in Procs, v \in VPages :
              pt'[q][v] # NULL => content'[pt'[q][v].f] = content[pt'[q][v].f]
         /\ \A o \in SharedPages : PageKept(o)
<1>1. Used'
  BY UsedNext
<1>2. \A f \in Frames : content'[f] = IF refcnt'[f] = 0 THEN 0 ELSE content[f]
  BY DEF SetCounts
<1>3. Zeroed'
  BY <1>2 DEF Zeroed
<1>4. \A q \in Procs, v \in VPages :
        pt'[q][v] # NULL => content'[pt'[q][v].f] = content[pt'[q][v].f]
  BY <1>1, <1>2 DEF Used
<1>5. \A o \in SharedPages : PageKept(o)
  BY <1>1, <1>2 DEF Used, PageKept
<1> QED
  BY <1>3, <1>4, <1>5

LEMMA ClearedIs ==
  ASSUME Good, Good', NEW p \in Procs, NEW S, ClearPtes(p, S), UNCHANGED cached
  PROVE  /\ Zeroed' /\ \A o \in SharedPages : PageKept(o)
         /\ \A q \in Procs, v \in VPages : pt'[q][v] # NULL =>
              /\ pt'[q][v] = pt[q][v]
              /\ content'[pt'[q][v].f] = content[pt[q][v].f]
         /\ \A q \in Procs, v \in VPages : ~(q = p /\ v \in S) => pt'[q][v] = pt[q][v]
<1>1. pt \in Tables
  BY GoodIs
<1>2. PICK row : row = [v \in VPages |-> IF v \in S THEN NULL ELSE pt[p][v]]
  OBVIOUS
<1>3. pt' = [pt EXCEPT ![p] = row]
  BY <1>2 DEF ClearPtes
<1>4. \A q \in Procs, v \in VPages :
        /\ pt'[q][v] # NULL => pt'[q][v] = pt[q][v]
        /\ ~(q = p /\ v \in S) => pt'[q][v] = pt[q][v]
  BY <1>1, <1>2, <1>3 DEF Tables
<1>5. PICK cnt : SetCounts(cnt)
  BY DEF ClearPtes
<1>6. /\ Zeroed' /\ \A o \in SharedPages : PageKept(o)
      /\ \A q \in Procs, v \in VPages :
           pt'[q][v] # NULL => content'[pt'[q][v].f] = content[pt'[q][v].f]
  BY <1>5, CountsSet
<1> QED
  BY <1>4, <1>6

LEMMA DestroyView ==
  ASSUME Good, Extra, NEW p \in Procs, pc[p] \in {"run", "setup"}, as_destroy(p),
         overlaid' \in BOOLEAN
  PROVE  Extra' /\ AbsNext
<1>1. Good' /\ VmType
  BY DestroyStep, GoodIs
<1>2. /\ ClearPtes(p, Cleared(0, USTACK_UPPERBOUND)) /\ UNCHANGED cached
      /\ regions' = [regions EXCEPT ![p] = <<>>]
  BY DEF as_destroy
<1>3. regions'[p] = <<>> /\ \A q \in Procs \ {p} : regions'[q] = regions[q]
  BY <1>1, <1>2 DEF VmType
<1>4. PICK S : S = Cleared(0, USTACK_UPPERBOUND)
  OBVIOUS
<1>5. ClearPtes(p, S)
  BY <1>2, <1>4
<1>6. /\ Zeroed' /\ \A o \in SharedPages : PageKept(o)
      /\ \A q \in Procs, v \in VPages : pt'[q][v] # NULL =>
           /\ pt'[q][v] = pt[q][v]
           /\ content'[pt'[q][v].f] = content[pt[q][v].f]
      /\ \A q \in Procs, v \in VPages : ~(q = p /\ v \in S) => pt'[q][v] = pt[q][v]
  BY <1>1, <1>2, <1>5, ClearedIs
<1>7. \A q \in Procs : PrivateOf(regions[q]) \subseteq VPages
  BY GoodIs, PrivateIn
<1>8. ASSUME NEW q \in Procs \ {p} PROVE RowKept(q)
  BY <1>3, <1>6, <1>7, SameRegions
<1>9. OthersKept(p)
  BY <1>8, OthersIs
<1>10. StoreView' = StoreView
  BY <1>6, StoreIs
<1>11. AbsNext
  BY <1>3, <1>9, <1>10, ExitStep
<1>12. KnownOnly
  <2> SUFFICES ASSUME NEW q \in Procs, NEW w \in PrivateOf(regions'[q]), pt'[q][w] # NULL
               PROVE  Known(pt'[q][w].f)
    BY DEF KnownOnly
  <2>1. q # p
    BY <1>3, NoRegions
  <2>2. w \in PrivateOf(regions[q]) /\ w \in VPages
    BY <1>3, <1>7, <2>1
  <2> QED
    BY <1>6, <2>2 DEF Known
<1>13. \A q \in Procs : Shape(regions'[q])
  <2>1. Shape(<<>>)
    BY DEF Shape
  <2>2. \A q \in Procs : Shape(regions[q])
    BY DEF Extra
  <2> QED
    BY <1>3, <2>1, <2>2
<1> QED
  BY <1>2, <1>6, <1>11, <1>12, <1>13, KnownIs DEF Extra

LEMMA ShapeIs ==
  ASSUME NEW rs, RegionsSound(rs), Shape(rs), rs # <<>>
  PROVE  /\ rs \in Seq(RegionType) /\ Len(rs) \in Nat /\ Len(rs) >= 3 /\ DOMAIN rs = 1..Len(rs)
         /\ rs[1].start = 0 /\ rs[1].end = CodePages /\ rs[1].store = NULL /\ ~rs[1].heap
         /\ rs[2].start = CodePages /\ rs[2].store = NULL /\ rs[2].heap
         /\ rs[Len(rs)].start = USTACK_LOWERBOUND /\ rs[Len(rs)].end = USTACK_UPPERBOUND
         /\ rs[Len(rs)].store = NULL /\ ~rs[Len(rs)].heap
         /\ \A i \in DOMAIN rs :
              rs[i].store # NULL => i \in 3..(Len(rs) - 1) /\ rs[i].end <= LowEnd
         /\ \A i \in DOMAIN rs : rs[i].store = NULL => i \in {1, 2, Len(rs)}
<1>1. rs \in Seq(RegionType) /\ Len(rs) \in Nat /\ DOMAIN rs = 1..Len(rs)
  BY DEF RegionsSound
<1>2. /\ Len(rs) >= 3
      /\ rs[1] = Region(0, CodePages, "URW", NULL, FALSE)
      /\ rs[2].heap /\ rs[2].start = CodePages
      /\ rs[Len(rs)] = Region(USTACK_LOWERBOUND, USTACK_UPPERBOUND, "URW", NULL, FALSE)
      /\ \A i \in 3..(Len(rs) - 1) : rs[i].store # NULL /\ rs[i].end <= LowEnd
  BY DEF Shape
<1>3. rs[1].start = 0 /\ rs[1].end = CodePages /\ rs[1].store = NULL /\ rs[1].heap = FALSE
  BY <1>2 DEF Region
<1>4. /\ rs[Len(rs)].start = USTACK_LOWERBOUND /\ rs[Len(rs)].end = USTACK_UPPERBOUND
      /\ rs[Len(rs)].store = NULL /\ rs[Len(rs)].heap = FALSE
  BY <1>2 DEF Region
<1>5. 2 \in DOMAIN rs
  BY <1>1, <1>2
<1>6. rs[2].store = NULL
  BY <1>2, <1>5 DEF RegionsSound
<1>7. ASSUME NEW i \in DOMAIN rs
      PROVE  /\ rs[i].store # NULL => i \in 3..(Len(rs) - 1) /\ rs[i].end <= LowEnd
             /\ rs[i].store = NULL => i \in {1, 2, Len(rs)}
  <2>1. i = 1 \/ i = 2 \/ i = Len(rs) \/ i \in 3..(Len(rs) - 1)
    BY <1>1, <1>2
  <2> QED
    BY <1>2, <1>3, <1>4, <1>6, <2>1
<1> QED
  BY <1>1, <1>2, <1>3, <1>4, <1>6, <1>7

LEMMA ShapeDom ==
  ASSUME NEW rs, RegionsSound(rs), Shape(rs), rs # <<>>
  PROVE  PrivateOf(rs) # {} /\ PrivateOf(rs) \subseteq VPages
<1>1. 1 \in DOMAIN rs /\ rs[1].start = 0 /\ rs[1].end = CodePages /\ rs[1].store = NULL
  BY ShapeIs
<1>2. 0 \in Inside(rs[1])
  BY <1>1, Consts DEF Inside
<1>3. 0 \in PrivateOf(rs)
  BY <1>1, <1>2, PrivateIs
<1> QED
  BY <1>3, PrivateIn

LEMMA Digits ==
  ASSUME NEW v \in Nat, NEW n \in Nat \ {0}
  PROVE  /\ v \div n \in Nat /\ v % n \in Nat /\ v % n < n
         /\ v = n * (v \div n) + (v % n)
OBVIOUS

(* What Cleared clears of the pages from a on is not before a. *)
LEMMA ClearedFrom ==
  ASSUME NEW a \in Nat, NEW e \in Nat, NEW v \in Cleared(a, e)
  PROVE  v \in VPages /\ v \in Nat /\ a <= v
<1>1. v \in VPages /\ v \in Nat
  BY Consts DEF Cleared
<1>2. N_PTE \in Nat \ {0}
  BY VmAssumption
<1> DEFINE End == (IF PDX(a) < PDX(e) THEN N_PDE ELSE PDX(e) + 1) - 1
           First(d) == IF d = PDX(a) THEN PTX(a) ELSE 0
           Limit(d) == IF First(d) < PTX(e) THEN N_PTE ELSE PTX(e) + 1
<1>3. PDX(v) \in PDX(a)..End /\ PTX(v) \in First(PDX(v))..(Limit(PDX(v)) - 1)
  BY DEF Cleared
<1>4. /\ PDX(v) \in Nat /\ PTX(v) \in Nat /\ PTX(v) < N_PTE
      /\ v = N_PTE * PDX(v) + PTX(v)
  BY <1>1, <1>2, Digits DEF PDX, PTX
<1>5. /\ PDX(a) \in Nat /\ PTX(a) \in Nat /\ PTX(a) < N_PTE
      /\ a = N_PTE * PDX(a) + PTX(a)
  BY <1>2, Digits DEF PDX, PTX
<1>6. PDX(a) <= PDX(v)
  <2> HIDE DEF End
  <2> QED
    BY <1>3, <1>4, <1>5
<1>7. PDX(v) = PDX(a) => PTX(a) <= PTX(v)
  <2>1. PDX(v) = PDX(a) => First(PDX(v)) = PTX(a)
    OBVIOUS
  <2> HIDE DEF First, Limit
  <2> QED
    BY <1>3, <1>4, <1>5, <2>1
<1>8. ASSUME NEW x \in Nat, NEW y \in Nat, NEW r \in Nat, NEW s \in Nat, NEW n \in Nat \ {0},
             x < y, r < n
      PROVE  n * x + r <= n * y + s
  <2>1. n * y >= n * (x + 1)
    <3>1. PICK d \in Nat : y = x + 1 + d
      <4>1. y - x - 1 \in Nat /\ y = x + 1 + (y - x - 1)
        BY <1>8
      <4> QED
        BY <4>1
    <3>2. n * y = n * (x + 1) + n * d /\ n * d \in Nat /\ n * (x + 1) \in Nat
      BY <3>1
    <3> QED
      BY <3>2
  <2>2. n * (x + 1) = n * x + n
    OBVIOUS
  <2>3. PICK u \in Nat : u = n * x
    OBVIOUS
  <2>4. PICK w \in Nat : w = n * y
    OBVIOUS
  <2> QED
    BY <1>8, <2>1, <2>2, <2>3, <2>4
<1>9. CASE PDX(a) < PDX(v)
  <2>1. N_PTE * PDX(a) + PTX(a) <= N_PTE * PDX(v) + PTX(v)
    BY <1>2, <1>4, <1>5, <1>8, <1>9
  <2> QED
    BY <1>1, <1>4, <1>5, <2>1
<1>10. CASE PDX(a) = PDX(v)
  <2>1. PICK u \in Nat : u = N_PTE * PDX(a)
    BY <1>2, <1>5
  <2>2. a = u + PTX(a) /\ v = u + PTX(v)
    BY ONLY <1>4, <1>5, <1>10, <2>1
  <2> QED
    BY ONLY <1>1, <1>4, <1>5, <1>7, <1>10, <2>2
<1> QED
  BY <1>1, <1>4, <1>5, <1>6, <1>9, <1>10

(* It is enough that the shared regions are in the first page table and    *)
(* the stack is not.                                                       *)
LEMMA SparedIs ==
  ASSUME LowEnd < N_PTE, N_PTE <= USTACK_LOWERBOUND
  PROVE  StackSpared
<1> SUFFICES ASSUME NEW a \in Nat, a + StorePages <= LowEnd,
                    NEW v \in Cleared(a, a + StorePages)
             PROVE  v < USTACK_LOWERBOUND
  BY DEF StackSpared
<1>1. PICK e \in Nat : e = a + StorePages
  BY Consts
<1>2. N_PTE \in Nat \ {0} /\ a < N_PTE /\ e < N_PTE
  <2>1. N_PTE \in Nat \ {0} /\ StorePages \in Nat /\ LowEnd \in Nat
    BY VmAssumption
  <2> QED
    BY <1>1, <2>1
<1>3. ASSUME NEW x \in Nat, NEW n \in Nat \ {0}, x < n PROVE x \div n = 0
  BY <1>3
<1>4. PDX(a) = 0 /\ PDX(e) = 0
  BY <1>2, <1>3 DEF PDX
<1>5. v \in VPages /\ v \in Nat /\ PDX(v) \in 0..(0 + 1 - 1)
  BY <1>1, <1>4, Consts DEF Cleared
<1>6. /\ PDX(v) \in Nat /\ PTX(v) \in Nat /\ PTX(v) < N_PTE
      /\ v = N_PTE * PDX(v) + PTX(v)
  BY <1>2, <1>5, Digits DEF PDX, PTX
<1>7. PDX(v) = 0
  BY <1>5
<1>8. N_PTE * 0 = 0
  BY <1>2
<1>9. v < N_PTE
  BY <1>6, <1>7, <1>8
<1> QED
  BY <1>2, <1>5, <1>9, StackIs

LEMMA ShapeRemoved ==
  ASSUME NEW rs, RegionsSound(rs), Shape(rs), NEW k \in DOMAIN rs, rs[k].store # NULL
  PROVE  Shape(RemoveAt(rs, k))
<1>1. rs # <<>>
  OBVIOUS
<1>2. /\ rs \in Seq(RegionType) /\ Len(rs) \in Nat /\ Len(rs) >= 3 /\ DOMAIN rs = 1..Len(rs)
      /\ k \in 3..(Len(rs) - 1)
  BY <1>1, ShapeIs
<1>3. /\ Len(RemoveAt(rs, k)) = Len(rs) - 1
      /\ \A j \in 1..(Len(rs) - 1) : RemoveAt(rs, k)[j] = IF j < k THEN rs[j] ELSE rs[j + 1]
  BY <1>2, RemoveAtIs
<1>4. PICK l : l = RemoveAt(rs, k)
  OBVIOUS
<1>5. PICK n \in Nat : n = Len(rs)
  BY <1>2
<1>6. Len(l) = n - 1 /\ \A j \in 1..(n - 1) : l[j] = IF j < k THEN rs[j] ELSE rs[j + 1]
  BY ONLY <1>3, <1>4, <1>5
<1>7. /\ rs[1] = Region(0, CodePages, "URW", NULL, FALSE)
      /\ rs[2].heap /\ rs[2].start = CodePages
      /\ rs[n] = Region(USTACK_LOWERBOUND, USTACK_UPPERBOUND, "URW", NULL, FALSE)
      /\ \A i \in 3..(n - 1) : rs[i].store # NULL /\ rs[i].end <= LowEnd
  BY <1>1, <1>5 DEF Shape
<1>8. k \in 3..(n - 1) /\ n >= 4
  BY <1>2, <1>5
<1>9. l[1] = rs[1] /\ l[2] = rs[2] /\ l[n - 1] = rs[n]
  BY <1>6, <1>8
<1>10. ASSUME NEW i \in 3..(n - 2) PROVE l[i].store # NULL /\ l[i].end <= LowEnd
  <2>1. CASE i < k
    <3>1. l[i] = rs[i] /\ i \in 3..(n - 1)
      BY <1>6, <1>8, <2>1
    <3> QED
      BY <1>7, <3>1
  <2>2. CASE ~(i < k)
    <3>1. l[i] = rs[i + 1] /\ i + 1 \in 3..(n - 1)
      BY <1>6, <1>8, <2>2
    <3> QED
      BY <1>7, <3>1
  <2> QED
    BY <2>1, <2>2
<1>11. Len(l) >= 3 /\ Len(l) - 1 = n - 2
  BY <1>6, <1>8
<1>12. Shape(l)
  BY <1>6, <1>7, <1>9, <1>10, <1>11 DEF Shape
<1> QED
  BY <1>4, <1>12

LEMMA UnmapView ==
  ASSUME Good, Extra, StackSpared, NEW p \in Procs, NEW i \in DOMAIN regions[p],
         memregion_unmap(p, i), UNCHANGED overlaid
  PROVE  Extra' /\ AbsNext
<1>1. Good' /\ VmType /\ RegionsSound(regions[p]) /\ Ordered(regions[p])
  BY UnmapStep, GoodIs
<1>2. PICK r : r = regions[p][i]
  OBVIOUS
<1>3. /\ r.store # NULL /\ ClearPtes(p, Cleared(r.start, r.end)) /\ UNCHANGED cached
      /\ regions' = [regions EXCEPT ![p] = RemoveAt(regions[p], i)]
  BY <1>2 DEF memregion_unmap
<1>4. PICK rs : rs = RemoveAt(regions[p], i)
  OBVIOUS
<1>5. regions'[p] = rs /\ \A q \in Procs \ {p} : regions'[q] = regions[q]
  BY <1>1, <1>3, <1>4 DEF VmType
<1>6. PICK S : S = Cleared(r.start, r.end)
  OBVIOUS
<1>7. ClearPtes(p, S)
  BY <1>3, <1>6
<1>8. /\ Zeroed' /\ \A o \in SharedPages : PageKept(o)
      /\ \A q \in Procs, v \in VPages : pt'[q][v] # NULL =>
           /\ pt'[q][v] = pt[q][v]
           /\ content'[pt'[q][v].f] = content[pt[q][v].f]
      /\ \A q \in Procs, v \in VPages : ~(q = p /\ v \in S) => pt'[q][v] = pt[q][v]
  BY <1>1, <1>3, <1>7, ClearedIs
<1>9. \A q \in Procs : PrivateOf(regions[q]) \subseteq VPages
  BY GoodIs, PrivateIn
<1>10. /\ RegionsSound(rs) /\ Ordered(rs)
       /\ \A k \in DOMAIN rs : \E j \in DOMAIN regions[p] \ {i} : rs[k] = regions[p][j]
       /\ \A j \in DOMAIN regions[p] \ {i} : \E k \in DOMAIN rs : rs[k] = regions[p][j]
  BY <1>1, <1>2, <1>3, <1>4, RemovedSound
<1>11. ASSUME NEW v PROVE v \in PrivateOf(rs) <=> v \in PrivateOf(regions[p])
  <2>1. ASSUME v \in PrivateOf(rs) PROVE v \in PrivateOf(regions[p])
    BY <1>10, <2>1, PrivateIs
  <2>2. ASSUME v \in PrivateOf(regions[p]) PROVE v \in PrivateOf(rs)
    <3>1. PICK j \in DOMAIN regions[p] :
            regions[p][j].store = NULL /\ v \in Inside(regions[p][j])
      BY <2>2, PrivateIs
    <3>2. j # i
      BY <1>2, <1>3, <3>1
    <3>3. PICK k \in DOMAIN rs : rs[k] = regions[p][j]
      BY <1>10, <3>2
    <3> QED
      BY <3>1, <3>3, PrivateIs
  <2> QED
    BY <2>1, <2>2
<1>12. PrivateOf(rs) = PrivateOf(regions[p])
  BY <1>11
<1>13. Shape(regions[p]) /\ regions[p] # <<>>
  BY DEF Extra
<1>14. ASSUME NEW v \in PrivateOf(regions[p]), v \in S PROVE FALSE
  <2>1. PICK j \in DOMAIN regions[p] :
          regions[p][j].store = NULL /\ v \in Inside(regions[p][j])
    BY PrivateIs
  <2>2. /\ i \in 3..(Len(regions[p]) - 1) /\ r.end <= LowEnd
        /\ j \in {1, 2, Len(regions[p])} /\ Len(regions[p]) \in Nat
        /\ regions[p][Len(regions[p])].start = USTACK_LOWERBOUND
    BY <1>1, <1>2, <1>3, <1>13, <2>1, ShapeIs
  <2>3. r.start \in Nat /\ r.end \in Nat /\ r.end = r.start + StorePages
    BY <1>1, <1>2, <1>3, RegionIn DEF RegionsSound
  <2>4. v \in Nat /\ r.start <= v
    BY <1>6, <1>14, <2>3, ClearedFrom
  <2>5. v < USTACK_LOWERBOUND
    BY <1>6, <1>14, <2>2, <2>3 DEF StackSpared
  <2>6. /\ regions[p][j].start \in Nat /\ regions[p][j].end \in Nat
        /\ regions[p][j].start <= v /\ v < regions[p][j].end
    BY <1>1, <2>1, RegionIn
  <2>7. j # Len(regions[p])
    BY <2>2, <2>4, <2>5, <2>6, StackIs
  <2>8. j < i
    BY <2>2, <2>7
  <2>9. regions[p][j].end <= r.start
    BY <1>1, <1>2, <2>8 DEF Ordered
  <2> QED
    BY <2>3, <2>4, <2>6, <2>9
<1>15. ASSUME NEW q \in Procs PROVE RowKept(q)
  <2>1. CASE q # p
    BY <1>5, <1>8, <1>9, <2>1, SameRegions
  <2>2. CASE q = p
    <3>1. \A v \in PrivateOf(regions[p]) : pt'[p][v] = pt[p][v]
      BY <1>8, <1>9, <1>14
    <3>2. \A v \in PrivateOf(regions[p]) :
            pt'[p][v] # NULL => content'[pt'[p][v].f] = content[pt[p][v].f]
      BY <1>8, <1>9
    <3> QED
      BY <1>5, <1>10, <1>12, <2>2, <3>1, <3>2 DEF RowKept
  <2> QED
    BY <2>1, <2>2
<1>16. AbsNext
  BY <1>8, <1>15, CalmStep
<1>17. KnownOnly
  <2> SUFFICES ASSUME NEW q \in Procs, NEW w \in PrivateOf(regions'[q]), pt'[q][w] # NULL
               PROVE  Known(pt'[q][w].f)
    BY DEF KnownOnly
  <2>1. w \in PrivateOf(regions[q]) /\ w \in VPages
    BY <1>5, <1>9, <1>12
  <2> QED
    BY <1>8, <2>1 DEF Known
<1>18. \A q \in Procs : Shape(regions'[q])
  <2>1. Shape(rs)
    BY <1>1, <1>2, <1>3, <1>4, <1>13, ShapeRemoved
  <2>2. \A q \in Procs : Shape(regions[q])
    BY DEF Extra
  <2> QED
    BY <1>5, <2>1, <2>2
<1> QED
  BY <1>3, <1>8, <1>16, <1>17, <1>18, KnownIs DEF Extra

(* A step that gives the page v of p a free frame *)
LEMMA FillView ==
  ASSUME Good, Extra, NEW p \in Procs, NEW v \in PrivateOf(regions[p]), pt[p][v] = NULL,
         NEW n \in Frames, refcnt[n] = 0,
         pt' = [pt EXCEPT ![p][v] = Pte(n, TRUE)], refcnt' = [refcnt EXCEPT ![n] = 1],
         UNCHANGED <<regions, content, cached>>
  PROVE  Extra' /\ AbsNext
<1>1. VmType /\ pt \in Tables /\ v \in VPages
  BY GoodIs, PrivateIn
<1>2. /\ pt'[p][v] = Pte(n, TRUE)
      /\ \A q \in Procs, w \in VPages : ~(q = p /\ w = v) => pt'[q][w] = pt[q][w]
  BY <1>1 DEF Tables
<1>3. Pte(n, TRUE) # NULL /\ Pte(n, TRUE).f = n
  BY PteMade
<1>4. \A f \in Frames : refcnt'[f] = IF f = n THEN 1 ELSE refcnt[f]
  BY <1>1 DEF VmType
<1>5. content[n] = 0
  BY DEF Extra, Zeroed
<1>6. Zeroed'
  BY <1>4 DEF Extra, Zeroed
<1>7. \A q \in Procs : PrivateOf(regions[q]) \subseteq VPages
  BY GoodIs, PrivateIn
<1>8. ASSUME NEW q \in Procs PROVE RowKept(q)
  <2>1. ASSUME NEW w \in PrivateOf(regions[q])
        PROVE  \/ pt[q][w] = NULL /\ pt'[q][w] = NULL
               \/ pt[q][w] = NULL /\ pt'[q][w] # NULL /\ content'[pt'[q][w].f] = 0
               \/ /\ pt[q][w] # NULL /\ pt'[q][w] # NULL
                  /\ content'[pt'[q][w].f] = content[pt[q][w].f]
    <3>1. CASE q = p /\ w = v
      <4>1. pt[q][w] = NULL /\ pt'[q][w] = Pte(n, TRUE) /\ content'[n] = 0
        BY <1>2, <1>5, <3>1
      <4> QED
        BY <1>3, <4>1
    <3>2. CASE ~(q = p /\ w = v)
      <4>1. pt'[q][w] = pt[q][w]
        BY <1>2, <1>7, <3>2
      <4> QED
        BY <4>1
    <3> QED
      BY <3>1, <3>2
  <2> QED
    BY <2>1, SameRegions
<1>9. \A o \in SharedPages : PageKept(o)
  BY DEF PageKept
<1>10. AbsNext
  BY <1>8, <1>9, CalmStep
<1>11. KnownOnly
  <2> SUFFICES ASSUME NEW q \in Procs, NEW w \in PrivateOf(regions[q]), pt'[q][w] # NULL
               PROVE  Known(pt'[q][w].f)
    BY DEF KnownOnly
  <2>1. CASE q = p /\ w = v
    BY <1>2, <1>3, <2>1 DEF Known
  <2>2. CASE ~(q = p /\ w = v)
    <3>1. pt'[q][w] = pt[q][w]
      BY <1>2, <1>7, <2>2
    <3> QED
      BY <3>1 DEF Known
  <2> QED
    BY <2>1, <2>2
<1> QED
  BY <1>6, <1>10, <1>11, KnownIs DEF Extra

(* A step that changes write permissions only *)
SameFrames ==
  \A q \in Procs, v \in VPages :
    \/ pt[q][v] = NULL /\ pt'[q][v] = NULL
    \/ pt[q][v] # NULL /\ pt'[q][v] # NULL /\ pt'[q][v].f = pt[q][v].f

LEMMA FramesView ==
  ASSUME Good, Extra, SameFrames, UNCHANGED <<regions, refcnt, content, cached>>
  PROVE  Extra' /\ AbsNext
<1>1. \A q \in Procs : PrivateOf(regions[q]) \subseteq VPages
  BY GoodIs, PrivateIn
<1>2. ASSUME NEW q \in Procs PROVE RowKept(q)
  BY <1>1, SameRegions DEF SameFrames
<1>3. \A o \in SharedPages : PageKept(o)
  BY DEF PageKept
<1>4. AbsNext
  BY <1>2, <1>3, CalmStep
<1>5. KnownOnly
  <2> SUFFICES ASSUME NEW q \in Procs, NEW w \in PrivateOf(regions[q]), pt'[q][w] # NULL
               PROVE  Known(pt'[q][w].f)
    BY DEF KnownOnly
  <2>1. pt[q][w] # NULL /\ pt'[q][w].f = pt[q][w].f
    BY <1>1 DEF SameFrames
  <2> QED
    BY <2>1 DEF Known
<1>6. Zeroed'
  BY DEF Extra, Zeroed
<1> QED
  BY <1>4, <1>5, <1>6, KnownIs DEF Extra

LEMMA QuietView ==
  ASSUME Good, Extra, UNCHANGED <<regions, pt, refcnt, content, cached>>
  PROVE  Extra' /\ AbsNext
<1>1. SameFrames
  BY DEF SameFrames
<1> QED
  BY <1>1, FramesView

LEMMA ForkFailsView ==
  ASSUME Good, Extra, NEW p \in Procs, proc_forkFails(p)
  PROVE  Extra' /\ AbsNext
<1>1. VmType /\ pt \in Tables
  BY GoodIs
<1>2. /\ UNCHANGED <<regions, refcnt, content, cached>>
      /\ \E i \in DOMAIN regions[p] :
           pt' = [pt EXCEPT ![p] = ReadOnly(p, PrivateOf(SubSeq(regions[p], 1, i)))]
  BY DEF proc_forkFails
<1>3. PICK S : pt' = [pt EXCEPT ![p] = ReadOnly(p, S)]
  BY <1>2
<1>4. SameFrames
  <2> SUFFICES ASSUME NEW q \in Procs, NEW v \in VPages
               PROVE  \/ pt[q][v] = NULL /\ pt'[q][v] = NULL
                      \/ pt[q][v] # NULL /\ pt'[q][v] # NULL /\ pt'[q][v].f = pt[q][v].f
    BY DEF SameFrames
  <2>1. CASE q # p
    BY <1>1, <1>3, <2>1 DEF Tables
  <2>2. CASE q = p
    <3>1. pt'[q][v] = ReadOnly(p, S)[v]
      BY <1>1, <1>3, <2>2 DEF Tables
    <3> QED
      BY <1>1, <2>2, <3>1, ReadOnlyIs
  <2> QED
    BY <2>1, <2>2
<1> QED
  BY <1>2, <1>4, FramesView

LEMMA CowDropView ==
  ASSUME Good, Extra, NEW p \in Procs, CowDrop(p), UNCHANGED overlaid
  PROVE  Extra' /\ AbsNext
<1>1. Good'
  BY CowDropStep
<1>2. UNCHANGED <<regions, pt, cached>> /\ SetCounts([refcnt EXCEPT ![cp[p]] = @ - 1])
  BY DEF CowDrop
<1>3. /\ Zeroed' /\ \A o \in SharedPages : PageKept(o)
      /\ \A q \in Procs, v \in VPages :
           pt'[q][v] # NULL => content'[pt'[q][v].f] = content[pt'[q][v].f]
  BY <1>1, <1>2, CountsSet
<1>4. \A q \in Procs : PrivateOf(regions[q]) \subseteq VPages
  BY GoodIs, PrivateIn
<1>5. ASSUME NEW q \in Procs PROVE RowKept(q)
  <2>1. \A v \in PrivateOf(regions[q]) :
          pt[q][v] # NULL => content'[pt[q][v].f] = content[pt[q][v].f]
    BY <1>2, <1>3, <1>4
  <2> QED
    BY <1>2, <2>1, SameRegions
<1>6. AbsNext
  BY <1>3, <1>5, CalmStep
<1>7. KnownOnly
  BY <1>2 DEF KnownOnly, Known
<1>8. \A q \in Procs : Shape(regions'[q])
  BY <1>2 DEF Extra
<1> QED
  BY <1>2, <1>3, <1>6, <1>7, <1>8, KnownIs DEF Extra

LEMMA CopyView ==
  ASSUME Good, Extra, NEW p \in Procs, NEW v \in PrivateOf(regions[p]), pt[p][v] # NULL,
         NEW n \in Frames, refcnt[n] = 0,
         pt' = [pt EXCEPT ![p][v] = Pte(n, TRUE)], refcnt' = [refcnt EXCEPT ![n] = 1],
         content' = [content EXCEPT ![n] = content[pt[p][v].f]],
         UNCHANGED <<regions, cached>>
  PROVE  Extra' /\ AbsNext
<1>1. VmType /\ pt \in Tables /\ v \in VPages
  BY GoodIs, PrivateIn
<1>2. /\ pt'[p][v] = Pte(n, TRUE)
      /\ \A q \in Procs, w \in VPages : ~(q = p /\ w = v) => pt'[q][w] = pt[q][w]
  BY <1>1 DEF Tables
<1>3. Pte(n, TRUE) # NULL /\ Pte(n, TRUE).f = n
  BY PteMade
<1>4. \A f \in Frames : refcnt'[f] = IF f = n THEN 1 ELSE refcnt[f]
  BY <1>1 DEF VmType
<1>5. /\ content'[n] = content[pt[p][v].f]
      /\ \A f \in Frames : f # n => content'[f] = content[f]
  BY <1>1 DEF VmType
<1>6. Zeroed'
  BY <1>4, <1>5 DEF Extra, Zeroed
<1>7. \A q \in Procs : PrivateOf(regions[q]) \subseteq VPages
  BY GoodIs, PrivateIn
<1>8. Used
  BY UsedIs
<1>9. ASSUME NEW q \in Procs PROVE RowKept(q)
  <2>1. ASSUME NEW w \in PrivateOf(regions[q])
        PROVE  \/ pt[q][w] = NULL /\ pt'[q][w] = NULL
               \/ pt[q][w] = NULL /\ pt'[q][w] # NULL /\ content'[pt'[q][w].f] = 0
               \/ /\ pt[q][w] # NULL /\ pt'[q][w] # NULL
                  /\ content'[pt'[q][w].f] = content[pt[q][w].f]
    <3>1. CASE q = p /\ w = v
      <4>1. pt[q][w] = pt[p][v] /\ pt'[q][w] = Pte(n, TRUE)
        BY <1>2, <3>1
      <4> QED
        BY <1>3, <1>5, <4>1
    <3>2. CASE ~(q = p /\ w = v)
      <4>1. pt'[q][w] = pt[q][w]
        BY <1>2, <1>7, <3>2
      <4>2. pt[q][w] # NULL => pt[q][w].f \in Frames /\ pt[q][w].f # n
        BY <1>7, <1>8 DEF Used
      <4> QED
        BY <1>5, <4>1, <4>2
    <3> QED
      BY <3>1, <3>2
  <2> QED
    BY <2>1, SameRegions
<1>10. \A o \in SharedPages : PageKept(o)
  BY <1>5, <1>8 DEF PageKept, Used
<1>11. AbsNext
  BY <1>9, <1>10, CalmStep
<1>12. KnownOnly
  <2> SUFFICES ASSUME NEW q \in Procs, NEW w \in PrivateOf(regions[q]), pt'[q][w] # NULL
               PROVE  Known(pt'[q][w].f)
    BY DEF KnownOnly
  <2>1. CASE q = p /\ w = v
    BY <1>2, <1>3, <2>1 DEF Known
  <2>2. CASE ~(q = p /\ w = v)
    <3>1. pt'[q][w] = pt[q][w]
      BY <1>2, <1>7, <2>2
    <3> QED
      BY <3>1 DEF Known
  <2> QED
    BY <2>1, <2>2
<1> QED
  BY <1>6, <1>11, <1>12, KnownIs DEF Extra

LEMMA HandleCOWView ==
  ASSUME Good, Extra, NEW p \in Procs, handleCOW(p)
  PROVE  Extra' /\ AbsNext
<1>1. VmType /\ pt \in Tables
  BY GoodIs
<1>2. PICK v : v = fault[p].v
  OBVIOUS
<1>3. PICK f : f = pt[p][v].f
  OBVIOUS
<1>4. pc[p] = "cow" /\ UNCHANGED <<regions, cached>>
  BY DEF handleCOW
<1>5. v \in VPages /\ v \in PrivateOf(regions[p]) /\ pt[p][v] # NULL
  BY <1>2, <1>4, CowPage
<1>6. \/ LastUser(p, f)
      \/ Free # {} /\ CopyFrame(p, f)
      \/ UNCHANGED <<pt, refcnt, content>>
  BY <1>2, <1>3 DEF handleCOW
<1>7. CASE LastUser(p, f)
  <2>1. pt' = [pt EXCEPT ![p][v].w = TRUE] /\ UNCHANGED <<refcnt, content>>
    BY <1>2, <1>7 DEF LastUser
  <2>2. PICK e : e = [pt[p][v] EXCEPT !.w = TRUE]
    OBVIOUS
  <2>3. pt[p][v] \in PteType
    BY <1>1, <1>5, PteIs
  <2>4. e \in PteType /\ e.f = pt[p][v].f /\ e # NULL
    BY <2>2, <2>3, VmAssumption DEF PteType
  <2>5. /\ pt'[p][v] = e
        /\ \A q \in Procs, w \in VPages : ~(q = p /\ w = v) => pt'[q][w] = pt[q][w]
    BY <1>1, <1>5, <2>1, <2>2 DEF Tables
  <2>6. SameFrames
    <3> SUFFICES ASSUME NEW q \in Procs, NEW w \in VPages
                 PROVE  \/ pt[q][w] = NULL /\ pt'[q][w] = NULL
                        \/ pt[q][w] # NULL /\ pt'[q][w] # NULL /\ pt'[q][w].f = pt[q][w].f
      BY DEF SameFrames
    <3>1. CASE q = p /\ w = v
      BY <1>5, <2>4, <2>5, <3>1
    <3>2. CASE ~(q = p /\ w = v)
      BY <2>5, <3>2
    <3> QED
      BY <3>1, <3>2
  <2> QED
    BY <1>4, <2>1, <2>6, FramesView
<1>8. CASE Free # {} /\ CopyFrame(p, f)
  <2>1. PICK n : n = pmem_alloc(v)
    OBVIOUS
  <2>2. n \in Frames /\ refcnt[n] = 0
    BY <1>1, <1>8, <2>1, AllocIs
  <2>3. /\ pt' = [pt EXCEPT ![p][v] = Pte(n, TRUE)]
        /\ refcnt' = [refcnt EXCEPT ![n] = 1]
        /\ content' = [content EXCEPT ![n] = content[pt[p][v].f]]
    BY <1>2, <1>3, <1>8, <2>1 DEF CopyFrame
  <2> QED
    BY <1>4, <1>5, <2>2, <2>3, CopyView
<1>9. CASE UNCHANGED <<pt, refcnt, content>>
  BY <1>4, <1>9, QuietView
<1> QED
  BY <1>6, <1>7, <1>8, <1>9

LEMMA MemNext ==
  ASSUME NEW q \in Procs, RegionsSound(regions'[q]), Ordered(regions'[q])
  PROVE  MemView'[q] = [v \in VPages |->
           IF pt'[q][v] # NULL /\ v \in PrivateOf(regions'[q])
           THEN content'[pt'[q][v].f] ELSE 0]
<1>1. ASSUME NEW v \in VPages
      PROVE  v \in PrivateOf(regions'[q]) \ SharedOf(regions'[q]) <=> v \in PrivateOf(regions'[q])
  BY PrivateShared
<1> QED
  BY <1>1 DEF MemView

(* A zeroed frame in the place of a page *)
LEMMA OverlayView ==
  ASSUME Good, Extra, NEW p \in Procs, NEW v \in PrivateOf(regions[p]),
         NEW n \in Frames, refcnt[n] = 0,
         pt' = [pt EXCEPT ![p][v] = Pte(n, TRUE)], UNCHANGED <<regions, content, cached>>
  PROVE  AbsNext
<1>1. /\ VmType /\ pt \in Tables /\ v \in VPages
      /\ RegionsSound(regions[p]) /\ Ordered(regions[p])
  BY GoodIs, PrivateIn
<1>2. /\ pt'[p][v] = Pte(n, TRUE)
      /\ \A q \in Procs, w \in VPages : ~(q = p /\ w = v) => pt'[q][w] = pt[q][w]
  BY <1>1 DEF Tables
<1>3. Pte(n, TRUE) # NULL /\ Pte(n, TRUE).f = n
  BY PteMade
<1>4. content[n] = 0
  BY DEF Extra, Zeroed
<1>5. \A q \in Procs : PrivateOf(regions[q]) \subseteq VPages
  BY GoodIs, PrivateIn
<1>6. ASSUME NEW q \in Procs \ {p} PROVE RowKept(q)
  <2>1. \A w \in PrivateOf(regions[q]) : pt'[q][w] = pt[q][w]
    BY <1>2, <1>5
  <2> QED
    BY <2>1, SameRegions
<1>7. OthersKept(p)
  BY <1>6, OthersIs
<1>8. StoreView' = StoreView
  BY DEF StoreView
<1>9. Dom' = Dom /\ v \in Dom[p]
  BY DEF Dom
<1>10. ASSUME NEW w \in VPages PROVE MemView'[p][w] = IF w = v THEN 0 ELSE MemView[p][w]
  <2>1. MemView'[p][w] = IF pt'[p][w] # NULL /\ w \in PrivateOf(regions[p])
                         THEN content[pt'[p][w].f] ELSE 0
    <3>1. regions'[p] = regions[p] /\ content' = content
      OBVIOUS
    <3>2. MemView'[p] = [u \in VPages |->
            IF pt'[p][u] # NULL /\ u \in PrivateOf(regions'[p])
            THEN content'[pt'[p][u].f] ELSE 0]
      BY <1>1, <3>1, MemNext
    <3> QED
      BY <3>1, <3>2
  <2>2. MemView[p][w] = IF pt[p][w] # NULL /\ w \in PrivateOf(regions[p])
                        THEN content[pt[p][w].f] ELSE 0
    BY <1>1, MemIs
  <2>3. CASE w = v
    BY <1>2, <1>3, <1>4, <2>1, <2>3
  <2>4. CASE w # v
    <3>1. pt'[p][w] = pt[p][w]
      BY <1>2, <2>4
    <3> QED
      BY <2>1, <2>2, <2>4, <3>1
  <2> QED
    BY <2>3, <2>4
<1>11. 0 \in Vals
  BY VmAssumption
<1> QED
  BY <1>7, <1>8, <1>9, <1>10, <1>11, WrittenStep

LEMMA WriteView ==
  ASSUME Good, Extra, NEW p \in Procs, ~LeftBehind(p), NEW v \in VPages, NEW x \in Vals,
         Write(p, v, x)
  PROVE  Extra' /\ AbsNext
<1>1. /\ VmType /\ pt \in Tables
      /\ \A q \in Procs : RegionsSound(regions[q]) /\ Ordered(regions[q])
  BY GoodIs
<1>2. PICK f : f = pt[p][v].f
  OBVIOUS
<1>3. /\ pt[p][v] # NULL /\ pt[p][v].w /\ content' = [content EXCEPT ![f] = x]
      /\ UNCHANGED <<regions, pt, refcnt, cached>>
  BY <1>2 DEF Write
<1>4. Used
  BY UsedIs
<1>5. f \in Frames /\ refcnt[f] # 0
  BY <1>2, <1>3, <1>4 DEF Used
<1>6. \A g \in Frames : content'[g] = IF g = f THEN x ELSE content[g]
  BY <1>1, <1>3 DEF VmType
<1>7. Zeroed'
  BY <1>3, <1>5, <1>6 DEF Extra, Zeroed
<1>8. Extra'
  BY <1>3, <1>7 DEF Extra, CachedOnce, NotCached
<1>9. \A q \in Procs : PrivateOf(regions[q]) \subseteq VPages
  BY <1>1, PrivateIn
<1>10. PICK i \in DOMAIN regions[p] : v \in Inside(regions[p][i])
  BY <1>3 DEF LeftBehind
<1>11. ASSUME NEW q \in Procs, \A w \in PrivateOf(regions[q]) : pt[q][w] # NULL => pt[q][w].f # f
       PROVE  RowKept(q)
  <2>1. \A w \in PrivateOf(regions[q]) :
          pt[q][w] # NULL => content'[pt[q][w].f] = content[pt[q][w].f]
    BY <1>4, <1>6, <1>9, <1>11 DEF Used
  <2> QED
    BY <1>3, <2>1, SameRegions
<1>12. CASE regions[p][i].store = NULL
  <2>1. v \in PrivateOf(regions[p])
    BY <1>10, <1>12, PrivateIs
  <2>2. PtUses(pt, f) = {<<p, v>>} /\ CacheUses(cached, f) = {}
    BY <1>2, <1>3, <2>1, AloneIs
  <2>3. \A q \in Procs, w \in VPages : pt[q][w] # NULL /\ pt[q][w].f = f => q = p /\ w = v
    <3> TAKE q \in Procs, w \in VPages
    <3>1. pt[q][w] # NULL /\ pt[q][w].f = f => <<q, w>> \in PtUses(pt, f)
      BY DEF PtUses
    <3> QED
      BY <2>2, <3>1
  <2>4. \A o \in SharedPages : cached[o] # f
    BY <2>2 DEF CacheUses
  <2>5. OthersKept(p)
    BY <1>9, <1>11, <2>3, OthersIs
  <2>6. StoreView' = StoreView
    <3>1. \A o \in SharedPages : PageKept(o)
      BY <1>3, <1>4, <1>6, <2>4 DEF PageKept, Used
    <3> QED
      BY <3>1, StoreIs
  <2>7. Dom' = Dom /\ v \in Dom[p]
    BY <1>3, <2>1 DEF Dom
  <2>8. ASSUME NEW w \in VPages PROVE MemView'[p][w] = IF w = v THEN x ELSE MemView[p][w]
    <3>1. MemView'[p][w] = IF pt[p][w] # NULL /\ w \in PrivateOf(regions[p])
                           THEN content'[pt[p][w].f] ELSE 0
      <4>1. regions'[p] = regions[p] /\ pt' = pt
        BY <1>3
      <4>2. MemView'[p] = [u \in VPages |->
              IF pt'[p][u] # NULL /\ u \in PrivateOf(regions'[p])
              THEN content'[pt'[p][u].f] ELSE 0]
        BY <1>1, <4>1, MemNext
      <4> QED
        BY <4>1, <4>2
    <3>2. MemView[p][w] = IF pt[p][w] # NULL /\ w \in PrivateOf(regions[p])
                          THEN content[pt[p][w].f] ELSE 0
      BY <1>1, MemIs
    <3>3. CASE w = v
      BY <1>2, <1>3, <1>5, <1>6, <2>1, <3>1, <3>3
    <3>4. CASE w # v
      <4>1. pt[p][w] # NULL => pt[p][w].f \in Frames /\ pt[p][w].f # f
        BY <1>4, <2>3, <3>4 DEF Used
      <4> QED
        BY <1>6, <3>1, <3>2, <3>4, <4>1
    <3> QED
      BY <3>3, <3>4
  <2>9. AbsNext
    BY <2>5, <2>6, <2>7, <2>8, WrittenStep
  <2> QED
    BY <1>8, <2>9
<1>13. CASE regions[p][i].store # NULL
  <2>1. PICK o : o = <<regions[p][i].store, v - regions[p][i].start>>
    OBVIOUS
  <2>2. f = cached[o]
    BY <1>2, <1>3, <1>10, <1>13, <2>1 DEF Good, SharedSeen
  <2>3. o \in SharedPages
    <3>1. /\ regions[p][i].store \in Stores \cup {NULL} /\ regions[p][i].start \in Nat
          /\ regions[p][i].start <= v /\ v < regions[p][i].end /\ v \in Nat
      BY <1>1, <1>10, RegionIn
    <3>2. regions[p][i].end = regions[p][i].start + StorePages
      BY <1>1, <1>13 DEF RegionsSound
    <3>3. v - regions[p][i].start \in 0..(StorePages - 1)
      BY <3>1, <3>2, Consts
    <3> QED
      BY <1>13, <2>1, <3>1, <3>3 DEF SharedPages
  <2>4. f # NULL
    BY <1>5, VmAssumption
  <2>5. \A o2 \in SharedPages : cached[o2] = f => o2 = o
    BY <2>2, <2>3, <2>4 DEF Extra, CachedOnce
  <2>6. \A q \in Procs : \A w \in PrivateOf(regions[q]) : pt[q][w] # NULL => pt[q][w].f # f
    BY <2>2, <2>3 DEF Extra, NotCached
  <2>7. \A q \in Procs : RowKept(q)
    BY <1>11, <2>6
  <2>8. Dom' = Dom /\ MemView' = MemView
    <3>1. \A q \in Procs : MemView'[q] = MemView[q]
      BY <2>7, RowIs
    <3> QED
      BY <1>3, <3>1 DEF Dom, MemView
  <2>9. ASSUME NEW o2 \in SharedPages
        PROVE  StoreView'[o2] = IF o2 = o THEN x ELSE StoreView[o2]
    <3>1. StoreView'[o2] = IF cached[o2] = NULL THEN 0 ELSE content'[cached[o2]]
      BY <1>3 DEF StoreView
    <3>2. StoreView[o2] = IF cached[o2] = NULL THEN 0 ELSE content[cached[o2]]
      BY DEF StoreView
    <3>3. cached[o2] # NULL => cached[o2] \in Frames
      BY <1>4 DEF Used
    <3> QED
      BY <1>5, <1>6, <2>2, <2>4, <2>5, <3>1, <3>2, <3>3
  <2>10. AbsNext
    BY <2>3, <2>8, <2>9, SharedWritten
  <2> QED
    BY <1>8, <2>10
<1> QED
  BY <1>12, <1>13

LEMMA SharedView ==
  ASSUME Good, Extra, NEW p \in Procs, NEW v \in VPages, as_find_memregion(p, v, 1) # None,
         regions[p][as_find_memregion(p, v, 1)].store # NULL,
         cached[CachedAt(p, v)] # NULL \/ Free # {}, handleSharedRegion(p, v)
  PROVE  Extra' /\ AbsNext
<1>1. /\ VmType /\ pt \in Tables
      /\ \A q \in Procs : RegionsSound(regions[q]) /\ Ordered(regions[q])
  BY GoodIs
<1>2. PICK i \in DOMAIN regions[p] :
        i = as_find_memregion(p, v, 1) /\ v \in Inside(regions[p][i])
  BY <1>1, FoundIs
<1>3. PICK o : o = CachedAt(p, v)
  OBVIOUS
<1>4. o = <<regions[p][i].store, v - regions[p][i].start>>
  BY <1>2, <1>3 DEF CachedAt
<1>5. o \in SharedPages
  <2>1. /\ regions[p][i].start \in Nat /\ v \in Nat /\ regions[p][i].start <= v
        /\ v < regions[p][i].end /\ regions[p][i].store \in Stores
    BY <1>1, <1>2, RegionIn
  <2>2. regions[p][i].end = regions[p][i].start + StorePages
    BY <1>1, <1>2 DEF RegionsSound
  <2> QED
    BY <1>4, <2>1, <2>2, Consts DEF SharedPages
<1>6. PICK f : f = IF cached[o] # NULL THEN cached[o] ELSE pmem_alloc(v)
  OBVIOUS
<1>7. f \in Frames /\ (cached[o] = NULL => refcnt[f] = 0) /\ (cached[o] # NULL => f = cached[o])
  <2>1. CASE cached[o] # NULL
    BY <1>1, <1>5, <1>6, <2>1 DEF VmType
  <2>2. CASE cached[o] = NULL
    BY <1>1, <1>3, <1>6, <2>2, AllocIs
  <2> QED
    BY <2>1, <2>2
<1>8. /\ pt' = [pt EXCEPT ![p][v] = Pte(f, TRUE)]
      /\ cached' = [cached EXCEPT ![o] = f]
      /\ refcnt' = [refcnt EXCEPT ![f] = IF cached[o] = NULL THEN 2 ELSE refcnt[f] + 1]
      /\ UNCHANGED <<regions, content>>
  BY <1>3, <1>6 DEF handleSharedRegion
<1>9. cached'[o] = f /\ \A x \in SharedPages \ {o} : cached'[x] = cached[x]
  BY <1>1, <1>5, <1>8 DEF VmType
<1>10. \A q \in Procs, w \in VPages : ~(q = p /\ w = v) => pt'[q][w] = pt[q][w]
  BY <1>1, <1>8 DEF Tables
<1>11. v \notin PrivateOf(regions[p])
  <2>1. v \in SharedOf(regions[p])
    BY <1>2, PrivateIs
  <2> QED
    BY <1>1, <2>1, PrivateShared
<1>12. \A q \in Procs : \A w \in PrivateOf(regions[q]) : pt'[q][w] = pt[q][w] /\ w \in VPages
  BY <1>1, <1>10, <1>11, PrivateIn
<1>13. Zeroed'
  <2>1. \A g \in Frames : refcnt'[g] = 0 => refcnt[g] = 0
    BY <1>1, <1>7, <1>8 DEF VmType
  <2> QED
    BY <1>8, <2>1 DEF Extra, Zeroed
<1>14. f # NULL /\ (cached[o] = NULL => content[f] = 0)
  BY <1>7, VmAssumption DEF Extra, Zeroed
<1>15. \A q \in Procs : RowKept(q)
  BY <1>8, <1>12, SameRegions
<1>16. ASSUME NEW x \in SharedPages PROVE PageKept(x)
  BY <1>7, <1>8, <1>9, <1>14 DEF PageKept
<1>17. AbsNext
  BY <1>15, <1>16, CalmStep
<1>18. cached[o] = NULL => \A x \in SharedPages : cached[x] # f
  BY <1>7, FreeUnused
<1>19. CachedOnce'
  <2> SUFFICES ASSUME NEW x \in SharedPages, NEW y \in SharedPages, cached'[x] # NULL,
                      cached'[x] = cached'[y]
               PROVE  x = y
    BY DEF CachedOnce
  <2>1. CASE cached[o] = NULL
    BY <1>9, <1>18, <2>1 DEF Extra, CachedOnce
  <2>2. CASE cached[o] # NULL
    <3>1. \A z \in SharedPages : cached'[z] = cached[z]
      BY <1>7, <1>9, <2>2
    <3> QED
      BY <3>1 DEF Extra, CachedOnce
  <2> QED
    BY <2>1, <2>2
<1>20. NotCached'
  <2> SUFFICES ASSUME NEW q \in Procs, NEW w \in PrivateOf(regions'[q]), NEW x \in SharedPages,
                      pt'[q][w] # NULL, cached'[x] = pt'[q][w].f
               PROVE  FALSE
    BY DEF NotCached
  <2>0. w \in PrivateOf(regions[q]) /\ pt'[q][w] = pt[q][w]
    BY <1>8, <1>12
  <2>1. cached[x] # pt[q][w].f
    BY <2>0 DEF Extra, NotCached
  <2>2. x = o /\ cached[o] = NULL /\ pt[q][w].f = f
    BY <1>7, <1>9, <2>0, <2>1
  <2>3. w \in VPages
    BY <1>12, <2>0
  <2> QED
    BY <1>7, <2>0, <2>2, <2>3, FreeUnused
<1>21. \A q \in Procs : Shape(regions'[q])
  BY <1>8 DEF Extra
<1> QED
  BY <1>13, <1>17, <1>19, <1>20, <1>21 DEF Extra

LEMMA FaultView ==
  ASSUME Good, Extra, NEW p \in Procs, NEW v \in VPages, NEW write \in BOOLEAN,
         NEW user \in BOOLEAN, Fault(p, v, write, user), UNCHANGED overlaid
  PROVE  Extra' /\ AbsNext
<1> DEFINE i == as_find_memregion(p, v, 1)
           served == /\ regions[p][i].store # NULL
                     /\ cached[CachedAt(p, v)] # NULL \/ Free # {}
           cow == pt[p][v] # NULL /\ write
<1>1. VmType /\ RegionsSound(regions[p])
  BY GoodIs
<1>2. pc[p] = "run" /\ ~(pt[p][v] # NULL /\ (write => pt[p][v].w))
  BY DEF Fault
<1>3. \/ i = None /\ as_destroy(p)
      \/ i # None /\ served /\ handleSharedRegion(p, v)
      \/ UNCHANGED <<regions, pt, refcnt, content, cached>>
      \/ i # None /\ ~served /\ ~cow /\ setup_page(p, v, user)
  BY DEF Fault, handle_page_fault
<1>4. overlaid' \in BOOLEAN
  BY <1>1 DEF VmType
<1>5. i # None => i \in DOMAIN regions[p] /\ v \in Inside(regions[p][i])
  BY <1>1, FoundIs
<1>6. CASE i = None /\ as_destroy(p)
  BY <1>2, <1>4, <1>6, DestroyView
<1>7. CASE i # None /\ served /\ handleSharedRegion(p, v)
  BY <1>7, SharedView
<1>8. CASE UNCHANGED <<regions, pt, refcnt, content, cached>>
  BY <1>8, QuietView
<1>9. CASE i # None /\ ~served /\ ~cow /\ setup_page(p, v, user)
  <2>1. pt[p][v] = NULL
    BY <1>2, <1>9
  <2>2. Free # {} => v \in PrivateOf(regions[p])
    <3>1. Free # {} => regions[p][i].store = NULL
      BY <1>9
    <3> QED
      BY <1>5, <1>9, <3>1, PrivateIs
  <2>3. PICK n : n = pmem_alloc(v)
    OBVIOUS
  <2>4. \/ UNCHANGED <<regions, pt, refcnt, content, cached>>
        \/ /\ Free # {} /\ pt' = [pt EXCEPT ![p][v] = Pte(n, TRUE)]
           /\ refcnt' = [refcnt EXCEPT ![n] = 1]
           /\ UNCHANGED <<regions, content, cached>>
        \/ as_destroy(p)
    BY <1>9, <2>3 DEF setup_page
  <2>5. CASE UNCHANGED <<regions, pt, refcnt, content, cached>>
    BY <2>5, QuietView
  <2>6. CASE /\ Free # {} /\ pt' = [pt EXCEPT ![p][v] = Pte(n, TRUE)]
             /\ refcnt' = [refcnt EXCEPT ![n] = 1]
             /\ UNCHANGED <<regions, content, cached>>
    <3>1. n \in Frames /\ refcnt[n] = 0
      BY <1>1, <2>3, <2>6, AllocIs
    <3> QED
      BY <2>1, <2>2, <2>6, <3>1, FillView
  <2>7. CASE as_destroy(p)
    BY <1>2, <1>4, <2>7, DestroyView
  <2> QED
    BY <2>4, <2>5, <2>6, <2>7
<1> HIDE DEF i, served, cow
<1> QED
  BY <1>3, <1>6, <1>7, <1>8, <1>9

LEMMA AfterCOWView ==
  ASSUME Good, Extra, ~panicked, NEW p \in Procs, AfterCOW(p)
  PROVE  (~overlaid' => Extra') /\ AbsNext
<1>1. VmType
  BY GoodIs
<1>2. pc[p] = "setup" /\ overlaid' = (regions'[p] # <<>> /\ ~panicked') /\ overlaid' \in BOOLEAN
  BY DEF AfterCOW, Alive
<1>3. PICK v : v = fault[p].v
  OBVIOUS
<1>4. v \in VPages /\ v \in PrivateOf(regions[p])
  BY <1>2, <1>3, CowPage
<1>5. PICK n : n = pmem_alloc(v)
  OBVIOUS
<1>6. \/ UNCHANGED <<regions, pt, refcnt, content, cached>>
      \/ /\ Free # {} /\ pt' = [pt EXCEPT ![p][v] = Pte(n, TRUE)]
         /\ UNCHANGED <<regions, content, cached, panicked>>
      \/ as_destroy(p)
  BY <1>3, <1>5 DEF AfterCOW, setup_page
<1>7. CASE UNCHANGED <<regions, pt, refcnt, content, cached>>
  BY <1>7, QuietView
<1>8. CASE /\ Free # {} /\ pt' = [pt EXCEPT ![p][v] = Pte(n, TRUE)]
           /\ UNCHANGED <<regions, content, cached, panicked>>
  <2>1. n \in Frames /\ refcnt[n] = 0
    BY <1>1, <1>5, <1>8, AllocIs
  <2>2. AbsNext
    BY <1>4, <1>8, <2>1, OverlayView
  <2>3. regions[p] # <<>>
    BY <1>4, NoRegions
  <2> QED
    BY <1>2, <1>8, <2>2, <2>3
<1>9. CASE as_destroy(p)
  BY <1>2, <1>9, DestroyView
<1> QED
  BY <1>6, <1>7, <1>8, <1>9

LEMMA SpawnView ==
  ASSUME Good, Extra, NEW p \in Procs, ~LeftBehind(p), proc_spawn(p)
  PROVE  Extra' /\ AbsNext
<1> DEFINE In == 0..(CodePages - 1) \cup {USTACK_UPPERBOUND - 1}
<1>1. VmType /\ pt \in Tables
  BY GoodIs
<1>2. regions[p] = <<>>
  BY NoPages DEF proc_spawn
<1>3. PICK rs : regions' = [regions EXCEPT ![p] = rs] /\ Layout(rs)
  BY LayoutIs DEF proc_spawn
<1>4. RegionsSound(rs) /\ Ordered(rs)
  BY <1>3, LayoutSound
<1>5. PICK At : At = [v \in In |-> pmem_alloc(v)]
  OBVIOUS
<1>6. PICK New : New = {At[v] : v \in In}
  OBVIOUS
<1>7. PICK row : row = [v \in VPages |-> IF v \in In THEN Pte(At[v], TRUE) ELSE NULL]
  OBVIOUS
<1>8. /\ Free # {} /\ pt' = [pt EXCEPT ![p] = row]
      /\ refcnt' = [f \in Frames |-> IF f \in New THEN 1 ELSE refcnt[f]]
      /\ content' = content /\ cached' = cached
  BY <1>5, <1>6, <1>7 DEF proc_spawn
<1> HIDE DEF In
<1>9. \A v \in In : At[v] \in Frames /\ refcnt[At[v]] = 0
  BY <1>1, <1>5, <1>8, AllocIs
<1>10. ASSUME NEW v \in VPages, row[v] # NULL
       PROVE  row[v].f \in Frames /\ refcnt[row[v].f] = 0 /\ content[row[v].f] = 0
  <2>1. v \in In /\ row[v] = Pte(At[v], TRUE)
    BY <1>7, <1>10
  <2>2. row[v].f = At[v]
    BY <1>9, <2>1, PteMade
  <2> QED
    BY <1>9, <2>1, <2>2 DEF Extra, Zeroed
<1>11. pt'[p] = row /\ \A q \in Procs \ {p} : pt'[q] = pt[q]
  BY <1>1, <1>8 DEF Tables
<1>12. regions'[p] = rs /\ \A q \in Procs \ {p} : regions'[q] = regions[q]
  BY <1>1, <1>3 DEF VmType
<1>13. ASSUME NEW q \in Procs \ {p} PROVE RowKept(q)
  <2>1. regions'[q] = regions[q] /\ pt'[q] = pt[q]
    BY <1>11, <1>12
  <2> QED
    BY <1>8, <2>1, SameRegions
<1>14. OthersKept(p)
  BY <1>13, OthersIs
<1>15. StoreView' = StoreView
  BY <1>8 DEF StoreView
<1>16. MemView'[p] = Memory!Zeros
  <2>1. MemView'[p] = [v \in VPages |->
          IF pt'[p][v] # NULL /\ v \in PrivateOf(regions'[p]) THEN content'[pt'[p][v].f] ELSE 0]
    BY <1>4, <1>12, MemNext
  <2>2. ASSUME NEW v \in VPages
        PROVE  (IF pt'[p][v] # NULL /\ v \in PrivateOf(regions'[p])
                THEN content'[pt'[p][v].f] ELSE 0) = 0
    BY <1>8, <1>10, <1>11
  <2> QED
    BY <2>1, <2>2 DEF Memory!Zeros
<1>17. Shape(rs)
  <2>1. Len(rs) = 3 /\ rs[2].heap /\ rs[2].start = CodePages
    BY <1>3 DEF Layout, Region
  <2>2. /\ rs[1] = Region(0, CodePages, "URW", NULL, FALSE)
        /\ rs[Len(rs)] = Region(USTACK_LOWERBOUND, USTACK_UPPERBOUND, "URW", NULL, FALSE)
    BY <1>3 DEF Layout
  <2>3. \A i \in 3..(Len(rs) - 1) : FALSE
    BY <2>1
  <2>4. Len(rs) >= 3
    BY <2>1
  <2> QED
    BY <2>1, <2>2, <2>3, <2>4 DEF Shape
<1>18. Dom'[p] # {} /\ Dom'[p] \subseteq VPages
  <2>1. Dom'[p] = PrivateOf(rs)
    BY <1>12 DEF Dom
  <2>2. rs # <<>>
    <3>1. Len(rs) = 3
      BY <1>3 DEF Layout
    <3> QED
      BY <3>1
  <2> QED
    BY <1>4, <1>17, <2>1, <2>2, ShapeDom
<1>19. AbsNext
  BY <1>2, <1>14, <1>15, <1>16, <1>18, CreateStep
<1>20. KnownOnly
  <2> SUFFICES ASSUME NEW q \in Procs, NEW w \in PrivateOf(regions'[q]), pt'[q][w] # NULL
               PROVE  Known(pt'[q][w].f)
    BY DEF KnownOnly
  <2>1. CASE q = p
    <3>1. w \in VPages
      BY <1>4, <1>12, <2>1, PrivateIn
    <3>2. row[w] # NULL /\ pt'[q][w] = row[w]
      BY <1>11, <2>1
    <3> QED
      BY <1>10, <3>1, <3>2 DEF Known
  <2>2. CASE q # p
    <3>1. w \in PrivateOf(regions[q]) /\ pt'[q][w] = pt[q][w]
      BY <1>11, <1>12, <2>2
    <3> QED
      BY <3>1 DEF Known
  <2> QED
    BY <2>1, <2>2
<1>21. Zeroed'
  <2>1. \A f \in Frames : refcnt'[f] = 0 => refcnt[f] = 0
    BY <1>8
  <2> QED
    BY <1>8, <2>1 DEF Extra, Zeroed
<1>22. \A q \in Procs : Shape(regions'[q])
  BY <1>12, <1>17 DEF Extra
<1> QED
  BY <1>8, <1>19, <1>20, <1>21, <1>22, KnownIs DEF Extra

LEMMA ForkView ==
  ASSUME Good, Extra, NEW p \in Procs, NEW q \in Procs \ {p}, proc_fork(p, q)
  PROVE  Extra' /\ AbsNext
<1>1. /\ VmType /\ pt \in Tables
      /\ \A o \in Procs : RegionsSound(regions[o]) /\ Ordered(regions[o])
  BY GoodIs
<1>2. PICK S : S = PrivateOf(regions[p])
  OBVIOUS
<1>3. PICK row : row = ReadOnly(p, S)
  OBVIOUS
<1>4. \A v \in VPages :
        /\ row[v] = NULL <=> pt[p][v] = NULL
        /\ pt[p][v] # NULL => row[v].f = pt[p][v].f
  BY <1>1, <1>3, ReadOnlyIs
<1>5. PICK child : child = [v \in VPages |-> IF v \in S THEN row[v] ELSE NULL]
  OBVIOUS
<1>6. /\ pt' = [pt EXCEPT ![p] = row, ![q] = child]
      /\ refcnt' = [f \in Frames |-> refcnt[f] + Cardinality(MappedIn(pt, p, f) \cap S)]
      /\ regions' = [regions EXCEPT ![q] = regions[p]]
      /\ content' = content /\ cached' = cached
      /\ regions[p] # <<>> /\ regions[q] = <<>>
  BY <1>2, <1>3, <1>5 DEF proc_fork, vpmap_cow_copy, Mapped, MappedIn, Alive
<1>7. pt'[p] = row /\ pt'[q] = child /\ \A o \in Procs \ {p, q} : pt'[o] = pt[o]
  BY <1>1, <1>6 DEF Tables
<1>8. regions'[q] = regions[p] /\ \A o \in Procs \ {q} : regions'[o] = regions[o]
  BY <1>1, <1>6 DEF VmType
<1>9. S \subseteq VPages
  BY <1>1, <1>2, PrivateIn
<1>10. ASSUME NEW o \in Procs \ {q} PROVE RowKept(o)
  <2>1. regions'[o] = regions[o]
    BY <1>8
  <2>2. CASE o = p
    <3>1. \A v \in S : \/ pt[o][v] = NULL /\ pt'[o][v] = NULL
                       \/ /\ pt[o][v] # NULL /\ pt'[o][v] # NULL
                          /\ content'[pt'[o][v].f] = content[pt[o][v].f]
      BY <1>4, <1>6, <1>7, <1>9, <2>2
    <3> QED
      BY <1>2, <2>1, <2>2, <3>1, SameRegions
  <2>3. CASE o # p
    <3>1. pt'[o] = pt[o]
      BY <1>7, <2>3
    <3> QED
      BY <1>6, <2>1, <3>1, SameRegions
  <2> QED
    BY <2>2, <2>3
<1>11. OthersKept(q)
  BY <1>10, OthersIs
<1>12. StoreView' = StoreView
  BY <1>6 DEF StoreView
<1>13. Dom[p] # {} /\ Dom'[q] = Dom[p]
  <2>1. Dom[p] = S /\ Dom'[q] = S
    BY <1>2, <1>8 DEF Dom
  <2>2. Shape(regions[p])
    BY DEF Extra
  <2>3. S # {}
    BY <1>1, <1>2, <1>6, <2>2, ShapeDom
  <2> QED
    BY <2>1, <2>3
<1>14. MemView'[q] = MemView[p]
  <2>1. MemView'[q] = [v \in VPages |->
          IF pt'[q][v] # NULL /\ v \in PrivateOf(regions'[q]) THEN content'[pt'[q][v].f] ELSE 0]
    BY <1>1, <1>8, MemNext
  <2>2. MemView[p] = [v \in VPages |->
          IF pt[p][v] # NULL /\ v \in PrivateOf(regions[p]) THEN content[pt[p][v].f] ELSE 0]
    BY <1>1, MemIs
  <2>3. ASSUME NEW v \in VPages
        PROVE  (IF pt'[q][v] # NULL /\ v \in PrivateOf(regions'[q])
                THEN content'[pt'[q][v].f] ELSE 0)
               = (IF pt[p][v] # NULL /\ v \in PrivateOf(regions[p])
                  THEN content[pt[p][v].f] ELSE 0)
    <3>1. PrivateOf(regions'[q]) = S /\ pt'[q][v] = IF v \in S THEN row[v] ELSE NULL
      BY <1>2, <1>5, <1>7, <1>8
    <3> QED
      BY <1>2, <1>4, <1>6, <3>1
  <2> QED
    BY <2>1, <2>2, <2>3
<1>15. AbsNext
  BY <1>6, <1>11, <1>12, <1>13, <1>14, ForkedStep
<1>16. KnownOnly
  <2> SUFFICES ASSUME NEW o \in Procs, NEW w \in PrivateOf(regions'[o]), pt'[o][w] # NULL
               PROVE  Known(pt'[o][w].f)
    BY DEF KnownOnly
  <2>1. CASE o = p \/ o = q
    <3>1. w \in S /\ w \in VPages
      BY <1>2, <1>8, <1>9, <2>1
    <3>2. pt'[o][w] = row[w]
      BY <1>5, <1>7, <2>1, <3>1
    <3>3. pt[p][w] # NULL /\ pt'[o][w].f = pt[p][w].f
      BY <1>4, <3>1, <3>2
    <3> QED
      BY <1>2, <3>1, <3>3 DEF Known
  <2>2. CASE o \notin {p, q}
    <3>1. w \in PrivateOf(regions[o]) /\ pt'[o][w] = pt[o][w]
      BY <1>7, <1>8, <2>2
    <3> QED
      BY <3>1 DEF Known
  <2> QED
    BY <2>1, <2>2
<1>17. Zeroed'
  <2> SUFFICES ASSUME NEW f \in Frames, refcnt'[f] = 0 PROVE content[f] = 0
    BY <1>6 DEF Zeroed
  <2>1. PICK n : n = Cardinality(MappedIn(pt, p, f) \cap S)
    OBVIOUS
  <2>2. n \in Nat
    BY <2>1, MappedFinite
  <2>3. refcnt'[f] = refcnt[f] + n /\ refcnt[f] \in Nat
    BY <1>1, <1>6, <2>1 DEF VmType
  <2>4. refcnt[f] = 0
    BY <2>2, <2>3
  <2> QED
    BY <2>4 DEF Extra, Zeroed
<1>18. \A o \in Procs : Shape(regions'[o])
  BY <1>8 DEF Extra
<1> QED
  BY <1>6, <1>15, <1>16, <1>17, <1>18, KnownIs DEF Extra

LEMMA ShapeInserted ==
  ASSUME NEW rs, rs \in Seq(RegionType), Shape(rs), rs # <<>>, NEW r \in RegionType,
         r.store # NULL, r.end <= LowEnd, NEW k \in 3..Len(rs)
  PROVE  Shape(InsertAt(rs, k, r))
<1>1. PICK n \in Nat : n = Len(rs)
  OBVIOUS
<1>2. PICK l : l = InsertAt(rs, k, r)
  OBVIOUS
<1>3. k \in 3..n /\ n >= 3 /\ k \in 1..(Len(rs) + 1)
  BY <1>1
<1>4. /\ Len(l) = n + 1
      /\ \A j \in 1..(n + 1) : l[j] = IF j < k THEN rs[j] ELSE IF j = k THEN r ELSE rs[j - 1]
  <2>1. /\ Len(InsertAt(rs, k, r)) = Len(rs) + 1
        /\ \A j \in 1..(Len(rs) + 1) :
             InsertAt(rs, k, r)[j] = IF j < k THEN rs[j] ELSE IF j = k THEN r ELSE rs[j - 1]
    BY <1>3, InsertAtIs
  <2> QED
    BY ONLY <1>1, <1>2, <2>1
<1>5. /\ rs[1] = Region(0, CodePages, "URW", NULL, FALSE)
      /\ rs[2].heap /\ rs[2].start = CodePages
      /\ rs[n] = Region(USTACK_LOWERBOUND, USTACK_UPPERBOUND, "URW", NULL, FALSE)
      /\ \A i \in 3..(n - 1) : rs[i].store # NULL /\ rs[i].end <= LowEnd
  BY <1>1 DEF Shape
<1>6. l[1] = rs[1] /\ l[2] = rs[2] /\ l[n + 1] = rs[n]
  BY <1>3, <1>4
<1>7. ASSUME NEW i \in 3..n PROVE l[i].store # NULL /\ l[i].end <= LowEnd
  <2>1. CASE i < k
    <3>1. l[i] = rs[i] /\ i \in 3..(n - 1)
      BY <1>3, <1>4, <2>1
    <3> QED
      BY <1>5, <3>1
  <2>2. CASE i = k
    BY <1>3, <1>4, <2>2
  <2>3. CASE i > k
    <3>1. l[i] = rs[i - 1] /\ i - 1 \in 3..(n - 1)
      BY <1>3, <1>4, <2>3
    <3> QED
      BY <1>5, <3>1
  <2> QED
    BY <1>3, <2>1, <2>2, <2>3
<1>8. Len(l) >= 3 /\ Len(l) - 1 = n
  BY <1>3, <1>4
<1>9. Shape(l)
  BY <1>4, <1>5, <1>6, <1>7, <1>8 DEF Shape
<1> QED
  BY <1>2, <1>9

LEMMA MapView ==
  ASSUME Good, Extra, NEW p \in Procs, NEW s \in Stores, as_map_memregion(p, s)
  PROVE  Extra' /\ AbsNext
<1>1. VmType /\ RegionsSound(regions[p]) /\ Ordered(regions[p])
  BY GoodIs
<1>2. PICK rs : rs = regions[p]
  OBVIOUS
<1>3. PICK a : a = find_free_vaddr(rs, StorePages)
  OBVIOUS
<1>4. PICK r : r = Region(a, a + StorePages, "URW", s, FALSE)
  OBVIOUS
<1>5. PICK l : l = Linked(rs, r)
  OBVIOUS
<1>6. /\ rs # <<>> /\ a # None
      /\ ~memregion_allocated(rs, a, a + StorePages)
      /\ a + StorePages <= LowEnd
      /\ regions' = [regions EXCEPT ![p] = l]
      /\ UNCHANGED <<pt, refcnt, content, cached>>
  BY <1>2, <1>3, <1>4, <1>5 DEF as_map_memregion, Alive
<1>7. a \in Nat /\ rs \in Seq(RegionType)
  BY <1>1, <1>2, <1>3, <1>6, FreeAddr DEF RegionsSound
<1>8. PICK n \in Nat : n = N_PTE * N_PDE
  BY Consts
<1>9. LowEnd < n /\ USTACK_UPPERBOUND = n - 1
  BY <1>8, VmAssumption DEF USTACK_UPPERBOUND
<1>10. s # NULL
  BY VmAssumption
<1>11. /\ r \in RegionType /\ r.start = a /\ r.end = a + StorePages /\ r.store = s
       /\ r.heap = FALSE
  BY <1>4, <1>7, Consts DEF Region, RegionType
<1>12. NewRegion(r)
  <2>1. a \in VPages /\ a + StorePages \in VPages /\ a < a + StorePages
    BY <1>6, <1>7, <1>8, <1>9, Consts DEF VPages
  <2> QED
    BY <1>11, <2>1 DEF NewRegion
<1>13. /\ RegionsSound(l) /\ Ordered(l)
       /\ \A i \in DOMAIN l : l[i] = r \/ \E j \in DOMAIN rs : l[i] = rs[j]
       /\ \A j \in DOMAIN rs : \E i \in DOMAIN l : l[i] = rs[j]
  BY <1>1, <1>2, <1>5, <1>6, <1>11, <1>12, LinkedSound
<1>14. ASSUME NEW v PROVE v \in PrivateOf(l) <=> v \in PrivateOf(rs)
  <2>1. ASSUME v \in PrivateOf(l) PROVE v \in PrivateOf(rs)
    <3>1. PICK i \in DOMAIN l : l[i].store = NULL /\ v \in Inside(l[i])
      BY <2>1, PrivateIs
    <3>2. PICK j \in DOMAIN rs : l[i] = rs[j]
      BY <1>10, <1>11, <1>13, <3>1
    <3> QED
      BY <3>1, <3>2, PrivateIs
  <2>2. ASSUME v \in PrivateOf(rs) PROVE v \in PrivateOf(l)
    BY <1>13, <2>2, PrivateIs
  <2> QED
    BY <2>1, <2>2
<1>15. regions'[p] = l /\ \A q \in Procs \ {p} : regions'[q] = regions[q]
  BY <1>1, <1>6 DEF VmType
<1>16. ASSUME NEW q \in Procs PROVE PrivateOf(regions'[q]) = PrivateOf(regions[q])
  <2>1. PrivateOf(l) = PrivateOf(rs)
    BY <1>14
  <2>2. q = p \/ q # p
    OBVIOUS
  <2> QED
    BY <1>2, <1>15, <2>1, <2>2
<1>17. ASSUME NEW q \in Procs PROVE RowKept(q)
  <2>1. RegionsSound(regions'[q]) /\ Ordered(regions'[q])
    BY <1>13, <1>15, GoodIs
  <2> QED
    BY <1>6, <1>16, <2>1 DEF RowKept
<1>18. \A o \in SharedPages : PageKept(o)
  BY <1>6 DEF PageKept
<1>19. AbsNext
  BY <1>17, <1>18, CalmStep
<1>20. KnownOnly
  BY <1>6, <1>16 DEF KnownOnly, Known
<1>21. Shape(l)
  <2>1. Shape(rs)
    BY <1>2 DEF Extra
  <2>2. PICK k \in 1..(Len(rs) + 1) :
          /\ Linked(rs, r) = InsertAt(rs, k, r)
          /\ \A i \in DOMAIN rs : i < k => rs[i].start < r.end
          /\ k <= Len(rs) => rs[k].start >= r.end
    BY <1>7, <1>11, LinkedIs
  <2>3. /\ Len(rs) \in Nat /\ Len(rs) >= 3 /\ DOMAIN rs = 1..Len(rs)
        /\ rs[1].start = 0 /\ rs[1].end = CodePages /\ rs[2].start = CodePages
        /\ rs[Len(rs)].start = USTACK_LOWERBOUND /\ rs[Len(rs)].end = USTACK_UPPERBOUND
    BY <1>1, <1>2, <1>6, <2>1, ShapeIs
  <2>4. \A i \in DOMAIN rs : ~(a < rs[i].end /\ a + StorePages > rs[i].start)
    BY <1>6 DEF memregion_allocated
  <2>5. CodePages <= a
    <3>1. ~(a < CodePages /\ a + StorePages > 0)
      BY <2>3, <2>4
    <3> QED
      BY <1>7, <3>1, Consts
  <2>6. k # 1 /\ k # 2
    BY <1>7, <1>11, <2>2, <2>3, <2>5, Consts
  <2>7. k # Len(rs) + 1
    <3> SUFFICES ASSUME k = Len(rs) + 1 PROVE FALSE
      OBVIOUS
    <3>1. Len(rs) \in DOMAIN rs /\ Len(rs) < k
      BY <2>3
    <3>2. USTACK_LOWERBOUND < a + StorePages
      BY <1>11, <2>2, <2>3, <3>1
    <3>3. ~(a < USTACK_UPPERBOUND /\ a + StorePages > USTACK_LOWERBOUND)
      BY <2>3, <2>4, <3>1
    <3>4. a >= n - 1
      BY <1>7, <1>9, <3>2, <3>3, StackIs, Consts
    <3> QED
      BY <1>6, <1>7, <1>9, <3>4, Consts
  <2>8. k \in 3..Len(rs)
    BY <2>2, <2>3, <2>6, <2>7
  <2>9. Shape(InsertAt(rs, k, r))
    BY <1>6, <1>7, <1>10, <1>11, <2>1, <2>8, ShapeInserted
  <2> QED
    BY <1>5, <2>2, <2>9
<1>22. \A q \in Procs : Shape(regions'[q])
  BY <1>15, <1>21 DEF Extra
<1>23. Zeroed'
  BY <1>6 DEF Extra, Zeroed
<1> QED
  BY <1>6, <1>19, <1>20, <1>22, <1>23, KnownIs DEF Extra

LEMMA ExtendView ==
  ASSUME Good, Extra, NEW p \in Procs, ~LeftBehind(p), NEW size \in SbrkSizes,
         memregion_extend(p, size)
  PROVE  (~overlaid' => Extra') /\ AbsNext
<1>1. VmType /\ RegionsSound(regions[p]) /\ Ordered(regions[p])
  BY GoodIs
<1>2. Inv'
  BY ExtendStep
<1>3. regions[p] # <<>> /\ UNCHANGED <<pt, refcnt, content, cached>>
  BY DEF memregion_extend, Alive
<1>4. Shape(regions[p])
  BY DEF Extra
<1>5. /\ Len(regions[p]) \in Nat /\ Len(regions[p]) >= 3
      /\ DOMAIN regions[p] = 1..Len(regions[p])
      /\ regions[p][2].heap /\ regions[p][2].store = NULL /\ 2 \in DOMAIN regions[p]
  BY <1>1, <1>3, <1>4, ShapeIs
<1>6. HeapOf(p) = 2
  <2>1. HeapOf(p) \in DOMAIN regions[p] /\ regions[p][HeapOf(p)].heap
    BY <1>5 DEF HeapOf
  <2> QED
    BY <1>1, <1>5, <2>1 DEF RegionsSound
<1>7. PICK r : r = regions[p][2]
  OBVIOUS
<1>8. PICK e : e = IF r.end - r.start >= -size THEN r.end + size ELSE r.end
  OBVIOUS
<1>9. PICK r2 : r2 = [r EXCEPT !.end = e]
  OBVIOUS
<1>10. PICK rs : rs = [regions[p] EXCEPT ![2] = r2]
  OBVIOUS
<1>11. regions' = [regions EXCEPT ![p] = rs]
  <2>1. regions' = [regions EXCEPT ![p][2].end =
                      IF r.end - r.start >= -size THEN @ + size ELSE @]
    BY <1>6, <1>7 DEF memregion_extend
  <2> QED
    BY <1>1, <1>5, <1>7, <1>8, <1>9, <1>10, <2>1 DEF VmType
<1>12. r2.start = r.start /\ r2.heap = r.heap /\ r2.store = r.store
  <2>1. r \in RegionType
    BY <1>1, <1>5, <1>7, RegionIn
  <2> QED
    BY <1>9, <2>1 DEF RegionType
<1>13. regions'[p] = rs /\ \A q \in Procs \ {p} : regions'[q] = regions[q]
  BY <1>1, <1>11 DEF VmType
<1>14. /\ DOMAIN rs = DOMAIN regions[p] /\ rs[2] = r2
       /\ \A i \in DOMAIN rs \ {2} : rs[i] = regions[p][i]
  BY <1>5, <1>10
<1>15. RegionsSound(rs) /\ (~overlaid' => Ordered(rs))
  <2>1. RegionsSound(rs)
    BY <1>2, <1>13 DEF Inv, VmType
  <2>2. ASSUME ~overlaid' PROVE Ordered(rs)
    <3>1. Apart'
      BY <1>2, <2>2 DEF Inv, RegionsApart
    <3> QED
      BY <1>13, <3>1 DEF Apart, Ordered
  <2> QED
    BY <2>1, <2>2
<1>16. Shape(rs) /\ rs # <<>>
  <2>1. rs \in Seq(RegionType)
    BY <1>15 DEF RegionsSound
  <2>2. Len(rs) = Len(regions[p])
    <3>1. DOMAIN rs = 1..Len(rs) /\ Len(rs) \in Nat
      BY <2>1
    <3> QED
      BY <1>5, <1>14, <3>1
  <2>3. PICK n \in Nat : n = Len(rs)
    BY <2>1
  <2>4. n >= 3 /\ DOMAIN rs = 1..n
    BY <1>5, <1>14, <2>2, <2>3
  <2>5. rs[1] = regions[p][1] /\ rs[n] = regions[p][n]
    BY <1>14, <2>4
  <2>6. \A i \in 3..(n - 1) : rs[i] = regions[p][i]
    BY <1>14, <2>4
  <2>7. /\ regions[p][1] = Region(0, CodePages, "URW", NULL, FALSE)
        /\ regions[p][2].heap /\ regions[p][2].start = CodePages
        /\ regions[p][n] = Region(USTACK_LOWERBOUND, USTACK_UPPERBOUND, "URW", NULL, FALSE)
        /\ \A i \in 3..(n - 1) : regions[p][i].store # NULL /\ regions[p][i].end <= LowEnd
    BY <1>3, <1>4, <2>2, <2>3 DEF Shape
  <2>8. rs[2].heap /\ rs[2].start = CodePages
    BY <1>7, <1>12, <1>14, <2>7
  <2> QED
    BY <2>3, <2>4, <2>5, <2>6, <2>7, <2>8 DEF Shape
<1>17. ASSUME NEW v PROVE v \in SharedOf(rs) <=> v \in SharedOf(regions[p])
  <2>1. \A i \in DOMAIN rs : rs[i].store # NULL => rs[i] = regions[p][i]
    BY <1>5, <1>7, <1>12, <1>14
  <2>2. \A i \in DOMAIN rs : regions[p][i].store # NULL => rs[i] = regions[p][i]
    BY <1>5, <1>14
  <2> QED
    BY <1>14, <2>1, <2>2, PrivateIs
<1>18. ASSUME NEW v \in VPages, pt[p][v] # NULL
       PROVE  v \in PrivateOf(regions[p]) \/ v \in SharedOf(regions[p])
  <2>1. PICK j \in DOMAIN regions[p] : v \in Inside(regions[p][j])
    BY <1>18 DEF LeftBehind
  <2> QED
    BY <2>1, PrivateIs
<1>19. PrivateOf(rs) # {} /\ PrivateOf(rs) \subseteq VPages
  BY <1>15, <1>16, ShapeDom
<1>20. PrivateOf(regions[p]) # {}
  BY <1>1, <1>3, <1>4, ShapeDom
<1>21. Dom[p] = PrivateOf(regions[p]) /\ Dom'[p] = PrivateOf(rs)
  BY <1>13 DEF Dom
<1>22. ASSUME NEW v \in VPages
       PROVE  MemView'[p][v] = IF v \in Dom'[p] THEN MemView[p][v] ELSE 0
  <2>1. MemView'[p][v] = IF pt[p][v] # NULL /\ v \in PrivateOf(rs) \ SharedOf(rs)
                         THEN content[pt[p][v].f] ELSE 0
    BY <1>3, <1>13 DEF MemView
  <2>2. MemView[p][v] = IF pt[p][v] # NULL /\ v \in PrivateOf(regions[p])
                        THEN content[pt[p][v].f] ELSE 0
    BY <1>1, MemIs
  <2>3. v \in PrivateOf(regions[p]) => v \notin SharedOf(regions[p])
    BY <1>1, PrivateShared
  <2> QED
    BY <1>17, <1>18, <1>21, <2>1, <2>2, <2>3
<1>23. ASSUME NEW q \in Procs \ {p} PROVE RowKept(q)
  <2>1. regions'[q] = regions[q] /\ pt'[q] = pt[q]
    BY <1>3, <1>13
  <2> QED
    BY <1>3, <2>1, SameRegions
<1>24. OthersKept(p)
  BY <1>23, OthersIs
<1>25. StoreView' = StoreView
  BY <1>3 DEF StoreView
<1>26. AbsNext
  BY <1>19, <1>20, <1>21, <1>22, <1>24, <1>25, ResizeStep
<1>27. ASSUME ~overlaid' PROVE Extra'
  <2>1. KnownOnly
    <3> SUFFICES ASSUME NEW q \in Procs, NEW w \in PrivateOf(regions'[q]), pt'[q][w] # NULL
                 PROVE  Known(pt'[q][w].f)
      BY DEF KnownOnly
    <3>1. pt'[q][w] = pt[q][w]
      BY <1>3
    <3>2. w \in PrivateOf(regions[q])
      <4>1. CASE q = p
        <5>1. w \in PrivateOf(rs) /\ w \in VPages
          BY <1>13, <1>19, <4>1
        <5>2. w \notin SharedOf(rs)
          BY <1>15, <1>27, <5>1, PrivateShared
        <5> QED
          BY <1>17, <1>18, <3>1, <4>1, <5>1, <5>2
      <4>2. CASE q # p
        BY <1>13, <4>2
      <4> QED
        BY <4>1, <4>2
    <3> QED
      BY <3>1, <3>2 DEF Known
  <2>2. \A q \in Procs : Shape(regions'[q])
    BY <1>13, <1>16 DEF Extra
  <2>3. Zeroed'
    BY <1>3 DEF Extra, Zeroed
  <2> QED
    BY <1>3, <2>1, <2>2, <2>3, KnownIs DEF Extra
<1> QED
  BY <1>26, <1>27

LEMMA StepView ==
  ASSUME Good, Extra, ~panicked, NEW p \in Procs, Step(p)
  PROVE  (~overlaid' => Extra') /\ AbsNext
<1>1. CASE AfterCOW(p)
  BY <1>1, AfterCOWView
<1>2. CASE handleCOW(p) /\ UNCHANGED overlaid
  BY <1>2, HandleCOWView
<1>3. CASE CowDrop(p) /\ UNCHANGED overlaid
  BY <1>3, CowDropView
<1>4. CASE CowUnlock(p) /\ UNCHANGED overlaid
  <2>1. UNCHANGED <<regions, pt, refcnt, content, cached>>
    BY <1>4 DEF CowUnlock
  <2> QED
    BY <2>1, QuietView
<1> QED
  BY <1>1, <1>2, <1>3, <1>4 DEF Step

LEMMA CallView ==
  ASSUME Good, Extra, StackSpared, \A q \in Procs : ~LeftBehind(q), NEW p \in Procs, Call(p),
         UNCHANGED overlaid
  PROVE  Extra' /\ AbsNext
<1>1. CASE proc_spawn(p)
  <2>1. ~LeftBehind(p)
    OBVIOUS
  <2> QED
    BY <1>1, <2>1, SpawnView
<1>2. CASE proc_exit(p)
  <2>1. pc[p] \in {"run", "setup"} /\ as_destroy(p)
    BY <1>2 DEF proc_exit
  <2>2. overlaid' \in BOOLEAN
    BY GoodIs DEF VmType
  <2> QED
    BY <2>1, <2>2, DestroyView
<1>3. CASE proc_forkFails(p)
  BY <1>3, ForkFailsView
<1>4. CASE \E q \in Procs \ {p} : proc_fork(p, q)
  BY <1>4, ForkView
<1>5. CASE \E s \in Stores : as_map_memregion(p, s)
  BY <1>5, MapView
<1>6. CASE \E i \in DOMAIN regions[p] : memregion_unmap(p, i)
  BY <1>6, UnmapView
<1> QED
  BY <1>1, <1>2, <1>3, <1>4, <1>5, <1>6 DEF Call

LEMMA AccessView ==
  ASSUME Good, Extra, NEW p \in Procs, ~LeftBehind(p), Access(p), UNCHANGED overlaid
  PROVE  Extra' /\ AbsNext
<1>1. PICK v \in Touched : \/ \E x \in Vals : Write(p, v, x)
                           \/ \E write, user \in BOOLEAN : Fault(p, v, write, user)
  BY DEF Access
<1>2. v \in VPages
  BY VmAssumption DEF VPages
<1>3. CASE \E x \in Vals : Write(p, v, x)
  <2>1. PICK x \in Vals : Write(p, v, x)
    BY <1>3
  <2> QED
    BY <1>2, <2>1, WriteView
<1>4. CASE \E write, user \in BOOLEAN : Fault(p, v, write, user)
  <2>1. PICK write \in BOOLEAN, user \in BOOLEAN : Fault(p, v, write, user)
    BY <1>4
  <2> QED
    BY <1>2, <2>1, FaultView
<1> QED
  BY <1>1, <1>3, <1>4

LEMMA NextView ==
  ASSUME StackSpared, Inv, ~overlaid => Extra, [Next]_vars
  PROVE  (~overlaid' => Extra') /\ AbsNext
<1>1. CASE Next
  <2>1. ~panicked /\ ~overlaid /\ \A q \in Procs : ~LeftBehind(q)
    BY <1>1 DEF Next
  <2>2. Good /\ Extra
    BY <2>1, InvGood
  <2>3. PICK p \in Procs : \/ Step(p)
                           \/ (Call(p) \/ Access(p)) /\ UNCHANGED overlaid
                           \/ \E size \in SbrkSizes : memregion_extend(p, size)
    BY <1>1 DEF Next
  <2>4. CASE Step(p)
    BY <2>1, <2>2, <2>4, StepView
  <2>5. CASE Call(p) /\ UNCHANGED overlaid
    BY <2>1, <2>2, <2>5, CallView
  <2>6. CASE Access(p) /\ UNCHANGED overlaid
    BY <2>1, <2>2, <2>6, AccessView
  <2>7. CASE \E size \in SbrkSizes : memregion_extend(p, size)
    BY <2>1, <2>2, <2>7, ExtendView
  <2> QED
    BY <2>3, <2>4, <2>5, <2>6, <2>7
<1>2. CASE UNCHANGED vars
  <2>1. UNCHANGED <<regions, pt, refcnt, content, cached, overlaid>>
    BY <1>2 DEF vars
  <2>2. Dom' = Dom /\ MemView' = MemView /\ StoreView' = StoreView
    BY <2>1 DEF Dom, MemView, StoreView
  <2>3. ~overlaid' => Extra'
    BY <2>1 DEF Extra, Zeroed, CachedOnce, NotCached
  <2> QED
    BY <2>2, <2>3 DEF AbsNext
<1> QED
  BY <1>1, <1>2

LEMMA InitView == Init => Extra /\ Memory!Init
<1> SUFFICES ASSUME Init PROVE Extra /\ Memory!Init
  OBVIOUS
<1>1. \A p \in Procs : regions[p] = <<>>
  BY DEF Init
<1>2. Extra
  <2>1. Zeroed
    BY DEF Init, Zeroed
  <2>2. CachedOnce
    BY DEF Init, CachedOnce
  <2>3. NotCached
    BY <1>1, NoRegions DEF NotCached
  <2>4. \A p \in Procs : Shape(regions[p])
    BY <1>1 DEF Shape
  <2> QED
    BY <2>1, <2>2, <2>3, <2>4 DEF Extra
<1>3. \A p \in Procs : Dom[p] = {} /\ MemView[p] = Memory!Zeros
  BY <1>1, ZerosIs
<1>4. Dom = [p \in Procs |-> {}] /\ MemView = [p \in Procs |-> Memory!Zeros]
  BY <1>3 DEF Dom, MemView
<1>5. StoreView = [o \in SharedPages |-> 0]
  BY DEF Init, StoreView
<1> QED
  BY <1>2, <1>4, <1>5 DEF Memory!Init, Dom

(* Refinement: where the stack is in no page table that an unmapping       *)
(* reaches, a process sees what it last wrote, zeros where it never wrote, *)
(* and after a fork what its parent had written by then, and a shared page *)
(* is one memory for all, whatever the order in which proc_fork shares     *)
(* frames read-only, handleCOW copies them or gives them to their last     *)
(* user, setup_page and handleSharedRegion page in, and memregion_unmap,   *)
(* sbrk and exits take pages away.                                         *)
THEOREM Refinement == StackSpared => (Spec => Implements)
<1> SUFFICES ASSUME StackSpared PROVE Spec => Implements
  OBVIOUS
<1>1. Init => (~overlaid => Extra) /\ Memory!Init
  BY InitView
<1>2. Inv /\ (~overlaid => Extra) /\ [Next]_vars
        => (~overlaid => Extra)' /\ AbsNext
  BY NextView
<1>3. Spec => []Inv
  BY Invariance
<1>4. AbsNext => [Memory!Next]_<<[p \in Procs |-> PrivateOf(regions[p])], MemView, StoreView>>
  BY DEF AbsNext, Dom
<1> QED
  BY <1>1, <1>2, <1>3, <1>4, PTL DEF Spec, Implements, Memory!Spec

=============================================================================
