----------------------------- MODULE VfsProofs ------------------------------
(***************************************************************************)
(* Proofs about Vfs: what the calls keep in hand and in the directories    *)
(* stays counted, and who waits for whom.                                  *)
(***************************************************************************)
EXTENDS Vfs, FiniteSetTheorems, SequenceTheorems, NaturalsInduction, TLAPS

-----------------------------------------------------------------------------
(* The inductive invariant *)

Ind(x, i) == IF x = i THEN 1 ELSE 0

Ops == {"none", "open", "creat", "chdir", "link", "linkat", "unlink", "mkdir", "rmdir"}

(* Where a call works in a directory, where it holds the directory's lock, *)
(* and where the entry it has found there is still to be used.             *)
Looked == {"enter", "opened", "rmlock"}
Locked == Looked \cup {"rmput"}
InDir  == Locked \cup {"find", "read", "take", "hold", "open", "rm", "mk", "linksrc", "linkdir"}

PathType == [abs : BOOLEAN, names : Seq(Names)]
EntryType == [inum : 0..NInodes, name : Names]

CallType ==
  [op : Ops, pc : InDir \cup {"idle", "walk", "release", "found"},
   curr : 0..NInodes, rest : Seq(Names), ino : 0..NInodes, src : 0..NInodes,
   slot : 0..NSlots, inum : 0..NInodes, path2 : PathType, drop : Seq(INums),
   ret : {"idle", "walk", "found"}]

(* Which call is where. *)
OpSound(r) ==
  /\ r.pc \in {"find", "read", "take", "hold", "found"} => r.op \in {"chdir", "link"}
  /\ r.pc \in {"open", "opened"} => r.op \in {"open", "creat"}
  /\ r.pc \in {"rm", "rmlock", "rmput"} => r.op \in {"unlink", "rmdir"}
  /\ r.pc = "mk" => r.op = "mkdir"
  /\ r.pc \in {"linksrc", "linkdir"} => r.op = "linkat"
  /\ r.pc \in {"walk", "enter"} => r.op # "none"
  /\ r.pc = "idle" => r.op = "none"
  /\ r.pc = "release" => /\ r.ret = "walk" => r.op # "none"
                         /\ r.ret = "found" => r.op \in {"chdir", "link"}
                         /\ r.ret = "idle" => r.op = "none"

(* What a call has in hand, by where it is. *)
Shape(r) ==
  /\ OpSound(r)
  /\ r.curr # NONE <=> r.pc \in InDir \cup {"walk"} \/ (r.pc = "release" /\ r.ret = "walk")
  /\ r.ino # NONE <=> r.pc \in Locked \cup {"hold", "found"}
                      \/ (r.pc = "release" /\ r.ret = "found")
  /\ r.src # NONE <=> r.op = "linkat"
  /\ Len(r.drop) \in 0..2 /\ (r.drop # <<>> <=> r.pc = "release")
  /\ r.pc # "release" => r.ret = "idle"
  /\ r.ret = "walk" => Len(r.drop) = 1
  /\ r.pc = "read" => r.slot # 0
  /\ r.pc = "take" => r.inum # NONE
  /\ r.pc \in Looked \cup {"linkdir"} => r.rest # <<>>

(* The inode whose lock a call holds. *)
HeldLock(r) == IF r.pc \in Locked THEN r.curr ELSE IF r.pc = "linkdir" THEN r.src ELSE NONE

(* Only a thread without an open file opens one. *)
CallsSound ==
  /\ th \in [Threads -> CallType]
  /\ \A t \in Threads : Shape(th[t])
  /\ \A t \in Threads : th[t].op \in {"open", "creat"} => file[t] = NONE

LocksSound ==
  /\ lock \in [INums -> Threads \cup {Nobody}]
  /\ \A t \in Threads, i \in INums : lock[i] = t <=> HeldLock(th[t]) = i

(* The inodes in a thread's hands; it never has more than two to drop. *)
First(s)  == IF Len(s) >= 1 THEN s[1] ELSE NONE
Second(s) == IF Len(s) >= 2 THEN s[2] ELSE NONE

Kept(t) ==
  {th[t].curr, th[t].ino, th[t].src, cwd[t], file[t],
   First(th[t].drop), Second(th[t].drop)} \ {NONE}

(* They exist, and so does an inode whose number was read; a walk is in a  *)
(* directory, and link has a file that is loaded.                          *)
InHand(t) ==
  /\ \A i \in Kept(t) : ftype[i] # "free"
  /\ th[t].pc = "take" => ftype[th[t].inum] # "free"
  /\ th[t].pc \in InDir => ftype[th[t].curr] = "dir"
  /\ th[t].src # NONE => ftype[th[t].src] = "file" /\ valid[th[t].src]
  /\ th[t].pc \in {"found", "release"} /\ th[t].ino # NONE /\ ftype[th[t].ino] = "file"
       => valid[th[t].ino]

(* An entry that was looked up under the directory's lock is still there,  *)
(* and still the first of its name for the removal.                        *)
EntryFound(t) ==
  th[t].pc \in Looked =>
    \E s \in Slots :
      /\ dirents[th[t].curr][s] = [inum |-> th[t].ino, name |-> Leaf(th[t])]
      /\ th[t].pc = "rmlock" => s = Min(Matches(th[t].curr, Leaf(th[t])))

(* So is a file that is open. *)
FileLoaded(t) == file[t] # NONE /\ ftype[file[t]] = "file" => valid[file[t]]

PlacesSound ==
  /\ cwd \in [Threads -> INums] /\ file \in [Threads -> 0..NInodes]
  /\ \A t \in Threads : InHand(t) /\ EntryFound(t) /\ FileLoaded(t)

Entries(i) == {e \in INums \X Slots : dirents[e[1]][e[2]].inum = i}

(* The disk: entries are in directories and lead to inodes, which count    *)
(* them; and no two directories are in each other.                         *)
DiskSound ==
  /\ ftype \in [INums -> {"free", "file", "dir"}] /\ ftype[SFS_ROOT_INUM] = "dir"
  /\ dirents \in [INums -> [Slots -> EntryType]]
  /\ dnlink \in [INums -> Nat]
  /\ \A i \in INums : dnlink[i] = Cardinality(Entries(i)) + Ind(SFS_ROOT_INUM, i)
  /\ \A d \in INums, s \in Slots : dirents[d][s].inum # NONE =>
       ftype[d] = "dir" /\ ftype[dirents[d][s].inum] # "free"
  /\ \A d, i \in INums, s, z \in Slots :
       ~(dirents[d][s].inum = i /\ dirents[i][z].inum = d)

EntriesUnique ==
  \A d \in INums, s, z \in Slots :
    /\ dirents[d][s].inum # NONE /\ dirents[d][z].inum # NONE
    /\ dirents[d][s].name = dirents[d][z].name
    => s = z \/ Shared(dirents[d][s].name)

CacheSound ==
  /\ ref \in [INums -> Nat] /\ nlink \in [INums -> Nat] /\ valid \in [INums -> BOOLEAN]
  /\ \A i \in INums : valid[i] => nlink[i] = dnlink[i] /\ ftype[i] # "free"

RefsCounted == \A i \in INums : ref[i] = Holders(i)

(* What is on the list of the cleanup thread is there once, and what has   *)
(* to get there is in the cache.                                           *)
Unlinks ==
  /\ cleanup \in Seq(INums) /\ dirty \subseteq INums
  /\ \A k \in DOMAIN cleanup : valid[cleanup[k]] /\ ref[cleanup[k]] > 0
  /\ \A k, m \in DOMAIN cleanup : cleanup[k] = cleanup[m] => k = m
  /\ \A i \in INums : Unsettled(i) => valid[i] /\ ref[i] > 0

(* A directory and the inode a thread has taken out of it: the inode is    *)
(* not above the directory, for another thread either.                     *)
Apart ==
  \A t \in Threads : th[t].pc = "rmput" =>
    /\ th[t].curr # th[t].ino
    /\ \A s \in Slots : dirents[th[t].ino][s].inum # th[t].curr
    /\ \A u \in Threads : th[u].pc = "rmput" =>
         th[u].curr # th[t].ino \/ th[u].ino # th[t].curr

Inv ==
  /\ CallsSound /\ LocksSound /\ PlacesSound
  /\ DiskSound /\ EntriesUnique /\ CacheSound
  /\ RefsCounted /\ Unlinks /\ Apart

(* While memory lasts Inv holds, and of the end of the behaviour what the  *)
(* properties say.                                                         *)
IInv ==
  /\ ended \in BOOLEAN
  /\ ~ended => Inv
  /\ ended => TypeOK /\ LinksExact /\ CleanupSound /\ CycleHasLink

-----------------------------------------------------------------------------
(* Counting *)

(* A nonempty set of naturals has a least element. *)
LEMMA MinIn ==
  ASSUME NEW S, S \subseteq Nat, S # {}
  PROVE  Min(S) \in S
<1>1. PICK x \in S : \A y \in S : ~(<<y, x>> \in OpToRel(<, Nat))
  BY NatLessThanWellFounded, WFMin
<1>2. \A y \in S : x <= y
  <2> TAKE y \in S
  <2>1. x \in Nat /\ y \in Nat
    OBVIOUS
  <2>2. ~(y < x)
    BY <1>1, <2>1 DEF OpToRel
  <2> QED
    BY <2>1, <2>2
<1> QED
  BY <1>2 DEF Min

(* How often i is among the first n elements of s. *)
Upto(s, i, n) == Cardinality({k \in 1..n : s[k] = i})

(* One place more adds one or nothing to a count. *)
LEMMA CountNext ==
  ASSUME NEW s, NEW n \in Nat, NEW i
  PROVE  Upto(s, i, n) \in Nat /\ Upto(s, i, n + 1) = Upto(s, i, n) + Ind(s[n + 1], i)
<1> DEFINE A == {k \in 1..n : s[k] = i}
           B == {k \in 1..(n + 1) : s[k] = i}
<1>1. IsFiniteSet(1..n) /\ A \in SUBSET (1..n)
  BY FS_Interval
<1>2. IsFiniteSet(A) /\ Cardinality(A) \in Nat
  BY <1>1, FS_Subset, FS_CardinalityType
<1>3. CASE s[n + 1] = i
  <2>1. B = A \cup {n + 1} /\ n + 1 \notin A
    BY <1>3
  <2> QED
    BY <1>2, <1>3, <2>1, FS_AddElement DEF Ind, Upto
<1>4. CASE s[n + 1] # i
  <2>1. B = A
    BY <1>4
  <2> QED
    BY <1>2, <1>4, <2>1 DEF Ind, Upto
<1> QED
  BY <1>3, <1>4

LEMMA CountNone ==
  ASSUME NEW s, NEW i
  PROVE  Upto(s, i, 0) = 0
<1>1. {k \in 1..0 : s[k] = i} = {}
  OBVIOUS
<1> QED
  BY <1>1, FS_EmptySet DEF Upto

(* How often an inode is among a thread's places. *)
Weight(c, n, s, w, f, d, i) ==
  Ind(c, i) + Ind(n, i) + Ind(s, i) + Ind(w, i) + Ind(f, i) + Ind(First(d), i) + Ind(Second(d), i)

LEMMA CountPlaces ==
  ASSUME NEW c, NEW n, NEW s, NEW w, NEW f,
         NEW d \in Seq(INums), Len(d) \in 0..2, NEW i \in INums
  PROVE  /\ Count(i, <<c, n, s, w, f>> \o d) = Weight(c, n, s, w, f, d, i)
         /\ IsFiniteSet(DOMAIN (<<c, n, s, w, f>> \o d))
         /\ Count(i, <<c, n, s, w, f>> \o d) \in Nat
<1>p. PICK p : p = <<c, n, s, w, f>> \o d
  OBVIOUS
<1> DEFINE C(m) == Upto(p, i, m)
           L == Len(d)
<1>1. L \in 0..2
  OBVIOUS
<1>2. /\ Len(p) = 5 + L /\ DOMAIN p = 1..(5 + L)
      /\ p[1] = c /\ p[2] = n /\ p[3] = s /\ p[4] = w /\ p[5] = f
      /\ L >= 1 => p[6] = d[1]
      /\ L >= 2 => p[7] = d[2]
  BY <1>1, <1>p
<1>3. Count(i, p) = C(5 + L)
  BY <1>2 DEF Count, Upto
<1>4. C(0) = 0
  BY CountNone
<1>5. C(1) = C(0) + Ind(p[1], i) /\ C(2) = C(1) + Ind(p[2], i)
      /\ C(3) = C(2) + Ind(p[3], i) /\ C(4) = C(3) + Ind(p[4], i)
      /\ C(5) = C(4) + Ind(p[5], i)
  <2>1. C(0 + 1) = C(0) + Ind(p[0 + 1], i)
    BY CountNext
  <2>2. C(1 + 1) = C(1) + Ind(p[1 + 1], i)
    BY CountNext
  <2>3. C(2 + 1) = C(2) + Ind(p[2 + 1], i)
    BY CountNext
  <2>4. C(3 + 1) = C(3) + Ind(p[3 + 1], i)
    BY CountNext
  <2>5. C(4 + 1) = C(4) + Ind(p[4 + 1], i)
    BY CountNext
  <2> HIDE DEF C
  <2> QED
    BY <2>1, <2>2, <2>3, <2>4, <2>5
<1>6. C(6) = C(5) + Ind(p[6], i) /\ C(7) = C(6) + Ind(p[7], i)
  <2>1. C(5 + 1) = C(5) + Ind(p[5 + 1], i)
    BY CountNext
  <2>2. C(6 + 1) = C(6) + Ind(p[6 + 1], i)
    BY CountNext
  <2> HIDE DEF C
  <2> QED
    BY <2>1, <2>2
<1>7. IsFiniteSet(DOMAIN p)
  BY <1>1, <1>2, FS_Interval
<1> HIDE DEF C
<1>8. C(5) = Ind(c, i) + Ind(n, i) + Ind(s, i) + Ind(w, i) + Ind(f, i)
  <2>1. \A x : Ind(x, i) \in Nat
    BY DEF Ind
  <2>2. C(2) = Ind(c, i) + Ind(n, i)
    BY <1>2, <1>4, <1>5, <2>1
  <2>3. C(3) = Ind(c, i) + Ind(n, i) + Ind(s, i)
    BY <1>2, <1>5, <2>1, <2>2
  <2> QED
    BY <1>2, <1>5, <2>1, <2>3
<1>9. Count(i, p) = Weight(c, n, s, w, f, d, i)
  <2>1. CASE L = 0
    <3>1. First(d) = 0 /\ Second(d) = 0 /\ i # 0
      BY <2>1 DEF First, Second, NONE, INums
    <3> QED
      BY <1>3, <1>8, <2>1, <3>1 DEF Weight, Ind
  <2>2. CASE L = 1
    <3>1. First(d) = p[6] /\ Second(d) = 0 /\ i # 0
      BY <1>2, <2>2 DEF First, Second, NONE, INums
    <3>2. C(5 + L) = C(6)
      BY <2>2
    <3> QED
      BY <1>3, <1>6, <1>8, <3>2, <3>1 DEF Weight, Ind
  <2>3. CASE L = 2
    <3>1. First(d) = p[6] /\ Second(d) = p[7]
      BY <1>2, <2>3 DEF First, Second
    <3>2. C(5 + L) = C(7)
      BY <2>3
    <3> QED
      BY <1>3, <1>6, <1>8, <3>2, <3>1 DEF Weight, Ind
  <2> QED
    BY <1>1, <2>1, <2>2, <2>3
<1> QED
  BY <1>p, <1>7, <1>9 DEF Weight, Ind

LEMMA CountAppend ==
  ASSUME NEW s \in Seq(INums), NEW j \in INums, NEW i
  PROVE  /\ Count(i, s) \in Nat
         /\ Count(i, Append(s, j)) = Count(i, s) + Ind(j, i)
<1>a. PICK a, n : a = Append(s, j) /\ n = Len(s)
  OBVIOUS
<1>1. n \in Nat /\ DOMAIN s = 1..n /\ DOMAIN a = 1..(n + 1) /\ a[n + 1] = j
      /\ \A k \in 1..n : a[k] = s[k]
  BY <1>a
<1>2. Upto(a, i, n) = Upto(s, i, n)
  <2>1. {k \in 1..n : a[k] = i} = {k \in 1..n : s[k] = i}
    BY <1>1
  <2> QED
    BY <2>1 DEF Upto
<1>n. n \in Nat
  BY <1>1
<1>3. Upto(a, i, n) \in Nat /\ Upto(a, i, n + 1) = Upto(a, i, n) + Ind(a[n + 1], i)
  BY <1>n, CountNext
<1>4. Count(i, s) = Upto(s, i, n) /\ Count(i, a) = Upto(a, i, n + 1)
  BY <1>1 DEF Count, Upto
<1> QED
  BY <1>a, <1>1, <1>2, <1>3, <1>4

(* What is in a sequence counts. *)
LEMMA CountIn ==
  ASSUME NEW s \in Seq(INums), NEW k \in DOMAIN s
  PROVE  Count(s[k], s) \in Nat /\ Count(s[k], s) >= 1
<1> DEFINE A == {j \in DOMAIN s : s[j] = s[k]}
<1>1. IsFiniteSet(DOMAIN s)
  BY FS_Interval
<1>2. A \in SUBSET DOMAIN s /\ k \in A
  OBVIOUS
<1>3. IsFiniteSet(A) /\ Cardinality(A) \in Nat /\ Cardinality(A) # 0
  BY <1>1, <1>2, FS_Subset, FS_CardinalityType, FS_EmptySet
<1> QED
  BY <1>3 DEF Count

(* The places of the threads in T that hold i; P has the places of each. *)
Tokens(P, T, i) == UNION {{u} \X {k \in DOMAIN P[u] : P[u][k] = i} : u \in T}

LEMMA TokensFinite ==
  ASSUME NEW P, NEW T, NEW i, IsFiniteSet(T), \A u \in T : IsFiniteSet(DOMAIN P[u])
  PROVE  IsFiniteSet(Tokens(P, T, i)) /\ Cardinality(Tokens(P, T, i)) \in Nat
<1> DEFINE Own(u) == {u} \X {k \in DOMAIN P[u] : P[u][k] = i}
           F == {Own(u) : u \in T}
<1>1. IsFiniteSet(F)
  <2> DEFINE f == [u \in T |-> Own(u)]
  <2>1. f \in Surjection(T, F)
    BY DEF Surjection
  <2> QED
    BY <2>1, FS_Surjection
<1>2. \A u \in T : IsFiniteSet(Own(u))
  <2> TAKE u \in T
  <2>1. IsFiniteSet({k \in DOMAIN P[u] : P[u][k] = i})
    BY FS_Subset
  <2>2. IsFiniteSet({u})
    BY FS_Singleton
  <2> QED
    BY <2>1, <2>2, FS_Product
<1>3. \A A \in F : IsFiniteSet(A)
  BY <1>2
<1>4. IsFiniteSet(UNION F)
  BY <1>1, <1>3, FS_UNION
<1>5. Tokens(P, T, i) = UNION F
  BY DEF Tokens
<1> QED
  BY <1>4, <1>5, FS_CardinalityType

(* The tokens of one thread apart from those of the others. *)
LEMMA Split ==
  ASSUME NEW P, NEW T, NEW t \in T, NEW i,
         IsFiniteSet(T), \A u \in T : IsFiniteSet(DOMAIN P[u])
  PROVE  /\ Count(i, P[t]) \in Nat
         /\ Cardinality(Tokens(P, T \ {t}, i)) \in Nat
         /\ Cardinality(Tokens(P, T, i)) = Cardinality(Tokens(P, T \ {t}, i)) + Count(i, P[t])
<1> DEFINE K == {k \in DOMAIN P[t] : P[t][k] = i}
           A == Tokens(P, T \ {t}, i)
           B == {t} \X K
<1>1. IsFiniteSet(T \ {t}) /\ \A u \in T \ {t} : IsFiniteSet(DOMAIN P[u])
  BY FS_RemoveElement
<1>2. IsFiniteSet(A) /\ Cardinality(A) \in Nat
  BY <1>1, TokensFinite
<1>3. IsFiniteSet(K) /\ Cardinality(K) \in Nat
  BY FS_Subset, FS_CardinalityType
<1>4. IsFiniteSet(B) /\ Cardinality(B) = Cardinality(K)
  <2>1. IsFiniteSet({t}) /\ Cardinality({t}) = 1
    BY FS_Singleton
  <2>2. IsFiniteSet(B) /\ Cardinality(B) = 1 * Cardinality(K)
    BY <1>3, <2>1, FS_Product
  <2> QED
    BY <1>3, <2>2
<1>5. Tokens(P, T, i) = A \cup B
  <2> DEFINE Own(u) == {u} \X {k \in DOMAIN P[u] : P[u][k] = i}
  <2>1. \A e : e \in Tokens(P, T, i) <=> \E u \in T : e \in Own(u)
    BY DEF Tokens
  <2>2. \A e : e \in A <=> \E u \in T \ {t} : e \in Own(u)
    BY DEF Tokens
  <2>3. \A e : e \in B <=> e \in Own(t)
    OBVIOUS
  <2> HIDE DEF A, B, Own
  <2>4. \A e : e \in Tokens(P, T, i) <=> e \in A \/ e \in B
    BY <2>1, <2>2, <2>3
  <2> QED
    BY <2>4
<1>6. A \cap B = {}
  BY DEF Tokens
<1>7. Cardinality(A \cup B) = Cardinality(A) + Cardinality(B) - Cardinality(A \cap B)
  BY <1>2, <1>4, FS_Union
<1>8. Cardinality(A \cap B) = 0
  BY <1>6, FS_EmptySet
<1>9. Count(i, P[t]) = Cardinality(K)
  BY DEF Count
<1> HIDE DEF A, B, K
<1> QED
  BY <1>2, <1>3, <1>4, <1>5, <1>7, <1>8, <1>9 DEF A

(* A token of a thread that counts is one of all. *)
LEMMA TwoHold ==
  ASSUME NEW P, NEW T, NEW t \in T, NEW u \in T, t # u, NEW i,
         IsFiniteSet(T), \A v \in T : IsFiniteSet(DOMAIN P[v])
  PROVE  Cardinality(Tokens(P, T, i)) >= Count(i, P[t]) + Count(i, P[u])
<1> DEFINE R == T \ {t}
<1>1. IsFiniteSet(R) /\ \A v \in R : IsFiniteSet(DOMAIN P[v])
  BY FS_RemoveElement
<1>2. u \in R
  OBVIOUS
<1> HIDE DEF R
<1>3. /\ Count(i, P[u]) \in Nat /\ Cardinality(Tokens(P, R \ {u}, i)) \in Nat
      /\ Cardinality(Tokens(P, R, i)) = Cardinality(Tokens(P, R \ {u}, i)) + Count(i, P[u])
  BY <1>1, <1>2, Split
<1>4. /\ Count(i, P[t]) \in Nat
      /\ Cardinality(Tokens(P, T, i)) = Cardinality(Tokens(P, R, i)) + Count(i, P[t])
  BY Split DEF R
<1> QED
  BY <1>3, <1>4

(* The places of each thread, and their inodes *)
AllPlaces == [t \in Threads |-> Places(t)]

PlacesTyped ==
  /\ th \in [Threads -> CallType] /\ \A t \in Threads : Len(th[t].drop) \in 0..2
  /\ cwd \in [Threads -> INums] /\ file \in [Threads -> 0..NInodes]

PlaceWeight(t, i) ==
  Weight(th[t].curr, th[t].ino, th[t].src, cwd[t], file[t], th[t].drop, i)

LEMMA ConstantsTyped ==
  /\ NInodes \in Nat /\ NInodes # 0 /\ NSlots \in Nat /\ NSlots # 0
  /\ INums \subseteq Nat /\ Slots \subseteq Nat /\ NONE \notin INums
  /\ SFS_ROOT_INUM \in INums
  /\ IsFiniteSet(Threads) /\ Names # {}
BY VfsAssumption DEF INums, Slots, NONE, SFS_ROOT_INUM

LEMMA WeightIs ==
  ASSUME PlacesTyped, NEW t \in Threads, NEW i \in INums
  PROVE  /\ Count(i, Places(t)) = PlaceWeight(t, i) /\ PlaceWeight(t, i) \in Nat
         /\ IsFiniteSet(DOMAIN Places(t))
<1>1. th[t].drop \in Seq(INums) /\ Len(th[t].drop) \in 0..2
  BY ConstantsTyped DEF PlacesTyped, CallType, INums
<1>2. PICK c, n, s, w, f, d :
        /\ c = th[t].curr /\ n = th[t].ino /\ s = th[t].src
        /\ w = cwd[t] /\ f = file[t] /\ d = th[t].drop
  OBVIOUS
<1>3. d \in Seq(INums) /\ Len(d) \in 0..2
  BY <1>1, <1>2
<1>4. /\ Count(i, <<c, n, s, w, f>> \o d) = Weight(c, n, s, w, f, d, i)
      /\ Count(i, <<c, n, s, w, f>> \o d) \in Nat
      /\ IsFiniteSet(DOMAIN (<<c, n, s, w, f>> \o d))
  BY <1>3, CountPlaces, Zenon
<1>5. /\ Places(t) = <<c, n, s, w, f>> \o d
      /\ PlaceWeight(t, i) = Weight(c, n, s, w, f, d, i)
  BY <1>2, Zenon DEF Places, PlaceWeight
<1> QED
  BY <1>4, <1>5, Zenon

LEMMA HoldersAre ==
  ASSUME PlacesTyped, NEW t \in Threads, NEW i \in INums
  PROVE  /\ Cardinality(Tokens(AllPlaces, Threads \ {t}, i)) \in Nat
         /\ Holders(i) = Cardinality(Tokens(AllPlaces, Threads \ {t}, i))
                         + PlaceWeight(t, i) + Count(i, cleanup)
<1>1. \A u \in Threads : AllPlaces[u] = Places(u) /\ IsFiniteSet(DOMAIN AllPlaces[u])
  BY WeightIs DEF AllPlaces
<1>2. Holders(i) = Cardinality(Tokens(AllPlaces, Threads, i)) + Count(i, cleanup)
  <2>1. Tokens(AllPlaces, Threads, i)
          = UNION {{u} \X {k \in DOMAIN Places(u) : Places(u)[k] = i} : u \in Threads}
    BY <1>1 DEF Tokens
  <2> QED
    BY <2>1 DEF Holders
<1>3. IsFiniteSet(Threads)
  BY ConstantsTyped
<1>4. /\ Cardinality(Tokens(AllPlaces, Threads \ {t}, i)) \in Nat
      /\ Cardinality(Tokens(AllPlaces, Threads, i))
           = Cardinality(Tokens(AllPlaces, Threads \ {t}, i)) + Count(i, AllPlaces[t])
  BY <1>1, <1>3, Split
<1>5. Count(i, AllPlaces[t]) = PlaceWeight(t, i)
  BY <1>1, WeightIs
<1> QED
  BY <1>2, <1>4, <1>5

(* Two threads' places and the list are references of their own. *)
LEMMA HoldersAtLeast ==
  ASSUME PlacesTyped, NEW t \in Threads, NEW u \in Threads, t # u, NEW i \in INums,
         Count(i, cleanup) \in Nat
  PROVE  /\ Holders(i) \in Nat
         /\ Holders(i) >= PlaceWeight(t, i) + PlaceWeight(u, i) + Count(i, cleanup)
<1>1. \A v \in Threads : AllPlaces[v] = Places(v) /\ IsFiniteSet(DOMAIN AllPlaces[v])
  BY WeightIs DEF AllPlaces
<1>2. IsFiniteSet(Threads)
  BY ConstantsTyped
<1>3. Cardinality(Tokens(AllPlaces, Threads, i)) >= Count(i, AllPlaces[t]) + Count(i, AllPlaces[u])
  BY <1>1, <1>2, TwoHold
<1>4. Cardinality(Tokens(AllPlaces, Threads, i)) \in Nat
  BY <1>1, <1>2, TokensFinite
<1>5. Holders(i) = Cardinality(Tokens(AllPlaces, Threads, i)) + Count(i, cleanup)
  <2>1. Tokens(AllPlaces, Threads, i)
          = UNION {{v} \X {k \in DOMAIN Places(v) : Places(v)[k] = i} : v \in Threads}
    BY <1>1 DEF Tokens
  <2> QED
    BY <2>1 DEF Holders
<1>6. /\ Count(i, AllPlaces[t]) = PlaceWeight(t, i) /\ PlaceWeight(t, i) \in Nat
      /\ Count(i, AllPlaces[u]) = PlaceWeight(u, i) /\ PlaceWeight(u, i) \in Nat
  BY <1>1, WeightIs
<1> QED
  BY <1>3, <1>4, <1>5, <1>6

(* The same, of the next state *)
HoldersSplit ==
  \A t \in Threads, i \in INums :
    /\ Cardinality(Tokens(AllPlaces, Threads \ {t}, i)) \in Nat /\ PlaceWeight(t, i) \in Nat
    /\ Holders(i) = Cardinality(Tokens(AllPlaces, Threads \ {t}, i))
                    + PlaceWeight(t, i) + Count(i, cleanup)

LEMMA HoldersStated == PlacesTyped => HoldersSplit
BY HoldersAre, WeightIs DEF HoldersSplit

(* When only the places of thread t change, so do the references. *)
LEMMA HoldersMoved ==
  ASSUME PlacesTyped, PlacesTyped', NEW t \in Threads, NEW i \in INums,
         \A u \in Threads \ {t} :
           th'[u] = th[u] /\ cwd'[u] = cwd[u] /\ file'[u] = file[u],
         Holders(i) = ref[i], Count(i, cleanup) \in Nat, Count(i, cleanup)' \in Nat,
         ref[i] \in Int, ref'[i] \in Int,
         ref'[i] + PlaceWeight(t, i) + Count(i, cleanup)
           = ref[i] + PlaceWeight(t, i)' + Count(i, cleanup)'
  PROVE  Holders(i)' = ref'[i]
<1> DEFINE R == Cardinality(Tokens(AllPlaces, Threads \ {t}, i))
<1>1. /\ R \in Nat /\ PlaceWeight(t, i) \in Nat
      /\ Holders(i) = R + PlaceWeight(t, i) + Count(i, cleanup)
  BY HoldersStated DEF HoldersSplit
<1>2. HoldersSplit'
  BY HoldersStated, PTL
<1>3. /\ R' \in Nat /\ PlaceWeight(t, i)' \in Nat
      /\ Holders(i)' = R' + PlaceWeight(t, i)' + Count(i, cleanup)'
  BY <1>2 DEF HoldersSplit
<1>4. \A u \in Threads \ {t} : AllPlaces'[u] = AllPlaces[u]
  BY DEF AllPlaces, Places
<1>5. Tokens(AllPlaces, Threads \ {t}, i)' = Tokens(AllPlaces, Threads \ {t}, i)
  BY <1>4 DEF Tokens
<1>6. R' = R
  BY <1>5
<1> HIDE DEF R
<1>7. PICK w, x, c, d, h, k, a, b :
        /\ w = PlaceWeight(t, i) /\ x = PlaceWeight(t, i)' /\ c = Count(i, cleanup)
        /\ d = Count(i, cleanup)' /\ h = Holders(i) /\ k = Holders(i)'
        /\ a = ref[i] /\ b = ref'[i]
  OBVIOUS
<1>8. /\ R \in Nat /\ w \in Nat /\ x \in Nat /\ c \in Nat /\ d \in Nat
      /\ a \in Int /\ b \in Int /\ h = R + w + c /\ h = a
  BY <1>1, <1>3, <1>7, Zenon
<1>9. k = R + x + d
  BY <1>3, <1>6, <1>7, Zenon
<1>10. b + w + c = a + x + d
  BY <1>7, Zenon
<1>11. k = b
  BY <1>8, <1>9, <1>10
<1> QED
  BY <1>7, <1>11, Zenon

-----------------------------------------------------------------------------
(* The disk *)

(* One entry changes. *)
Put(d, s, e) == dirents' = [dirents EXCEPT ![d][s] = e]

LEMMA PutEntry ==
  ASSUME dirents \in [INums -> [Slots -> EntryType]], NEW d \in INums, NEW s \in Slots,
         NEW e \in EntryType, Put(d, s, e)
  PROVE  /\ dirents' \in [INums -> [Slots -> EntryType]]
         /\ \A a \in INums, b \in Slots :
              dirents'[a][b] = IF a = d /\ b = s THEN e ELSE dirents[a][b]
         /\ \A a \in INums : a # d => dirents'[a] = dirents[a]
BY DEF Put

LEMMA EntriesFinite ==
  ASSUME NEW i
  PROVE  IsFiniteSet(Entries(i)) /\ Cardinality(Entries(i)) \in Nat
<1>1. IsFiniteSet(INums) /\ IsFiniteSet(Slots)
  BY ConstantsTyped, FS_Interval DEF INums, Slots
<1>2. IsFiniteSet(INums \X Slots)
  BY <1>1, FS_Product
<1>3. Entries(i) \in SUBSET (INums \X Slots)
  BY DEF Entries
<1> QED
  BY <1>2, <1>3, FS_Subset, FS_CardinalityType

(* The entries of the inode that was there and of the one that is now *)
LEMMA PutCounts ==
  ASSUME dirents \in [INums -> [Slots -> EntryType]], NEW d \in INums, NEW s \in Slots,
         NEW e \in EntryType, Put(d, s, e), NEW i \in INums
  PROVE  Cardinality(Entries(i)') + Ind(dirents[d][s].inum, i)
           = Cardinality(Entries(i)) + Ind(e.inum, i)
<1> DEFINE A == Entries(i)
           B == Entries(i)'
           x == <<d, s>>
<1>1. x \in INums \X Slots /\ x[1] = d /\ x[2] = s
  OBVIOUS
<1>2. \A y \in INums \X Slots : y # x =>
        dirents'[y[1]][y[2]] = dirents[y[1]][y[2]]
  BY PutEntry
<1>3. dirents'[d][s] = e
  BY PutEntry
<1>4. B = {y \in INums \X Slots : dirents'[y[1]][y[2]].inum = i}
  BY DEF Entries
<1>5. A = {y \in INums \X Slots : dirents[y[1]][y[2]].inum = i}
  BY DEF Entries
<1>6. IsFiniteSet(A) /\ Cardinality(A) \in Nat
  BY EntriesFinite
<1>7. x \in A <=> dirents[d][s].inum = i
  BY <1>1, <1>5
<1>8. x \in B <=> e.inum = i
  BY <1>1, <1>3, <1>4
<1>9. \A y : y # x => (y \in A <=> y \in B)
  BY <1>2, <1>4, <1>5
<1> HIDE DEF A, B, x
<1>10. CASE e.inum = i
  <2>1. B = A \cup {x}
    BY <1>8, <1>9, <1>10
  <2>2. Cardinality(B) = IF x \in A THEN Cardinality(A) ELSE Cardinality(A) + 1
    BY <1>6, <2>1, FS_AddElement
  <2> QED
    BY <1>6, <1>7, <1>10, <2>2 DEF Ind, A, B
<1>11. CASE e.inum # i
  <2>1. B = A \ {x}
    BY <1>8, <1>9, <1>11
  <2>2. Cardinality(B) = IF x \in A THEN Cardinality(A) - 1 ELSE Cardinality(A)
    BY <1>6, <2>1, FS_RemoveElement
  <2> QED
    BY <1>6, <1>7, <1>11, <2>2 DEF Ind, A, B
<1> QED
  BY <1>10, <1>11

(* What an inode has entries for is counted. *)
LEMMA EntryCounts ==
  ASSUME DiskSound, NEW d \in INums, NEW s \in Slots, NEW i \in INums, dirents[d][s].inum = i
  PROVE  dnlink[i] \in Nat /\ dnlink[i] > 0 /\ ftype[d] = "dir" /\ ftype[i] # "free"
<1>1. <<d, s>> \in Entries(i)
  BY DEF Entries
<1>2. Cardinality(Entries(i)) \in Nat /\ Cardinality(Entries(i)) # 0
  BY <1>1, EntriesFinite, FS_EmptySet
<1>3. dnlink[i] = Cardinality(Entries(i)) + Ind(SFS_ROOT_INUM, i)
  BY DEF DiskSound
<1>4. dnlink[i] \in Nat /\ dnlink[i] > 0
  BY <1>2, <1>3 DEF Ind
<1>5. i # NONE
  BY ConstantsTyped
<1> QED
  BY <1>4, <1>5 DEF DiskSound

(* A free inode has no entries, neither in it nor to it. *)
LEMMA FreeAlone ==
  ASSUME DiskSound, NEW i \in INums, ftype[i] = "free"
  PROVE  /\ dnlink[i] = 0 /\ Cardinality(Entries(i)) = 0 /\ i # SFS_ROOT_INUM
         /\ \A s \in Slots : dirents[i][s].inum = NONE
         /\ \A d \in INums, s \in Slots : dirents[d][s].inum # i
<1>1. \A d \in INums, s \in Slots : dirents[d][s].inum # i
  BY EntryCounts
<1>2. Entries(i) = {}
  BY <1>1 DEF Entries
<1>3. i # SFS_ROOT_INUM
  BY DEF DiskSound
<1>4. \A s \in Slots : dirents[i][s].inum = NONE
  BY DEF DiskSound
<1>5. dnlink[i] = Cardinality(Entries(i)) + Ind(SFS_ROOT_INUM, i)
  BY DEF DiskSound
<1> QED
  BY <1>1, <1>2, <1>3, <1>4, <1>5, FS_EmptySet DEF Ind

(* The root has a link that is no entry. *)
LEMMA RootLinked ==
  ASSUME DiskSound
  PROVE  dnlink[SFS_ROOT_INUM] \in Nat /\ dnlink[SFS_ROOT_INUM] > 0
<1>1. Cardinality(Entries(SFS_ROOT_INUM)) \in Nat
  BY EntriesFinite
<1>2. dnlink[SFS_ROOT_INUM] = Cardinality(Entries(SFS_ROOT_INUM)) + Ind(SFS_ROOT_INUM, SFS_ROOT_INUM)
  BY ConstantsTyped DEF DiskSound
<1> QED
  BY <1>1, <1>2 DEF Ind

(* What other threads rely on when t changes the disk: inodes stay what    *)
(* they are, a directory with the lock of another thread keeps its         *)
(* entries, and no entry leads to a directory that was there before.       *)
Grows(t) ==
  /\ \A i \in INums : ftype[i] # "free" => ftype'[i] = ftype[i]
  /\ \A d \in INums : lock[d] \notin {t, Nobody} => dirents'[d] = dirents[d]
  /\ \A d, i \in INums, s \in Slots :
       dirents'[d][s].inum = i => dirents[d][s].inum = i \/ ftype[i] # "dir"

(* An entry for an inode that is no directory and has none in it, or is    *)
(* free as yet                                                             *)
LEMMA PutDisk ==
  ASSUME DiskSound, NEW t \in Threads, NEW d \in INums, NEW s \in Slots, NEW n \in Names,
         NEW i \in INums, ftype[d] = "dir", ftype[i] # "dir", ftype'[i] # "free",
         dirents[d][s].inum = NONE, Put(d, s, [inum |-> i, name |-> n]),
         lock[d] \in {t, Nobody},
         ftype' \in [INums -> {"free", "file", "dir"}],
         \A j \in INums : j # i \/ ftype[i] = "file" => ftype'[j] = ftype[j],
         dnlink' = [dnlink EXCEPT ![i] = dnlink[i] + 1]
  PROVE  DiskSound' /\ Grows(t)
<1> DEFINE e == [inum |-> i, name |-> n]
<1>1. e \in EntryType /\ e.inum = i
  BY DEF EntryType, INums
<1>2. dirents \in [INums -> [Slots -> EntryType]]
  BY DEF DiskSound
<1>3. /\ dirents' \in [INums -> [Slots -> EntryType]]
      /\ \A a \in INums, b \in Slots :
           dirents'[a][b] = IF a = d /\ b = s THEN e ELSE dirents[a][b]
      /\ \A a \in INums : a # d => dirents'[a] = dirents[a]
  BY <1>1, <1>2, PutEntry
<1> HIDE DEF e
<1>4. \A j \in INums : ftype[j] # "free" => ftype'[j] = ftype[j]
  BY DEF DiskSound
<1>5. \A b \in Slots : dirents[i][b].inum = NONE
  BY DEF DiskSound
<1>6. ftype' \in [INums -> {"free", "file", "dir"}] /\ ftype'[SFS_ROOT_INUM] = "dir"
  BY <1>4, ConstantsTyped DEF DiskSound
<1>7. dnlink' \in [INums -> Nat]
  BY DEF DiskSound
<1>8. \A j \in INums : dnlink'[j] = Cardinality(Entries(j)') + Ind(SFS_ROOT_INUM, j)
  <2> TAKE j \in INums
  <2>1. Cardinality(Entries(j)') + Ind(dirents[d][s].inum, j) = Cardinality(Entries(j)) + Ind(e.inum, j)
    BY <1>1, <1>2, PutCounts DEF e
  <2>2. Ind(dirents[d][s].inum, j) = 0
    BY ConstantsTyped DEF Ind
  <2>3. Cardinality(Entries(j)) \in Nat
    BY EntriesFinite
  <2>4. Cardinality(Entries(j)') \in Nat
    <3>1. IsFiniteSet(INums) /\ IsFiniteSet(Slots)
      BY ConstantsTyped, FS_Interval DEF INums, Slots
    <3>2. IsFiniteSet(INums \X Slots)
      BY <3>1, FS_Product
    <3>3. Entries(j)' \in SUBSET (INums \X Slots)
      BY DEF Entries
    <3> QED
      BY <3>2, <3>3, FS_Subset, FS_CardinalityType
  <2>5. dnlink[j] = Cardinality(Entries(j)) + Ind(SFS_ROOT_INUM, j)
    BY DEF DiskSound
  <2>6. Ind(SFS_ROOT_INUM, j) \in Nat
    BY DEF Ind
  <2>7. dnlink'[j] = dnlink[j] + Ind(i, j)
    BY DEF Ind, DiskSound
  <2>8. Ind(i, j) \in Nat
    BY DEF Ind
  <2> QED
    BY <1>1, <2>1, <2>2, <2>3, <2>4, <2>5, <2>6, <2>7, <2>8
<1>9. \A a \in INums, b \in Slots : dirents'[a][b].inum # NONE =>
        ftype'[a] = "dir" /\ ftype'[dirents'[a][b].inum] # "free"
  <2> SUFFICES ASSUME NEW a \in INums, NEW b \in Slots, dirents'[a][b].inum # NONE
               PROVE  ftype'[a] = "dir" /\ ftype'[dirents'[a][b].inum] # "free"
    OBVIOUS
  <2>1. CASE a = d /\ b = s
    <3>1. dirents'[a][b].inum = i
      BY <1>1, <1>3, <2>1
    <3> QED
      BY <1>4, <2>1, <3>1
  <2>2. CASE ~(a = d /\ b = s)
    <3>1. dirents'[a][b] = dirents[a][b]
      BY <1>3, <2>2
    <3>2. dirents[a][b].inum \in INums
      BY <1>2, <3>1 DEF EntryType, INums, NONE
    <3>3. ftype[a] = "dir" /\ ftype[dirents[a][b].inum] # "free"
      BY <3>1 DEF DiskSound
    <3> QED
      BY <1>4, <3>1, <3>2, <3>3
  <2> QED
    BY <2>1, <2>2
<1>10. \A a, j \in INums, b, z \in Slots :
        ~(dirents'[a][b].inum = j /\ dirents'[j][z].inum = a)
  <2> SUFFICES ASSUME NEW a \in INums, NEW j \in INums, NEW b \in Slots, NEW z \in Slots,
                      dirents'[a][b].inum = j, dirents'[j][z].inum = a
               PROVE  FALSE
    OBVIOUS
  <2>1. d # i /\ NONE \notin INums
    BY ConstantsTyped
  <2>2. \A y \in Slots : dirents'[i][y].inum = NONE
    BY <1>3, <1>5, <2>1
  <2>3. a # i /\ j # i
    BY <2>1, <2>2
  <2>4. dirents'[a][b] = dirents[a][b] /\ dirents'[j][z] = dirents[j][z]
    BY <1>1, <1>3, <2>3
  <2> QED
    BY <2>4 DEF DiskSound
<1>11. DiskSound'
  BY <1>3, <1>6, <1>7, <1>8, <1>9, <1>10 DEF DiskSound
<1>12. \A a \in INums : lock[a] \notin {t, Nobody} => dirents'[a] = dirents[a]
  BY <1>3
<1>13. \A a, j \in INums, b \in Slots :
         dirents'[a][b].inum = j => dirents[a][b].inum = j \/ ftype[j] # "dir"
  BY <1>1, <1>3
<1> QED
  BY <1>4, <1>11, <1>12, <1>13 DEF Grows

LEMMA PutUnique ==
  ASSUME DiskSound, EntriesUnique, NEW d \in INums, NEW s \in Slots, NEW n \in Names,
         NEW i \in INums, Shared(n) \/ Matches(d, n) = {},
         Put(d, s, [inum |-> i, name |-> n])
  PROVE  EntriesUnique'
<1> DEFINE e == [inum |-> i, name |-> n]
<1>1. e \in EntryType /\ e.name = n
  BY DEF EntryType, INums
<1>2. \A a \in INums, b \in Slots :
        dirents'[a][b] = IF a = d /\ b = s THEN e ELSE dirents[a][b]
  BY <1>1, PutEntry DEF DiskSound
<1> HIDE DEF e
<1>3. Shared(n) \/ \A b \in Slots : dirents[d][b].inum = NONE \/ dirents[d][b].name # n
  BY DEF Matches
<1> SUFFICES ASSUME NEW a \in INums, NEW b \in Slots, NEW z \in Slots,
                    dirents'[a][b].inum # NONE, dirents'[a][z].inum # NONE,
                    dirents'[a][b].name = dirents'[a][z].name
             PROVE  b = z \/ Shared(dirents'[a][b].name)
  BY DEF EntriesUnique, Shared
<1>4. CASE a = d /\ b = s /\ z # s
  <2>1. dirents'[a][b].name = n /\ dirents'[a][z] = dirents[a][z]
    BY <1>1, <1>2, <1>4
  <2> QED
    BY <1>3, <1>4, <2>1
<1>5. CASE a = d /\ z = s /\ b # s
  <2>1. dirents'[a][z].name = n /\ dirents'[a][b] = dirents[a][b]
    BY <1>1, <1>2, <1>5
  <2>2. dirents'[a][b].name = n
    BY <2>1
  <2> QED
    BY <1>3, <1>5, <2>1, <2>2
<1>6. CASE a # d \/ (b # s /\ z # s)
  <2>1. dirents'[a][b] = dirents[a][b] /\ dirents'[a][z] = dirents[a][z]
    BY <1>2, <1>6
  <2> QED
    BY <2>1 DEF EntriesUnique
<1> QED
  BY <1>4, <1>5, <1>6

(* What is kept of a name is the name, or what is left of a longer one. *)
LEMMA CutIs ==
  ASSUME NEW n \in Names
  PROVE  Cut[n] \in Names /\ (Shared(Cut[n]) \/ Cut[n] = n)
<1>1. Cut[n] \in Names
  BY VfsAssumption
<1> QED
  BY <1>1 DEF Shared

(* alloc_dirent takes a free slot. *)
LEMMA Allocated ==
  ASSUME NEW d \in INums, NEW n \in Names, NEW i \in INums, FreeSlots(d) # {},
         alloc_dirent(d, n, i)
  PROVE  \E s \in Slots : dirents[d][s].inum = NONE /\ Put(d, s, [inum |-> i, name |-> Cut[n]])
<1> DEFINE s == Min(FreeSlots(d))
<1>1. FreeSlots(d) \subseteq Nat
  BY ConstantsTyped DEF FreeSlots
<1>2. s \in FreeSlots(d)
  BY <1>1, MinIn
<1>3. s \in Slots /\ dirents[d][s].inum = NONE
  BY <1>2 DEF FreeSlots
<1>4. Put(d, s, [inum |-> i, name |-> Cut[n]])
  BY DEF Put, alloc_dirent
<1> HIDE DEF s
<1> QED
  BY <1>3, <1>4

(* create_inode_in_dir: an inode that was free, and its entry *)
NewInode(d, n, type) ==
  \E i \in INums :
    /\ i = Min(FreeInodes) /\ ftype[i] = "free" /\ ftype'[i] = type
    /\ ftype' = [ftype EXCEPT ![i] = type]
    /\ dnlink' = [dnlink EXCEPT ![i] = 1]
    /\ \E s \in Slots : dirents'[d][s] = [inum |-> i, name |-> Cut[n]]

LEMMA Created ==
  ASSUME DiskSound, NEW t \in Threads, NEW d \in INums, NEW n \in Names,
         NEW type \in {"file", "dir"}, ftype[d] = "dir", lock[d] \in {t, Nobody},
         CanCreate(d), create_inode_in_dir(d, n, type)
  PROVE  /\ DiskSound' /\ Grows(t)
         /\ EntriesUnique /\ Matches(d, n) = {} => EntriesUnique'
         /\ NewInode(d, n, type)
<1>1. PICK i : i = Min(FreeInodes)
  OBVIOUS
<1>2. i \in INums /\ ftype[i] = "free"
  <2>1. FreeInodes \subseteq Nat /\ FreeInodes # {}
    BY ConstantsTyped DEF FreeInodes, CanCreate
  <2>2. i \in FreeInodes
    BY <1>1, <2>1, MinIn
  <2> QED
    BY <2>2 DEF FreeInodes
<1>3. /\ ftype' = [ftype EXCEPT ![i] = type] /\ dnlink' = [dnlink EXCEPT ![i] = 1]
      /\ alloc_dirent(d, n, i)
  BY <1>1 DEF create_inode_in_dir
<1>m. PICK m \in Names : m = Cut[n] /\ (Shared(m) \/ m = n)
  BY CutIs
<1>4. PICK s \in Slots : dirents[d][s].inum = NONE /\ Put(d, s, [inum |-> i, name |-> m])
  BY <1>2, <1>3, <1>m, Allocated DEF CanCreate
<1>5. dnlink[i] = 0
  BY <1>2, FreeAlone
<1>6. dnlink' = [dnlink EXCEPT ![i] = dnlink[i] + 1]
  BY <1>3, <1>5
<1>7. /\ ftype' \in [INums -> {"free", "file", "dir"}] /\ ftype'[i] = type
      /\ \A j \in INums : j # i \/ ftype[i] = "file" => ftype'[j] = ftype[j]
  BY <1>2, <1>3 DEF DiskSound
<1>8. DiskSound' /\ Grows(t)
  BY <1>2, <1>4, <1>6, <1>7, PutDisk
<1>9. EntriesUnique /\ Matches(d, n) = {} => EntriesUnique'
  BY <1>2, <1>4, <1>m, PutUnique
<1>10. [inum |-> i, name |-> m] \in EntryType
  BY <1>2 DEF EntryType, INums
<1>11. dirents'[d][s] = [inum |-> i, name |-> m]
  BY <1>4, <1>10, PutEntry DEF DiskSound
<1> QED
  BY <1>1, <1>2, <1>3, <1>7, <1>8, <1>9, <1>11, <1>m DEF NewInode

(* A new entry for a file *)
LEMMA Linked ==
  ASSUME DiskSound, NEW t \in Threads, NEW d \in INums, NEW n \in Names, NEW i \in INums,
         ftype[d] = "dir", ftype[i] = "file", lock[d] \in {t, Nobody},
         FreeSlots(d) # {}, alloc_dirent(d, n, i), ftype' = ftype,
         dnlink' = [dnlink EXCEPT ![i] = dnlink[i] + 1]
  PROVE  /\ DiskSound' /\ Grows(t)
         /\ EntriesUnique /\ Matches(d, n) = {} => EntriesUnique'
<1>m. PICK m \in Names : m = Cut[n] /\ (Shared(m) \/ m = n)
  BY CutIs
<1>1. PICK s \in Slots : dirents[d][s].inum = NONE /\ Put(d, s, [inum |-> i, name |-> m])
  BY <1>m, Allocated
<1>2. ftype' \in [INums -> {"free", "file", "dir"}]
  BY DEF DiskSound
<1>3. DiskSound' /\ Grows(t)
  BY <1>1, <1>2, PutDisk
<1>4. EntriesUnique /\ Matches(d, n) = {} => EntriesUnique'
  BY <1>1, <1>m, PutUnique
<1> QED
  BY <1>3, <1>4

(* free_dirent, of the first entry with that name *)
LEMMA Removed ==
  ASSUME DiskSound, EntriesUnique, NEW t \in Threads, NEW d \in INums, NEW n \in Names,
         NEW i \in INums, lock[d] = t, NEW s \in Slots,
         dirents[d][s] = [inum |-> i, name |-> n], s = Min(Matches(d, n)),
         free_dirent(d, n), ftype' = ftype, dnlink' = [dnlink EXCEPT ![i] = dnlink[i] - 1]
  PROVE  DiskSound' /\ Grows(t) /\ EntriesUnique'
<1>1. dirents \in [INums -> [Slots -> EntryType]]
  BY DEF DiskSound
<1>2. dirents[d][s].inum = i /\ dirents[d][s].name = n
  OBVIOUS
<1>6. Put(d, s, NoEntry)
  BY DEF Put, free_dirent
<1>7. NoEntry \in EntryType /\ NoEntry.inum = NONE
  <2>1. (CHOOSE x \in Names : TRUE) \in Names
    BY ConstantsTyped
  <2> QED
    BY <2>1, ConstantsTyped DEF NoEntry, EntryType, NONE
<1>8. /\ dirents' \in [INums -> [Slots -> EntryType]]
      /\ \A a \in INums, b \in Slots :
           dirents'[a][b] = IF a = d /\ b = s THEN NoEntry ELSE dirents[a][b]
      /\ \A a \in INums : a # d => dirents'[a] = dirents[a]
  BY <1>1, <1>6, <1>7, PutEntry
<1>9. dnlink[i] \in Nat /\ dnlink[i] > 0
  BY <1>2, EntryCounts
<1>10. dnlink' \in [INums -> Nat]
  BY <1>9 DEF DiskSound
<1>11. \A j \in INums : dnlink'[j] = Cardinality(Entries(j)') + Ind(SFS_ROOT_INUM, j)
  <2> TAKE j \in INums
  <2>1. Cardinality(Entries(j)') + Ind(dirents[d][s].inum, j)
          = Cardinality(Entries(j)) + Ind(NoEntry.inum, j)
    BY <1>1, <1>6, <1>7, PutCounts
  <2>2. Ind(NoEntry.inum, j) = 0
    BY <1>7, ConstantsTyped DEF Ind
  <2>3. Cardinality(Entries(j)) \in Nat
    BY EntriesFinite
  <2>4. Cardinality(Entries(j)') \in Nat
    <3>1. IsFiniteSet(INums) /\ IsFiniteSet(Slots)
      BY ConstantsTyped, FS_Interval DEF INums, Slots
    <3>2. IsFiniteSet(INums \X Slots)
      BY <3>1, FS_Product
    <3>3. Entries(j)' \in SUBSET (INums \X Slots)
      BY DEF Entries
    <3> QED
      BY <3>2, <3>3, FS_Subset, FS_CardinalityType
  <2>5. dnlink[j] = Cardinality(Entries(j)) + Ind(SFS_ROOT_INUM, j)
    BY DEF DiskSound
  <2>6. Ind(SFS_ROOT_INUM, j) \in Nat /\ Ind(i, j) \in Nat
    BY DEF Ind
  <2>7. dnlink'[j] = dnlink[j] - Ind(i, j)
    BY DEF Ind, DiskSound
  <2> QED
    BY <1>2, <2>1, <2>2, <2>3, <2>4, <2>5, <2>6, <2>7
<1>12. \A a \in INums, b \in Slots : dirents'[a][b].inum # NONE => dirents'[a][b] = dirents[a][b]
  BY <1>7, <1>8
<1>13. DiskSound'
  <2>1. \A a \in INums, b \in Slots : dirents'[a][b].inum # NONE =>
          ftype'[a] = "dir" /\ ftype'[dirents'[a][b].inum] # "free"
    BY <1>12 DEF DiskSound
  <2>2. \A a, j \in INums, b, z \in Slots :
          ~(dirents'[a][b].inum = j /\ dirents'[j][z].inum = a)
    <3> SUFFICES ASSUME NEW a \in INums, NEW j \in INums, NEW b \in Slots, NEW z \in Slots,
                        dirents'[a][b].inum = j, dirents'[j][z].inum = a
                 PROVE  FALSE
      OBVIOUS
    <3>1. dirents'[a][b] = dirents[a][b] /\ dirents'[j][z] = dirents[j][z]
      BY <1>12, ConstantsTyped
    <3> QED
      BY <3>1 DEF DiskSound
  <2>3. ftype' \in [INums -> {"free", "file", "dir"}] /\ ftype'[SFS_ROOT_INUM] = "dir"
    BY DEF DiskSound
  <2> QED
    BY <1>8, <1>10, <1>11, <2>1, <2>2, <2>3 DEF DiskSound
<1>14. Grows(t)
  <2>1. \A a \in INums : lock[a] \notin {t, Nobody} => dirents'[a] = dirents[a]
    BY <1>8
  <2>2. \A a, j \in INums, b \in Slots :
          dirents'[a][b].inum = j => dirents[a][b].inum = j \/ ftype[j] # "dir"
    BY <1>12, ConstantsTyped
  <2> QED
    BY <2>1, <2>2 DEF Grows
<1>15. EntriesUnique'
  BY <1>12 DEF EntriesUnique, Shared
<1> QED
  BY <1>13, <1>14, <1>15

(* No step on the disk *)
LEMMA DiskKept ==
  ASSUME DiskSound, EntriesUnique, NEW t, UNCHANGED disk
  PROVE  DiskSound' /\ Grows(t) /\ EntriesUnique'
<1>1. \A i : Entries(i)' = Entries(i)
  BY DEF Entries, disk
<1> QED
  BY <1>1 DEF DiskSound, Grows, EntriesUnique, Shared, disk

(* search_dir finds an entry of the name. *)
LEMMA Searched ==
  ASSUME DiskSound, NEW d \in INums, NEW n, search_dir(d, n) # NONE
  PROVE  /\ search_dir(d, n) \in INums /\ ftype[search_dir(d, n)] # "free"
         /\ dnlink[search_dir(d, n)] > 0
         /\ \E s \in Slots : /\ dirents[d][s] = [inum |-> search_dir(d, n), name |-> n]
                            /\ s = Min(Matches(d, n))
<1> DEFINE s == Min(Matches(d, n))
<1>1. Matches(d, n) # {}
  BY DEF search_dir
<1>2. Matches(d, n) \subseteq Nat
  BY ConstantsTyped DEF Matches
<1>3. s \in Matches(d, n)
  BY <1>1, <1>2, MinIn
<1>4. search_dir(d, n) = dirents[d][s].inum /\ s = Min(Matches(d, n))
  BY <1>1 DEF search_dir
<1> HIDE DEF s
<1>5. s \in Slots /\ dirents[d][s].name = n
  BY <1>3 DEF Matches
<1>6. dirents[d][s] \in EntryType
  BY <1>5 DEF DiskSound
<1>7. dirents[d][s] = [inum |-> search_dir(d, n), name |-> n]
  BY <1>4, <1>5, <1>6 DEF EntryType
<1>8. search_dir(d, n) \in INums
  BY <1>4, <1>6 DEF EntryType, INums, NONE
<1> QED
  BY <1>4, <1>5, <1>7, <1>8, EntryCounts

LEMMA SearchedNone ==
  ASSUME DiskSound, NEW d \in INums, NEW n, search_dir(d, n) = NONE
  PROVE  Matches(d, n) = {}
<1>1. SUFFICES ASSUME Matches(d, n) # {} PROVE FALSE
  OBVIOUS
<1>2. Matches(d, n) \subseteq Nat
  BY ConstantsTyped DEF Matches
<1>3. Min(Matches(d, n)) \in Matches(d, n)
  BY <1>1, <1>2, MinIn
<1> QED
  BY <1>1, <1>3 DEF search_dir, Matches

-----------------------------------------------------------------------------
(* The threads *)

(* The step of a thread to q *)
Went(t, q) ==
  /\ th' \in [Threads -> CallType] /\ th'[t] = q
  /\ \A u \in Threads \ {t} : th'[u] = th[u]

LEMMA GotoIs ==
  ASSUME th \in [Threads -> CallType], NEW t \in Threads, NEW q \in CallType, Goto(t, q)
  PROVE  Went(t, q)
BY DEF Goto, Went

LEMMA InvTyped ==
  ASSUME Inv
  PROVE  /\ PlacesTyped
         /\ \A t \in Threads :
              /\ th[t] \in CallType /\ Shape(th[t]) /\ InHand(t) /\ EntryFound(t) /\ FileLoaded(t)
              /\ cwd[t] \in INums /\ file[t] \in 0..NInodes
BY DEF Inv, CallsSound, PlacesSound, PlacesTyped, Shape

(* An inode in hand is counted. *)
LEMMA KeptWeighs ==
  ASSUME NEW t \in Threads, NEW i \in INums, i \in Kept(t)
  PROVE  PlaceWeight(t, i) >= 1
<1>1. \A x : Ind(x, i) \in Nat
  BY DEF Ind
<1>2. \/ Ind(th[t].curr, i) = 1 \/ Ind(th[t].ino, i) = 1 \/ Ind(th[t].src, i) = 1
      \/ Ind(cwd[t], i) = 1 \/ Ind(file[t], i) = 1
      \/ Ind(First(th[t].drop), i) = 1 \/ Ind(Second(th[t].drop), i) = 1
  BY DEF Kept, Ind
<1>3. PICK a, b, c, d, e, f, g :
        /\ a = Ind(th[t].curr, i) /\ b = Ind(th[t].ino, i) /\ c = Ind(th[t].src, i)
        /\ d = Ind(cwd[t], i) /\ e = Ind(file[t], i)
        /\ f = Ind(First(th[t].drop), i) /\ g = Ind(Second(th[t].drop), i)
  OBVIOUS
<1>4. a \in Nat /\ b \in Nat /\ c \in Nat /\ d \in Nat /\ e \in Nat /\ f \in Nat /\ g \in Nat
  BY <1>1, <1>3, Zenon
<1>5. a = 1 \/ b = 1 \/ c = 1 \/ d = 1 \/ e = 1 \/ f = 1 \/ g = 1
  BY <1>2, <1>3, Zenon
<1>6. PlaceWeight(t, i) = a + b + c + d + e + f + g
  BY <1>3, Zenon DEF PlaceWeight, Weight
<1> QED
  BY <1>4, <1>5, <1>6

LEMMA CleanupCounts ==
  ASSUME Inv, NEW i
  PROVE  Count(i, cleanup) \in Nat
<1>1. cleanup \in Seq(INums)
  BY DEF Inv, Unlinks
<1>2. \E j : j \in INums
  BY ConstantsTyped
<1> QED
  BY <1>1, <1>2, CountAppend

(* What a thread has is referred to, and once more if it is on the list of *)
(* the cleanup thread.                                                     *)
LEMMA KeptAlive ==
  ASSUME Inv, NEW t \in Threads, NEW i \in INums, i \in Kept(t)
  PROVE  /\ ref[i] \in Nat /\ ref[i] >= 1
         /\ ref[i] = 1 => \A k \in DOMAIN cleanup : cleanup[k] # i
<1>1. PlacesTyped
  BY InvTyped
<1>2. PICK R : R \in Nat /\ Holders(i) = R + PlaceWeight(t, i) + Count(i, cleanup)
  BY <1>1, HoldersAre
<1>3. PlaceWeight(t, i) \in Nat /\ PlaceWeight(t, i) >= 1
  BY <1>1, KeptWeighs, WeightIs
<1>4. Count(i, cleanup) \in Nat
  BY CleanupCounts
<1>5. ref[i] = Holders(i)
  BY DEF Inv, RefsCounted
<1>6. ref[i] \in Nat /\ ref[i] >= 1 /\ ref[i] >= 1 + Count(i, cleanup)
  BY <1>2, <1>3, <1>4, <1>5
<1>7. ASSUME NEW k \in DOMAIN cleanup, cleanup[k] = i, ref[i] = 1
      PROVE  FALSE
  <2>1. cleanup \in Seq(INums) /\ ref[i] = 1
    BY <1>7 DEF Inv, Unlinks
  <2>2. Count(i, cleanup) >= 1
    BY <1>7, <2>1, CountIn
  <2> QED
    BY <1>4, <1>6, <2>1, <2>2
<1> QED
  BY <1>6, <1>7

(* Two threads that have an inode refer to it twice. *)
LEMMA KeptTwice ==
  ASSUME Inv, NEW t \in Threads, NEW u \in Threads, t # u, NEW i \in INums,
         i \in Kept(t), i \in Kept(u)
  PROVE  ref[i] >= 2
<1>1. PlacesTyped
  BY InvTyped
<1>2. /\ PlaceWeight(t, i) \in Nat /\ PlaceWeight(t, i) >= 1
      /\ PlaceWeight(u, i) \in Nat /\ PlaceWeight(u, i) >= 1
  BY <1>1, KeptWeighs, WeightIs
<1>3. Count(i, cleanup) \in Nat
  BY CleanupCounts
<1>4. Holders(i) \in Nat /\ Holders(i) >= PlaceWeight(t, i) + PlaceWeight(u, i) + Count(i, cleanup)
  BY <1>1, <1>3, HoldersAtLeast
<1>5. ref[i] = Holders(i)
  BY DEF Inv, RefsCounted
<1> QED
  BY <1>2, <1>3, <1>4, <1>5

(* The cleanup list is left alone, and what is cached stays so; what a     *)
(* step leaves to be deleted or written is cached.                         *)
LEMMA UnlinksKept ==
  ASSUME Unlinks, cleanup' = cleanup, dirty' \subseteq INums,
         \A i \in INums : valid[i] /\ ref[i] > 0 => valid'[i] /\ ref'[i] > 0,
         \A i \in INums : Unsettled(i)' => Unsettled(i) \/ (valid'[i] /\ ref'[i] > 0)
  PROVE  Unlinks'
<1>1. cleanup \in Seq(INums) /\ \A k \in DOMAIN cleanup : cleanup[k] \in INums
  BY DEF Unlinks
<1>2. \A k \in DOMAIN cleanup : valid'[cleanup[k]] /\ ref'[cleanup[k]] > 0
  BY <1>1 DEF Unlinks
<1>3. \A i \in INums : Unsettled(i)' => valid'[i] /\ ref'[i] > 0
  BY DEF Unlinks
<1>4. \A k, m \in DOMAIN cleanup : cleanup[k] = cleanup[m] => k = m
  BY DEF Unlinks
<1> QED
  BY <1>1, <1>2, <1>3, <1>4 DEF Unlinks

(* The lock of t is given up, taken or kept. *)
LEMMA LocksMoved ==
  ASSUME LocksSound, NEW t \in Threads, NEW q, Went(t, q),
         lock' \in [INums -> Threads \cup {Nobody}],
         \A i \in INums :
           lock'[i] = IF i = HeldLock(q) THEN t
                      ELSE IF i = HeldLock(th[t]) THEN Nobody ELSE lock[i],
         HeldLock(q) \in INums => lock[HeldLock(q)] \in {t, Nobody}
  PROVE  LocksSound'
<1>1. Nobody \notin Threads
  BY VfsAssumption
<1>2. \A u \in Threads : HeldLock(th[u])' = HeldLock(th'[u])
  BY DEF HeldLock
<1> SUFFICES ASSUME NEW u \in Threads, NEW i \in INums
             PROVE  lock'[i] = u <=> HeldLock(th'[u]) = i
  BY <1>2 DEF LocksSound
<1>3. lock[i] = u <=> HeldLock(th[u]) = i
  BY DEF LocksSound
<1>4. lock[i] = t <=> HeldLock(th[t]) = i
  BY DEF LocksSound
<1>5. CASE u = t
  <2>1. th'[u] = q
    BY <1>5 DEF Went
  <2> QED
    BY <1>1, <1>4, <1>5, <2>1
<1>6. CASE u # t
  <2>1. th'[u] = th[u]
    BY <1>6 DEF Went
  <2>2. lock'[i] = u <=> lock[i] = u
    BY <1>1, <1>4, <1>6
  <2> QED
    BY <1>3, <2>1, <2>2
<1> QED
  BY <1>5, <1>6

(* What the others have in hand stays as it is. *)
LEMMA OthersKept ==
  ASSUME Inv, NEW t \in Threads, NEW u \in Threads \ {t}, Grows(t),
         th'[u] = th[u], cwd'[u] = cwd[u], file'[u] = file[u],
         ftype' \in [INums -> {"free", "file", "dir"}],
         \A i \in INums : i \in Kept(u) /\ valid[i] => valid'[i]
  PROVE  InHand(u)' /\ EntryFound(u)' /\ FileLoaded(u)'
<1> DEFINE r == th[u]
<1>1. /\ r \in CallType /\ Shape(r) /\ InHand(u) /\ EntryFound(u) /\ FileLoaded(u)
      /\ cwd[u] \in INums /\ file[u] \in 0..NInodes
  BY InvTyped
<1>2. Kept(u)' = Kept(u)
  BY DEF Kept
<1>3. Kept(u) \subseteq INums
  <2>1. First(r.drop) \in INums \cup {NONE} /\ Second(r.drop) \in INums \cup {NONE}
    BY <1>1 DEF CallType, First, Second, Shape
  <2>2. 0..NInodes = INums \cup {NONE}
    BY ConstantsTyped DEF INums, NONE
  <2>3. r.curr \in INums \cup {NONE} /\ r.ino \in INums \cup {NONE} /\ r.src \in INums \cup {NONE}
    BY <1>1, <2>2 DEF CallType
  <2> QED
    BY <1>1, <2>1, <2>2, <2>3 DEF Kept
<1>4. \A i \in Kept(u) : ftype[i] # "free" /\ ftype'[i] = ftype[i]
  BY <1>1, <1>3 DEF InHand, Grows
<1>5. /\ r.curr # NONE => r.curr \in Kept(u)
      /\ r.ino # NONE => r.ino \in Kept(u)
      /\ r.src # NONE => r.src \in Kept(u)
      /\ file[u] # NONE => file[u] \in Kept(u)
  BY DEF Kept
<1>6. r.pc \in InDir => r.curr # NONE
  BY <1>1 DEF Shape
<1>7. InHand(u)'
  <2>1. \A i \in Kept(u)' : ftype'[i] # "free"
    BY <1>2, <1>4
  <2>2. r.pc \in InDir => ftype'[r.curr] = "dir"
    BY <1>1, <1>4, <1>5, <1>6 DEF InHand
  <2>3. r.src # NONE => ftype'[r.src] = "file" /\ valid'[r.src]
    BY <1>1, <1>3, <1>4, <1>5 DEF InHand
  <2>4. r.pc \in {"found", "release"} /\ r.ino # NONE /\ ftype'[r.ino] = "file" => valid'[r.ino]
    BY <1>1, <1>3, <1>4, <1>5 DEF InHand
  <2>5. r.pc = "take" => ftype'[r.inum] # "free"
    <3>1. r.pc = "take" => r.inum \in INums /\ ftype[r.inum] # "free"
      BY <1>1 DEF Shape, CallType, INums, NONE, InHand
    <3> QED
      BY <3>1 DEF Grows
  <2> QED
    BY <2>1, <2>2, <2>3, <2>4, <2>5 DEF InHand
<1>F. FileLoaded(u)'
  BY <1>1, <1>3, <1>4, <1>5 DEF FileLoaded
<1>8. EntryFound(u)'
  <2> SUFFICES ASSUME r.pc \in Looked
               PROVE  \E s \in Slots :
                        /\ dirents'[r.curr][s] = [inum |-> r.ino, name |-> Leaf(r)]
                        /\ r.pc = "rmlock" => s = Min(Matches(r.curr, Leaf(r))')
    BY DEF EntryFound, Leaf, Matches
  <2>1. r.curr \in INums
    BY <1>3, <1>5, <1>6 DEF InDir, Locked
  <2>2. HeldLock(r) = r.curr
    BY DEF HeldLock, Locked
  <2>3. lock[r.curr] = u
    BY <2>1, <2>2 DEF Inv, LocksSound
  <2>4. u \notin {t, Nobody}
    BY VfsAssumption
  <2>5. dirents'[r.curr] = dirents[r.curr]
    BY <2>1, <2>3, <2>4 DEF Grows
  <2>6. Matches(r.curr, Leaf(r))' = Matches(r.curr, Leaf(r))
    BY <2>5 DEF Matches, Leaf
  <2>7. PICK s \in Slots :
          /\ dirents[r.curr][s] = [inum |-> r.ino, name |-> Leaf(r)]
          /\ r.pc = "rmlock" => s = Min(Matches(r.curr, Leaf(r)))
    BY <1>1 DEF EntryFound
  <2> QED
    BY <2>5, <2>6, <2>7
<1> QED
  BY <1>7, <1>8, <1>F

(* An inode that a thread has taken out of a directory is not above it. *)
LEMMA ApartKept ==
  ASSUME Inv, NEW t \in Threads, NEW q, Went(t, q), Grows(t),
         q.pc = "rmput" =>
           th[t].pc = "rmlock" /\ q.curr = th[t].curr /\ q.ino = th[t].ino
  PROVE  Apart'
<1>1. \A u \in Threads : u # t => th'[u] = th[u]
  BY DEF Went
<1>2. th'[t] = q
  BY DEF Went
<1>3. \A u \in Threads : th[u].pc \in {"rmput", "rmlock"} =>
        th[u].curr \in INums /\ th[u].ino \in INums /\ ftype[th[u].curr] = "dir"
  <2> SUFFICES ASSUME NEW u \in Threads, th[u].pc \in {"rmput", "rmlock"}
               PROVE  th[u].curr \in INums /\ th[u].ino \in INums /\ ftype[th[u].curr] = "dir"
    OBVIOUS
  <2>1. th[u] \in CallType /\ Shape(th[u]) /\ InHand(u)
    BY InvTyped
  <2>2. th[u].curr # NONE /\ th[u].ino # NONE
    BY <2>1 DEF Shape, InDir, Locked, Looked
  <2>3. th[u].curr \in INums /\ th[u].ino \in INums
    BY <2>1, <2>2 DEF CallType, INums, NONE
  <2> QED
    BY <2>1, <2>3 DEF InHand, InDir, Locked, Looked
<1>4. q.pc = "rmput" =>
        \E s \in Slots : dirents[q.curr][s].inum = q.ino
  <2>1. EntryFound(t)
    BY InvTyped
  <2> QED
    BY <2>1 DEF EntryFound, Looked
<1>5. \A u \in Threads : th[u].pc = "rmput" =>
        /\ th[u].curr # th[u].ino
        /\ \A s \in Slots : dirents[th[u].ino][s].inum # th[u].curr
        /\ \A v \in Threads : th[v].pc = "rmput" =>
             th[v].curr # th[u].ino \/ th[v].ino # th[u].curr
  BY DEF Inv, Apart
<1>6. q.pc = "rmput" => /\ q.curr # q.ino
                        /\ \A s \in Slots : dirents[q.ino][s].inum # q.curr
  BY <1>3, <1>4 DEF Inv, DiskSound
<1>7. \A u \in Threads : th'[u].pc = "rmput" =>
        /\ th'[u].curr \in INums /\ th'[u].ino \in INums /\ ftype[th'[u].curr] = "dir"
        /\ th'[u].curr # th'[u].ino
        /\ \A s \in Slots : dirents[th'[u].ino][s].inum # th'[u].curr
  BY <1>1, <1>2, <1>3, <1>5, <1>6
<1>8. \A u \in Threads : th'[u].pc = "rmput" =>
        \A s \in Slots : dirents'[th'[u].ino][s].inum # th'[u].curr
  BY <1>7 DEF Grows
<1>9. \A u, v \in Threads : th'[u].pc = "rmput" /\ th'[v].pc = "rmput" =>
        th'[v].curr # th'[u].ino \/ th'[v].ino # th'[u].curr
  <2> SUFFICES ASSUME NEW u \in Threads, NEW v \in Threads,
                      th'[u].pc = "rmput", th'[v].pc = "rmput",
                      th'[v].curr = th'[u].ino, th'[v].ino = th'[u].curr
               PROVE  FALSE
    OBVIOUS
  <2>1. CASE u = t /\ v = t
    BY <1>7, <2>1
  <2>2. CASE u = t /\ v # t
    BY <1>2, <1>4, <1>7, <2>2
  <2>3. CASE u # t /\ v = t
    BY <1>2, <1>4, <1>7, <2>3
  <2>4. CASE u # t /\ v # t
    BY <1>1, <1>5, <2>4
  <2> QED
    BY <2>1, <2>2, <2>3, <2>4
<1> QED
  BY <1>7, <1>8, <1>9 DEF Apart

(* A step keeps Inv when it keeps the shape of its own call, the locks,    *)
(* the disk, the cache and the cleanup list, and as many references as it  *)
(* has in hand.                                                            *)
LEMMA StepKeeps ==
  ASSUME Inv, NEW t \in Threads, NEW q \in CallType, Went(t, q), Shape(q),
         cwd' \in [Threads -> INums], file' \in [Threads -> 0..NInodes],
         \A u \in Threads \ {t} : cwd'[u] = cwd[u] /\ file'[u] = file[u],
         q.op \in {"open", "creat"} => file'[t] = NONE,
         DiskSound', EntriesUnique', Grows(t),
         CacheSound', LocksSound', Unlinks', InHand(t)', EntryFound(t)', FileLoaded(t)',
         \A u \in Threads \ {t}, i \in INums : i \in Kept(u) /\ valid[i] => valid'[i],
         \A i \in INums : ref'[i] + PlaceWeight(t, i) + Count(i, cleanup)
                          = ref[i] + PlaceWeight(t, i)' + Count(i, cleanup)',
         q.pc = "rmput" =>
           th[t].pc = "rmlock" /\ q.curr = th[t].curr /\ q.ino = th[t].ino
  PROVE  Inv'
<1>1. /\ \A u \in Threads \ {t} : th'[u] = th[u]
      /\ th' \in [Threads -> CallType] /\ th'[t] = q
  BY DEF Went
<1>2. \A u \in Threads : Shape(th'[u])
  <2> TAKE u \in Threads
  <2>1. Shape(th[u])
    BY InvTyped
  <2> QED
    BY <1>1, <2>1
<1>3. CallsSound'
  <2>1. \A u \in Threads : th'[u].op \in {"open", "creat"} => file'[u] = NONE
    BY <1>1 DEF Inv, CallsSound
  <2>2. (\A u \in Threads : Shape(th[u]))'
    BY <1>2 DEF Shape, OpSound
  <2> QED
    BY <1>1, <2>1, <2>2 DEF CallsSound
<1>4. PlacesSound'
  <2>1. ftype' \in [INums -> {"free", "file", "dir"}]
    BY DEF DiskSound
  <2>2. \A u \in Threads \ {t} : InHand(u)' /\ EntryFound(u)' /\ FileLoaded(u)'
    BY <1>1, <2>1, OthersKept
  <2> QED
    BY <2>2 DEF PlacesSound
<1>5. Apart'
  BY ApartKept
<1>6. RefsCounted'
  <2> SUFFICES ASSUME NEW i \in INums
               PROVE  Holders(i)' = ref'[i]
    BY DEF RefsCounted
  <2>1. PlacesTyped
    BY InvTyped
  <2>2. PlacesTyped'
    BY <1>1, <1>2 DEF PlacesTyped, Shape
  <2>3. Holders(i) = ref[i]
    BY DEF Inv, RefsCounted
  <2>4. Count(i, cleanup) \in Nat
    BY CleanupCounts
  <2>5. Count(i, cleanup)' \in Nat
    <3>1. cleanup' \in Seq(INums)
      BY DEF Unlinks
    <3>2. \E j : j \in INums
      BY ConstantsTyped
    <3>3. Count(i, cleanup') \in Nat
      BY <3>1, <3>2, CountAppend
    <3> QED
      BY <3>3 DEF Count
  <2>6. ref[i] \in Int /\ ref'[i] \in Int
    BY DEF Inv, CacheSound
  <2>7. \A u \in Threads \ {t} :
          th'[u] = th[u] /\ cwd'[u] = cwd[u] /\ file'[u] = file[u]
    BY <1>1
  <2>8. ref'[i] + PlaceWeight(t, i) + Count(i, cleanup)
          = ref[i] + PlaceWeight(t, i)' + Count(i, cleanup)'
    OBVIOUS
  <2> QED
    BY <2>1, <2>2, <2>3, <2>4, <2>5, <2>6, <2>7, <2>8, HoldersMoved
<1> QED
  BY <1>3, <1>4, <1>5, <1>6 DEF Inv

-----------------------------------------------------------------------------
(* The cache *)

LEMMA IndTyped ==
  ASSUME NEW i \in INums
  PROVE  /\ \A x : Ind(x, i) \in Nat
         /\ Ind(NONE, i) = 0
BY ConstantsTyped DEF Ind

LEMMA RefTaken ==
  ASSUME CacheSound, NEW x \in INums, GetRef(x)
  PROVE  /\ ref' \in [INums -> Nat]
         /\ \A i \in INums : ref'[i] = ref[i] + Ind(x, i) /\ (i # x => ref'[i] = ref[i])
BY DEF CacheSound, GetRef, Ind

LEMMA Loaded ==
  ASSUME CacheSound, DiskSound, NEW x \in INums, ftype[x] # "free", Load(x)
  PROVE  /\ valid' \in [INums -> BOOLEAN] /\ nlink' \in [INums -> Nat]
         /\ \A i \in INums : valid'[i] => nlink'[i] = dnlink[i] /\ ftype[i] # "free"
         /\ \A i \in INums : valid[i] => valid'[i]
         /\ \A i \in INums : i # x => valid'[i] = valid[i]
         /\ valid'[x]
<1>1. /\ valid \in [INums -> BOOLEAN] /\ nlink \in [INums -> Nat] /\ dnlink \in [INums -> Nat]
      /\ \A i \in INums : valid[i] => nlink[i] = dnlink[i] /\ ftype[i] # "free"
  BY DEF CacheSound, DiskSound
<1>2. valid' = [valid EXCEPT ![x] = TRUE]
  BY DEF Load
<1>3. nlink' = [nlink EXCEPT ![x] = IF valid[x] THEN nlink[x] ELSE dnlink[x]]
  BY DEF Load
<1>4. /\ valid' \in [INums -> BOOLEAN] /\ valid'[x]
      /\ \A i \in INums : i # x => valid'[i] = valid[i]
  BY <1>1, <1>2
<1>5. /\ nlink' \in [INums -> Nat] /\ nlink'[x] = dnlink[x]
      /\ \A i \in INums : i # x => nlink'[i] = nlink[i]
  BY <1>1, <1>3
<1> QED
  BY <1>1, <1>4, <1>5

(* fs_release_inode: the reference goes, or to the cleanup list. *)
LEMMA Released ==
  ASSUME Inv, NEW t \in Threads, NEW x \in INums, x \in Kept(t), fs_release_inode(x),
         UNCHANGED disk
  PROVE  /\ CacheSound' /\ Unlinks'
         /\ \A i \in INums : i # x \/ ref[i] >= 2 => (valid[i] => valid'[i])
         /\ \A i \in INums : ref'[i] + Ind(x, i) + Count(i, cleanup)
                             = ref[i] + Count(i, cleanup)'
<1>1. /\ ref \in [INums -> Nat] /\ nlink \in [INums -> Nat] /\ valid \in [INums -> BOOLEAN]
      /\ \A i \in INums : valid[i] => nlink[i] = dnlink[i] /\ ftype[i] # "free"
      /\ ftype' = ftype /\ dnlink' = dnlink
  BY DEF Inv, CacheSound, disk
<1>2. ref[x] >= 1 /\ (ref[x] = 1 => \A k \in DOMAIN cleanup : cleanup[k] # x)
  BY KeptAlive
<1>3. /\ cleanup \in Seq(INums) /\ dirty \subseteq INums /\ dirty' = dirty
      /\ \A k \in DOMAIN cleanup : /\ cleanup[k] \in INums
                                  /\ valid[cleanup[k]] /\ ref[cleanup[k]] > 0
      /\ \A k, m \in DOMAIN cleanup : cleanup[k] = cleanup[m] => k = m
      /\ \A i \in INums : Unsettled(i) => valid[i] /\ ref[i] > 0
  BY DEF Inv, Unlinks, fs_release_inode
<1>U. \A i \in INums : Unsettled(i)' = Unsettled(i)
  BY <1>1, <1>3 DEF Unsettled
<1>4. CASE ref[x] = 1 /\ valid[x] /\ (nlink[x] = 0 \/ x \in dirty)
  <2>1. ref' = ref /\ valid' = valid /\ nlink' = nlink /\ cleanup' = Append(cleanup, x)
    <3>1. ref' = [ref EXCEPT ![x] = ref[x]] /\ cleanup' = Append(cleanup, x)
      BY <1>4 DEF fs_release_inode
    <3>2. valid' = [valid EXCEPT ![x] = valid[x]]
      BY <1>4 DEF fs_release_inode
    <3>3. nlink' = [nlink EXCEPT ![x] = nlink[x]]
      BY <1>4 DEF fs_release_inode
    <3> QED
      BY <1>1, <3>1, <3>2, <3>3
  <2>2. CacheSound'
    BY <1>1, <2>1 DEF CacheSound
  <2>3. Unlinks'
    <3>1. cleanup' \in Seq(INums)
      BY <1>3, <2>1
    <3>2. \A k \in DOMAIN cleanup' :
            \/ k = Len(cleanup) + 1 /\ cleanup'[k] = x
            \/ k \in DOMAIN cleanup /\ cleanup'[k] = cleanup[k]
      BY <1>3, <2>1
    <3>3. \A k \in DOMAIN cleanup' : valid'[cleanup'[k]] /\ ref'[cleanup'[k]] > 0
      BY <1>3, <1>4, <2>1, <3>2
    <3>4. \A k, m \in DOMAIN cleanup' : cleanup'[k] = cleanup'[m] => k = m
      BY <1>2, <1>3, <1>4, <3>2
    <3>5. \A i \in INums : Unsettled(i)' => valid'[i] /\ ref'[i] > 0
      BY <1>3, <1>U, <2>1
    <3> QED
      BY <1>3, <3>1, <3>3, <3>4, <3>5 DEF Unlinks
  <2>4. \A i \in INums : ref'[i] + Ind(x, i) + Count(i, cleanup) = ref[i] + Count(i, cleanup)'
    <3> TAKE i \in INums
    <3>1. Count(i, cleanup) \in Nat /\ Count(i, cleanup') = Count(i, cleanup) + Ind(x, i)
      BY <1>3, <2>1, CountAppend
    <3>2. Ind(x, i) \in Nat /\ ref[i] \in Nat
      BY <1>1, IndTyped
    <3> QED
      BY <2>1, <3>1, <3>2
  <2> QED
    BY <2>1, <2>2, <2>3, <2>4
<1>5. CASE ~(ref[x] = 1 /\ valid[x] /\ (nlink[x] = 0 \/ x \in dirty))
  <2>1. /\ ref' = [ref EXCEPT ![x] = ref[x] - 1] /\ cleanup' = cleanup
        /\ valid' = [valid EXCEPT ![x] = valid[x] /\ ref[x] # 1]
        /\ nlink' = [nlink EXCEPT ![x] = IF ref[x] = 1 THEN 0 ELSE nlink[x]]
    <3>1. ref' = [ref EXCEPT ![x] = ref[x] - 1] /\ cleanup' = cleanup
      BY <1>5 DEF fs_release_inode
    <3>2. valid' = [valid EXCEPT ![x] = valid[x] /\ ref[x] # 1]
      BY <1>5 DEF fs_release_inode
    <3>3. nlink' = [nlink EXCEPT ![x] = IF ref[x] = 1 THEN 0 ELSE nlink[x]]
      BY <1>5 DEF fs_release_inode
    <3> QED
      BY <3>1, <3>2, <3>3
  <2>2. ref' \in [INums -> Nat] /\ \A i \in INums : ref'[i] + Ind(x, i) = ref[i]
    BY <1>1, <1>2, <2>1 DEF Ind
  <2>3. /\ valid' \in [INums -> BOOLEAN] /\ \A i \in INums : i # x => valid'[i] = valid[i]
        /\ valid'[x] = (valid[x] /\ ref[x] # 1)
    BY <1>1, <2>1
  <2>4. /\ nlink' \in [INums -> Nat] /\ \A i \in INums : i # x => nlink'[i] = nlink[i]
        /\ ref[x] # 1 => nlink'[x] = nlink[x]
    BY <1>1, <2>1
  <2>5. CacheSound'
    BY <1>1, <2>2, <2>3, <2>4 DEF CacheSound
  <2>6. Unlinks'
    <3>1. \A i \in INums \ {x} : ref'[i] = ref[i] /\ valid'[i] = valid[i]
      BY <1>1, <2>1, <2>3
    <3>2. ref'[x] = ref[x] - 1
      BY <1>1, <2>1
    <3>3. CASE ref[x] # 1
      <4>1. ref'[x] > 0 /\ valid'[x] = valid[x]
        BY <1>1, <1>2, <2>3, <3>2, <3>3
      <4>2. \A i \in INums : valid[i] /\ ref[i] > 0 => valid'[i] /\ ref'[i] > 0
        BY <3>1, <4>1
      <4> QED
        BY <1>3, <1>U, <2>1, <4>2, UnlinksKept DEF Inv
    <3>4. CASE ref[x] = 1
      <4>1. \A k \in DOMAIN cleanup : cleanup[k] # x
        BY <1>2, <3>4
      <4>2. ~Unsettled(x)
        BY <1>1, <1>3, <1>5, <3>4 DEF Unsettled
      <4>3. \A i \in INums : Unsettled(i)' => valid'[i] /\ ref'[i] > 0
        BY <1>3, <1>U, <3>1, <4>2
      <4>4. \A k \in DOMAIN cleanup : valid'[cleanup[k]] /\ ref'[cleanup[k]] > 0
        BY <1>3, <3>1, <4>1
      <4> QED
        BY <1>3, <2>1, <4>3, <4>4 DEF Unlinks
    <3> QED
      BY <3>3, <3>4
  <2>7. \A i \in INums : ref'[i] + Ind(x, i) + Count(i, cleanup) = ref[i] + Count(i, cleanup)'
    BY <2>1, <2>2
  <2> QED
    BY <2>3, <2>5, <2>6, <2>7
<1> QED
  BY <1>4, <1>5

-----------------------------------------------------------------------------
(* The records of calls *)

LEMMA DropIs ==
  /\ First(<<>>) = NONE /\ Second(<<>>) = NONE
  /\ \A a : First(<<a>>) = a /\ Second(<<a>>) = NONE
  /\ \A a, b : First(<<a, b>>) = a /\ Second(<<a, b>>) = b
BY DEF First, Second

LEMMA TailIs ==
  ASSUME NEW d \in Seq(INums), Len(d) \in 0..2, d # <<>>
  PROVE  /\ Head(d) \in INums /\ Head(d) = First(d) /\ Tail(d) \in Seq(INums)
         /\ Len(Tail(d)) = Len(d) - 1
         /\ First(Tail(d)) = Second(d) /\ Second(Tail(d)) = NONE
         /\ Tail(d) = <<>> <=> Len(d) = 1
         /\ Len(d) = 1 => Second(d) = NONE
<1>1. Len(d) \in 1..2
  OBVIOUS
<1>2. PICK e : e = Tail(d)
  OBVIOUS
<1>3. Head(d) = d[1] /\ d[1] \in INums
  BY <1>1
<1>4. e \in Seq(INums) /\ Len(e) = Len(d) - 1 /\ Len(e) \in 0..1
  BY <1>1, <1>2
<1>5. First(d) = d[1] /\ (Len(d) = 1 => Second(d) = NONE) /\ (Len(d) = 2 => Second(d) = d[2])
  BY <1>1 DEF First, Second
<1>6. CASE Len(e) = 0
  <2>1. e = <<>> /\ Len(d) = 1
    BY <1>1, <1>4, <1>6
  <2> QED
    BY <1>2, <1>3, <1>4, <1>5, <2>1, DropIs
<1>7. CASE Len(e) = 1
  <2>1. Len(d) = 2 /\ e # <<>>
    BY <1>1, <1>4, <1>7
  <2>2. e[1] = d[2]
    BY <1>2, <2>1
  <2>3. First(e) = e[1] /\ Second(e) = NONE
    BY <1>7 DEF First, Second
  <2> QED
    BY <1>2, <1>3, <1>4, <1>5, <2>1, <2>2, <2>3
<1> QED
  BY <1>4, <1>6, <1>7

LEMMA PairIs ==
  ASSUME NEW a \in INums, NEW b \in INums
  PROVE  <<a>> \o <<b>> = <<a, b>> /\ <<a>> \o <<>> = <<a>>
<1>1. <<a>> \in Seq(INums) /\ <<b>> \in Seq(INums) /\ <<a, b>> \in Seq(INums)
  OBVIOUS
<1>2. <<a>> \o <<>> = <<a>>
  BY <1>1, ConcatEmptySeq
<1>3. <<a>> \o <<b>> = <<a, b>>
  <2> DEFINE p == <<a>> \o <<b>>
  <2>1. p \in Seq(INums) /\ Len(p) = 2 /\ p[1] = a /\ p[2] = b
    BY <1>1
  <2>2. \A k \in 1..2 : p[k] = <<a, b>>[k]
    BY <2>1
  <2> HIDE DEF p
  <2> QED
    BY <1>1, <2>1, <2>2, SeqEqual DEF p
<1> QED
  BY <1>2, <1>3

LEMMA IdleIs ==
  /\ Idle \in CallType /\ Shape(Idle) /\ HeldLock(Idle) = NONE
  /\ Idle.op = "none" /\ Idle.pc = "idle" /\ Idle.ret = "idle"
  /\ Idle.curr = NONE /\ Idle.ino = NONE /\ Idle.src = NONE
  /\ First(Idle.drop) = NONE /\ Second(Idle.drop) = NONE
<1>1. NoPath \in PathType
  BY DEF NoPath, PathType
<1>2. Idle \in CallType
  <2>1. <<>> \in Seq(Names) /\ <<>> \in Seq(INums) /\ NONE \in 0..NInodes /\ 0 \in 0..NSlots
    BY ConstantsTyped DEF NONE
  <2> QED
    BY <1>1, <2>1 DEF Idle, CallType, Ops
<1>3. /\ Idle.op = "none" /\ Idle.pc = "idle" /\ Idle.ret = "idle"
      /\ Idle.curr = NONE /\ Idle.ino = NONE /\ Idle.src = NONE /\ Idle.drop = <<>>
  BY DEF Idle
<1>4. Shape(Idle)
  <2>1. Len(<<>>) \in 0..2
    OBVIOUS
  <2> QED
    BY <1>3, <2>1 DEF Shape, OpSound, InDir, Locked, Looked
<1>5. HeldLock(Idle) = NONE
  BY <1>3 DEF HeldLock, Locked, Looked
<1> QED
  BY <1>2, <1>3, <1>4, <1>5, DropIs

(* A call that only has to let go *)
LEMMA FinishIs ==
  ASSUME NEW s \in Seq(INums), Len(s) \in 1..2
  PROVE  /\ Finish(s) \in CallType /\ Shape(Finish(s)) /\ HeldLock(Finish(s)) = NONE
         /\ Finish(s).op = "none" /\ Finish(s).pc = "release"
         /\ Finish(s).curr = NONE /\ Finish(s).ino = NONE /\ Finish(s).src = NONE
         /\ Finish(s).drop = s
<1> DEFINE q == Finish(s)
<1>1. q = [Idle EXCEPT !.pc = "release", !.drop = s, !.ret = "idle"]
  BY DEF Finish, ThenDrop
<1>2. /\ q.op = "none" /\ q.pc = "release" /\ q.ret = "idle" /\ q.curr = NONE
      /\ q.ino = NONE /\ q.src = NONE /\ q.drop = s
  BY <1>1 DEF Idle
<1>3. q \in CallType
  BY <1>1, IdleIs DEF CallType
<1> HIDE DEF q
<1>4. Shape(q)
  <2>1. s # <<>> /\ Len(s) \in 0..2
    OBVIOUS
  <2> QED
    BY <1>2, <2>1 DEF Shape, OpSound, InDir, Locked, Looked
<1>5. HeldLock(q) = NONE
  BY <1>2 DEF HeldLock, Locked, Looked
<1> QED
  BY <1>2, <1>3, <1>4, <1>5 DEF q

LEMMA DoneIs ==
  ASSUME NEW r \in CallType, r.curr # NONE
  PROVE  /\ Done(r) \in CallType /\ Shape(Done(r)) /\ HeldLock(Done(r)) = NONE
         /\ Done(r).op = "none" /\ Done(r).pc = "release"
         /\ Done(r).curr = NONE /\ Done(r).ino = NONE /\ Done(r).src = NONE
         /\ First(Done(r).drop) = r.curr /\ Second(Done(r).drop) = r.src
<1> DEFINE s == <<r.curr>> \o (IF r.src = NONE THEN <<>> ELSE <<r.src>>)
<1>1. Done(r) = Finish(s)
  BY DEF Done
<1>2. r.curr \in INums /\ (r.src # NONE => r.src \in INums)
  BY DEF CallType, INums, NONE
<1>3. s = IF r.src = NONE THEN <<r.curr>> ELSE <<r.curr, r.src>>
  <2>1. <<r.curr>> \o <<>> = <<r.curr>>
    BY <1>2, PairIs
  <2>2. r.src # NONE => <<r.curr>> \o <<r.src>> = <<r.curr, r.src>>
    BY <1>2, PairIs
  <2> QED
    BY <2>1, <2>2, Zenon
<1>4. s \in Seq(INums) /\ Len(s) \in 1..2
  BY <1>2, <1>3
<1>5. First(s) = r.curr /\ Second(s) = r.src
  BY <1>3, DropIs
<1> HIDE DEF s
<1> QED
  BY <1>1, <1>4, <1>5, FinishIs

-----------------------------------------------------------------------------
(* The steps *)

LEMMA KeptTyped ==
  ASSUME Inv, NEW t \in Threads
  PROVE  /\ Kept(t) \subseteq INums
         /\ \A i \in Kept(t) : ftype[i] # "free"
         /\ th[t].pc # "release" => First(th[t].drop) = NONE /\ Second(th[t].drop) = NONE
<1> DEFINE r == th[t]
<1>1. /\ r \in CallType /\ Shape(r) /\ InHand(t)
      /\ cwd[t] \in INums /\ file[t] \in 0..NInodes
  BY InvTyped
<1>2. First(r.drop) \in INums \cup {NONE} /\ Second(r.drop) \in INums \cup {NONE}
  BY <1>1 DEF CallType, First, Second, Shape
<1>3. 0..NInodes = INums \cup {NONE}
  BY ConstantsTyped DEF INums, NONE
<1>4. r.curr \in INums \cup {NONE} /\ r.ino \in INums \cup {NONE} /\ r.src \in INums \cup {NONE}
  BY <1>1, <1>3 DEF CallType
<1>5. Kept(t) \subseteq INums
  BY <1>1, <1>2, <1>3, <1>4 DEF Kept
<1>6. r.pc # "release" => r.drop = <<>>
  BY <1>1 DEF Shape
<1>7. r.pc # "release" => First(r.drop) = NONE /\ Second(r.drop) = NONE
  BY <1>6, DropIs
<1> QED
  BY <1>1, <1>5, <1>7 DEF InHand

(* A step that leaves the disk and the cleanup list alone *)
LEMMA QuietStep ==
  ASSUME Inv, NEW t \in Threads, NEW q \in CallType, Went(t, q), Shape(q),
         UNCHANGED disk, cleanup' = cleanup, dirty' = dirty, CacheSound',
         \A i \in INums : ref'[i] >= ref[i] /\ (valid[i] => valid'[i]),
         \A i \in INums : ref'[i] + PlaceWeight(t, i) = ref[i] + PlaceWeight(t, i)',
         cwd' \in [Threads -> INums], file' \in [Threads -> 0..NInodes],
         \A u \in Threads \ {t} : cwd'[u] = cwd[u] /\ file'[u] = file[u],
         q.op \in {"open", "creat"} => file'[t] = NONE,
         file'[t] = file[t] \/ FileLoaded(t)',
         LocksSound', InHand(t)', EntryFound(t)', q.pc # "rmput"
  PROVE  Inv'
<1>1. DiskSound /\ EntriesUnique
  BY DEF Inv
<1>2. DiskSound' /\ EntriesUnique' /\ Grows(t)
  BY <1>1, DiskKept
<1>3. Unlinks'
  <2>1. Unlinks /\ dirty' \subseteq INums
    BY DEF Inv, Unlinks
  <2>2. \A i \in INums : valid[i] /\ ref[i] > 0 => valid'[i] /\ ref'[i] > 0
    <3> TAKE i \in INums
    <3>1. ref[i] \in Nat /\ ref'[i] \in Nat /\ ref'[i] >= ref[i]
      BY DEF Inv, CacheSound
    <3> QED
      BY <3>1
  <2>3. \A i \in INums : Unsettled(i)' => Unsettled(i)
    BY DEF disk, Unsettled
  <2> QED
    BY <2>1, <2>2, <2>3, UnlinksKept
<1>4. \A i \in INums : ref'[i] + PlaceWeight(t, i) + Count(i, cleanup)
                       = ref[i] + PlaceWeight(t, i)' + Count(i, cleanup)'
  <2> TAKE i \in INums
  <2>1. ref'[i] + PlaceWeight(t, i) = ref[i] + PlaceWeight(t, i)'
    OBVIOUS
  <2>2. Count(i, cleanup)' = Count(i, cleanup)
    BY DEF Count
  <2> QED
    BY <2>1, <2>2, Zenon
<1>5. FileLoaded(t)'
  <2>1. FileLoaded(t) /\ file[t] \in 0..NInodes
    BY InvTyped
  <2>2. CASE file'[t] = file[t]
    <3>1. file[t] # NONE => file[t] \in INums
      BY <2>1 DEF INums, NONE
    <3> QED
      BY <2>1, <2>2, <3>1 DEF FileLoaded, disk
  <2> QED
    BY <2>2
<1> QED
  BY <1>2, <1>3, <1>4, <1>5, StepKeeps

(* The end of a call, by where its inodes go *)
LEMMA DoneStep ==
  ASSUME Inv, NEW t \in Threads, th[t].curr # NONE, th[t].pc # "release",
         Goto(t, Done(th[t])), cwd' = cwd, file' = file,
         DiskSound', EntriesUnique', Grows(t), CacheSound', Unlinks',
         lock' = [i \in INums |-> IF i = HeldLock(th[t]) THEN Nobody ELSE lock[i]],
         \A u \in Threads \ {t}, i \in INums : i \in Kept(u) /\ valid[i] => valid'[i],
         file[t] # NONE /\ valid[file[t]] => valid'[file[t]],
         \A i \in INums : ref'[i] + Ind(th[t].ino, i) + Count(i, cleanup)
                          = ref[i] + Count(i, cleanup)'
  PROVE  Inv'
<1> DEFINE r == th[t]
           q == Done(r)
<1>1. /\ r \in CallType /\ Shape(r) /\ InHand(t)
      /\ cwd[t] \in INums /\ file[t] \in 0..NInodes
  BY InvTyped
<1>2. /\ q \in CallType /\ Shape(q) /\ HeldLock(q) = NONE
      /\ q.op = "none" /\ q.pc = "release"
      /\ q.curr = NONE /\ q.ino = NONE /\ q.src = NONE
      /\ First(q.drop) = r.curr /\ Second(q.drop) = r.src
  BY <1>1, DoneIs
<1> HIDE DEF q
<1>3. Went(t, q)
  BY <1>2, GotoIs DEF Inv, CallsSound, q
<1>4. th'[t] = q
  BY <1>3 DEF Went
<1>5. /\ First(r.drop) = NONE /\ Second(r.drop) = NONE /\ Kept(t) \subseteq INums
      /\ \A i \in Kept(t) : ftype[i] # "free"
  BY KeptTyped
<1>6. Kept(t)' \subseteq Kept(t)
  BY <1>2, <1>4, <1>5 DEF Kept
<1>7. InHand(t)'
  <2>1. \A i \in Kept(t)' : ftype'[i] # "free"
    BY <1>5, <1>6 DEF Grows
  <2> QED
    BY <1>2, <1>4, <2>1 DEF InHand, InDir, Locked, Looked
<1>8. EntryFound(t)'
  BY <1>2, <1>4 DEF EntryFound, Looked
<1>9. \A i \in INums : PlaceWeight(t, i) = PlaceWeight(t, i)' + Ind(r.ino, i)
                       /\ PlaceWeight(t, i)' \in Nat
  <2> TAKE i \in INums
  <2>1. (\A x : Ind(x, i) \in Nat) /\ Ind(NONE, i) = 0
    BY IndTyped
  <2> DEFINE Out == Ind(cwd[t], i) + Ind(file[t], i)
  <2>2. PlaceWeight(t, i)' = Ind(NONE, i) + Ind(NONE, i) + Ind(NONE, i) + Ind(cwd[t], i)
                             + Ind(file[t], i) + Ind(r.curr, i) + Ind(r.src, i)
    BY <1>2, <1>4 DEF PlaceWeight, Weight
  <2>3. PlaceWeight(t, i) = Ind(r.curr, i) + Ind(r.ino, i) + Ind(r.src, i) + Ind(cwd[t], i)
                            + Ind(file[t], i) + Ind(NONE, i) + Ind(NONE, i)
    BY <1>5 DEF PlaceWeight, Weight
  <2> QED
    BY <2>1, <2>2, <2>3
<1>10. LocksSound'
  <2>1. lock \in [INums -> Threads \cup {Nobody}]
    BY DEF Inv, LocksSound
  <2>2. \A i \in INums :
          lock'[i] = IF i = HeldLock(q) THEN t
                     ELSE IF i = HeldLock(th[t]) THEN Nobody ELSE lock[i]
    BY <1>2, ConstantsTyped
  <2>3. lock' \in [INums -> Threads \cup {Nobody}]
    BY <2>1
  <2>4. HeldLock(q) \in INums => lock[HeldLock(q)] \in {t, Nobody}
    BY <1>2, ConstantsTyped
  <2> QED
    BY <1>3, <2>2, <2>3, <2>4, LocksMoved DEF Inv
<1>11. \A i \in INums : ref'[i] + PlaceWeight(t, i) + Count(i, cleanup)
                        = ref[i] + PlaceWeight(t, i)' + Count(i, cleanup)'
  <2> TAKE i \in INums
  <2>1. PICK w, x, n, c, d, a, b :
          /\ w = PlaceWeight(t, i) /\ x = PlaceWeight(t, i)' /\ n = Ind(r.ino, i)
          /\ c = Count(i, cleanup) /\ d = Count(i, cleanup)' /\ a = ref[i] /\ b = ref'[i]
    OBVIOUS
  <2>2. w = x + n /\ x \in Nat /\ b + n + c = a + d
    BY <1>9, <2>1, Zenon
  <2>3. n \in Nat
    BY <2>1, IndTyped
  <2>4. c \in Nat
    BY <2>1, CleanupCounts
  <2>5. d \in Nat
    <3>1. cleanup' \in Seq(INums)
      BY DEF Unlinks
    <3>2. Count(i, cleanup') \in Nat
      BY <3>1, CountAppend
    <3> QED
      BY <2>1, <3>2 DEF Count
  <2>6. a \in Nat /\ b \in Nat
    BY <2>1 DEF Inv, CacheSound
  <2>7. b + w + c = a + x + d
    BY <2>2, <2>3, <2>4, <2>5, <2>6
  <2> QED
    BY <2>1, <2>7, Zenon
<1>12. /\ cwd' \in [Threads -> INums] /\ file' \in [Threads -> 0..NInodes]
       /\ \A u \in Threads \ {t} : cwd'[u] = cwd[u] /\ file'[u] = file[u]
  BY DEF Inv, PlacesSound
<1>13. FileLoaded(t)'
  <2>1. FileLoaded(t) /\ (file[t] # NONE => file[t] \in Kept(t))
    BY InvTyped DEF Kept
  <2>2. file[t] # NONE => ftype'[file[t]] = ftype[file[t]]
    BY <1>5, <2>1 DEF Grows
  <2> QED
    BY <2>1, <2>2 DEF FileLoaded
<1> QED
  BY <1>2, <1>3, <1>7, <1>8, <1>10, <1>11, <1>12, <1>13, StepKeeps

(* The same where the disk, the references and the list are kept *)
LEMMA DoneQuiet ==
  ASSUME Inv, NEW t \in Threads, th[t].curr # NONE, th[t].pc # "release", th[t].ino = NONE,
         Goto(t, Done(th[t])), cwd' = cwd, file' = file, ref' = ref, cleanup' = cleanup,
         DiskSound', EntriesUnique', Grows(t), CacheSound', Unlinks',
         lock' = [i \in INums |-> IF i = HeldLock(th[t]) THEN Nobody ELSE lock[i]],
         \A i \in INums : valid[i] => valid'[i]
  PROVE  Inv'
<1>1. \A i \in INums : ref'[i] + Ind(th[t].ino, i) + Count(i, cleanup)
                       = ref[i] + Count(i, cleanup)'
  <2> TAKE i \in INums
  <2>1. Ind(th[t].ino, i) = 0
    BY IndTyped
  <2>2. Count(i, cleanup)' = Count(i, cleanup) /\ ref'[i] = ref[i] /\ ref[i] \in Nat
    BY DEF Count, Inv, CacheSound
  <2> QED
    BY <2>1, <2>2
<1>2. file[t] # NONE /\ valid[file[t]] => valid'[file[t]]
  <2>1. file[t] \in 0..NInodes
    BY InvTyped
  <2>2. file[t] # NONE => file[t] \in INums
    BY <2>1 DEF INums, NONE
  <2> QED
    BY <2>2
<1> QED
  BY <1>1, <1>2, DoneStep

(* Where nothing is locked, the locks are left alone. *)
LEMMA LocksKept ==
  ASSUME Inv, NEW r, HeldLock(r) = NONE
  PROVE  lock = [i \in INums |-> IF i = HeldLock(r) THEN Nobody ELSE lock[i]]
<1>1. lock \in [INums -> Threads \cup {Nobody}]
  BY DEF Inv, LocksSound
<1> QED
  BY <1>1, ConstantsTyped

LEMMA LocksGiven ==
  ASSUME Inv, NEW r, NEW x \in INums, HeldLock(r) = x, lock' = [lock EXCEPT ![x] = Nobody]
  PROVE  lock' = [i \in INums |-> IF i = HeldLock(r) THEN Nobody ELSE lock[i]]
BY DEF Inv, LocksSound

LEMMA LocksStay ==
  ASSUME Inv, NEW t \in Threads, NEW q, Went(t, q), lock' = lock,
         HeldLock(q) = NONE, HeldLock(th[t]) = NONE
  PROVE  LocksSound'
<1>1. lock \in [INums -> Threads \cup {Nobody}] /\ LocksSound
  BY DEF Inv, LocksSound
<1> QED
  BY <1>1, ConstantsTyped, LocksMoved

LEMMA LocksTaken ==
  ASSUME Inv, NEW t \in Threads, NEW q, Went(t, q), NEW x \in INums, lock[x] = Nobody,
         lock' = [lock EXCEPT ![x] = t], HeldLock(q) = x, HeldLock(th[t]) = NONE
  PROVE  LocksSound'
<1>1. lock \in [INums -> Threads \cup {Nobody}] /\ LocksSound
  BY DEF Inv, LocksSound
<1>2. lock' \in [INums -> Threads \cup {Nobody}]
  BY <1>1
<1>3. \A i \in INums :
        lock'[i] = IF i = HeldLock(q) THEN t
                   ELSE IF i = HeldLock(th[t]) THEN Nobody ELSE lock[i]
  BY <1>1, ConstantsTyped
<1> QED
  BY <1>1, <1>2, <1>3, LocksMoved

LEMMA LocksGone ==
  ASSUME Inv, NEW t \in Threads, NEW q, Went(t, q), NEW x \in INums,
         lock' = [lock EXCEPT ![x] = Nobody], HeldLock(q) = NONE, HeldLock(th[t]) = x
  PROVE  LocksSound'
<1>1. lock \in [INums -> Threads \cup {Nobody}] /\ LocksSound
  BY DEF Inv, LocksSound
<1>2. lock' \in [INums -> Threads \cup {Nobody}]
  BY <1>1
<1>3. \A i \in INums :
        lock'[i] = IF i = HeldLock(q) THEN t
                   ELSE IF i = HeldLock(th[t]) THEN Nobody ELSE lock[i]
  BY <1>1, <1>2, ConstantsTyped
<1> QED
  BY <1>1, <1>2, <1>3, ConstantsTyped, LocksMoved

(* Where a path starts is in hand, or the root. *)
LEMMA StartIs ==
  ASSUME Inv, NEW t \in Threads, NEW p
  PROVE  Start(t, p) \in INums /\ ftype[Start(t, p)] # "free"
<1>1. CASE p.abs
  <2>1. Start(t, p) = SFS_ROOT_INUM
    BY <1>1 DEF Start
  <2>2. DiskSound
    BY DEF Inv
  <2> QED
    BY <2>1, <2>2, ConstantsTyped DEF DiskSound
<1>2. CASE ~p.abs
  <2>1. Start(t, p) = cwd[t] /\ cwd[t] \in INums
    BY <1>2, InvTyped DEF Start
  <2>2. cwd[t] \in Kept(t)
    BY <2>1, ConstantsTyped DEF Kept
  <2> QED
    BY <2>1, <2>2, KeptTyped
<1> QED
  BY <1>1, <1>2

LEMMA BeginInv ==
  ASSUME Inv, NEW t \in Threads, NEW c \in Calls[t], Begin(t, c)
  PROVE  Inv'
<1>1. PICK x : x = Start(t, c.path)
  OBVIOUS
<1> DEFINE r == th[t]
           q == [Idle EXCEPT !.op = c.op, !.pc = "walk", !.curr = x,
                             !.rest = c.path.names, !.path2 = c.path2]
<1>2. /\ r.pc = "idle" /\ (c.op \in {"open", "creat"} => file[t] = NONE)
      /\ GetRef(x) /\ Goto(t, q)
      /\ UNCHANGED disk /\ valid' = valid /\ nlink' = nlink /\ lock' = lock
      /\ dirty' = dirty /\ cleanup' = cleanup /\ cwd' = cwd /\ file' = file
  BY <1>1 DEF Begin
<1>3. x \in INums /\ ftype[x] # "free"
  BY <1>1, StartIs
<1>4. /\ r \in CallType /\ Shape(r) /\ InHand(t)
      /\ cwd[t] \in INums /\ file[t] \in 0..NInodes
  BY InvTyped
<1>5. /\ c.op \in {"open", "creat", "chdir", "link", "unlink", "mkdir", "rmdir"}
      /\ c.path \in PathType /\ c.path2 \in PathType
  BY VfsAssumption DEF PathType
<1>6. /\ q.op = c.op /\ q.pc = "walk" /\ q.curr = x /\ q.ino = NONE /\ q.src = NONE
      /\ q.drop = <<>> /\ q.ret = "idle"
  BY DEF Idle
<1>7. q \in CallType
  <2>1. Idle \in CallType /\ x \in 0..NInodes /\ c.path.names \in Seq(Names) /\ c.op \in Ops
    BY <1>3, <1>5, IdleIs DEF INums, PathType, Ops
  <2> QED
    BY <1>5, <2>1 DEF CallType
<1> HIDE DEF q
<1>8. Went(t, q)
  BY <1>2, <1>7, GotoIs DEF Inv, CallsSound
<1>9. th'[t] = q
  BY <1>8 DEF Went
<1>10. Shape(q)
  <2>1. x # NONE /\ Len(<<>>) \in 0..2
    BY <1>3, ConstantsTyped
  <2> QED
    BY <1>5, <1>6, <2>1 DEF Shape, OpSound, InDir, Locked, Looked
<1>11. r.curr = NONE /\ r.ino = NONE /\ r.src = NONE
  BY <1>2, <1>4 DEF Shape, OpSound, InDir, Locked, Looked
<1>12. First(r.drop) = NONE /\ Second(r.drop) = NONE /\ \A i \in Kept(t) : ftype[i] # "free"
  BY <1>2, KeptTyped
<1>13. First(q.drop) = NONE /\ Second(q.drop) = NONE
  BY <1>6, DropIs
<1>14. CacheSound' /\ \A i \in INums : ref'[i] = ref[i] + Ind(x, i) /\ (i # x => ref'[i] = ref[i])
  BY <1>2, <1>3, RefTaken DEF Inv, CacheSound, disk
<1>15. \A i \in INums : ref'[i] + PlaceWeight(t, i) = ref[i] + PlaceWeight(t, i)'
  <2> TAKE i \in INums
  <2>1. (\A y : Ind(y, i) \in Nat) /\ Ind(NONE, i) = 0
    BY IndTyped
  <2>2. PlaceWeight(t, i)' = Ind(x, i) + Ind(NONE, i) + Ind(NONE, i) + Ind(cwd[t], i)
                             + Ind(file[t], i) + Ind(NONE, i) + Ind(NONE, i)
    BY <1>2, <1>6, <1>9, <1>13 DEF PlaceWeight, Weight
  <2>3. PlaceWeight(t, i) = Ind(NONE, i) + Ind(NONE, i) + Ind(NONE, i) + Ind(cwd[t], i)
                            + Ind(file[t], i) + Ind(NONE, i) + Ind(NONE, i)
    BY <1>11, <1>12 DEF PlaceWeight, Weight
  <2>4. ref[i] \in Nat
    BY DEF Inv, CacheSound
  <2> QED
    BY <1>14, <2>1, <2>2, <2>3, <2>4
<1>16. InHand(t)' /\ EntryFound(t)'
  <2>1. Kept(t)' \subseteq Kept(t) \cup {x}
    BY <1>2, <1>6, <1>9, <1>13 DEF Kept
  <2>2. \A i \in Kept(t)' : ftype'[i] # "free"
    BY <1>2, <1>3, <1>12, <2>1 DEF disk
  <2> QED
    BY <1>6, <1>9, <2>2 DEF InHand, EntryFound, InDir, Locked, Looked
<1>17. LocksSound'
  <2>1. HeldLock(q) = NONE /\ HeldLock(r) = NONE
    BY <1>2, <1>6 DEF HeldLock, Locked, Looked
  <2> QED
    BY <1>2, <1>8, <2>1, LocksStay
<1>18. /\ cwd' \in [Threads -> INums] /\ file' \in [Threads -> 0..NInodes]
       /\ \A u \in Threads \ {t} : cwd'[u] = cwd[u] /\ file'[u] = file[u]
  BY <1>2 DEF Inv, PlacesSound
<1>19. \A i \in INums : ref'[i] >= ref[i] /\ (valid[i] => valid'[i])
  <2> TAKE i \in INums
  <2>1. ref[i] \in Nat /\ Ind(x, i) \in Nat /\ ref'[i] = ref[i] + Ind(x, i)
    BY <1>14, IndTyped DEF Inv, CacheSound
  <2> QED
    BY <1>2, <2>1
<1>20. file'[t] = file[t]
  BY <1>2
<1>21. q.pc # "rmput"
  BY <1>6
<1>22. q.op \in {"open", "creat"} => file'[t] = NONE
  BY <1>2, <1>6
<1> QED
  BY <1>2, <1>20, <1>21, <1>22, <1>7, <1>8, <1>10, <1>14, <1>15, <1>16, <1>17, <1>18, <1>19, QuietStep

LEMMA CloseInv ==
  ASSUME Inv, NEW t \in Threads, fs_close_file(t)
  PROVE  Inv'
<1> DEFINE r == th[t]
           q == Finish(<<file[t]>>)
<1>1. /\ r.pc = "idle" /\ file[t] # NONE /\ Goto(t, q)
      /\ file' = [file EXCEPT ![t] = NONE]
      /\ UNCHANGED disk /\ ref' = ref /\ valid' = valid /\ nlink' = nlink /\ lock' = lock
      /\ dirty' = dirty /\ cleanup' = cleanup /\ cwd' = cwd
  BY DEF fs_close_file, cache
<1>2. /\ r \in CallType /\ Shape(r) /\ InHand(t)
      /\ cwd[t] \in INums /\ file[t] \in 0..NInodes
  BY InvTyped
<1>3. file[t] \in INums
  BY <1>1, <1>2 DEF INums, NONE
<1>4. <<file[t]>> \in Seq(INums) /\ Len(<<file[t]>>) \in 1..2
  BY <1>3
<1>5. /\ q \in CallType /\ Shape(q) /\ HeldLock(q) = NONE
      /\ q.op = "none" /\ q.pc = "release"
      /\ q.curr = NONE /\ q.ino = NONE /\ q.src = NONE
      /\ q.drop = <<file[t]>>
  BY <1>4, FinishIs
<1> HIDE DEF q
<1>6. Went(t, q)
  BY <1>1, <1>5, GotoIs DEF Inv, CallsSound
<1>7. th'[t] = q /\ First(q.drop) = file[t] /\ Second(q.drop) = NONE
  BY <1>5, <1>6, DropIs DEF Went
<1>8. r.curr = NONE /\ r.ino = NONE /\ r.src = NONE
  BY <1>1, <1>2 DEF Shape, OpSound, InDir, Locked, Looked
<1>9. First(r.drop) = NONE /\ Second(r.drop) = NONE /\ \A i \in Kept(t) : ftype[i] # "free"
  BY <1>1, KeptTyped
<1>10. /\ cwd' \in [Threads -> INums] /\ file' \in [Threads -> 0..NInodes]
       /\ \A u \in Threads \ {t} : cwd'[u] = cwd[u] /\ file'[u] = file[u]
       /\ cwd'[t] = cwd[t] /\ file'[t] = NONE
  BY <1>1, ConstantsTyped DEF Inv, PlacesSound, NONE
<1>11. \A i \in INums : ref'[i] + PlaceWeight(t, i) = ref[i] + PlaceWeight(t, i)'
  <2> TAKE i \in INums
  <2>1. (\A y : Ind(y, i) \in Nat) /\ Ind(NONE, i) = 0
    BY IndTyped
  <2>2. PlaceWeight(t, i)' = Ind(NONE, i) + Ind(NONE, i) + Ind(NONE, i) + Ind(cwd[t], i)
                             + Ind(NONE, i) + Ind(file[t], i) + Ind(NONE, i)
    BY <1>5, <1>7, <1>10 DEF PlaceWeight, Weight
  <2>3. PlaceWeight(t, i) = Ind(NONE, i) + Ind(NONE, i) + Ind(NONE, i) + Ind(cwd[t], i)
                            + Ind(file[t], i) + Ind(NONE, i) + Ind(NONE, i)
    BY <1>8, <1>9 DEF PlaceWeight, Weight
  <2>4. ref[i] \in Nat
    BY DEF Inv, CacheSound
  <2> QED
    BY <1>1, <2>1, <2>2, <2>3, <2>4
<1>12. InHand(t)' /\ EntryFound(t)'
  <2>1. Kept(t)' \subseteq Kept(t)
    BY <1>5, <1>7, <1>10 DEF Kept
  <2>2. \A i \in Kept(t)' : ftype'[i] # "free"
    BY <1>1, <1>9, <2>1 DEF disk
  <2> QED
    BY <1>5, <1>7, <2>2 DEF InHand, EntryFound, InDir, Locked, Looked
<1>13. LocksSound'
  <2>1. HeldLock(r) = NONE
    BY <1>1 DEF HeldLock, Locked, Looked
  <2> QED
    BY <1>1, <1>5, <1>6, <2>1, LocksStay
<1>14. CacheSound'
  BY <1>1 DEF Inv, CacheSound, disk
<1>15. \A i \in INums : ref'[i] >= ref[i] /\ (valid[i] => valid'[i])
  BY <1>1 DEF Inv, CacheSound
<1>16. FileLoaded(t)'
  BY <1>10 DEF FileLoaded
<1> QED
  BY <1>1, <1>5, <1>6, <1>10, <1>11, <1>12, <1>13, <1>14, <1>15, <1>16, QuietStep

(* A step that takes a reference to x, and may load y, which it has *)
LEMMA TakeStep ==
  ASSUME Inv, NEW t \in Threads, NEW q \in CallType, Went(t, q), Shape(q),
         NEW x \in INums, GetRef(x),
         NEW y \in INums, y \in Kept(t),
         Load(y) \/ (valid' = valid /\ nlink' = nlink),
         UNCHANGED disk, dirty' = dirty, cleanup' = cleanup, cwd' = cwd, file' = file,
         \A i \in INums : PlaceWeight(t, i)' = PlaceWeight(t, i) + Ind(x, i),
         q.op \in {"open", "creat"} => file'[t] = NONE,
         LocksSound', InHand(t)', EntryFound(t)', q.pc # "rmput"
  PROVE  Inv'
<1>1. /\ ref' \in [INums -> Nat]
      /\ \A i \in INums : ref'[i] = ref[i] + Ind(x, i) /\ (i # x => ref'[i] = ref[i])
  BY RefTaken DEF Inv
<1>2. CacheSound /\ DiskSound /\ ftype[y] # "free" /\ ftype' = ftype /\ dnlink' = dnlink
  BY KeptTyped DEF Inv, disk
<1>3. /\ CacheSound' /\ \A i \in INums : valid[i] => valid'[i]
      /\ \A i \in INums : i # y => valid'[i] = valid[i]
  <2>1. CASE Load(y)
    <3>1. /\ valid' \in [INums -> BOOLEAN] /\ nlink' \in [INums -> Nat]
          /\ \A i \in INums : valid'[i] => nlink'[i] = dnlink[i] /\ ftype[i] # "free"
          /\ \A i \in INums : valid[i] => valid'[i]
          /\ \A i \in INums : i # y => valid'[i] = valid[i]
      BY <1>2, <2>1, Loaded
    <3> QED
      BY <1>1, <1>2, <3>1 DEF CacheSound
  <2>2. CASE valid' = valid /\ nlink' = nlink
    BY <1>1, <1>2, <2>2 DEF CacheSound
  <2> QED
    BY <2>1, <2>2
<1>4. \A i \in INums : ref'[i] + PlaceWeight(t, i) = ref[i] + PlaceWeight(t, i)'
  <2> TAKE i \in INums
  <2>1. PICK w, v, n : w = PlaceWeight(t, i) /\ v = PlaceWeight(t, i)' /\ n = Ind(x, i)
    OBVIOUS
  <2>2. v = w + n /\ ref'[i] = ref[i] + n
    BY <1>1, <2>1, Zenon
  <2>3. n \in Nat
    BY <2>1, IndTyped
  <2>4. w \in Nat
    BY <2>1, InvTyped, WeightIs
  <2>5. ref[i] \in Nat
    BY DEF Inv, CacheSound
  <2>6. ref'[i] + w = ref[i] + v
    BY <2>2, <2>3, <2>4, <2>5
  <2> QED
    BY <2>1, <2>6, Zenon
<1>5. /\ cwd' \in [Threads -> INums] /\ file' \in [Threads -> 0..NInodes]
      /\ \A u \in Threads \ {t} : cwd'[u] = cwd[u] /\ file'[u] = file[u]
  BY DEF Inv, PlacesSound
<1>6. \A i \in INums : ref'[i] >= ref[i] /\ (valid[i] => valid'[i])
  <2> TAKE i \in INums
  <2>1. ref[i] \in Nat /\ Ind(x, i) \in Nat /\ ref'[i] = ref[i] + Ind(x, i)
    BY <1>1, <1>2, IndTyped DEF CacheSound
  <2> QED
    BY <1>3, <2>1
<1>7. file'[t] = file[t]
  OBVIOUS
<1> QED
  BY <1>3, <1>4, <1>5, <1>6, <1>7, QuietStep

(* A step that takes no reference and may load y, which it has *)
LEMMA LoadStep ==
  ASSUME Inv, NEW t \in Threads, NEW q \in CallType, Went(t, q), Shape(q), ref' = ref,
         NEW y \in INums, y \in Kept(t),
         Load(y) \/ (valid' = valid /\ nlink' = nlink),
         UNCHANGED disk, dirty' = dirty, cleanup' = cleanup,
         cwd' \in [Threads -> INums], file' \in [Threads -> 0..NInodes],
         \A u \in Threads \ {t} : cwd'[u] = cwd[u] /\ file'[u] = file[u],
         \A i \in INums : PlaceWeight(t, i)' = PlaceWeight(t, i),
         q.op \in {"open", "creat"} => file'[t] = NONE,
         file'[t] = file[t] \/ FileLoaded(t)',
         LocksSound', InHand(t)', EntryFound(t)', q.pc # "rmput"
  PROVE  Inv'
<1>1. CacheSound /\ DiskSound /\ ftype[y] # "free" /\ ftype' = ftype /\ dnlink' = dnlink
  BY KeptTyped DEF Inv, disk
<1>2. /\ CacheSound' /\ \A i \in INums : valid[i] => valid'[i]
      /\ \A i \in INums : i # y => valid'[i] = valid[i]
  <2>1. CASE Load(y)
    <3>1. /\ valid' \in [INums -> BOOLEAN] /\ nlink' \in [INums -> Nat]
          /\ \A i \in INums : valid'[i] => nlink'[i] = dnlink[i] /\ ftype[i] # "free"
          /\ \A i \in INums : valid[i] => valid'[i]
          /\ \A i \in INums : i # y => valid'[i] = valid[i]
      BY <1>1, <2>1, Loaded
    <3> QED
      BY <1>1, <3>1 DEF CacheSound
  <2>2. CASE valid' = valid /\ nlink' = nlink
    BY <1>1, <2>2 DEF CacheSound
  <2> QED
    BY <2>1, <2>2
<1>3. \A i \in INums : ref'[i] + PlaceWeight(t, i) = ref[i] + PlaceWeight(t, i)'
  OBVIOUS
<1>4. \A i \in INums : ref'[i] >= ref[i] /\ (valid[i] => valid'[i])
  BY <1>1, <1>2 DEF CacheSound
<1> QED
  BY <1>2, <1>3, <1>4, QuietStep

(* A call that ends after it may have loaded y, with the locks as they are *)
(* to be                                                                   *)
LEMMA LoadDone ==
  ASSUME Inv, NEW t \in Threads, th[t].curr # NONE, th[t].pc # "release", th[t].ino = NONE,
         Goto(t, Done(th[t])), cwd' = cwd, file' = file, ref' = ref, cleanup' = cleanup,
         UNCHANGED disk, dirty' = dirty, NEW y \in INums, y \in Kept(t),
         Load(y) \/ (valid' = valid /\ nlink' = nlink),
         lock' = [i \in INums |-> IF i = HeldLock(th[t]) THEN Nobody ELSE lock[i]]
  PROVE  Inv'
<1>1. CacheSound /\ DiskSound /\ EntriesUnique /\ ftype[y] # "free" /\ ftype' = ftype
      /\ dnlink' = dnlink
  BY KeptTyped DEF Inv, disk
<1>2. /\ CacheSound' /\ \A i \in INums : valid[i] => valid'[i]
      /\ \A i \in INums : i # y => valid'[i] = valid[i]
  <2>1. CASE Load(y)
    <3>1. /\ valid' \in [INums -> BOOLEAN] /\ nlink' \in [INums -> Nat]
          /\ \A i \in INums : valid'[i] => nlink'[i] = dnlink[i] /\ ftype[i] # "free"
          /\ \A i \in INums : valid[i] => valid'[i]
          /\ \A i \in INums : i # y => valid'[i] = valid[i]
      BY <1>1, <2>1, Loaded
    <3> QED
      BY <1>1, <3>1 DEF CacheSound
  <2>2. CASE valid' = valid /\ nlink' = nlink
    BY <1>1, <2>2 DEF CacheSound
  <2> QED
    BY <2>1, <2>2
<1>3. DiskSound' /\ EntriesUnique' /\ Grows(t)
  BY <1>1, DiskKept
<1>4. Unlinks'
  <2>1. Unlinks /\ dirty' \subseteq INums
    BY DEF Inv, Unlinks
  <2>2. \A i \in INums : valid[i] /\ ref[i] > 0 => valid'[i] /\ ref'[i] > 0
    BY <1>2
  <2>3. \A i \in INums : Unsettled(i)' => Unsettled(i)
    BY <1>1 DEF Unsettled
  <2> QED
    BY <2>1, <2>2, <2>3, UnlinksKept
<1> QED
  BY <1>2, <1>3, <1>4, DoneQuiet

(* fs_find_parent_inode *)
LEMMA WalkInv ==
  ASSUME Inv, NEW t \in Threads, fs_find_parent_inode(t)
  PROVE  Inv'
<1> DEFINE r == th[t]
<1>1. PICK n : n = search_dir(r.curr, Leaf(r))
  OBVIOUS
<1>2. /\ r.pc = "walk" /\ lock[r.curr] = Nobody /\ Load(r.curr)
      /\ UNCHANGED disk /\ dirty' = dirty /\ cleanup' = cleanup /\ cwd' = cwd /\ file' = file
  BY DEF fs_find_parent_inode
<1>3. \/ Goto(t, Done(r)) /\ ref' = ref /\ lock' = lock
      \/ /\ ftype[r.curr] = "dir" /\ Goto(t, [r EXCEPT !.pc = AtParent(r.op)])
         /\ ref' = ref /\ lock' = lock
      \/ /\ ftype[r.curr] = "dir" /\ Len(r.rest) > 1 /\ n # NONE /\ GetRef(n)
         /\ lock' = [lock EXCEPT ![r.curr] = t]
         /\ Goto(t, [r EXCEPT !.pc = "enter", !.ino = n])
  BY <1>1 DEF fs_find_parent_inode
<1>4. /\ r \in CallType /\ Shape(r) /\ InHand(t) /\ cwd[t] \in INums /\ file[t] \in 0..NInodes
      /\ (r.op \in {"open", "creat"} => file[t] = NONE)
  BY InvTyped DEF Inv, CallsSound
<1>5. r.curr # NONE /\ r.ino = NONE /\ r.op # "none" /\ r.ret = "idle" /\ r.drop = <<>>
  BY <1>2, <1>4 DEF Shape, OpSound, InDir, Locked, Looked
<1>6. r.curr \in INums
  BY <1>4, <1>5 DEF CallType, INums, NONE
<1>7. r.curr \in Kept(t)
  BY <1>5 DEF Kept
<1>8. HeldLock(r) = NONE
  BY <1>2 DEF HeldLock, Locked, Looked
<1>9. First(r.drop) = NONE /\ Second(r.drop) = NONE /\ \A i \in Kept(t) : ftype[i] # "free"
  BY <1>2, KeptTyped
<1>10. /\ ftype' = ftype /\ dirents' = dirents
       /\ \A i \in INums : valid[i] => valid'[i]
  <2>1. CacheSound /\ DiskSound
    BY DEF Inv
  <2> QED
    BY <1>2, <1>6, <1>7, <1>9, <2>1, Loaded DEF disk
<1>11. cwd' \in [Threads -> INums] /\ file' \in [Threads -> 0..NInodes]
       /\ \A u \in Threads \ {t} : cwd'[u] = cwd[u] /\ file'[u] = file[u]
  BY <1>2 DEF Inv, PlacesSound
<1>12. CASE Goto(t, Done(r)) /\ ref' = ref /\ lock' = lock
  <2>1. lock' = [i \in INums |-> IF i = HeldLock(r) THEN Nobody ELSE lock[i]]
    BY <1>8, <1>12, LocksKept
  <2> QED
    BY <1>2, <1>5, <1>6, <1>7, <1>12, <2>1, LoadDone
<1>13. CASE /\ ftype[r.curr] = "dir" /\ Goto(t, [r EXCEPT !.pc = AtParent(r.op)])
            /\ ref' = ref /\ lock' = lock
  <2> DEFINE q == [r EXCEPT !.pc = AtParent(r.op)]
  <2>1. /\ r.op \in {"chdir", "link"} => AtParent(r.op) = "find"
        /\ r.op \in {"open", "creat"} => AtParent(r.op) = "open"
        /\ r.op \in {"unlink", "rmdir"} => AtParent(r.op) = "rm"
        /\ r.op = "mkdir" => AtParent(r.op) = "mk"
        /\ r.op = "linkat" => AtParent(r.op) = "linksrc"
    BY DEF AtParent
  <2>2. r.op \in {"open", "creat", "chdir", "link", "linkat", "unlink", "mkdir", "rmdir"}
    BY <1>4, <1>5 DEF CallType, Ops
  <2>3. AtParent(r.op) \in {"find", "open", "rm", "mk", "linksrc"}
    BY <2>1, <2>2
  <2>4. q \in CallType
    BY <1>4, <2>3 DEF CallType, InDir
  <2>5. /\ q.op = r.op /\ q.pc = AtParent(r.op) /\ q.curr = r.curr /\ q.ino = NONE
        /\ q.src = r.src /\ q.drop = <<>> /\ q.ret = "idle"
    BY <1>4, <1>5 DEF CallType
  <2> HIDE DEF q
  <2>6. Shape(q)
    <3>1. Len(<<>>) \in 0..2 /\ (r.src # NONE <=> r.op = "linkat")
      BY <1>4 DEF Shape
    <3>2. OpSound(q)
      BY <2>1, <2>2, <2>3, <2>5 DEF OpSound
    <3> QED
      BY <1>5, <2>3, <2>5, <3>1, <3>2 DEF Shape, InDir, Locked, Looked
  <2>7. Went(t, q)
    BY <1>13, <2>4, GotoIs DEF Inv, CallsSound, q
  <2>8. th'[t] = q
    BY <2>7 DEF Went
  <2>9. First(q.drop) = NONE /\ Second(q.drop) = NONE
    BY <2>5, DropIs
  <2>10. \A i \in INums : PlaceWeight(t, i)' = PlaceWeight(t, i)
    BY <1>2, <1>5, <1>9, <2>5, <2>8, <2>9 DEF PlaceWeight, Weight
  <2>11. Kept(t)' = Kept(t)
    BY <1>2, <1>5, <1>9, <2>5, <2>8, <2>9 DEF Kept
  <2>12. InHand(t)' /\ EntryFound(t)'
    <3>1. r.src # NONE => ftype'[r.src] = "file" /\ valid'[r.src]
      <4>1. r.src # NONE => r.src \in INums
        BY <1>4 DEF CallType, INums, NONE
      <4> QED
        BY <1>4, <1>10, <4>1 DEF InHand
    <3> QED
      BY <1>9, <1>10, <1>13, <2>3, <2>5, <2>8, <2>11, <3>1 DEF InHand, EntryFound, Looked
  <2>13. LocksSound'
    <3>1. HeldLock(q) = NONE
      BY <2>3, <2>5 DEF HeldLock, Locked, Looked
    <3> QED
      BY <1>8, <1>13, <2>7, <3>1, LocksStay
  <2>14. q.pc # "rmput" /\ (q.op \in {"open", "creat"} => file'[t] = NONE)
    BY <1>2, <1>4, <2>3, <2>5
  <2> QED
    BY <1>2, <1>6, <1>7, <1>11, <1>13, <2>4, <2>6, <2>7, <2>10, <2>12, <2>13, <2>14, LoadStep
<1>14. CASE /\ ftype[r.curr] = "dir" /\ Len(r.rest) > 1 /\ n # NONE /\ GetRef(n)
            /\ lock' = [lock EXCEPT ![r.curr] = t]
            /\ Goto(t, [r EXCEPT !.pc = "enter", !.ino = n])
  <2> DEFINE q == [r EXCEPT !.pc = "enter", !.ino = n]
  <2>1. DiskSound
    BY DEF Inv
  <2>2. /\ n \in INums /\ ftype[n] # "free" /\ dnlink[n] > 0
        /\ \E s \in Slots : dirents[r.curr][s] = [inum |-> n, name |-> Leaf(r)]
    BY <1>1, <1>6, <1>14, <2>1, Searched
  <2>3. q \in CallType
    <3>1. "enter" \in InDir /\ n \in 0..NInodes
      BY <2>2 DEF InDir, Locked, Looked, INums
    <3> QED
      BY <1>4, <3>1 DEF CallType
  <2>4. /\ q.op = r.op /\ q.pc = "enter" /\ q.curr = r.curr /\ q.ino = n
        /\ q.src = r.src /\ q.drop = <<>> /\ q.ret = "idle" /\ q.rest = r.rest
    BY <1>4, <1>5 DEF CallType
  <2> HIDE DEF q
  <2>5. r.rest # <<>>
    BY <1>14
  <2>6. Shape(q)
    <3>1. Len(<<>>) \in 0..2 /\ (r.src # NONE <=> r.op = "linkat") /\ n # NONE
      BY <1>4, <1>14 DEF Shape
    <3> QED
      BY <1>5, <2>4, <2>5, <3>1 DEF Shape, OpSound, InDir, Locked, Looked
  <2>7. Went(t, q)
    BY <1>14, <2>3, GotoIs DEF Inv, CallsSound, q
  <2>8. th'[t] = q
    BY <2>7 DEF Went
  <2>9. First(q.drop) = NONE /\ Second(q.drop) = NONE
    BY <2>4, DropIs
  <2>10. \A i \in INums : PlaceWeight(t, i)' = PlaceWeight(t, i) + Ind(n, i)
    <3> TAKE i \in INums
    <3>1. (\A y : Ind(y, i) \in Nat) /\ Ind(NONE, i) = 0
      BY IndTyped
    <3>2. PlaceWeight(t, i)' = Ind(r.curr, i) + Ind(n, i) + Ind(r.src, i) + Ind(cwd[t], i)
                               + Ind(file[t], i) + Ind(NONE, i) + Ind(NONE, i)
      BY <1>2, <2>4, <2>8, <2>9 DEF PlaceWeight, Weight
    <3>3. PlaceWeight(t, i) = Ind(r.curr, i) + Ind(NONE, i) + Ind(r.src, i) + Ind(cwd[t], i)
                              + Ind(file[t], i) + Ind(NONE, i) + Ind(NONE, i)
      BY <1>5, <1>9 DEF PlaceWeight, Weight
    <3> QED
      BY <3>1, <3>2, <3>3
  <2>11. Kept(t)' \subseteq Kept(t) \cup {n}
    BY <1>2, <2>4, <2>8, <2>9 DEF Kept
  <2>12. InHand(t)'
    <3>1. r.src # NONE => ftype'[r.src] = "file" /\ valid'[r.src]
      <4>1. r.src # NONE => r.src \in INums
        BY <1>4 DEF CallType, INums, NONE
      <4> QED
        BY <1>4, <1>10, <4>1 DEF InHand
    <3> QED
      BY <1>9, <1>10, <1>14, <2>2, <2>4, <2>8, <2>11, <3>1 DEF InHand
  <2>13. EntryFound(t)'
    <3>1. Leaf(q) = Leaf(r)
      BY <2>4 DEF Leaf
    <3> QED
      BY <1>10, <2>2, <2>4, <2>8, <3>1 DEF EntryFound, Leaf
  <2>14. LocksSound'
    <3>1. HeldLock(q) = r.curr
      BY <2>4 DEF HeldLock, Locked, Looked
    <3> QED
      BY <1>2, <1>6, <1>8, <1>14, <2>7, <3>1, LocksTaken
  <2>15. q.pc # "rmput" /\ (q.op \in {"open", "creat"} => file'[t] = NONE)
    BY <1>2, <1>4, <2>4
  <2> QED
    BY <1>2, <1>6, <1>7, <1>14, <2>2, <2>3, <2>6, <2>7, <2>10, <2>12, <2>13, <2>14, <2>15, TakeStep
<1> QED
  BY <1>3, <1>12, <1>13, <1>14

LEMMA EnterInv ==
  ASSUME Inv, NEW t \in Threads, Enter(t)
  PROVE  Inv'
<1> DEFINE r == th[t]
           q == [r EXCEPT !.curr = r.ino, !.ino = NONE, !.rest = Tail(r.rest),
                          !.pc = "release", !.drop = <<r.curr>>, !.ret = "walk"]
<1>1. /\ r.pc = "enter" /\ lock[r.ino] = Nobody /\ Load(r.ino)
      /\ lock' = [lock EXCEPT ![r.curr] = Nobody]
      /\ UNCHANGED disk /\ ref' = ref /\ dirty' = dirty /\ cleanup' = cleanup /\ cwd' = cwd /\ file' = file
  BY DEF Enter
<1>2. /\ r \in CallType /\ Shape(r) /\ InHand(t) /\ cwd[t] \in INums /\ file[t] \in 0..NInodes
      /\ (r.op \in {"open", "creat"} => file[t] = NONE)
  BY InvTyped DEF Inv, CallsSound
<1>3. Goto(t, q)
  <2>1. ThenDrop([r EXCEPT !.curr = r.ino, !.ino = NONE, !.rest = Tail(@)], <<r.curr>>, "walk") = q
    BY <1>2 DEF ThenDrop, CallType
  <2> QED
    BY <2>1 DEF Enter
<1>4. r.curr # NONE /\ r.ino # NONE /\ r.op # "none" /\ r.rest # <<>>
  BY <1>1, <1>2 DEF Shape, OpSound, InDir, Locked, Looked
<1>5. r.curr \in INums /\ r.ino \in INums
  BY <1>2, <1>4 DEF CallType, INums, NONE
<1>6. r.curr \in Kept(t) /\ r.ino \in Kept(t)
  BY <1>4 DEF Kept
<1>7. HeldLock(r) = r.curr
  BY <1>1 DEF HeldLock, Locked, Looked
<1>8. First(r.drop) = NONE /\ Second(r.drop) = NONE /\ \A i \in Kept(t) : ftype[i] # "free"
  BY <1>1, KeptTyped
<1>9. /\ ftype' = ftype /\ \A i \in INums : valid[i] => valid'[i]
  <2>1. CacheSound /\ DiskSound
    BY DEF Inv
  <2> QED
    BY <1>1, <1>5, <1>6, <1>8, <2>1, Loaded DEF disk
<1>10. /\ cwd' \in [Threads -> INums] /\ file' \in [Threads -> 0..NInodes]
       /\ \A u \in Threads \ {t} : cwd'[u] = cwd[u] /\ file'[u] = file[u]
  BY <1>1 DEF Inv, PlacesSound
<1>11. q \in CallType
  <2>1. Tail(r.rest) \in Seq(Names)
    BY <1>2, <1>4 DEF CallType
  <2>2. <<r.curr>> \in Seq(INums) /\ NONE \in 0..NInodes
    BY <1>5, ConstantsTyped DEF NONE
  <2> QED
    BY <1>2, <2>1, <2>2 DEF CallType
<1>12. /\ q.op = r.op /\ q.pc = "release" /\ q.curr = r.ino /\ q.ino = NONE
       /\ q.src = r.src /\ q.drop = <<r.curr>> /\ q.ret = "walk"
  BY <1>2 DEF CallType
<1> HIDE DEF q
<1>13. Shape(q)
  <2>1. Len(<<r.curr>>) = 1 /\ <<r.curr>> # <<>> /\ (r.src # NONE <=> r.op = "linkat")
    BY <1>2 DEF Shape
  <2>2. Len(q.drop) = 1 /\ q.drop # <<>> /\ 1 \in 0..2
    BY <1>12, <2>1
  <2> QED
    BY <1>4, <1>12, <2>1, <2>2 DEF Shape, OpSound, InDir, Locked, Looked
<1>14. Went(t, q)
  BY <1>3, <1>11, GotoIs DEF Inv, CallsSound, q
<1>15. th'[t] = q /\ First(q.drop) = r.curr /\ Second(q.drop) = NONE
  BY <1>12, <1>14, DropIs DEF Went
<1>16. \A i \in INums : PlaceWeight(t, i)' = PlaceWeight(t, i)
  <2> TAKE i \in INums
  <2>1. (\A y : Ind(y, i) \in Nat) /\ Ind(NONE, i) = 0
    BY IndTyped
  <2>2. PlaceWeight(t, i)' = Ind(r.ino, i) + Ind(NONE, i) + Ind(r.src, i) + Ind(cwd[t], i)
                             + Ind(file[t], i) + Ind(r.curr, i) + Ind(NONE, i)
    BY <1>1, <1>12, <1>15 DEF PlaceWeight, Weight
  <2>3. PlaceWeight(t, i) = Ind(r.curr, i) + Ind(r.ino, i) + Ind(r.src, i) + Ind(cwd[t], i)
                            + Ind(file[t], i) + Ind(NONE, i) + Ind(NONE, i)
    BY <1>8 DEF PlaceWeight, Weight
  <2> QED
    BY <2>1, <2>2, <2>3
<1>17. Kept(t)' \subseteq Kept(t)
  BY <1>1, <1>8, <1>12, <1>15 DEF Kept
<1>18. InHand(t)' /\ EntryFound(t)'
  <2>1. r.src # NONE => ftype'[r.src] = "file" /\ valid'[r.src]
    <3>1. r.src # NONE => r.src \in INums
      BY <1>2 DEF CallType, INums, NONE
    <3> QED
      BY <1>2, <1>9, <3>1 DEF InHand
  <2> QED
    BY <1>8, <1>9, <1>12, <1>15, <1>17, <2>1 DEF InHand, EntryFound, InDir, Locked, Looked
<1>19. LocksSound'
  <2>1. HeldLock(q) = NONE
    BY <1>12 DEF HeldLock, Locked, Looked
  <2> QED
    BY <1>1, <1>5, <1>7, <1>14, <2>1, LocksGone
<1>20. q.pc # "rmput" /\ (q.op \in {"open", "creat"} => file'[t] = NONE)
  BY <1>1, <1>2, <1>12
<1> QED
  BY <1>1, <1>5, <1>6, <1>10, <1>11, <1>13, <1>14, <1>16, <1>18, <1>19, <1>20, LoadStep

(* A thread that holds an inode twice refers to it twice. *)
LEMMA KeptAgain ==
  ASSUME Inv, NEW t \in Threads, NEW i \in INums,
         \/ First(th[t].drop) = i /\ i \in {th[t].src, th[t].ino, file[t]}
         \/ th[t].ino = i /\ file[t] = i
  PROVE  ref[i] >= 2
<1>1. PlacesTyped
  BY InvTyped
<1>2. PICK R : R \in Nat /\ Holders(i) = R + PlaceWeight(t, i) + Count(i, cleanup)
  BY <1>1, HoldersAre
<1>3. PICK a, b, c, d, e, f, g :
        /\ a = Ind(th[t].curr, i) /\ b = Ind(th[t].ino, i) /\ c = Ind(th[t].src, i)
        /\ d = Ind(cwd[t], i) /\ e = Ind(file[t], i)
        /\ f = Ind(First(th[t].drop), i) /\ g = Ind(Second(th[t].drop), i)
  OBVIOUS
<1>4. a \in Nat /\ b \in Nat /\ c \in Nat /\ d \in Nat /\ e \in Nat /\ f \in Nat /\ g \in Nat
  BY <1>3, IndTyped
<1>5. (f = 1 /\ (b = 1 \/ c = 1 \/ e = 1)) \/ (b = 1 /\ e = 1)
  BY <1>3 DEF Ind
<1>6. PlaceWeight(t, i) = a + b + c + d + e + f + g
  BY <1>3, Zenon DEF PlaceWeight, Weight
<1>7. PlaceWeight(t, i) \in Nat /\ PlaceWeight(t, i) >= 2
  BY <1>4, <1>5, <1>6
<1>8. Count(i, cleanup) \in Nat /\ ref[i] = Holders(i)
  BY CleanupCounts DEF Inv, RefsCounted
<1> QED
  BY <1>2, <1>7, <1>8

LEMMA ReleaseInv ==
  ASSUME Inv, NEW t \in Threads, Release(t)
  PROVE  Inv'
<1> DEFINE r == th[t]
<1>1. PICK x, more : x = Head(r.drop) /\ more = Tail(r.drop)
  OBVIOUS
<1>2. PICK q : q = IF more # <<>> THEN [r EXCEPT !.drop = more]
                   ELSE IF r.ret = "idle" THEN Idle
                   ELSE [r EXCEPT !.pc = r.ret, !.drop = <<>>, !.ret = "idle"]
  OBVIOUS
<1>3. /\ r.pc = "release" /\ lock[x] = Nobody /\ fs_release_inode(x) /\ Goto(t, q)
      /\ UNCHANGED disk /\ lock' = lock /\ cwd' = cwd /\ file' = file
  BY <1>1, <1>2 DEF Release
<1>4. /\ r \in CallType /\ Shape(r) /\ InHand(t) /\ cwd[t] \in INums /\ file[t] \in 0..NInodes
      /\ (r.op \in {"open", "creat"} => file[t] = NONE)
  BY InvTyped DEF Inv, CallsSound
<1>5. r.drop \in Seq(INums) /\ Len(r.drop) \in 0..2 /\ r.drop # <<>>
  BY <1>3, <1>4 DEF CallType, Shape
<1>6. /\ x \in INums /\ x = First(r.drop) /\ more \in Seq(INums) /\ Len(more) = Len(r.drop) - 1
      /\ First(more) = Second(r.drop) /\ Second(more) = NONE
      /\ more = <<>> <=> Len(r.drop) = 1
      /\ Len(r.drop) = 1 => Second(r.drop) = NONE
  BY <1>1, <1>5, TailIs
<1>7. x \in Kept(t)
  BY <1>6, ConstantsTyped DEF Kept
<1>8. /\ CacheSound' /\ Unlinks'
      /\ \A i \in INums : i # x \/ ref[i] >= 2 => (valid[i] => valid'[i])
      /\ \A i \in INums : ref'[i] + Ind(x, i) + Count(i, cleanup) = ref[i] + Count(i, cleanup)'
  BY <1>3, <1>6, <1>7, Released
<1>9. DiskSound' /\ EntriesUnique' /\ Grows(t) /\ ftype' = ftype
  BY <1>3, DiskKept DEF Inv, disk
<1>10. \A u \in Threads \ {t}, i \in INums : i \in Kept(u) /\ valid[i] => valid'[i]
  BY <1>7, <1>8, KeptTwice
<1>11. /\ cwd' \in [Threads -> INums] /\ file' \in [Threads -> 0..NInodes]
       /\ \A u \in Threads \ {t} : cwd'[u] = cwd[u] /\ file'[u] = file[u]
  BY <1>3 DEF Inv, PlacesSound
(* What the record is afterwards *)
<1>12. /\ q \in CallType /\ Shape(q)
       /\ q.curr = r.curr /\ q.ino = r.ino /\ q.src = r.src
       /\ First(q.drop) = Second(r.drop) /\ Second(q.drop) = NONE
       /\ q.pc \in {"release", "idle", "walk", "found"}
       /\ q.op = r.op
  <2>1. CASE more # <<>>
    <3>1. q = [r EXCEPT !.drop = more]
      BY <1>2, <2>1
    <3>2. q \in CallType
      BY <1>4, <1>6, <3>1 DEF CallType
    <3>3. /\ q.op = r.op /\ q.pc = r.pc /\ q.curr = r.curr /\ q.ino = r.ino /\ q.src = r.src
          /\ q.ret = r.ret /\ q.drop = more
      BY <1>4, <3>1 DEF CallType
    <3>4. Len(r.drop) = 2 /\ Len(more) = 1
      BY <1>5, <1>6, <2>1
    <3>5. Len(q.drop) \in 0..2 /\ r.ret # "walk"
      BY <1>4, <3>3, <3>4 DEF Shape
    <3>6. OpSound(q)
      BY <1>4, <3>3 DEF Shape, OpSound
    <3>7. Shape(q)
      BY <1>3, <1>4, <2>1, <3>3, <3>5, <3>6 DEF Shape, Looked
    <3> QED
      BY <1>3, <1>6, <3>2, <3>3, <3>7
  <2>2. CASE more = <<>> /\ r.ret = "idle"
    <3>1. q = Idle
      BY <1>2, <2>2
    <3>2. r.op = "none" /\ r.curr = NONE /\ r.ino = NONE /\ r.src = NONE
      BY <1>3, <1>4, <2>2 DEF Shape, OpSound, InDir, Locked, Looked
    <3>3. Second(r.drop) = NONE
      BY <1>6, <2>2
    <3> QED
      BY <3>1, <3>2, <3>3, IdleIs
  <2>3. CASE more = <<>> /\ r.ret # "idle"
    <3>1. q = [r EXCEPT !.pc = r.ret, !.drop = <<>>, !.ret = "idle"]
      BY <1>2, <2>3
    <3>2. r.ret \in {"walk", "found"} /\ <<>> \in Seq(INums)
      BY <1>4, <2>3 DEF CallType
    <3>3. q \in CallType
      BY <1>4, <3>1, <3>2 DEF CallType
    <3>4. /\ q.op = r.op /\ q.pc = r.ret /\ q.curr = r.curr /\ q.ino = r.ino /\ q.src = r.src
          /\ q.ret = "idle" /\ q.drop = <<>>
      BY <1>4, <3>1 DEF CallType
    <3>5. Len(<<>>) \in 0..2
      OBVIOUS
    <3>6. OpSound(q)
      BY <1>3, <1>4, <3>2, <3>4 DEF Shape, OpSound
    <3>7. Shape(q)
      BY <1>3, <1>4, <3>2, <3>4, <3>5, <3>6 DEF Shape, InDir, Locked, Looked
    <3>8. Second(r.drop) = NONE /\ First(q.drop) = NONE /\ Second(q.drop) = NONE
      BY <1>6, <2>3, <3>4, DropIs
    <3> QED
      BY <3>2, <3>3, <3>4, <3>7, <3>8
  <2> QED
    BY <2>1, <2>2, <2>3
<1>13. Went(t, q)
  BY <1>3, <1>12, GotoIs DEF Inv, CallsSound
<1>14. th'[t] = q
  BY <1>13 DEF Went
<1>15. \A i \in INums : PlaceWeight(t, i) = PlaceWeight(t, i)' + Ind(x, i) /\ PlaceWeight(t, i)' \in Nat
  <2> TAKE i \in INums
  <2>1. (\A y : Ind(y, i) \in Nat) /\ Ind(NONE, i) = 0
    BY IndTyped
  <2>2. PlaceWeight(t, i)' = Ind(r.curr, i) + Ind(r.ino, i) + Ind(r.src, i) + Ind(cwd[t], i)
                             + Ind(file[t], i) + Ind(Second(r.drop), i) + Ind(NONE, i)
    BY <1>3, <1>12, <1>14 DEF PlaceWeight, Weight
  <2>3. PlaceWeight(t, i) = Ind(r.curr, i) + Ind(r.ino, i) + Ind(r.src, i) + Ind(cwd[t], i)
                            + Ind(file[t], i) + Ind(x, i) + Ind(Second(r.drop), i)
    BY <1>6 DEF PlaceWeight, Weight
  <2> QED
    BY <2>1, <2>2, <2>3
<1>16. \A i \in INums : ref'[i] + PlaceWeight(t, i) + Count(i, cleanup)
                        = ref[i] + PlaceWeight(t, i)' + Count(i, cleanup)'
  <2> TAKE i \in INums
  <2>1. PICK w, v, n, c, d, a, b :
          /\ w = PlaceWeight(t, i) /\ v = PlaceWeight(t, i)' /\ n = Ind(x, i)
          /\ c = Count(i, cleanup) /\ d = Count(i, cleanup)' /\ a = ref[i] /\ b = ref'[i]
    OBVIOUS
  <2>2. w = v + n /\ v \in Nat /\ b + n + c = a + d
    BY <1>8, <1>15, <2>1, Zenon
  <2>3. n \in Nat
    BY <2>1, IndTyped
  <2>4. c \in Nat
    BY <2>1, CleanupCounts
  <2>5. d \in Nat
    <3>1. cleanup' \in Seq(INums)
      BY <1>8 DEF Unlinks
    <3>2. Count(i, cleanup') \in Nat
      BY <3>1, CountAppend
    <3> QED
      BY <2>1, <3>2 DEF Count
  <2>6. a \in Nat /\ b \in Nat
    BY <1>8, <2>1 DEF Inv, CacheSound
  <2>7. b + w + c = a + v + d
    BY <2>2, <2>3, <2>4, <2>5, <2>6
  <2> QED
    BY <2>1, <2>7, Zenon
<1>17. InHand(t)' /\ EntryFound(t)'
  <2>1. Kept(t)' \subseteq Kept(t)
    BY <1>3, <1>6, <1>12, <1>14 DEF Kept
  <2>2. \A i \in Kept(t)' : ftype'[i] # "free"
    BY <1>9, <2>1, KeptTyped
  <2>3. (r.src # NONE => r.src \in INums) /\ (r.ino # NONE => r.ino \in INums)
    BY <1>4 DEF CallType, INums, NONE
  <2>4. r.src # NONE => ftype'[r.src] = "file" /\ valid'[r.src]
    <3>1. r.src # NONE => (r.src # x \/ ref[r.src] >= 2)
      BY <1>6, <2>3, KeptAgain
    <3> QED
      BY <1>4, <1>8, <1>9, <2>3, <3>1 DEF InHand
  <2>5. r.ino # NONE /\ ftype'[r.ino] = "file" => valid'[r.ino]
    <3>1. r.ino # NONE => (r.ino # x \/ ref[r.ino] >= 2)
      BY <1>6, <2>3, KeptAgain
    <3> QED
      BY <1>3, <1>4, <1>8, <1>9, <2>3, <3>1 DEF InHand
  <2> QED
    BY <1>12, <1>14, <2>2, <2>4, <2>5 DEF InHand, EntryFound, InDir, Locked, Looked
<1>18. LocksSound'
  <2>1. HeldLock(q) = NONE /\ HeldLock(r) = NONE
    BY <1>3, <1>12 DEF HeldLock, Locked, Looked
  <2> QED
    BY <1>3, <1>13, <2>1, LocksStay
<1>19. q.pc # "rmput" /\ (q.op \in {"open", "creat"} => file'[t] = NONE)
  BY <1>3, <1>4, <1>12
<1>20. FileLoaded(t)'
  <2>1. FileLoaded(t) /\ (file[t] # NONE => file[t] \in INums)
    BY <1>4, InvTyped DEF INums, NONE
  <2>2. file[t] # NONE => (file[t] # x \/ ref[file[t]] >= 2)
    BY <1>6, <2>1, KeptAgain
  <2> QED
    BY <1>3, <1>8, <1>9, <2>1, <2>2 DEF FileLoaded
<1> QED
  BY <1>8, <1>9, <1>10, <1>11, <1>12, <1>13, <1>16, <1>17, <1>18, <1>19, <1>20, StepKeeps

LEMMA FindInv ==
  ASSUME Inv, NEW t \in Threads, fs_find_inode(t)
  PROVE  Inv'
<1> DEFINE r == th[t]
<1>1. PICK s : s = Min(Matches(r.curr, Leaf(r)))
  OBVIOUS
<1>2. /\ r.pc = "find"
      /\ UNCHANGED disk /\ ref' = ref /\ valid' = valid /\ nlink' = nlink /\ lock' = lock
      /\ dirty' = dirty /\ cleanup' = cleanup /\ cwd' = cwd /\ file' = file
  BY DEF fs_find_inode, cache
<1>3. \/ Goto(t, [r EXCEPT !.pc = "found", !.ino = r.curr, !.curr = NONE])
      \/ Goto(t, Done(r))
      \/ Matches(r.curr, Leaf(r)) # {} /\ Goto(t, [r EXCEPT !.pc = "read", !.slot = s])
  BY <1>1 DEF fs_find_inode
<1>4. /\ r \in CallType /\ Shape(r) /\ InHand(t) /\ cwd[t] \in INums /\ file[t] \in 0..NInodes
  BY InvTyped
<1>5. /\ r.curr # NONE /\ r.ino = NONE /\ r.op \in {"chdir", "link"} /\ r.src = NONE
      /\ r.ret = "idle" /\ r.drop = <<>> /\ ftype[r.curr] = "dir"
  BY <1>2, <1>4 DEF Shape, OpSound, InDir, Locked, Looked, InHand
<1>6. r.curr \in INums
  BY <1>4, <1>5 DEF CallType, INums, NONE
<1>7. r.curr \in Kept(t)
  BY <1>5 DEF Kept
<1>8. HeldLock(r) = NONE
  BY <1>2 DEF HeldLock, Locked, Looked
<1>9. First(r.drop) = NONE /\ Second(r.drop) = NONE /\ \A i \in Kept(t) : ftype[i] # "free"
  BY <1>2, KeptTyped
<1>10. /\ cwd' \in [Threads -> INums] /\ file' \in [Threads -> 0..NInodes]
       /\ \A u \in Threads \ {t} : cwd'[u] = cwd[u] /\ file'[u] = file[u]
  BY <1>2 DEF Inv, PlacesSound
<1>11. CASE Goto(t, Done(r))
  <2>1. lock' = [i \in INums |-> IF i = HeldLock(r) THEN Nobody ELSE lock[i]]
    BY <1>2, <1>8, LocksKept
  <2> QED
    BY <1>2, <1>5, <1>6, <1>7, <1>11, <2>1, LoadDone
<1>12. CASE Goto(t, [r EXCEPT !.pc = "found", !.ino = r.curr, !.curr = NONE])
  <2> DEFINE q == [r EXCEPT !.pc = "found", !.ino = r.curr, !.curr = NONE]
  <2>1. q \in CallType
    <3>1. NONE \in 0..NInodes
      BY ConstantsTyped DEF NONE
    <3> QED
      BY <1>4, <3>1 DEF CallType
  <2>2. /\ q.op = r.op /\ q.pc = "found" /\ q.curr = NONE /\ q.ino = r.curr
        /\ q.src = NONE /\ q.drop = <<>> /\ q.ret = "idle"
    BY <1>4, <1>5 DEF CallType
  <2> HIDE DEF q
  <2>3. Shape(q)
    <3>1. Len(<<>>) \in 0..2
      OBVIOUS
    <3> QED
      BY <1>5, <2>2, <3>1 DEF Shape, OpSound, InDir, Locked, Looked
  <2>4. Went(t, q)
    BY <1>12, <2>1, GotoIs DEF Inv, CallsSound, q
  <2>5. th'[t] = q /\ First(q.drop) = NONE /\ Second(q.drop) = NONE
    BY <2>2, <2>4, DropIs DEF Went
  <2>6. \A i \in INums : PlaceWeight(t, i)' = PlaceWeight(t, i)
    <3> TAKE i \in INums
    <3>1. (\A y : Ind(y, i) \in Nat) /\ Ind(NONE, i) = 0
      BY IndTyped
    <3>2. PlaceWeight(t, i)' = Ind(NONE, i) + Ind(r.curr, i) + Ind(NONE, i) + Ind(cwd[t], i)
                               + Ind(file[t], i) + Ind(NONE, i) + Ind(NONE, i)
      BY <1>2, <2>2, <2>5 DEF PlaceWeight, Weight
    <3>3. PlaceWeight(t, i) = Ind(r.curr, i) + Ind(NONE, i) + Ind(NONE, i) + Ind(cwd[t], i)
                              + Ind(file[t], i) + Ind(NONE, i) + Ind(NONE, i)
      BY <1>5, <1>9 DEF PlaceWeight, Weight
    <3> QED
      BY <3>1, <3>2, <3>3
  <2>7. Kept(t)' \subseteq Kept(t)
    BY <1>2, <2>2, <2>5 DEF Kept
  <2>8. InHand(t)' /\ EntryFound(t)'
    BY <1>2, <1>5, <1>9, <2>2, <2>5, <2>7 DEF InHand, EntryFound, InDir, Locked, Looked, disk
  <2>9. LocksSound'
    <3>1. HeldLock(q) = NONE
      BY <2>2 DEF HeldLock, Locked, Looked
    <3> QED
      BY <1>2, <1>8, <2>4, <3>1, LocksStay
  <2>10. q.pc # "rmput" /\ (q.op \in {"open", "creat"} => file'[t] = NONE)
    BY <1>5, <2>2
  <2> QED
    BY <1>2, <1>6, <1>7, <1>10, <2>1, <2>3, <2>4, <2>6, <2>8, <2>9, <2>10, LoadStep
<1>13. CASE Matches(r.curr, Leaf(r)) # {} /\ Goto(t, [r EXCEPT !.pc = "read", !.slot = s])
  <2> DEFINE q == [r EXCEPT !.pc = "read", !.slot = s]
  <2>1. s \in Slots
    <3>1. Matches(r.curr, Leaf(r)) \subseteq Nat
      BY ConstantsTyped DEF Matches
    <3>2. s \in Matches(r.curr, Leaf(r))
      BY <1>1, <1>13, <3>1, MinIn
    <3> QED
      BY <3>2 DEF Matches
  <2>2. q \in CallType
    <3>1. s \in 0..NSlots /\ "read" \in InDir
      BY <2>1 DEF Slots, InDir
    <3> QED
      BY <1>4, <3>1 DEF CallType
  <2>3. /\ q.op = r.op /\ q.pc = "read" /\ q.curr = r.curr /\ q.ino = NONE
        /\ q.src = NONE /\ q.drop = <<>> /\ q.ret = "idle" /\ q.slot = s
    BY <1>4, <1>5 DEF CallType
  <2> HIDE DEF q
  <2>4. Shape(q)
    <3>1. Len(<<>>) \in 0..2 /\ s # 0
      BY <2>1, ConstantsTyped DEF Slots
    <3> QED
      BY <1>5, <2>3, <3>1 DEF Shape, OpSound, InDir, Locked, Looked
  <2>5. Went(t, q)
    BY <1>13, <2>2, GotoIs DEF Inv, CallsSound, q
  <2>6. th'[t] = q /\ First(q.drop) = NONE /\ Second(q.drop) = NONE
    BY <2>3, <2>5, DropIs DEF Went
  <2>7. \A i \in INums : PlaceWeight(t, i)' = PlaceWeight(t, i)
    BY <1>2, <1>5, <1>9, <2>3, <2>6 DEF PlaceWeight, Weight
  <2>8. Kept(t)' = Kept(t)
    BY <1>2, <1>5, <1>9, <2>3, <2>6 DEF Kept
  <2>9. InHand(t)' /\ EntryFound(t)'
    BY <1>2, <1>5, <1>9, <2>3, <2>6, <2>8 DEF InHand, EntryFound, Looked, disk
  <2>10. LocksSound'
    <3>1. HeldLock(q) = NONE
      BY <2>3 DEF HeldLock, Locked, Looked
    <3> QED
      BY <1>2, <1>8, <2>5, <3>1, LocksStay
  <2>11. q.pc # "rmput" /\ (q.op \in {"open", "creat"} => file'[t] = NONE)
    BY <1>5, <2>3
  <2> QED
    BY <1>2, <1>6, <1>7, <1>10, <2>2, <2>4, <2>5, <2>7, <2>9, <2>10, <2>11, LoadStep
<1> QED
  BY <1>3, <1>11, <1>12, <1>13

LEMMA ReadInv ==
  ASSUME Inv, NEW t \in Threads, ReadEntry(t)
  PROVE  Inv'
<1> DEFINE r == th[t]
<1>1. PICK x : x = dirents[r.curr][r.slot].inum
  OBVIOUS
<1>2. /\ r.pc = "read"
      /\ UNCHANGED disk /\ ref' = ref /\ valid' = valid /\ nlink' = nlink /\ lock' = lock
      /\ dirty' = dirty /\ cleanup' = cleanup /\ cwd' = cwd /\ file' = file
  BY DEF ReadEntry, cache
<1>3. \/ x # NONE /\ Goto(t, [r EXCEPT !.pc = "take", !.inum = x, !.slot = 0])
      \/ Goto(t, Done(r))
  BY <1>1 DEF ReadEntry
<1>4. /\ r \in CallType /\ Shape(r) /\ InHand(t) /\ cwd[t] \in INums /\ file[t] \in 0..NInodes
  BY InvTyped
<1>5. /\ r.curr # NONE /\ r.ino = NONE /\ r.op \in {"chdir", "link"} /\ r.src = NONE
      /\ r.ret = "idle" /\ r.drop = <<>> /\ ftype[r.curr] = "dir" /\ r.slot # 0
  BY <1>2, <1>4 DEF Shape, OpSound, InDir, Locked, Looked, InHand
<1>6. r.curr \in INums /\ r.slot \in Slots
  BY <1>4, <1>5 DEF CallType, INums, NONE, Slots
<1>7. r.curr \in Kept(t)
  BY <1>5 DEF Kept
<1>8. HeldLock(r) = NONE
  BY <1>2 DEF HeldLock, Locked, Looked
<1>9. First(r.drop) = NONE /\ Second(r.drop) = NONE /\ \A i \in Kept(t) : ftype[i] # "free"
  BY <1>2, KeptTyped
<1>10. CASE Goto(t, Done(r))
  <2>1. lock' = [i \in INums |-> IF i = HeldLock(r) THEN Nobody ELSE lock[i]]
    BY <1>2, <1>8, LocksKept
  <2> QED
    BY <1>2, <1>5, <1>6, <1>7, <1>10, <2>1, LoadDone
<1>11. CASE x # NONE /\ Goto(t, [r EXCEPT !.pc = "take", !.inum = x, !.slot = 0])
  <2> DEFINE q == [r EXCEPT !.pc = "take", !.inum = x, !.slot = 0]
  <2>1. DiskSound
    BY DEF Inv
  <2>2. x \in INums
    <3>1. dirents[r.curr][r.slot] \in EntryType
      BY <1>6, <2>1 DEF DiskSound
    <3> QED
      BY <1>1, <1>11, <3>1 DEF EntryType, INums, NONE
  <2>3. ftype[x] # "free"
    BY <1>1, <1>6, <2>1, <2>2, EntryCounts
  <2>4. q \in CallType
    <3>1. "take" \in InDir /\ x \in 0..NInodes /\ 0 \in 0..NSlots
      BY <2>2, ConstantsTyped DEF InDir, INums
    <3> QED
      BY <1>4, <3>1 DEF CallType
  <2>5. /\ q.op = r.op /\ q.pc = "take" /\ q.curr = r.curr /\ q.ino = NONE
        /\ q.src = NONE /\ q.drop = <<>> /\ q.ret = "idle" /\ q.inum = x
    BY <1>4, <1>5 DEF CallType
  <2> HIDE DEF q
  <2>6. Shape(q)
    <3>1. Len(<<>>) \in 0..2 /\ x # NONE
      BY <1>11
    <3> QED
      BY <1>5, <2>5, <3>1 DEF Shape, OpSound, InDir, Locked, Looked
  <2>7. Went(t, q)
    BY <1>11, <2>4, GotoIs DEF Inv, CallsSound, q
  <2>8. th'[t] = q /\ First(q.drop) = NONE /\ Second(q.drop) = NONE
    BY <2>5, <2>7, DropIs DEF Went
  <2>9. \A i \in INums : PlaceWeight(t, i)' = PlaceWeight(t, i)
    BY <1>2, <1>5, <1>9, <2>5, <2>8 DEF PlaceWeight, Weight
  <2>10. Kept(t)' = Kept(t)
    BY <1>2, <1>5, <1>9, <2>5, <2>8 DEF Kept
  <2>11. InHand(t)' /\ EntryFound(t)'
    BY <1>2, <1>5, <1>9, <2>3, <2>5, <2>8, <2>10 DEF InHand, EntryFound, Looked, disk
  <2>12. LocksSound'
    <3>1. HeldLock(q) = NONE
      BY <2>5 DEF HeldLock, Locked, Looked
    <3> QED
      BY <1>2, <1>8, <2>7, <3>1, LocksStay
  <2>13. q.pc # "rmput" /\ (q.op \in {"open", "creat"} => file'[t] = NONE)
    BY <1>5, <2>5
  <2>14. /\ cwd' \in [Threads -> INums] /\ file' \in [Threads -> 0..NInodes]
         /\ \A u \in Threads \ {t} : cwd'[u] = cwd[u] /\ file'[u] = file[u]
    BY <1>2 DEF Inv, PlacesSound
  <2> QED
    BY <1>2, <1>6, <1>7, <2>4, <2>6, <2>7, <2>9, <2>11, <2>12, <2>13, <2>14, LoadStep
<1> QED
  BY <1>3, <1>10, <1>11

LEMMA TakeInv ==
  ASSUME Inv, NEW t \in Threads, Take(t)
  PROVE  Inv'
<1> DEFINE r == th[t]
<1>1. PICK x : x = r.inum
  OBVIOUS
<1>2. /\ r.pc = "take"
      /\ UNCHANGED disk /\ valid' = valid /\ nlink' = nlink /\ lock' = lock
      /\ dirty' = dirty /\ cleanup' = cleanup /\ cwd' = cwd /\ file' = file
  BY DEF Take
<1>3. \/ GetRef(x) /\ Goto(t, [r EXCEPT !.pc = "hold", !.ino = x, !.inum = NONE])
      \/ Goto(t, Done(r)) /\ ref' = ref
  BY <1>1 DEF Take
<1>4. /\ r \in CallType /\ Shape(r) /\ InHand(t) /\ cwd[t] \in INums /\ file[t] \in 0..NInodes
  BY InvTyped
<1>5. /\ r.curr # NONE /\ r.ino = NONE /\ r.op \in {"chdir", "link"} /\ r.src = NONE
      /\ r.ret = "idle" /\ r.drop = <<>> /\ ftype[r.curr] = "dir" /\ r.inum # NONE
      /\ ftype[r.inum] # "free"
  BY <1>2, <1>4 DEF Shape, OpSound, InDir, Locked, Looked, InHand
<1>6. r.curr \in INums /\ x \in INums
  BY <1>1, <1>4, <1>5 DEF CallType, INums, NONE
<1>7. r.curr \in Kept(t)
  BY <1>5 DEF Kept
<1>8. HeldLock(r) = NONE
  BY <1>2 DEF HeldLock, Locked, Looked
<1>9. First(r.drop) = NONE /\ Second(r.drop) = NONE /\ \A i \in Kept(t) : ftype[i] # "free"
  BY <1>2, KeptTyped
<1>10. CASE Goto(t, Done(r)) /\ ref' = ref
  <2>1. lock' = [i \in INums |-> IF i = HeldLock(r) THEN Nobody ELSE lock[i]]
    BY <1>2, <1>8, LocksKept
  <2> QED
    BY <1>2, <1>5, <1>6, <1>7, <1>10, <2>1, LoadDone
<1>11. CASE GetRef(x) /\ Goto(t, [r EXCEPT !.pc = "hold", !.ino = x, !.inum = NONE])
  <2> DEFINE q == [r EXCEPT !.pc = "hold", !.ino = x, !.inum = NONE]
  <2>4. q \in CallType
    <3>1. "hold" \in InDir /\ x \in 0..NInodes /\ NONE \in 0..NInodes
      BY <1>6, ConstantsTyped DEF InDir, INums, NONE
    <3> QED
      BY <1>4, <3>1 DEF CallType
  <2>5. /\ q.op = r.op /\ q.pc = "hold" /\ q.curr = r.curr /\ q.ino = x
        /\ q.src = NONE /\ q.drop = <<>> /\ q.ret = "idle"
    BY <1>4, <1>5 DEF CallType
  <2> HIDE DEF q
  <2>6. Shape(q)
    <3>1. Len(<<>>) \in 0..2 /\ x # NONE
      BY <1>1, <1>5
    <3> QED
      BY <1>5, <2>5, <3>1 DEF Shape, OpSound, InDir, Locked, Looked
  <2>7. Went(t, q)
    BY <1>11, <2>4, GotoIs DEF Inv, CallsSound, q
  <2>8. th'[t] = q /\ First(q.drop) = NONE /\ Second(q.drop) = NONE
    BY <2>5, <2>7, DropIs DEF Went
  <2>9. \A i \in INums : PlaceWeight(t, i)' = PlaceWeight(t, i) + Ind(x, i)
    <3> TAKE i \in INums
    <3>1. (\A y : Ind(y, i) \in Nat) /\ Ind(NONE, i) = 0
      BY IndTyped
    <3>2. PlaceWeight(t, i)' = Ind(r.curr, i) + Ind(x, i) + Ind(NONE, i) + Ind(cwd[t], i)
                               + Ind(file[t], i) + Ind(NONE, i) + Ind(NONE, i)
      BY <1>2, <2>5, <2>8 DEF PlaceWeight, Weight
    <3>3. PlaceWeight(t, i) = Ind(r.curr, i) + Ind(NONE, i) + Ind(NONE, i) + Ind(cwd[t], i)
                              + Ind(file[t], i) + Ind(NONE, i) + Ind(NONE, i)
      BY <1>5, <1>9 DEF PlaceWeight, Weight
    <3> QED
      BY <3>1, <3>2, <3>3
  <2>10. Kept(t)' \subseteq Kept(t) \cup {x}
    BY <1>2, <2>5, <2>8 DEF Kept
  <2>11. InHand(t)' /\ EntryFound(t)'
    BY <1>1, <1>2, <1>5, <1>9, <2>5, <2>8, <2>10 DEF InHand, EntryFound, Looked, disk
  <2>12. LocksSound'
    <3>1. HeldLock(q) = NONE
      BY <2>5 DEF HeldLock, Locked, Looked
    <3> QED
      BY <1>2, <1>8, <2>7, <3>1, LocksStay
  <2>13. q.pc # "rmput" /\ (q.op \in {"open", "creat"} => file'[t] = NONE)
    BY <1>5, <2>5
  <2> QED
    BY <1>2, <1>6, <1>7, <1>11, <2>4, <2>6, <2>7, <2>9, <2>11, <2>12, <2>13, TakeStep
<1> QED
  BY <1>3, <1>10, <1>11

LEMMA HoldInv ==
  ASSUME Inv, NEW t \in Threads, Hold(t)
  PROVE  Inv'
<1> DEFINE r == th[t]
           q == [r EXCEPT !.curr = NONE, !.pc = "release", !.drop = <<r.curr>>, !.ret = "found"]
<1>1. /\ r.pc = "hold" /\ lock[r.ino] = Nobody /\ Load(r.ino)
      /\ UNCHANGED disk /\ ref' = ref /\ lock' = lock
      /\ dirty' = dirty /\ cleanup' = cleanup /\ cwd' = cwd /\ file' = file
  BY DEF Hold
<1>2. /\ r \in CallType /\ Shape(r) /\ InHand(t) /\ cwd[t] \in INums /\ file[t] \in 0..NInodes
  BY InvTyped
<1>3. Goto(t, q)
  <2>1. ThenDrop([r EXCEPT !.curr = NONE], <<r.curr>>, "found") = q
    BY <1>2 DEF ThenDrop, CallType
  <2> QED
    BY <2>1 DEF Hold
<1>4. /\ r.curr # NONE /\ r.ino # NONE /\ r.op \in {"chdir", "link"} /\ r.src = NONE
  BY <1>1, <1>2 DEF Shape, OpSound, InDir, Locked, Looked
<1>5. r.curr \in INums /\ r.ino \in INums
  BY <1>2, <1>4 DEF CallType, INums, NONE
<1>6. r.ino \in Kept(t)
  BY <1>4 DEF Kept
<1>7. HeldLock(r) = NONE
  BY <1>1 DEF HeldLock, Locked, Looked
<1>8. First(r.drop) = NONE /\ Second(r.drop) = NONE /\ \A i \in Kept(t) : ftype[i] # "free"
  BY <1>1, KeptTyped
<1>9. ftype' = ftype /\ valid'[r.ino]
  <2>1. CacheSound /\ DiskSound
    BY DEF Inv
  <2> QED
    BY <1>1, <1>5, <1>6, <1>8, <2>1, Loaded DEF disk
<1>10. /\ cwd' \in [Threads -> INums] /\ file' \in [Threads -> 0..NInodes]
       /\ \A u \in Threads \ {t} : cwd'[u] = cwd[u] /\ file'[u] = file[u]
  BY <1>1 DEF Inv, PlacesSound
<1>11. q \in CallType
  <2>1. <<r.curr>> \in Seq(INums) /\ NONE \in 0..NInodes
    BY <1>5, ConstantsTyped DEF NONE
  <2> QED
    BY <1>2, <2>1 DEF CallType
<1>12. /\ q.op = r.op /\ q.pc = "release" /\ q.curr = NONE /\ q.ino = r.ino
       /\ q.src = NONE /\ q.drop = <<r.curr>> /\ q.ret = "found"
  BY <1>2, <1>4 DEF CallType
<1> HIDE DEF q
<1>13. Shape(q)
  <2>1. Len(<<r.curr>>) \in 0..2 /\ <<r.curr>> # <<>>
    OBVIOUS
  <2> QED
    BY <1>4, <1>12, <2>1 DEF Shape, OpSound, InDir, Locked, Looked
<1>14. Went(t, q)
  BY <1>3, <1>11, GotoIs DEF Inv, CallsSound, q
<1>15. th'[t] = q /\ First(q.drop) = r.curr /\ Second(q.drop) = NONE
  BY <1>12, <1>14, DropIs DEF Went
<1>16. \A i \in INums : PlaceWeight(t, i)' = PlaceWeight(t, i)
  <2> TAKE i \in INums
  <2>1. (\A y : Ind(y, i) \in Nat) /\ Ind(NONE, i) = 0
    BY IndTyped
  <2>2. PlaceWeight(t, i)' = Ind(NONE, i) + Ind(r.ino, i) + Ind(NONE, i) + Ind(cwd[t], i)
                             + Ind(file[t], i) + Ind(r.curr, i) + Ind(NONE, i)
    BY <1>1, <1>12, <1>15 DEF PlaceWeight, Weight
  <2>3. PlaceWeight(t, i) = Ind(r.curr, i) + Ind(r.ino, i) + Ind(NONE, i) + Ind(cwd[t], i)
                            + Ind(file[t], i) + Ind(NONE, i) + Ind(NONE, i)
    BY <1>4, <1>8 DEF PlaceWeight, Weight
  <2> QED
    BY <2>1, <2>2, <2>3
<1>17. Kept(t)' \subseteq Kept(t)
  BY <1>1, <1>8, <1>12, <1>15 DEF Kept
<1>18. InHand(t)' /\ EntryFound(t)'
  BY <1>8, <1>9, <1>12, <1>15, <1>17 DEF InHand, EntryFound, InDir, Locked, Looked
<1>19. LocksSound'
  <2>1. HeldLock(q) = NONE
    BY <1>12 DEF HeldLock, Locked, Looked
  <2> QED
    BY <1>1, <1>7, <1>14, <2>1, LocksStay
<1>20. q.pc # "rmput" /\ (q.op \in {"open", "creat"} => file'[t] = NONE)
  BY <1>4, <1>12
<1> QED
  BY <1>1, <1>5, <1>6, <1>10, <1>11, <1>13, <1>14, <1>16, <1>18, <1>19, <1>20, LoadStep

LEMMA ChdirInv ==
  ASSUME Inv, NEW t \in Threads, sys_chdir(t)
  PROVE  Inv'
<1> DEFINE r == th[t]
           q == Finish(<<cwd[t]>>)
<1>1. /\ r.pc = "found" /\ r.op = "chdir" /\ Goto(t, q)
      /\ cwd' = [cwd EXCEPT ![t] = r.ino]
      /\ UNCHANGED disk /\ ref' = ref /\ valid' = valid /\ nlink' = nlink /\ lock' = lock
      /\ dirty' = dirty /\ cleanup' = cleanup /\ file' = file
  BY DEF sys_chdir, cache
<1>2. /\ r \in CallType /\ Shape(r) /\ InHand(t) /\ cwd[t] \in INums /\ file[t] \in 0..NInodes
  BY InvTyped
<1>3. r.curr = NONE /\ r.ino # NONE /\ r.src = NONE
  BY <1>1, <1>2 DEF Shape, OpSound, InDir, Locked, Looked
<1>4. r.ino \in INums
  BY <1>2, <1>3 DEF CallType, INums, NONE
<1>5. <<cwd[t]>> \in Seq(INums) /\ Len(<<cwd[t]>>) \in 1..2
  BY <1>2
<1>6. /\ q \in CallType /\ Shape(q) /\ HeldLock(q) = NONE
      /\ q.op = "none" /\ q.pc = "release"
      /\ q.curr = NONE /\ q.ino = NONE /\ q.src = NONE
      /\ q.drop = <<cwd[t]>>
  BY <1>5, FinishIs
<1> HIDE DEF q
<1>7. Went(t, q)
  BY <1>1, <1>6, GotoIs DEF Inv, CallsSound
<1>8. th'[t] = q /\ First(q.drop) = cwd[t] /\ Second(q.drop) = NONE
  BY <1>6, <1>7, DropIs DEF Went
<1>9. First(r.drop) = NONE /\ Second(r.drop) = NONE /\ \A i \in Kept(t) : ftype[i] # "free"
  BY <1>1, KeptTyped
<1>10. /\ cwd' \in [Threads -> INums] /\ file' \in [Threads -> 0..NInodes]
       /\ \A u \in Threads \ {t} : cwd'[u] = cwd[u] /\ file'[u] = file[u]
       /\ cwd'[t] = r.ino /\ file'[t] = file[t]
  BY <1>1, <1>4 DEF Inv, PlacesSound
<1>11. \A i \in INums : PlaceWeight(t, i)' = PlaceWeight(t, i)
  <2> TAKE i \in INums
  <2>1. (\A y : Ind(y, i) \in Nat) /\ Ind(NONE, i) = 0
    BY IndTyped
  <2>2. PlaceWeight(t, i)' = Ind(NONE, i) + Ind(NONE, i) + Ind(NONE, i) + Ind(r.ino, i)
                             + Ind(file[t], i) + Ind(cwd[t], i) + Ind(NONE, i)
    BY <1>6, <1>8, <1>10 DEF PlaceWeight, Weight
  <2>3. PlaceWeight(t, i) = Ind(NONE, i) + Ind(r.ino, i) + Ind(NONE, i) + Ind(cwd[t], i)
                            + Ind(file[t], i) + Ind(NONE, i) + Ind(NONE, i)
    BY <1>3, <1>9 DEF PlaceWeight, Weight
  <2> QED
    BY <2>1, <2>2, <2>3
<1>12. InHand(t)' /\ EntryFound(t)'
  <2>1. Kept(t)' \subseteq Kept(t)
    BY <1>6, <1>8, <1>10 DEF Kept
  <2>2. \A i \in Kept(t)' : ftype'[i] # "free"
    BY <1>1, <1>9, <2>1 DEF disk
  <2> QED
    BY <1>6, <1>8, <2>2 DEF InHand, EntryFound, InDir, Locked, Looked
<1>13. LocksSound'
  <2>1. HeldLock(r) = NONE
    BY <1>1 DEF HeldLock, Locked, Looked
  <2> QED
    BY <1>1, <1>6, <1>7, <2>1, LocksStay
<1>14. r.ino \in Kept(t) /\ q.pc # "rmput" /\ (q.op \in {"open", "creat"} => file'[t] = NONE)
  BY <1>3, <1>6 DEF Kept
<1> QED
  BY <1>1, <1>4, <1>6, <1>7, <1>10, <1>11, <1>12, <1>13, <1>14, LoadStep

LEMMA LinkFoundInv ==
  ASSUME Inv, NEW t \in Threads, LinkFound(t)
  PROVE  Inv'
<1> DEFINE r == th[t]
<1>1. PICK x : x = Start(t, r.path2)
  OBVIOUS
<1>2. /\ r.pc = "found" /\ r.op = "link"
      /\ UNCHANGED disk /\ valid' = valid /\ nlink' = nlink /\ lock' = lock
      /\ dirty' = dirty /\ cleanup' = cleanup /\ cwd' = cwd /\ file' = file
  BY DEF LinkFound
<1>3. \/ Goto(t, Finish(<<r.ino>>)) /\ ref' = ref
      \/ /\ ftype[r.ino] = "file" /\ GetRef(x)
         /\ Goto(t, [r EXCEPT !.op = "linkat", !.pc = "walk", !.curr = x, !.ino = NONE,
                              !.src = r.ino, !.rest = r.path2.names, !.path2 = NoPath])
  BY <1>1 DEF LinkFound
<1>4. /\ r \in CallType /\ Shape(r) /\ InHand(t) /\ cwd[t] \in INums /\ file[t] \in 0..NInodes
  BY InvTyped
<1>5. r.curr = NONE /\ r.ino # NONE /\ r.src = NONE /\ r.drop = <<>> /\ r.ret = "idle"
  BY <1>2, <1>4 DEF Shape, OpSound, InDir, Locked, Looked
<1>6. r.ino \in INums
  BY <1>4, <1>5 DEF CallType, INums, NONE
<1>7. r.ino \in Kept(t)
  BY <1>5 DEF Kept
<1>8. HeldLock(r) = NONE
  BY <1>2 DEF HeldLock, Locked, Looked
<1>9. First(r.drop) = NONE /\ Second(r.drop) = NONE /\ \A i \in Kept(t) : ftype[i] # "free"
  BY <1>2, KeptTyped
<1>10. /\ cwd' \in [Threads -> INums] /\ file' \in [Threads -> 0..NInodes]
       /\ \A u \in Threads \ {t} : cwd'[u] = cwd[u] /\ file'[u] = file[u]
  BY <1>2 DEF Inv, PlacesSound
<1>11. CASE Goto(t, Finish(<<r.ino>>)) /\ ref' = ref
  <2> DEFINE q == Finish(<<r.ino>>)
  <2>1. <<r.ino>> \in Seq(INums) /\ Len(<<r.ino>>) \in 1..2
    BY <1>6
  <2>2. /\ q \in CallType /\ Shape(q) /\ HeldLock(q) = NONE
        /\ q.op = "none" /\ q.pc = "release"
        /\ q.curr = NONE /\ q.ino = NONE /\ q.src = NONE
        /\ q.drop = <<r.ino>>
    BY <2>1, FinishIs
  <2> HIDE DEF q
  <2>3. Went(t, q)
    BY <1>11, <2>2, GotoIs DEF Inv, CallsSound, q
  <2>4. th'[t] = q /\ First(q.drop) = r.ino /\ Second(q.drop) = NONE
    BY <2>2, <2>3, DropIs DEF Went
  <2>5. \A i \in INums : PlaceWeight(t, i)' = PlaceWeight(t, i)
    <3> TAKE i \in INums
    <3>1. (\A y : Ind(y, i) \in Nat) /\ Ind(NONE, i) = 0
      BY IndTyped
    <3>2. PlaceWeight(t, i)' = Ind(NONE, i) + Ind(NONE, i) + Ind(NONE, i) + Ind(cwd[t], i)
                               + Ind(file[t], i) + Ind(r.ino, i) + Ind(NONE, i)
      BY <1>2, <2>2, <2>4 DEF PlaceWeight, Weight
    <3>3. PlaceWeight(t, i) = Ind(NONE, i) + Ind(r.ino, i) + Ind(NONE, i) + Ind(cwd[t], i)
                              + Ind(file[t], i) + Ind(NONE, i) + Ind(NONE, i)
      BY <1>5, <1>9 DEF PlaceWeight, Weight
    <3> QED
      BY <3>1, <3>2, <3>3
  <2>6. Kept(t)' \subseteq Kept(t)
    BY <1>2, <2>2, <2>4 DEF Kept
  <2>7. InHand(t)' /\ EntryFound(t)'
    BY <1>2, <1>9, <2>2, <2>4, <2>6 DEF InHand, EntryFound, InDir, Locked, Looked, disk
  <2>8. LocksSound'
    BY <1>2, <1>8, <2>2, <2>3, LocksStay
  <2>9. q.pc # "rmput" /\ (q.op \in {"open", "creat"} => file'[t] = NONE)
    BY <2>2
  <2> QED
    BY <1>2, <1>6, <1>7, <1>10, <1>11, <2>2, <2>3, <2>5, <2>7, <2>8, <2>9, LoadStep
<1>12. CASE /\ ftype[r.ino] = "file" /\ GetRef(x)
            /\ Goto(t, [r EXCEPT !.op = "linkat", !.pc = "walk", !.curr = x, !.ino = NONE,
                                 !.src = r.ino, !.rest = r.path2.names, !.path2 = NoPath])
  <2> DEFINE q == [r EXCEPT !.op = "linkat", !.pc = "walk", !.curr = x, !.ino = NONE,
                            !.src = r.ino, !.rest = r.path2.names, !.path2 = NoPath]
  <2>1. x \in INums /\ ftype[x] # "free"
    BY <1>1, StartIs
  <2>2. q \in CallType
    <3>1. /\ x \in 0..NInodes /\ NONE \in 0..NInodes /\ "linkat" \in Ops
          /\ r.ino \in 0..NInodes
      BY <1>4, <2>1, ConstantsTyped DEF INums, Ops, NONE, CallType
    <3>2. NoPath \in PathType /\ r.path2.names \in Seq(Names)
      BY <1>4 DEF NoPath, PathType, CallType
    <3> QED
      BY <1>4, <3>1, <3>2 DEF CallType
  <2>3. /\ q.op = "linkat" /\ q.pc = "walk" /\ q.curr = x /\ q.ino = NONE
        /\ q.src = r.ino /\ q.drop = <<>> /\ q.ret = "idle"
    BY <1>4, <1>5 DEF CallType
  <2> HIDE DEF q
  <2>4. Shape(q)
    <3>1. Len(<<>>) \in 0..2 /\ x # NONE
      BY <2>1, ConstantsTyped
    <3> QED
      BY <1>5, <2>3, <3>1 DEF Shape, OpSound, InDir, Locked, Looked
  <2>5. Went(t, q)
    BY <1>12, <2>2, GotoIs DEF Inv, CallsSound, q
  <2>6. th'[t] = q /\ First(q.drop) = NONE /\ Second(q.drop) = NONE
    BY <2>3, <2>5, DropIs DEF Went
  <2>7. \A i \in INums : PlaceWeight(t, i)' = PlaceWeight(t, i) + Ind(x, i)
    <3> TAKE i \in INums
    <3>1. (\A y : Ind(y, i) \in Nat) /\ Ind(NONE, i) = 0
      BY IndTyped
    <3>2. PlaceWeight(t, i)' = Ind(x, i) + Ind(NONE, i) + Ind(r.ino, i) + Ind(cwd[t], i)
                               + Ind(file[t], i) + Ind(NONE, i) + Ind(NONE, i)
      BY <1>2, <2>3, <2>6 DEF PlaceWeight, Weight
    <3>3. PlaceWeight(t, i) = Ind(NONE, i) + Ind(r.ino, i) + Ind(NONE, i) + Ind(cwd[t], i)
                              + Ind(file[t], i) + Ind(NONE, i) + Ind(NONE, i)
      BY <1>5, <1>9 DEF PlaceWeight, Weight
    <3> QED
      BY <3>1, <3>2, <3>3
  <2>8. Kept(t)' \subseteq Kept(t) \cup {x}
    BY <1>2, <2>3, <2>6 DEF Kept
  <2>9. InHand(t)' /\ EntryFound(t)'
    <3>1. valid[r.ino]
      BY <1>2, <1>4, <1>5, <1>12 DEF InHand
    <3> QED
      BY <1>2, <1>9, <1>12, <2>1, <2>3, <2>6, <2>8, <3>1
      DEF InHand, EntryFound, InDir, Locked, Looked, disk
  <2>10. LocksSound'
    <3>1. HeldLock(q) = NONE
      BY <2>3 DEF HeldLock, Locked, Looked
    <3> QED
      BY <1>2, <1>8, <2>5, <3>1, LocksStay
  <2>11. q.pc # "rmput" /\ (q.op \in {"open", "creat"} => file'[t] = NONE)
    BY <2>3
  <2> QED
    BY <1>2, <1>6, <1>7, <1>12, <2>1, <2>2, <2>4, <2>5, <2>7, <2>9, <2>10, <2>11, TakeStep
<1> QED
  BY <1>3, <1>11, <1>12

LEMMA LinkSrcInv ==
  ASSUME Inv, NEW t \in Threads, LinkSrc(t)
  PROVE  Inv'
<1> DEFINE r == th[t]
<1>2. /\ r.pc = "linksrc"
      /\ UNCHANGED disk /\ ref' = ref /\ valid' = valid /\ nlink' = nlink
      /\ dirty' = dirty /\ cleanup' = cleanup /\ cwd' = cwd /\ file' = file
  BY DEF LinkSrc, cache
<1>3. \/ Goto(t, Done(r)) /\ lock' = lock
      \/ /\ Leaf(r) # "" /\ lock[r.src] = Nobody /\ lock' = [lock EXCEPT ![r.src] = t]
         /\ Goto(t, [r EXCEPT !.pc = "linkdir"])
  BY DEF LinkSrc
<1>4. /\ r \in CallType /\ Shape(r) /\ InHand(t) /\ cwd[t] \in INums /\ file[t] \in 0..NInodes
  BY InvTyped
<1>5. /\ r.curr # NONE /\ r.ino = NONE /\ r.src # NONE /\ r.op = "linkat"
      /\ r.drop = <<>> /\ r.ret = "idle" /\ ftype[r.curr] = "dir"
      /\ ftype[r.src] = "file" /\ valid[r.src]
  BY <1>2, <1>4 DEF Shape, OpSound, InDir, Locked, Looked, InHand
<1>6. r.curr \in INums /\ r.src \in INums
  BY <1>4, <1>5 DEF CallType, INums, NONE
<1>7. r.curr \in Kept(t)
  BY <1>5 DEF Kept
<1>8. HeldLock(r) = NONE
  BY <1>2 DEF HeldLock, Locked, Looked
<1>9. First(r.drop) = NONE /\ Second(r.drop) = NONE /\ \A i \in Kept(t) : ftype[i] # "free"
  BY <1>2, KeptTyped
<1>10. /\ cwd' \in [Threads -> INums] /\ file' \in [Threads -> 0..NInodes]
       /\ \A u \in Threads \ {t} : cwd'[u] = cwd[u] /\ file'[u] = file[u]
  BY <1>2 DEF Inv, PlacesSound
<1>11. CASE Goto(t, Done(r)) /\ lock' = lock
  <2>1. lock' = [i \in INums |-> IF i = HeldLock(r) THEN Nobody ELSE lock[i]]
    BY <1>8, <1>11, LocksKept
  <2> QED
    BY <1>2, <1>5, <1>6, <1>7, <1>11, <2>1, LoadDone
<1>12. CASE /\ Leaf(r) # "" /\ lock[r.src] = Nobody /\ lock' = [lock EXCEPT ![r.src] = t]
            /\ Goto(t, [r EXCEPT !.pc = "linkdir"])
  <2> DEFINE q == [r EXCEPT !.pc = "linkdir"]
  <2>1. q \in CallType
    BY <1>4 DEF CallType, InDir
  <2>2. /\ q.op = "linkat" /\ q.pc = "linkdir" /\ q.curr = r.curr /\ q.ino = NONE
        /\ q.src = r.src /\ q.drop = <<>> /\ q.ret = "idle" /\ q.rest = r.rest
    BY <1>4, <1>5 DEF CallType
  <2> HIDE DEF q
  <2>3. r.rest # <<>>
    BY <1>12 DEF Leaf
  <2>4. Shape(q)
    <3>1. Len(<<>>) \in 0..2
      OBVIOUS
    <3> QED
      BY <1>5, <2>2, <2>3, <3>1 DEF Shape, OpSound, InDir, Locked, Looked
  <2>5. Went(t, q)
    BY <1>12, <2>1, GotoIs DEF Inv, CallsSound, q
  <2>6. th'[t] = q /\ First(q.drop) = NONE /\ Second(q.drop) = NONE
    BY <2>2, <2>5, DropIs DEF Went
  <2>7. \A i \in INums : PlaceWeight(t, i)' = PlaceWeight(t, i)
    BY <1>2, <1>5, <1>9, <2>2, <2>6 DEF PlaceWeight, Weight
  <2>8. Kept(t)' = Kept(t)
    BY <1>2, <1>5, <1>9, <2>2, <2>6 DEF Kept
  <2>9. InHand(t)' /\ EntryFound(t)'
    BY <1>2, <1>5, <1>9, <2>2, <2>6, <2>8 DEF InHand, EntryFound, Looked, disk
  <2>10. LocksSound'
    <3>1. HeldLock(q) = r.src
      BY <2>2 DEF HeldLock, Locked, Looked
    <3> QED
      BY <1>6, <1>8, <1>12, <2>5, <3>1, LocksTaken
  <2>11. q.pc # "rmput" /\ (q.op \in {"open", "creat"} => file'[t] = NONE)
    BY <2>2
  <2> QED
    BY <1>2, <1>6, <1>7, <1>10, <2>1, <2>4, <2>5, <2>7, <2>9, <2>10, <2>11, LoadStep
<1> QED
  BY <1>3, <1>11, <1>12

(* What AddLink does, whether the name is new or not *)
LEMMA AddLinkIs ==
  ASSUME Inv, NEW t \in Threads, th[t].pc = "linkdir", lock[th[t].curr] = Nobody,
         AddLink(th[t]), ftype' = ftype, valid' = valid, ref' = ref, cleanup' = cleanup
  PROVE  /\ DiskSound' /\ Grows(t)
         /\ EntriesUnique /\ Matches(th[t].curr, Leaf(th[t])) = {} => EntriesUnique'
         /\ nlink' \in [INums -> Nat] /\ Unlinks'
         /\ \A i \in INums : i # th[t].src => nlink'[i] = nlink[i] /\ dnlink'[i] = dnlink[i]
         /\ \A i \in INums : valid'[i] => nlink'[i] = dnlink'[i] /\ ftype'[i] # "free"
<1> DEFINE r == th[t]
<1>1. /\ r \in CallType /\ Shape(r) /\ InHand(t)
  BY InvTyped
<1>2. /\ r.curr # NONE /\ r.src # NONE /\ r.rest # <<>> /\ ftype[r.curr] = "dir"
      /\ ftype[r.src] = "file" /\ valid[r.src]
  BY <1>1 DEF Shape, OpSound, InDir, Locked, Looked, InHand
<1>3. r.curr \in INums /\ r.src \in INums
  BY <1>1, <1>2 DEF CallType, INums, NONE
<1>4. Leaf(r) \in Names
  BY <1>1, <1>2 DEF CallType, Leaf
<1>5. /\ nlink \in [INums -> Nat] /\ dnlink \in [INums -> Nat] /\ DiskSound
      /\ \A i \in INums : valid[i] => nlink[i] = dnlink[i] /\ ftype[i] # "free"
  BY DEF Inv, CacheSound, DiskSound
<1>6. /\ FreeSlots(r.curr) # {} /\ alloc_dirent(r.curr, Leaf(r), r.src)
      /\ nlink' = [nlink EXCEPT ![r.src] = nlink[r.src] + 1]
      /\ dnlink' = [dnlink EXCEPT ![r.src] = nlink[r.src] + 1]
      /\ dirty' = dirty \ {r.src}
  BY DEF AddLink
<1>7. nlink[r.src] = dnlink[r.src]
  BY <1>2, <1>3, <1>5
<1>8. dnlink' = [dnlink EXCEPT ![r.src] = dnlink[r.src] + 1]
  BY <1>6, <1>7
<1>9. /\ DiskSound' /\ Grows(t)
      /\ EntriesUnique /\ Matches(r.curr, Leaf(r)) = {} => EntriesUnique'
  <2>1. PICK d, n, i : d = r.curr /\ n = Leaf(r) /\ i = r.src
    OBVIOUS
  <2>2. /\ d \in INums /\ n \in Names /\ i \in INums /\ ftype[d] = "dir" /\ ftype[i] = "file"
        /\ lock[d] \in {t, Nobody} /\ FreeSlots(d) # {} /\ alloc_dirent(d, n, i)
        /\ dnlink' = [dnlink EXCEPT ![i] = dnlink[i] + 1]
    BY <1>2, <1>3, <1>4, <1>6, <1>8, <2>1
  <2>3. /\ DiskSound' /\ Grows(t)
        /\ EntriesUnique /\ Matches(d, n) = {} => EntriesUnique'
    BY <1>5, <2>2, Linked
  <2> QED
    BY <2>1, <2>3
<1>10. /\ nlink' \in [INums -> Nat] /\ nlink'[r.src] = dnlink'[r.src]
       /\ \A i \in INums : i # r.src => nlink'[i] = nlink[i] /\ dnlink'[i] = dnlink[i]
  BY <1>3, <1>5, <1>6
<1>11. Unlinks'
  <2>1. Unlinks /\ dirty' \subseteq INums
    BY <1>6 DEF Inv, Unlinks
  <2>2. r.src \in Kept(t)
    BY <1>2 DEF Kept
  <2>3. ref[r.src] > 0
    BY <1>3, <2>2, KeptAlive
  <2>4. \A i \in INums : Unsettled(i)' => Unsettled(i) \/ (valid'[i] /\ ref'[i] > 0)
    <3> SUFFICES ASSUME NEW i \in INums, Unsettled(i)', i # r.src
                 PROVE  Unsettled(i)
      BY <1>2, <2>3
    <3>1. ftype'[i] = ftype[i] /\ dnlink'[i] = dnlink[i] /\ (i \in dirty' => i \in dirty)
      BY <1>6, <1>10
    <3> QED
      BY <3>1 DEF Unsettled
  <2> QED
    BY <2>1, <2>4, UnlinksKept
<1> QED
  BY <1>5, <1>9, <1>10, <1>11

LEMMA SfsLinkInv ==
  ASSUME Inv, NEW t \in Threads, sfs_link(t)
  PROVE  Inv'
<1> DEFINE r == th[t]
<1>1. /\ r.pc = "linkdir" /\ lock[r.curr] = Nobody
      /\ lock' = [lock EXCEPT ![r.src] = Nobody] /\ Goto(t, Done(r))
      /\ ftype' = ftype /\ ref' = ref /\ valid' = valid
      /\ cleanup' = cleanup /\ cwd' = cwd /\ file' = file
  BY DEF sfs_link
<1>2. \/ search_dir(r.curr, Leaf(r)) = NONE /\ AddLink(r)
      \/ dirents' = dirents /\ nlink' = nlink /\ dnlink' = dnlink /\ dirty' = dirty
  BY DEF sfs_link
<1>3. /\ r \in CallType /\ Shape(r) /\ InHand(t)
  BY InvTyped
<1>4. r.curr # NONE /\ r.src # NONE /\ r.ino = NONE
  BY <1>1, <1>3 DEF Shape, OpSound, InDir, Locked, Looked
<1>5. r.curr \in INums /\ r.src \in INums
  BY <1>3, <1>4 DEF CallType, INums, NONE
<1>6. r.src \in Kept(t)
  BY <1>4 DEF Kept
<1>7. lock' = [i \in INums |-> IF i = HeldLock(r) THEN Nobody ELSE lock[i]]
  <2>1. HeldLock(r) = r.src
    BY <1>1 DEF HeldLock, Locked, Looked
  <2> QED
    BY <1>1, <1>5, <2>1, LocksGiven
<1>8. DiskSound /\ EntriesUnique /\ CacheSound
  BY DEF Inv
<1>9. CASE search_dir(r.curr, Leaf(r)) = NONE /\ AddLink(r)
  <2>1. /\ DiskSound' /\ Grows(t)
        /\ EntriesUnique /\ Matches(r.curr, Leaf(r)) = {} => EntriesUnique'
        /\ nlink' \in [INums -> Nat] /\ Unlinks'
        /\ \A i \in INums : i # r.src => nlink'[i] = nlink[i] /\ dnlink'[i] = dnlink[i]
        /\ \A i \in INums : valid'[i] => nlink'[i] = dnlink'[i] /\ ftype'[i] # "free"
    BY <1>1, <1>9, AddLinkIs
  <2>2. Matches(r.curr, Leaf(r)) = {}
    BY <1>5, <1>8, <1>9, SearchedNone
  <2>3. CacheSound'
    BY <1>1, <1>8, <2>1 DEF CacheSound
  <2>8. \A i \in INums : valid[i] => valid'[i]
    BY <1>1
  <2> QED
    BY <1>1, <1>4, <1>7, <1>8, <2>1, <2>2, <2>3, <2>8, DoneQuiet
<1>10. CASE dirents' = dirents /\ nlink' = nlink /\ dnlink' = dnlink /\ dirty' = dirty
  <2>1. UNCHANGED disk
    BY <1>1, <1>10 DEF disk
  <2> QED
    BY <1>1, <1>4, <1>5, <1>6, <1>7, <1>10, <2>1, LoadDone
<1> QED
  BY <1>2, <1>9, <1>10

LEMMA NumsIn == \A i \in INums : i \in 0..NInodes
BY DEF INums

LEMMA InodesIn ==
  ASSUME NEW r \in CallType
  PROVE  /\ r.curr # NONE => r.curr \in INums
         /\ r.ino # NONE => r.ino \in INums
         /\ r.src # NONE => r.src \in INums
         /\ Leaf(r) # "" => Leaf(r) \in Names
<1>1. r.rest \in Seq(Names)
  BY DEF CallType
<1>2. r.rest # <<>> => Head(r.rest) \in Names
  BY <1>1
<1>3. Leaf(r) # "" => Leaf(r) \in Names
  BY <1>2 DEF Leaf
<1>4. r.curr \in 0..NInodes /\ r.ino \in 0..NInodes /\ r.src \in 0..NInodes
  BY DEF CallType
<1>5. \A i \in 0..NInodes : i # NONE => i \in INums
  BY DEF INums, NONE
<1> QED
  BY <1>3, <1>4, <1>5, Zenon

(* A new inode: nothing has it, so nothing of it is cached. *)
RefsAtMost(i) == ref' \in [INums -> Nat] /\ \A j \in INums : j # i => ref'[j] = ref[j]

LEMMA CreatedCache ==
  ASSUME Inv, NEW t \in Threads, NEW d \in INums, NEW n \in Names,
         NEW type \in {"file", "dir"}, ftype[d] = "dir", lock[d] \in {t, Nobody},
         CanCreate(d), create_inode_in_dir(d, n, type),
         valid' = valid, nlink' = nlink, dirty' = dirty, cleanup' = cleanup,
         RefsAtMost(Min(FreeInodes))
  PROVE  /\ DiskSound' /\ Grows(t)
         /\ Matches(d, n) = {} => EntriesUnique'
         /\ CacheSound' /\ Unlinks'
         /\ NewInode(d, n, type)
<1>1. DiskSound /\ EntriesUnique
  BY DEF Inv
<1>2. /\ nlink \in [INums -> Nat] /\ valid \in [INums -> BOOLEAN]
      /\ \A i \in INums : valid[i] => nlink[i] = dnlink[i] /\ ftype[i] # "free"
      /\ ftype \in [INums -> {"free", "file", "dir"}] /\ dnlink \in [INums -> Nat]
  BY DEF Inv, CacheSound, DiskSound
<1>3. /\ DiskSound' /\ Grows(t)
      /\ EntriesUnique /\ Matches(d, n) = {} => EntriesUnique'
      /\ NewInode(d, n, type)
  BY <1>1, Created
<1>4. PICK i \in INums :
        /\ i = Min(FreeInodes) /\ ftype[i] = "free" /\ ftype'[i] = type
        /\ ftype' = [ftype EXCEPT ![i] = type]
        /\ dnlink' = [dnlink EXCEPT ![i] = 1]
        /\ \E s \in Slots : dirents'[d][s] = [inum |-> i, name |-> Cut[n]]
  BY <1>3, Zenon DEF NewInode
<1>R. ref' \in [INums -> Nat] /\ \A j \in INums : j # i => ref'[j] = ref[j]
  BY <1>4 DEF RefsAtMost
<1>5. \A j \in INums : j # i => ftype'[j] = ftype[j] /\ dnlink'[j] = dnlink[j]
  BY <1>2, <1>4
<1>6. CacheSound'
  BY <1>2, <1>4, <1>5, <1>R DEF CacheSound
<1>10. Unlinks'
  <2>1. Unlinks /\ dirty' \subseteq INums
    BY DEF Inv, Unlinks
  <2>2. \A j \in INums : valid[j] /\ ref[j] > 0 => valid'[j] /\ ref'[j] > 0
    BY <1>2, <1>4, <1>R
  <2>3. dnlink'[i] = 1
    BY <1>2, <1>4
  <2>4. \A j \in INums : Unsettled(j)' => Unsettled(j)
    BY <1>5, <2>3 DEF Unsettled
  <2> QED
    BY <2>1, <2>2, <2>4, UnlinksKept
<1> QED
  BY <1>1, <1>3, <1>6, <1>10

(* A call that has made a new inode, and ends *)
LEMMA CreatedDone ==
  ASSUME Inv, NEW t \in Threads, NEW type \in {"file", "dir"},
         th[t].pc \in {"mk", "open"}, Leaf(th[t]) # "", lock[th[t].curr] = Nobody,
         search_dir(th[t].curr, Leaf(th[t])) = NONE,
         CanCreate(th[t].curr), create_inode_in_dir(th[t].curr, Leaf(th[t]), type),
         valid' = valid, nlink' = nlink, dirty' = dirty, cleanup' = cleanup,
         ref' = ref, lock' = lock,
         cwd' = cwd, file' = file, Goto(t, Done(th[t]))
  PROVE  Inv'
<1> DEFINE r == th[t]
<1>1. /\ r \in CallType /\ Shape(r) /\ InHand(t)
  BY InvTyped
<1>2. r.curr # NONE /\ r.ino = NONE /\ r.pc # "release" /\ ftype[r.curr] = "dir"
  BY <1>1 DEF Shape, OpSound, InDir, Locked, Looked, InHand
<1>3. r.curr \in INums
  BY <1>1, <1>2, InodesIn, Zenon
<1>4. Leaf(r) \in Names
  BY <1>1, InodesIn, Zenon
<1>5. PICK d, n : d = r.curr /\ n = Leaf(r)
  OBVIOUS
<1>6. /\ d \in INums /\ n \in Names /\ ftype[d] = "dir" /\ lock[d] \in {t, Nobody}
      /\ CanCreate(d) /\ create_inode_in_dir(d, n, type) /\ search_dir(d, n) = NONE
  BY <1>2, <1>3, <1>4, <1>5
<1>7. RefsAtMost(Min(FreeInodes))
  BY DEF Inv, CacheSound, RefsAtMost
<1>8. /\ DiskSound' /\ Grows(t)
      /\ Matches(d, n) = {} => EntriesUnique'
      /\ CacheSound' /\ Unlinks'
  BY <1>6, <1>7, CreatedCache
<1>9. Matches(d, n) = {}
  BY <1>6, SearchedNone DEF Inv
<1>10. lock' = [i \in INums |-> IF i = HeldLock(r) THEN Nobody ELSE lock[i]]
  <2>1. HeldLock(r) = NONE
    BY DEF HeldLock, Locked, Looked
  <2> QED
    BY <2>1, LocksKept
<1>11. \A i \in INums : valid[i] => valid'[i]
  OBVIOUS
<1> QED
  BY <1>2, <1>8, <1>9, <1>10, <1>11, DoneQuiet

LEMMA MkdirInv ==
  ASSUME Inv, NEW t \in Threads, fs_mkdir(t)
  PROVE  Inv'
<1> DEFINE r == th[t]
<1>1. /\ r.pc = "mk" /\ Goto(t, Done(r)) /\ (Leaf(r) # "" => lock[r.curr] = Nobody)
      /\ ref' = ref /\ valid' = valid /\ nlink' = nlink
      /\ lock' = lock /\ dirty' = dirty /\ cleanup' = cleanup /\ cwd' = cwd /\ file' = file
  BY DEF fs_mkdir, cache
<1>2. \/ /\ Leaf(r) # "" /\ search_dir(r.curr, Leaf(r)) = NONE /\ CanCreate(r.curr)
         /\ create_inode_in_dir(r.curr, Leaf(r), "dir")
      \/ UNCHANGED disk
  BY DEF fs_mkdir
<1>3. CASE UNCHANGED disk
  <2>1. /\ r \in CallType /\ Shape(r) /\ InHand(t)
    BY InvTyped
  <2>2. r.curr # NONE /\ r.ino = NONE /\ r.pc # "release"
    BY <1>1, <2>1 DEF Shape, OpSound, InDir, Locked, Looked, InHand
  <2>3. r.curr \in INums
    BY <2>1, <2>2 DEF CallType, INums, NONE
  <2>4. r.curr \in Kept(t)
    BY <2>2 DEF Kept
  <2>5. HeldLock(r) = NONE
    BY <1>1 DEF HeldLock, Locked, Looked
  <2>6. lock' = [i \in INums |-> IF i = HeldLock(r) THEN Nobody ELSE lock[i]]
    BY <1>1, <2>5, LocksKept
  <2> QED
    BY <1>1, <1>3, <2>2, <2>3, <2>4, <2>6, LoadDone
<1>4. CASE /\ Leaf(r) # "" /\ search_dir(r.curr, Leaf(r)) = NONE /\ CanCreate(r.curr)
           /\ create_inode_in_dir(r.curr, Leaf(r), "dir")
  <2>1. PICK type \in {"file", "dir"} : type = "dir"
    OBVIOUS
  <2>2. create_inode_in_dir(r.curr, Leaf(r), type) /\ r.pc \in {"mk", "open"}
    BY <1>1, <1>4, <2>1
  <2> QED
    BY <1>1, <1>4, <2>2, CreatedDone
<1> QED
  BY <1>2, <1>3, <1>4

(* fs_open_file and fs_unlink have found x, and keep the directory's lock. *)
LooksUp(t, pc, x) ==
  /\ Leaf(th[t]) # "" /\ lock[th[t].curr] = Nobody
  /\ x = search_dir(th[t].curr, Leaf(th[t])) /\ x # NONE /\ GetRef(x)
  /\ lock' = [lock EXCEPT ![th[t].curr] = t]
  /\ Goto(t, [th[t] EXCEPT !.pc = pc, !.ino = x])

LEMMA LookedUp ==
  ASSUME Inv, NEW t \in Threads, NEW pc, NEW x, LooksUp(t, pc, x),
         \/ th[t].pc = "open" /\ pc = "opened"
         \/ th[t].pc = "rm" /\ pc = "rmlock",
         UNCHANGED disk, valid' = valid, nlink' = nlink, dirty' = dirty, cleanup' = cleanup,
         cwd' = cwd, file' = file
  PROVE  Inv'
<1> DEFINE r == th[t]
           q == [r EXCEPT !.pc = pc, !.ino = x]
<1>0. /\ Leaf(r) # "" /\ lock[r.curr] = Nobody
      /\ x = search_dir(r.curr, Leaf(r)) /\ x # NONE /\ GetRef(x)
      /\ lock' = [lock EXCEPT ![r.curr] = t]
      /\ Goto(t, q)
  BY DEF LooksUp
<1> HIDE DEF q
<1>1. /\ r \in CallType /\ Shape(r) /\ InHand(t) /\ cwd[t] \in INums /\ file[t] \in 0..NInodes
      /\ (r.op \in {"open", "creat"} => file[t] = NONE)
  BY InvTyped DEF Inv, CallsSound
<1>2. /\ r.curr # NONE /\ r.ino = NONE /\ r.drop = <<>> /\ r.ret = "idle" /\ r.src = NONE
      /\ r.pc # "release" /\ ftype[r.curr] = "dir"
  BY <1>1 DEF Shape, OpSound, InDir, Locked, Looked, InHand
<1>3. r.curr \in INums
  BY <1>1, <1>2, InodesIn, Zenon
<1>4. r.curr \in Kept(t)
  BY <1>2 DEF Kept
<1>5. HeldLock(r) = NONE
  BY DEF HeldLock, Locked, Looked
<1>6. First(r.drop) = NONE /\ Second(r.drop) = NONE /\ \A i \in Kept(t) : ftype[i] # "free"
  BY <1>2, KeptTyped
<1>7. /\ x \in INums /\ ftype[x] # "free" /\ dnlink[x] > 0
      /\ \E s \in Slots : /\ dirents[r.curr][s] = [inum |-> x, name |-> Leaf(r)]
                         /\ s = Min(Matches(r.curr, Leaf(r)))
  <2>1. DiskSound
    BY DEF Inv
  <2> QED
    BY <1>0, <1>3, <2>1, Searched
<1>8. q \in CallType
  <2>1. pc \in InDir
    BY Zenon DEF InDir, Locked, Looked
  <2>2. x \in 0..NInodes
    BY <1>7, NumsIn, Zenon
  <2> QED
    BY <1>1, <2>1, <2>2 DEF CallType, q
<1>9. /\ q.op = r.op /\ q.pc = pc /\ q.curr = r.curr /\ q.ino = x
      /\ q.src = NONE /\ q.drop = <<>> /\ q.ret = "idle" /\ q.rest = r.rest
  BY <1>1, <1>2 DEF CallType, q
<1>10. r.rest # <<>>
  BY <1>0 DEF Leaf
<1>11. Shape(q)
  <2>1. Len(<<>>) \in 0..2 /\ (NONE # NONE <=> r.op = "linkat")
    BY <1>1, <1>2 DEF Shape
  <2>2. OpSound(q)
    BY <1>1, <1>9 DEF Shape, OpSound
  <2> QED
    BY <1>0, <1>2, <1>9, <1>10, <2>1, <2>2 DEF Shape, InDir, Locked, Looked
<1>12. Went(t, q)
  BY <1>0, <1>8, GotoIs DEF Inv, CallsSound
<1>13. th'[t] = q /\ First(q.drop) = NONE /\ Second(q.drop) = NONE
  BY <1>9, <1>12, DropIs DEF Went
<1>14. \A i \in INums : PlaceWeight(t, i)' = PlaceWeight(t, i) + Ind(x, i)
  <2> TAKE i \in INums
  <2>1. (\A y : Ind(y, i) \in Nat) /\ Ind(NONE, i) = 0
    BY IndTyped
  <2>2. PlaceWeight(t, i)' = Ind(r.curr, i) + Ind(x, i) + Ind(NONE, i) + Ind(cwd[t], i)
                             + Ind(file[t], i) + Ind(NONE, i) + Ind(NONE, i)
    BY <1>9, <1>13 DEF PlaceWeight, Weight
  <2>3. PlaceWeight(t, i) = Ind(r.curr, i) + Ind(NONE, i) + Ind(NONE, i) + Ind(cwd[t], i)
                            + Ind(file[t], i) + Ind(NONE, i) + Ind(NONE, i)
    BY <1>2, <1>6 DEF PlaceWeight, Weight
  <2>4. PICK a, b, c, e, z, v, w :
          /\ a = Ind(r.curr, i) /\ b = Ind(x, i) /\ c = Ind(cwd[t], i) /\ e = Ind(file[t], i)
          /\ z = Ind(NONE, i) /\ v = PlaceWeight(t, i)' /\ w = PlaceWeight(t, i)
    OBVIOUS
  <2>5. /\ a \in Nat /\ b \in Nat /\ c \in Nat /\ e \in Nat /\ z = 0
        /\ v = a + b + z + c + e + z + z /\ w = a + z + z + c + e + z + z
    BY <2>1, <2>2, <2>3, <2>4, Zenon
  <2>6. v = w + b
    BY <2>5, SMT
  <2> QED
    BY <2>4, <2>6, Zenon
<1>15. Kept(t)' \subseteq Kept(t) \cup {x}
  BY <1>9, <1>13 DEF Kept
<1>16. InHand(t)'
  BY <1>2, <1>6, <1>7, <1>9, <1>13, <1>15 DEF InHand, disk
<1>17. EntryFound(t)'
  <2>1. Leaf(q) = Leaf(r)
    BY <1>9 DEF Leaf
  <2>2. PICK s \in Slots : /\ dirents[r.curr][s] = [inum |-> x, name |-> Leaf(r)]
                           /\ s = Min(Matches(r.curr, Leaf(r)))
    BY <1>7
  <2>3. Leaf(th[t])' = Leaf(r) /\ th'[t].curr = r.curr /\ th'[t].ino = x
    BY <1>9, <1>13, <2>1 DEF Leaf
  <2>4. Matches(th[t].curr, Leaf(th[t]))' = Matches(r.curr, Leaf(r))
    BY <2>3 DEF Matches, disk
  <2> QED
    BY <2>2, <2>3, <2>4 DEF EntryFound, disk
<1>18. LocksSound'
  <2>1. HeldLock(q) = r.curr
    BY <1>9 DEF HeldLock, Locked, Looked
  <2> QED
    BY <1>0, <1>3, <1>5, <1>12, <2>1, LocksTaken
<1>19. q.pc # "rmput" /\ (q.op \in {"open", "creat"} => file'[t] = NONE)
  BY <1>1, <1>9
<1> QED
  BY <1>0, <1>3, <1>4, <1>7, <1>8, <1>11, <1>12, <1>14, <1>16, <1>17, <1>18, <1>19, TakeStep

LEMMA UnlinkInv ==
  ASSUME Inv, NEW t \in Threads, fs_unlink(t)
  PROVE  Inv'
<1> DEFINE r == th[t]
<1>1. PICK x : x = search_dir(r.curr, Leaf(r))
  OBVIOUS
<1>2. /\ r.pc = "rm" /\ UNCHANGED disk /\ valid' = valid /\ nlink' = nlink
      /\ dirty' = dirty /\ cleanup' = cleanup /\ cwd' = cwd /\ file' = file
  BY DEF fs_unlink
<1>3. \/ Goto(t, Done(r)) /\ ref' = ref /\ lock' = lock
      \/ /\ Leaf(r) # "" /\ lock[r.curr] = Nobody /\ x # NONE /\ GetRef(x)
         /\ lock' = [lock EXCEPT ![r.curr] = t]
         /\ Goto(t, [r EXCEPT !.pc = "rmlock", !.ino = x])
  BY <1>1 DEF fs_unlink
<1>4. CASE Goto(t, Done(r)) /\ ref' = ref /\ lock' = lock
  <2>1. /\ r \in CallType /\ Shape(r) /\ InHand(t)
    BY InvTyped
  <2>2. r.curr # NONE /\ r.ino = NONE /\ r.pc # "release"
    BY <1>2, <2>1 DEF Shape, OpSound, InDir, Locked, Looked, InHand
  <2>3. r.curr \in INums
    BY <2>1, <2>2 DEF CallType, INums, NONE
  <2>4. r.curr \in Kept(t)
    BY <2>2 DEF Kept
  <2>5. HeldLock(r) = NONE
    BY <1>2 DEF HeldLock, Locked, Looked
  <2>6. lock' = [i \in INums |-> IF i = HeldLock(r) THEN Nobody ELSE lock[i]]
    BY <1>4, <2>5, LocksKept
  <2> QED
    BY <1>2, <1>4, <2>2, <2>3, <2>4, <2>6, LoadDone
<1>5. CASE /\ Leaf(r) # "" /\ lock[r.curr] = Nobody /\ x # NONE /\ GetRef(x)
           /\ lock' = [lock EXCEPT ![r.curr] = t]
           /\ Goto(t, [r EXCEPT !.pc = "rmlock", !.ino = x])
  <2>1. PICK pc : pc = "rmlock"
    OBVIOUS
  <2>2. LooksUp(t, pc, x)
    BY <1>1, <1>5, <2>1 DEF LooksUp
  <2> QED
    BY <1>2, <2>1, <2>2, LookedUp
<1> QED
  BY <1>3, <1>4, <1>5

(* fs_open_file has made the file, and keeps the directory's lock. *)
Makes(t, x) ==
  /\ Leaf(th[t]) # "" /\ lock[th[t].curr] = Nobody
  /\ search_dir(th[t].curr, Leaf(th[t])) = NONE /\ CanCreate(th[t].curr)
  /\ Cut[Leaf(th[t])] = Leaf(th[t])
  /\ create_inode_in_dir(th[t].curr, Leaf(th[t]), "file")
  /\ x = Min(FreeInodes) /\ GetRef(x)
  /\ lock' = [lock EXCEPT ![th[t].curr] = t]
  /\ Goto(t, [th[t] EXCEPT !.pc = "opened", !.ino = x])

LEMMA MadeNew ==
  ASSUME Inv, NEW t \in Threads, NEW x, Makes(t, x), th[t].pc = "open",
         valid' = valid, nlink' = nlink, dirty' = dirty, cleanup' = cleanup,
         cwd' = cwd, file' = file
  PROVE  Inv'
<1> DEFINE r == th[t]
           q == [r EXCEPT !.pc = "opened", !.ino = x]
<1>1. PICK d, n : d = r.curr /\ n = Leaf(r)
  OBVIOUS
<1>2. PICK type \in {"file", "dir"} : type = "file"
  OBVIOUS
<1>3. /\ n # "" /\ lock[d] = Nobody /\ search_dir(d, n) = NONE /\ CanCreate(d)
      /\ create_inode_in_dir(d, n, type) /\ x = Min(FreeInodes) /\ GetRef(x)
      /\ lock' = [lock EXCEPT ![d] = t] /\ Goto(t, q) /\ Cut[n] = n
  BY <1>1, <1>2 DEF Makes
<1> HIDE DEF q
<1>4. /\ r \in CallType /\ Shape(r) /\ InHand(t) /\ cwd[t] \in INums /\ file[t] \in 0..NInodes
      /\ (r.op \in {"open", "creat"} => file[t] = NONE)
  BY InvTyped DEF Inv, CallsSound
<1>5. /\ d # NONE /\ r.ino = NONE /\ r.drop = <<>> /\ r.ret = "idle" /\ r.src = NONE
      /\ r.op \in {"open", "creat"} /\ ftype[d] = "dir"
  BY <1>1, <1>4 DEF Shape, OpSound, InDir, Locked, Looked, InHand
<1>6. d \in INums /\ n \in Names
  BY <1>1, <1>3, <1>4, <1>5, InodesIn, Zenon
<1>7. HeldLock(r) = NONE
  BY DEF HeldLock, Locked, Looked
<1>8. First(r.drop) = NONE /\ Second(r.drop) = NONE /\ \A i \in Kept(t) : ftype[i] # "free"
  BY KeptTyped
<1>9. x \in INums
  <2>1. FreeInodes \subseteq Nat /\ FreeInodes # {}
    BY <1>3, ConstantsTyped DEF FreeInodes, CanCreate
  <2>2. x \in FreeInodes
    BY <1>3, <2>1, MinIn
  <2> QED
    BY <2>2 DEF FreeInodes
<1>10. /\ ref' \in [INums -> Nat]
       /\ \A i \in INums : ref'[i] = ref[i] + Ind(x, i) /\ (i # x => ref'[i] = ref[i])
  BY <1>3, <1>9, RefTaken DEF Inv
<1>11. RefsAtMost(Min(FreeInodes))
  BY <1>3, <1>10 DEF RefsAtMost
<1>12. lock[d] \in {t, Nobody}
  BY <1>3
<1>13. /\ DiskSound' /\ Grows(t) /\ (Matches(d, n) = {} => EntriesUnique')
       /\ CacheSound' /\ Unlinks' /\ NewInode(d, n, type)
  BY <1>3, <1>5, <1>6, <1>11, <1>12, CreatedCache
<1>14. EntriesUnique'
  BY <1>3, <1>6, <1>13, SearchedNone DEF Inv
<1>15. /\ ftype'[x] = "file"
       /\ \E s \in Slots : dirents'[d][s] = [inum |-> x, name |-> n]
  BY <1>2, <1>3, <1>13 DEF NewInode
<1>16. q \in CallType
  <2>1. "opened" \in InDir /\ x \in 0..NInodes
    BY <1>9, NumsIn DEF InDir, Locked, Looked
  <2> QED
    BY <1>4, <2>1 DEF CallType, q
<1>17. /\ q.op = r.op /\ q.pc = "opened" /\ q.curr = d /\ q.ino = x
       /\ q.src = NONE /\ q.drop = <<>> /\ q.ret = "idle" /\ q.rest = r.rest
  BY <1>1, <1>4, <1>5 DEF CallType, q
<1>18. Shape(q)
  <2>1. Len(<<>>) \in 0..2 /\ x # NONE
    BY <1>9, ConstantsTyped
  <2>2. r.rest # <<>>
    BY <1>1, <1>3 DEF Leaf
  <2> QED
    BY <1>5, <1>17, <2>1, <2>2 DEF Shape, OpSound, InDir, Locked, Looked
<1>19. Went(t, q)
  BY <1>3, <1>16, GotoIs DEF Inv, CallsSound
<1>20. th'[t] = q /\ First(q.drop) = NONE /\ Second(q.drop) = NONE
  BY <1>17, <1>19, DropIs DEF Went
<1>21. \A i \in INums : ref'[i] + PlaceWeight(t, i) + Count(i, cleanup)
                        = ref[i] + PlaceWeight(t, i)' + Count(i, cleanup)'
  <2> TAKE i \in INums
  <2>1. (\A y : Ind(y, i) \in Nat) /\ Ind(NONE, i) = 0
    BY IndTyped
  <2>2. PlaceWeight(t, i)' = Ind(d, i) + Ind(x, i) + Ind(NONE, i) + Ind(cwd[t], i)
                             + Ind(file[t], i) + Ind(NONE, i) + Ind(NONE, i)
    BY <1>17, <1>20 DEF PlaceWeight, Weight
  <2>3. PlaceWeight(t, i) = Ind(d, i) + Ind(NONE, i) + Ind(NONE, i) + Ind(cwd[t], i)
                            + Ind(file[t], i) + Ind(NONE, i) + Ind(NONE, i)
    BY <1>1, <1>5, <1>8 DEF PlaceWeight, Weight
  <2>4. Count(i, cleanup)' = Count(i, cleanup) /\ Count(i, cleanup) \in Nat
    BY CleanupCounts DEF Count
  <2>5. ref'[i] = ref[i] + Ind(x, i) /\ ref[i] \in Nat
    BY <1>10 DEF Inv, CacheSound
  <2> QED
    BY <2>1, <2>2, <2>3, <2>4, <2>5
<1>22. InHand(t)'
  <2>1. Kept(t)' \subseteq Kept(t) \cup {x}
    BY <1>1, <1>17, <1>20 DEF Kept
  <2>2. \A i \in Kept(t)' : ftype'[i] # "free"
    <3>1. Kept(t) \subseteq INums
      BY KeptTyped
    <3> QED
      BY <1>8, <1>13, <1>15, <2>1, <3>1 DEF Grows
  <2>3. ftype'[d] = "dir"
    BY <1>5, <1>6, <1>13 DEF Grows
  <2> QED
    BY <1>17, <1>20, <2>2, <2>3 DEF InHand
<1>23. EntryFound(t)'
  <2>1. Leaf(q) = n
    BY <1>1, <1>17 DEF Leaf
  <2>2. Leaf(th[t])' = n /\ th'[t].curr = d /\ th'[t].ino = x /\ th'[t].pc = "opened"
    BY <1>17, <1>20, <2>1 DEF Leaf
  <2> QED
    BY <1>15, <2>2 DEF EntryFound
<1>24. LocksSound'
  <2>1. HeldLock(q) = d
    BY <1>17 DEF HeldLock, Locked, Looked
  <2> QED
    BY <1>3, <1>6, <1>7, <1>19, <2>1, LocksTaken
<1>25. /\ cwd' \in [Threads -> INums] /\ file' \in [Threads -> 0..NInodes]
       /\ \A u \in Threads \ {t} : cwd'[u] = cwd[u] /\ file'[u] = file[u]
       /\ q.op \in {"open", "creat"} => file'[t] = NONE
  BY <1>4, <1>17 DEF Inv, PlacesSound
<1>26. /\ \A u \in Threads \ {t}, i \in INums : i \in Kept(u) /\ valid[i] => valid'[i]
       /\ q.pc # "rmput"
  BY <1>17
<1>27. FileLoaded(t)'
  BY <1>4, <1>5 DEF FileLoaded
<1> QED
  BY <1>27, <1>13, <1>14, <1>16, <1>18, <1>19, <1>21, <1>22, <1>23, <1>24, <1>25, <1>26, StepKeeps

(* An open file is what the call has had in hand, x; the rest goes. *)
LEMMA OpensFile ==
  ASSUME Inv, NEW t \in Threads, NEW q \in CallType, Shape(q), HeldLock(q) = NONE,
         Goto(t, q), NEW x \in INums, th[t].pc \in {"open", "opened"},
         th[t].pc = "open" => x = th[t].curr /\ First(q.drop) = NONE,
         th[t].pc = "opened" => /\ x = th[t].ino /\ First(q.drop) = th[t].curr
                                /\ Load(x),
         Second(q.drop) = NONE, q.curr = NONE, q.ino = NONE, q.src = NONE, q.op = "none",
         Load(x) \/ (valid' = valid /\ nlink' = nlink),
         lock' = [i \in INums |-> IF i = HeldLock(th[t]) THEN Nobody ELSE lock[i]],
         file' = [file EXCEPT ![t] = x],
         UNCHANGED disk, ref' = ref, dirty' = dirty, cleanup' = cleanup, cwd' = cwd
  PROVE  Inv'
<1> DEFINE r == th[t]
<1>1. /\ r \in CallType /\ Shape(r) /\ InHand(t) /\ cwd[t] \in INums /\ file[t] \in 0..NInodes
      /\ (r.op \in {"open", "creat"} => file[t] = NONE)
  BY InvTyped DEF Inv, CallsSound
<1>2. /\ r.curr # NONE /\ r.src = NONE /\ file[t] = NONE /\ (r.pc = "open" => r.ino = NONE)
  BY <1>1 DEF Shape, OpSound, InDir, Locked, Looked
<1>3. Went(t, q)
  BY GotoIs DEF Inv, CallsSound
<1>4. th'[t] = q
  BY <1>3 DEF Went
<1>5. First(r.drop) = NONE /\ Second(r.drop) = NONE /\ \A i \in Kept(t) : ftype[i] # "free"
  BY KeptTyped
<1>6. /\ cwd' \in [Threads -> INums] /\ file' \in [Threads -> 0..NInodes]
      /\ \A u \in Threads \ {t} : cwd'[u] = cwd[u] /\ file'[u] = file[u]
      /\ file'[t] = x
  <2>1. x \in 0..NInodes
    BY NumsIn
  <2> QED
    BY <2>1 DEF Inv, PlacesSound
<1>7. x \in Kept(t)
  <2>1. x # NONE
    BY ConstantsTyped
  <2> QED
    BY <2>1 DEF Kept
<1>8. \A i \in INums : PlaceWeight(t, i)' = PlaceWeight(t, i)
  <2> TAKE i \in INums
  <2>1. (\A y : Ind(y, i) \in Nat) /\ Ind(NONE, i) = 0
    BY IndTyped
  <2>2. PlaceWeight(t, i)' = Ind(NONE, i) + Ind(NONE, i) + Ind(NONE, i) + Ind(cwd[t], i)
                             + Ind(x, i) + Ind(First(q.drop), i) + Ind(NONE, i)
    BY <1>4, <1>6 DEF PlaceWeight, Weight
  <2>3. PlaceWeight(t, i) = Ind(r.curr, i) + Ind(r.ino, i) + Ind(NONE, i) + Ind(cwd[t], i)
                            + Ind(NONE, i) + Ind(NONE, i) + Ind(NONE, i)
    BY <1>2, <1>5 DEF PlaceWeight, Weight
  <2>4. CASE r.pc = "open"
    BY <1>2, <2>1, <2>2, <2>3, <2>4
  <2>5. CASE r.pc = "opened"
    BY <2>1, <2>2, <2>3, <2>5
  <2> QED
    BY <2>4, <2>5
<1>9. Kept(t)' \subseteq Kept(t)
  <2>1. Kept(t)' = {NONE, cwd[t], x, First(q.drop)} \ {NONE}
    BY <1>4, <1>6 DEF Kept
  <2>2. First(q.drop) \in {NONE, r.curr} /\ x \in {r.curr, r.ino}
    OBVIOUS
  <2> QED
    BY <2>1, <2>2 DEF Kept
<1>10. q.pc \notin InDir /\ q.pc # "rmput"
  BY DEF Shape, InDir, Locked, Looked
<1>11. InHand(t)' /\ EntryFound(t)'
  BY <1>4, <1>5, <1>9, <1>10 DEF InHand, EntryFound, InDir, Locked, Looked, disk
<1>12. LocksSound'
  <2>1. lock \in [INums -> Threads \cup {Nobody}]
    BY DEF Inv, LocksSound
  <2>2. \A i \in INums :
          lock'[i] = IF i = HeldLock(q) THEN t
                     ELSE IF i = HeldLock(th[t]) THEN Nobody ELSE lock[i]
    BY ConstantsTyped
  <2>3. lock' \in [INums -> Threads \cup {Nobody}]
    BY <2>1
  <2>4. HeldLock(q) \in INums => lock[HeldLock(q)] \in {t, Nobody}
    BY ConstantsTyped
  <2> QED
    BY <1>3, <2>2, <2>3, <2>4, LocksMoved DEF Inv
<1>13. FileLoaded(t)'
  <2>1. CASE r.pc = "open"
    <3>1. ftype[x] = "dir"
      BY <1>1, <2>1 DEF InHand, InDir
    <3> QED
      BY <1>6, <3>1 DEF FileLoaded, disk
  <2>2. CASE r.pc = "opened"
    <3>1. ftype[x] # "free" /\ CacheSound /\ DiskSound
      BY <1>5, <1>7 DEF Inv
    <3>2. valid'[x]
      BY <2>2, <3>1, Loaded
    <3> QED
      BY <1>6, <3>2 DEF FileLoaded
  <2> QED
    BY <2>1, <2>2
<1> QED
  BY <1>3, <1>6, <1>7, <1>8, <1>10, <1>11, <1>12, <1>13, LoadStep

LEMMA OpenInv ==
  ASSUME Inv, NEW t \in Threads, fs_open_file(t)
  PROVE  Inv'
<1> DEFINE r == th[t]
<1>1. PICK x : x = search_dir(r.curr, Leaf(r))
  OBVIOUS
<1>2. /\ r.pc = "open" /\ valid' = valid /\ nlink' = nlink /\ dirty' = dirty /\ cleanup' = cleanup /\ cwd' = cwd
  BY DEF fs_open_file
<1>3. /\ r \in CallType /\ Shape(r) /\ InHand(t)
  BY InvTyped
<1>4. r.curr # NONE /\ r.ino = NONE /\ r.pc # "release" /\ r.src = NONE
  BY <1>2, <1>3 DEF Shape, OpSound, InDir, Locked, Looked
<1>5. r.curr \in INums
  BY <1>3, <1>4, InodesIn, Zenon
<1>6. r.curr \in Kept(t)
  BY <1>4 DEF Kept
<1>7. HeldLock(r) = NONE
  BY <1>2 DEF HeldLock, Locked, Looked
<1>8. \/ /\ fs_alloc_file(t, r.curr, <<>>) /\ UNCHANGED disk /\ ref' = ref /\ lock' = lock
      \/ /\ file' = file /\ LooksUp(t, "opened", x) /\ UNCHANGED disk
      \/ /\ file' = file /\ Makes(t, Min(FreeInodes))
      \/ /\ file' = file /\ Goto(t, Done(r)) /\ ref' = ref /\ lock' = lock /\ UNCHANGED disk
      \/ /\ file' = file /\ Goto(t, Done(r)) /\ ref' = ref /\ lock' = lock
         /\ Leaf(r) # "" /\ lock[r.curr] = Nobody /\ x = NONE
         /\ CanCreate(r.curr) /\ create_inode_in_dir(r.curr, Leaf(r), "file")
  BY <1>1 DEF fs_open_file, LooksUp, Makes, MakesFile
<1>9. CASE /\ fs_alloc_file(t, r.curr, <<>>) /\ UNCHANGED disk /\ ref' = ref /\ lock' = lock
  <2>1. lock' = [i \in INums |-> IF i = HeldLock(r) THEN Nobody ELSE lock[i]]
    BY <1>7, <1>9, LocksKept
  <2>2. \/ file' = [file EXCEPT ![t] = r.curr] /\ Goto(t, Idle)
        \/ file' = file /\ Goto(t, Finish(<<>> \o <<r.curr>>))
    BY <1>9 DEF fs_alloc_file
  <2>3. CASE file' = file /\ Goto(t, Finish(<<>> \o <<r.curr>>))
    <3>1. <<>> \o <<r.curr>> = <<r.curr>> /\ <<r.curr>> \o <<>> = <<r.curr>>
      <4>1. <<r.curr>> \in Seq(INums)
        BY <1>5
      <4> QED
        BY <4>1, ConcatEmptySeq
    <3>2. Goto(t, Done(r))
      BY <1>4, <2>3, <3>1 DEF Done
    <3> QED
      BY <1>2, <1>4, <1>5, <1>6, <1>9, <2>1, <2>3, <3>2, LoadDone
  <2>4. CASE file' = [file EXCEPT ![t] = r.curr] /\ Goto(t, Idle)
    <3>1. PICK q : q = Idle
      OBVIOUS
    <3>2. /\ q \in CallType /\ Shape(q) /\ HeldLock(q) = NONE /\ q.op = "none"
          /\ q.curr = NONE /\ q.ino = NONE /\ q.src = NONE
          /\ First(q.drop) = NONE /\ Second(q.drop) = NONE /\ Goto(t, q)
      BY <2>4, <3>1, IdleIs
    <3> QED
      BY <1>2, <1>5, <1>9, <2>1, <2>4, <3>2, OpensFile
  <2> QED
    BY <2>2, <2>3, <2>4
<1>10. CASE file' = file /\ LooksUp(t, "opened", x) /\ UNCHANGED disk
  <2>1. PICK pc : pc = "opened"
    OBVIOUS
  <2>2. LooksUp(t, pc, x)
    BY <1>10, <2>1
  <2> QED
    BY <1>2, <1>10, <2>1, <2>2, LookedUp
<1>11. CASE file' = file /\ Makes(t, Min(FreeInodes))
  BY <1>2, <1>11, MadeNew
<1>12. CASE /\ file' = file /\ Goto(t, Done(r)) /\ ref' = ref /\ lock' = lock /\ UNCHANGED disk
  <2>1. lock' = [i \in INums |-> IF i = HeldLock(r) THEN Nobody ELSE lock[i]]
    BY <1>7, <1>12, LocksKept
  <2> QED
    BY <1>2, <1>4, <1>5, <1>6, <1>12, <2>1, LoadDone
<1>13. CASE /\ file' = file /\ Goto(t, Done(r)) /\ ref' = ref /\ lock' = lock
            /\ Leaf(r) # "" /\ lock[r.curr] = Nobody /\ x = NONE
            /\ CanCreate(r.curr) /\ create_inode_in_dir(r.curr, Leaf(r), "file")
  <2>1. PICK type \in {"file", "dir"} : type = "file"
    OBVIOUS
  <2>2. create_inode_in_dir(r.curr, Leaf(r), type) /\ r.pc \in {"mk", "open"}
    BY <1>2, <1>13, <2>1
  <2> QED
    BY <1>1, <1>2, <1>13, <2>2, CreatedDone
<1> QED
  BY <1>8, <1>9, <1>10, <1>11, <1>12, <1>13

LEMMA OpenedInv ==
  ASSUME Inv, NEW t \in Threads, Opened(t)
  PROVE  Inv'
<1> DEFINE r == th[t]
<1>1. /\ r.pc = "opened" /\ Load(r.ino) /\ lock' = [lock EXCEPT ![r.curr] = Nobody]
      /\ UNCHANGED disk /\ ref' = ref /\ dirty' = dirty /\ cleanup' = cleanup /\ cwd' = cwd
  BY DEF Opened
<1>2. /\ r \in CallType /\ Shape(r) /\ InHand(t) /\ cwd[t] \in INums /\ file[t] \in 0..NInodes
  BY InvTyped
<1>3. r.curr # NONE /\ r.ino # NONE /\ r.src = NONE
  BY <1>1, <1>2 DEF Shape, OpSound, InDir, Locked, Looked
<1>4. r.curr \in INums /\ r.ino \in INums
  BY <1>2, <1>3, InodesIn, Zenon
<1>5. HeldLock(r) = r.curr
  BY <1>1 DEF HeldLock, Locked, Looked
<1>6. lock' = [i \in INums |-> IF i = HeldLock(r) THEN Nobody ELSE lock[i]]
  BY <1>1, <1>4, <1>5, LocksGiven
<1>7. \/ file' = [file EXCEPT ![t] = r.ino] /\ Goto(t, Finish(<<r.curr>>))
      \/ file' = file /\ Goto(t, Finish(<<r.curr>> \o <<r.ino>>))
  <2>1. fs_alloc_file(t, r.ino, <<r.curr>>)
    BY DEF Opened
  <2>2. <<r.curr>> # <<>>
    OBVIOUS
  <2> QED
    BY <2>1, <2>2 DEF fs_alloc_file
<1>8. CASE file' = [file EXCEPT ![t] = r.ino] /\ Goto(t, Finish(<<r.curr>>))
  <2>1. PICK q : q = Finish(<<r.curr>>)
    OBVIOUS
  <2>2. <<r.curr>> \in Seq(INums) /\ Len(<<r.curr>>) \in 1..2
    BY <1>4
  <2>3. /\ q \in CallType /\ Shape(q) /\ HeldLock(q) = NONE /\ q.op = "none"
        /\ q.curr = NONE /\ q.ino = NONE /\ q.src = NONE
        /\ q.drop = <<r.curr>> /\ Goto(t, q)
    BY <1>8, <2>1, <2>2, FinishIs
  <2>4. First(q.drop) = r.curr /\ Second(q.drop) = NONE
    BY <2>3, DropIs
  <2> QED
    BY <1>1, <1>4, <1>6, <1>8, <2>3, <2>4, OpensFile
<1>9. CASE file' = file /\ Goto(t, Finish(<<r.curr>> \o <<r.ino>>))
  <2> DEFINE q == Finish(<<r.curr, r.ino>>)
  <2>1. <<r.curr, r.ino>> \in Seq(INums) /\ Len(<<r.curr, r.ino>>) \in 1..2
    BY <1>4
  <2>2. <<r.curr>> \o <<r.ino>> = <<r.curr, r.ino>>
    BY <1>4, PairIs
  <2>3. /\ q \in CallType /\ Shape(q) /\ HeldLock(q) = NONE /\ q.op = "none"
        /\ q.curr = NONE /\ q.ino = NONE /\ q.src = NONE /\ q.pc = "release"
        /\ q.drop = <<r.curr, r.ino>>
    BY <2>1, FinishIs
  <2>4. Goto(t, q)
    BY <1>9, <2>2
  <2> HIDE DEF q
  <2>D. First(q.drop) = r.curr /\ Second(q.drop) = r.ino
    BY <2>3, DropIs
  <2>5. Went(t, q)
    BY <2>3, <2>4, GotoIs DEF Inv, CallsSound
  <2>6. th'[t] = q
    BY <2>5 DEF Went
  <2>7. First(r.drop) = NONE /\ Second(r.drop) = NONE /\ \A i \in Kept(t) : ftype[i] # "free"
    BY <1>1, KeptTyped
  <2>8. \A i \in INums : PlaceWeight(t, i)' = PlaceWeight(t, i)
    <3> TAKE i \in INums
    <3>1. (\A y : Ind(y, i) \in Nat) /\ Ind(NONE, i) = 0
      BY IndTyped
    <3>2. PlaceWeight(t, i)' = Ind(NONE, i) + Ind(NONE, i) + Ind(NONE, i) + Ind(cwd[t], i)
                               + Ind(file[t], i) + Ind(r.curr, i) + Ind(r.ino, i)
      BY <1>1, <1>9, <2>3, <2>6, <2>D DEF PlaceWeight, Weight
    <3>3. PlaceWeight(t, i) = Ind(r.curr, i) + Ind(r.ino, i) + Ind(NONE, i) + Ind(cwd[t], i)
                              + Ind(file[t], i) + Ind(NONE, i) + Ind(NONE, i)
      BY <1>3, <2>7 DEF PlaceWeight, Weight
    <3> QED
      BY <3>1, <3>2, <3>3
  <2>9. Kept(t)' \subseteq Kept(t)
    BY <1>1, <1>9, <2>3, <2>6, <2>D DEF Kept
  <2>10. InHand(t)' /\ EntryFound(t)'
    BY <1>1, <2>3, <2>6, <2>7, <2>9 DEF InHand, EntryFound, InDir, Locked, Looked, disk
  <2>11. LocksSound'
    BY <1>1, <1>4, <1>5, <2>3, <2>5, LocksGone
  <2>12. /\ cwd' \in [Threads -> INums] /\ file' \in [Threads -> 0..NInodes]
         /\ \A u \in Threads \ {t} : cwd'[u] = cwd[u] /\ file'[u] = file[u]
    BY <1>1, <1>9 DEF Inv, PlacesSound
  <2>13. /\ r.ino \in Kept(t) /\ q.pc # "rmput"
         /\ q.op \in {"open", "creat"} => file'[t] = NONE
    BY <1>3, <2>3 DEF Kept
  <2> QED
    BY <1>1, <1>4, <1>9, <2>3, <2>5, <2>8, <2>10, <2>11, <2>12, <2>13, LoadStep
<1> QED
  BY <1>7, <1>8, <1>9

(* unlink_inode_in_dir *)
LEMMA RemoveInv ==
  ASSUME Inv, NEW t \in Threads, unlink_inode_in_dir(t)
  PROVE  Inv'
<1> DEFINE r == th[t]
           q == [r EXCEPT !.pc = "rmput"]
<1>1. PICK d, n, i : d = r.curr /\ n = Leaf(r) /\ i = r.ino
  OBVIOUS
<1>2. /\ r.pc = "rmlock" /\ valid' = [valid EXCEPT ![i] = TRUE] /\ Goto(t, q)
      /\ ftype' = ftype /\ ref' = ref /\ lock' = lock
      /\ cleanup' = cleanup /\ cwd' = cwd /\ file' = file
  BY <1>1 DEF unlink_inode_in_dir
<1>3. \/ /\ free_dirent(d, n)
         /\ nlink' = [nlink EXCEPT ![i] = LoadedLinks(i) - 1]
         /\ dnlink' = [dnlink EXCEPT ![i] = LoadedLinks(i) - 1]
         /\ dirty' = dirty \ {i}
      \/ /\ nlink' = [nlink EXCEPT ![i] = LoadedLinks(i)]
         /\ dirents' = dirents /\ dnlink' = dnlink /\ dirty' = dirty
  BY <1>1 DEF unlink_inode_in_dir
<1> HIDE DEF q
<1>4. /\ r \in CallType /\ Shape(r) /\ InHand(t) /\ EntryFound(t)
      /\ cwd[t] \in INums /\ file[t] \in 0..NInodes
  BY InvTyped
<1>5. /\ d # NONE /\ i # NONE /\ r.src = NONE /\ r.drop = <<>> /\ r.ret = "idle"
      /\ r.op \in {"unlink", "rmdir"} /\ ftype[d] = "dir" /\ r.rest # <<>>
  BY <1>1, <1>2, <1>4 DEF Shape, OpSound, InDir, Locked, Looked, InHand
<1>6. d \in INums /\ i \in INums
  BY <1>1, <1>4, <1>5, InodesIn, Zenon
<1>7. n \in Names
  BY <1>1, <1>4, <1>5 DEF CallType, Leaf
<1>8. PICK s \in Slots : dirents[d][s] = [inum |-> i, name |-> n] /\ s = Min(Matches(d, n))
  BY <1>1, <1>2, <1>4 DEF EntryFound, Looked
<1>9. DiskSound /\ EntriesUnique /\ CacheSound
  BY DEF Inv
<1>10. dnlink[i] \in Nat /\ dnlink[i] > 0 /\ ftype[i] # "free"
  <2>1. dirents[d][s].inum = i
    BY <1>8
  <2> QED
    BY <1>6, <1>9, <2>1, EntryCounts
<1>11. HeldLock(r) = d
  BY <1>1, <1>2 DEF HeldLock, Locked, Looked
<1>12. lock[d] = t
  BY <1>6, <1>11 DEF Inv, LocksSound
<1>13. LoadedLinks(i) = dnlink[i]
  BY <1>6, <1>9 DEF LoadedLinks, CacheSound
<1>14. DiskSound' /\ Grows(t) /\ EntriesUnique'
  <2>1. CASE dirents' = dirents /\ dnlink' = dnlink
    BY <1>2, <1>9, <2>1, DiskKept DEF disk
  <2>2. CASE free_dirent(d, n) /\ dnlink' = [dnlink EXCEPT ![i] = LoadedLinks(i) - 1]
    <3>1. dnlink' = [dnlink EXCEPT ![i] = dnlink[i] - 1]
      BY <1>13, <2>2
    <3> QED
      BY <1>2, <1>6, <1>7, <1>8, <1>9, <1>12, <2>2, <3>1, Removed
  <2> QED
    BY <1>3, <2>1, <2>2
<1>15. /\ \A j \in INums : j # i => nlink'[j] = nlink[j] /\ dnlink'[j] = dnlink[j]
       /\ nlink' \in [INums -> Nat] /\ nlink'[i] = dnlink'[i]
  <2>1. nlink \in [INums -> Nat] /\ dnlink \in [INums -> Nat]
    BY <1>9 DEF CacheSound, DiskSound
  <2> QED
    BY <1>3, <1>6, <1>10, <1>13, <2>1
<1>16. /\ valid' \in [INums -> BOOLEAN] /\ valid'[i]
       /\ \A j \in INums : j # i => valid'[j] = valid[j]
  BY <1>2, <1>6, <1>9 DEF CacheSound
<1>17. CacheSound'
  BY <1>2, <1>9, <1>10, <1>15, <1>16 DEF CacheSound
<1>18. Unlinks'
  <2>1. Unlinks /\ dirty' \subseteq dirty /\ dirty' \subseteq INums
    BY <1>3 DEF Inv, Unlinks
  <2>2. i \in Kept(t)
    BY <1>1, <1>5 DEF Kept
  <2>3. ref[i] > 0
    BY <1>6, <2>2, KeptAlive
  <2>4. \A j \in INums : valid[j] /\ ref[j] > 0 => valid'[j] /\ ref'[j] > 0
    BY <1>2, <1>16
  <2>5. \A j \in INums : Unsettled(j)' => Unsettled(j) \/ (valid'[j] /\ ref'[j] > 0)
    <3> SUFFICES ASSUME NEW j \in INums, Unsettled(j)', j # i
                 PROVE  Unsettled(j)
      BY <1>2, <1>16, <2>3
    <3>1. ftype'[j] = ftype[j] /\ dnlink'[j] = dnlink[j] /\ (j \in dirty' => j \in dirty)
      BY <1>2, <1>15, <2>1
    <3> QED
      BY <3>1 DEF Unsettled
  <2> QED
    BY <1>2, <2>1, <2>4, <2>5, UnlinksKept
<1>19. q \in CallType
  BY <1>4 DEF CallType, InDir, Locked, q
<1>20. /\ q.op = r.op /\ q.pc = "rmput" /\ q.curr = r.curr /\ q.ino = r.ino
       /\ q.src = r.src /\ q.drop = r.drop /\ q.ret = r.ret
  BY <1>4 DEF CallType, q
<1>21. Shape(q)
  <2>1. Len(<<>>) \in 0..2
    OBVIOUS
  <2> QED
    BY <1>1, <1>5, <1>20, <2>1 DEF Shape, OpSound, InDir, Locked, Looked
<1>22. Went(t, q)
  BY <1>2, <1>19, GotoIs DEF Inv, CallsSound
<1>23. th'[t] = q
  BY <1>22 DEF Went
<1>24. \A j \in INums : PlaceWeight(t, j)' = PlaceWeight(t, j)
  BY <1>2, <1>20, <1>23 DEF PlaceWeight, Weight
<1>25. Kept(t)' = Kept(t)
  BY <1>2, <1>20, <1>23 DEF Kept
<1>26. InHand(t)' /\ EntryFound(t)'
  BY <1>1, <1>2, <1>4, <1>5, <1>20, <1>23, <1>25 DEF InHand, EntryFound, Looked
<1>27. LocksSound'
  <2>1. HeldLock(q) = d
    BY <1>1, <1>20 DEF HeldLock, Locked, Looked
  <2>2. lock \in [INums -> Threads \cup {Nobody}] /\ LocksSound
    BY DEF Inv, LocksSound
  <2>3. \A j \in INums :
          lock'[j] = IF j = HeldLock(q) THEN t
                     ELSE IF j = HeldLock(th[t]) THEN Nobody ELSE lock[j]
    BY <1>2, <1>11, <1>12, <2>1
  <2>4. HeldLock(q) \in INums => lock[HeldLock(q)] \in {t, Nobody}
    BY <1>12, <2>1
  <2> QED
    BY <1>2, <1>22, <2>2, <2>3, <2>4, LocksMoved
<1>28. \A j \in INums : ref'[j] + PlaceWeight(t, j) + Count(j, cleanup)
                        = ref[j] + PlaceWeight(t, j)' + Count(j, cleanup)'
  <2> TAKE j \in INums
  <2>1. PlaceWeight(t, j)' = PlaceWeight(t, j)
    BY <1>24
  <2>2. Count(j, cleanup)' = Count(j, cleanup) /\ ref'[j] = ref[j]
    BY <1>2 DEF Count
  <2> QED
    BY <2>1, <2>2, Zenon
<1>29. /\ cwd' \in [Threads -> INums] /\ file' \in [Threads -> 0..NInodes]
       /\ \A u \in Threads \ {t} : cwd'[u] = cwd[u] /\ file'[u] = file[u]
       /\ q.op \in {"open", "creat"} => file'[t] = NONE
  BY <1>2, <1>5, <1>20 DEF Inv, PlacesSound
<1>30. \A u \in Threads \ {t}, j \in INums : j \in Kept(u) /\ valid[j] => valid'[j]
  BY <1>16
<1>31. q.pc = "rmput" => th[t].pc = "rmlock" /\ q.curr = th[t].curr /\ q.ino = th[t].ino
  BY <1>2, <1>20
<1>32. FileLoaded(t)'
  <2>1. FileLoaded(t) /\ (file[t] # NONE => file[t] \in INums)
    BY <1>4, InvTyped DEF INums, NONE
  <2> QED
    BY <1>2, <1>16, <2>1 DEF FileLoaded
<1> QED
  BY <1>32, <1>14, <1>17, <1>18, <1>19, <1>21, <1>22, <1>26, <1>27, <1>28, <1>29, <1>30, <1>31, StepKeeps

LEMMA UnlinkedInv ==
  ASSUME Inv, NEW t \in Threads, Unlinked(t)
  PROVE  Inv'
<1> DEFINE r == th[t]
<1>1. /\ r.pc = "rmput" /\ fs_release_inode(r.ino) /\ lock' = [lock EXCEPT ![r.curr] = Nobody]
      /\ Goto(t, Done(r)) /\ UNCHANGED disk /\ cwd' = cwd /\ file' = file
  BY DEF Unlinked
<1>2. /\ r \in CallType /\ Shape(r) /\ InHand(t)
  BY InvTyped
<1>3. r.curr # NONE /\ r.ino # NONE /\ r.pc # "release"
  BY <1>1, <1>2 DEF Shape, OpSound, InDir, Locked, Looked
<1>4. r.curr \in INums /\ r.ino \in INums
  BY <1>2, <1>3, InodesIn, Zenon
<1>5. r.ino \in Kept(t)
  BY <1>3 DEF Kept
<1>6. HeldLock(r) = r.curr
  BY <1>1 DEF HeldLock, Locked, Looked
<1>7. lock' = [i \in INums |-> IF i = HeldLock(r) THEN Nobody ELSE lock[i]]
  BY <1>1, <1>4, <1>6, LocksGiven
<1>8. DiskSound' /\ EntriesUnique' /\ Grows(t)
  BY <1>1, DiskKept DEF Inv
<1>9. /\ CacheSound' /\ Unlinks'
      /\ \A i \in INums : i # r.ino \/ ref[i] >= 2 => (valid[i] => valid'[i])
      /\ \A i \in INums : ref'[i] + Ind(r.ino, i) + Count(i, cleanup)
                          = ref[i] + Count(i, cleanup)'
  BY <1>1, <1>4, <1>5, Released
<1>10. \A u \in Threads \ {t}, i \in INums : i \in Kept(u) /\ valid[i] => valid'[i]
  <2> TAKE u \in Threads \ {t}, i \in INums
  <2>1. CASE i = r.ino /\ i \in Kept(u)
    BY <1>5, <1>9, <2>1, KeptTwice
  <2> QED
    BY <1>9, <2>1
<1>11. file[t] # NONE /\ valid[file[t]] => valid'[file[t]]
  <2>1. file[t] \in 0..NInodes
    BY InvTyped
  <2>2. file[t] # NONE => file[t] \in INums
    BY <2>1 DEF INums, NONE
  <2>3. file[t] = r.ino => ref[r.ino] >= 2
    BY <1>4, KeptAgain
  <2> QED
    BY <1>9, <2>2, <2>3
<1> QED
  BY <1>1, <1>3, <1>7, <1>8, <1>9, <1>10, <1>11, DoneStep

-----------------------------------------------------------------------------
(* What the invariant says of the properties *)

LEMMA LinksAre == DiskSound /\ CacheSound => LinksExact
<1> SUFFICES ASSUME DiskSound, CacheSound, NEW i \in INums
             PROVE  LET n == Cardinality({e \in INums \X Slots : dirents[e[1]][e[2]].inum = i})
                             + (IF i = SFS_ROOT_INUM THEN 1 ELSE 0)
                    IN  dnlink[i] = n /\ (valid[i] => nlink[i] = n)
                        /\ (n > 0 => ftype[i] # "free")
  BY DEF LinksExact
<1>1. PICK n : n = Cardinality({e \in INums \X Slots : dirents[e[1]][e[2]].inum = i})
                   + (IF i = SFS_ROOT_INUM THEN 1 ELSE 0)
  OBVIOUS
<1>2. Cardinality(Entries(i)) = Cardinality({e \in INums \X Slots : dirents[e[1]][e[2]].inum = i})
  BY DEF Entries
<1>3. (IF i = SFS_ROOT_INUM THEN 1 ELSE 0) = Ind(SFS_ROOT_INUM, i)
  BY DEF Ind
<1>4. n = Cardinality(Entries(i)) + Ind(SFS_ROOT_INUM, i)
  BY <1>1, <1>2, <1>3
<1>5. dnlink[i] = n
  BY <1>4 DEF DiskSound
<1>6. valid[i] => nlink[i] = n
  BY <1>5 DEF CacheSound
<1>7. ftype[i] = "free" => dnlink[i] = 0
  BY FreeAlone
<1>8. n > 0 => ftype[i] # "free"
  BY <1>5, <1>7
<1> QED
  BY <1>1, <1>5, <1>6, <1>8

(* A set whose elements are all the same *)
LEMMA AtMostOne ==
  ASSUME NEW S, \A a, b \in S : a = b
  PROVE  Cardinality(S) = (IF S = {} THEN 0 ELSE 1)
<1>1. CASE S = {}
  BY <1>1, FS_EmptySet
<1>2. CASE S # {}
  <2>1. PICK a : a \in S
    BY <1>2
  <2>2. S = {a}
    BY <2>1
  <2> QED
    BY <1>2, <2>2, FS_Singleton
<1> QED
  BY <1>1, <1>2

LEMMA NamesAre ==
  ASSUME DiskSound, EntriesUnique, NEW d \in INums, NEW n \in Names
  PROVE  Shared(n) \/ Cardinality(Matches(d, n)) <= 1
<1> SUFFICES ASSUME ~Shared(n) PROVE Cardinality(Matches(d, n)) <= 1
  OBVIOUS
<1>1. \A s, z \in Matches(d, n) : s = z
  BY DEF Matches, EntriesUnique
<1>2. Cardinality(Matches(d, n)) \in {0, 1}
  BY <1>1, AtMostOne
<1> QED
  BY <1>2

OwnersTyped ==
  /\ lock \in [INums -> Threads \cup {Nobody}] /\ dirty \subseteq INums
  /\ cwd \in [Threads -> INums] /\ file \in [Threads -> 0..NInodes] /\ ended \in BOOLEAN

LEMMA TypesAre == DiskSound /\ CacheSound /\ OwnersTyped => TypeOK
BY DEF DiskSound, CacheSound, OwnersTyped, TypeOK, EntryType

(* The list has each of its inodes once. *)
LEMMA CleanupIs == Unlinks => CleanupSound
<1> SUFFICES ASSUME Unlinks, NEW i \in INums
             PROVE  /\ Unsettled(i) => valid[i] /\ ref[i] > 0
                    /\ Count(i, cleanup) <= 1
                    /\ Count(i, cleanup) = 1 => valid[i] /\ ref[i] > 0
  BY DEF CleanupSound
<1>1. PICK S : S = {k \in DOMAIN cleanup : cleanup[k] = i}
  OBVIOUS
<1>2. \A a, b \in S : a = b
  BY <1>1 DEF Unlinks
<1>3. Cardinality(S) = (IF S = {} THEN 0 ELSE 1)
  BY <1>2, AtMostOne
<1>4. Count(i, cleanup) = Cardinality(S)
  BY <1>1 DEF Count
<1>5. S # {} => valid[i] /\ ref[i] > 0
  BY <1>1 DEF Unlinks
<1> QED
  BY <1>3, <1>4, <1>5 DEF Unlinks

(* Who holds a lock and waits, without a link: in a directory, for the     *)
(* inode that it has found there.                                          *)
LEMMA NeedsIs ==
  ASSUME NEW t
  PROVE  /\ th[t].pc \in Locked => Needs(t) = th[t].ino
         /\ th[t].pc = "release" => Needs(t) = Head(th[t].drop)
         /\ th[t].pc # "release" => Needs(t) \in {NONE, th[t].curr, th[t].ino, th[t].src}
BY DEF Needs, Locked, Looked

LEMMA NeedsTyped ==
  ASSUME Inv, NEW t \in Threads, Needs(t) # NONE
  PROVE  Needs(t) \in INums
<1>1. th[t] \in CallType /\ Shape(th[t])
  BY InvTyped
<1>2. CASE th[t].pc = "release"
  <2>1. th[t].drop \in Seq(INums) /\ th[t].drop # <<>>
    BY <1>1, <1>2 DEF CallType, Shape
  <2> QED
    BY <1>2, <2>1, NeedsIs
<1>3. CASE th[t].pc # "release"
  BY <1>1, <1>3, NeedsIs, InodesIn
<1> QED
  BY <1>2, <1>3

LEMMA CyclesAre ==
  ASSUME Inv
  PROVE  CycleHasLink
<1> SUFFICES ASSUME NEW t \in Threads, NEW u \in Threads, WaitsFor(t, u), WaitsFor(u, t),
                    th[t].op # "linkat", th[u].op # "linkat"
             PROVE  FALSE
  BY DEF CycleHasLink
<1>1. Needs(t) \in INums /\ Needs(u) \in INums /\ lock[Needs(t)] = u /\ lock[Needs(u)] = t
  BY NeedsTyped DEF WaitsFor
<1>2. HeldLock(th[u]) = Needs(t) /\ HeldLock(th[t]) = Needs(u)
  BY <1>1 DEF Inv, LocksSound
<1>3. \A v \in Threads : HeldLock(th[v]) \in INums /\ th[v].op # "linkat" =>
        th[v].pc \in Locked /\ HeldLock(th[v]) = th[v].curr /\ Needs(v) = th[v].ino
  <2> SUFFICES ASSUME NEW v \in Threads, HeldLock(th[v]) \in INums, th[v].op # "linkat"
               PROVE  th[v].pc \in Locked /\ HeldLock(th[v]) = th[v].curr /\ Needs(v) = th[v].ino
    OBVIOUS
  <2>1. th[v].pc # "linkdir"
    BY InvTyped DEF Shape, OpSound
  <2>2. th[v].pc \in Locked /\ HeldLock(th[v]) = th[v].curr
    BY <2>1, ConstantsTyped DEF HeldLock
  <2> QED
    BY <2>2, NeedsIs
<1>4. th[t].pc \in Locked /\ th[u].pc \in Locked
  BY <1>1, <1>2, <1>3
<1>5. PICK a, b : a = th[t].curr /\ b = th[t].ino
  OBVIOUS
<1>6. th[u].curr = b /\ th[u].ino = a /\ a \in INums /\ b \in INums
  BY <1>1, <1>2, <1>3, <1>5
<1>7. \A d, i \in INums, s, z \in Slots : ~(dirents[d][s].inum = i /\ dirents[i][z].inum = d)
  BY DEF Inv, DiskSound
<1>8. th[t].pc \in Looked => \E s \in Slots : dirents[a][s].inum = b
  <2>1. EntryFound(t)
    BY InvTyped
  <2> QED
    BY <1>5, <2>1 DEF EntryFound
<1>9. th[u].pc \in Looked => \E s \in Slots : dirents[b][s].inum = a
  <2>1. EntryFound(u)
    BY InvTyped
  <2> QED
    BY <1>6, <2>1 DEF EntryFound
<1>10. th[t].pc = "rmput" =>
         /\ \A s \in Slots : dirents[b][s].inum # a
         /\ th[u].pc # "rmput"
  BY <1>5, <1>6 DEF Inv, Apart
<1>11. th[u].pc = "rmput" => \A s \in Slots : dirents[a][s].inum # b
  BY <1>6 DEF Inv, Apart
<1>12. CASE th[t].pc \in Looked /\ th[u].pc \in Looked
  BY <1>6, <1>7, <1>8, <1>9, <1>12
<1>13. CASE th[t].pc = "rmput" /\ th[u].pc \in Looked
  BY <1>9, <1>10, <1>13
<1>14. CASE th[t].pc \in Looked /\ th[u].pc = "rmput"
  BY <1>8, <1>11, <1>14
<1>15. CASE th[t].pc = "rmput" /\ th[u].pc = "rmput"
  BY <1>10, <1>15
<1> QED
  BY <1>4, <1>12, <1>13, <1>14, <1>15 DEF Locked

(* The invariant, and then the properties, of the states with memory *)
LEMMA InvSound == Inv /\ ended \in BOOLEAN => TypeOK /\ LinksExact /\ CleanupSound /\ CycleHasLink
<1> SUFFICES ASSUME Inv, ended \in BOOLEAN
             PROVE  TypeOK /\ LinksExact /\ CleanupSound /\ CycleHasLink
  OBVIOUS
<1>1. TypeOK
  BY TypesAre DEF Inv, LocksSound, PlacesSound, Unlinks, OwnersTyped
<1>2. LinksExact
  BY LinksAre DEF Inv
<1> QED
  BY <1>1, <1>2, CleanupIs, CyclesAre DEF Inv

-----------------------------------------------------------------------------
(* The end of a behaviour: what a call that does not handle the shortage   *)
(* leaves behind.                                                          *)

(* It has given its lock back: no other thread waits for it.               *)
LEMMA CycleKept ==
  ASSUME Inv, NEW t \in Threads, NEW q \in CallType, Shape(q), q.pc = "release", Went(t, q),
         lock' = [i \in INums |-> IF i = HeldLock(th[t]) THEN Nobody ELSE lock[i]]
  PROVE  CycleHasLink'
<1> SUFFICES ASSUME NEW u \in Threads, NEW v \in Threads, WaitsFor(u, v)', WaitsFor(v, u)'
             PROVE  "linkat" \in {th'[u].op, th'[v].op}
  BY DEF CycleHasLink
<1>1. /\ Needs(u)' # NONE /\ lock'[Needs(u)'] = v
      /\ Needs(v)' # NONE /\ lock'[Needs(v)'] = u
  BY DEF WaitsFor
<1>2. \A x \in Threads \ {t} : Needs(x)' = Needs(x) /\ th'[x] = th[x]
  BY DEF Went, Needs
<1>3. Needs(t)' \in INums
  <2>1. th'[t] = q
    BY DEF Went
  <2>2. Needs(t)' = Head(q.drop)
    BY <2>1 DEF Needs
  <2>3. q.drop \in Seq(INums) /\ q.drop # <<>>
    BY DEF CallType, Shape
  <2> QED
    BY <2>2, <2>3
<1>4. \A x \in Threads : Needs(x)' # NONE => Needs(x)' \in INums
  BY <1>2, <1>3, NeedsTyped
<1>5. \A i \in INums : lock'[i] # t
  <2> TAKE i \in INums
  <2>1. lock[i] = t => HeldLock(th[t]) = i
    BY DEF Inv, LocksSound
  <2>2. Nobody \notin Threads
    BY VfsAssumption
  <2> QED
    BY <2>1, <2>2
<1>6. u # t /\ v # t
  BY <1>1, <1>4, <1>5
<1>7. /\ Needs(u) # NONE /\ lock'[Needs(u)] = v /\ Needs(u) \in INums
      /\ Needs(v) # NONE /\ lock'[Needs(v)] = u /\ Needs(v) \in INums
  BY <1>1, <1>2, <1>4, <1>6
<1>8. lock[Needs(u)] = v /\ lock[Needs(v)] = u
  <2>1. Nobody \notin Threads
    BY VfsAssumption
  <2> QED
    BY <1>7, <2>1
<1>9. "linkat" \in {th[u].op, th[v].op}
  BY <1>7, <1>8, CyclesAre DEF CycleHasLink, WaitsFor
<1> QED
  BY <1>2, <1>6, <1>9

LEMMA EndedSound ==
  ASSUME Inv, NEW t \in Threads, th[t].curr # NONE, Goto(t, Done(th[t])),
         DiskSound', CacheSound', Unlinks', cwd' = cwd, file' = file, ended' = TRUE,
         lock' = [i \in INums |-> IF i = HeldLock(th[t]) THEN Nobody ELSE lock[i]]
  PROVE  TypeOK' /\ LinksExact' /\ CleanupSound' /\ CycleHasLink'
<1>1. PICK q : q = Done(th[t])
  OBVIOUS
<1>2. q \in CallType /\ Shape(q) /\ q.pc = "release" /\ q.src = NONE /\ Goto(t, q)
  BY <1>1, InvTyped, DoneIs
<1>3. Went(t, q)
  BY <1>2, GotoIs DEF Inv, CallsSound
<1>4. OwnersTyped'
  BY DEF Inv, LocksSound, PlacesSound, Unlinks, OwnersTyped
<1>5. TypeOK'
  BY <1>4, TypesAre, PTL
<1>6. LinksExact'
  BY LinksAre, PTL
<1>7. CleanupSound'
  BY CleanupIs, PTL
<1>8. CycleHasLink'
  BY <1>2, <1>3, CycleKept
<1> QED
  BY <1>5, <1>6, <1>7, <1>8

(* A name that exists is made again, or the call fails. *)
LEMMA NameMissedSound ==
  ASSUME Inv, NEW t \in Threads, NameMissed(t)
  PROVE  TypeOK' /\ LinksExact' /\ CleanupSound' /\ CycleHasLink'
<1> DEFINE r == th[t]
<1>1. PICK d, n : d = r.curr /\ n = Leaf(r)
  OBVIOUS
<1>2. /\ r.pc \in {"mk", "open", "linkdir"} /\ lock[d] = Nobody /\ n # ""
      /\ lock' = [i \in INums |-> IF i = r.src THEN Nobody ELSE lock[i]]
      /\ Goto(t, Done(r)) /\ ended' = TRUE
      /\ ref' = ref /\ valid' = valid /\ cleanup' = cleanup /\ cwd' = cwd /\ file' = file
  BY <1>1 DEF NameMissed
<1>3. \/ r.pc = "linkdir" /\ AddLink(r) /\ ftype' = ftype
      \/ /\ r.pc # "linkdir" /\ CanCreate(d) /\ nlink' = nlink /\ dirty' = dirty
         /\ create_inode_in_dir(d, n, IF r.pc = "mk" THEN "dir" ELSE "file")
      \/ UNCHANGED disk /\ nlink' = nlink /\ dirty' = dirty
  BY <1>1 DEF NameMissed
<1>4. /\ r \in CallType /\ Shape(r) /\ InHand(t)
  BY InvTyped
<1>5. d # NONE /\ ftype[d] = "dir" /\ HeldLock(r) = r.src
  BY <1>1, <1>2, <1>4 DEF Shape, OpSound, InDir, Locked, Looked, InHand, HeldLock
<1>6. d \in INums /\ n \in Names
  BY <1>1, <1>2, <1>4, <1>5, InodesIn, Zenon
<1>7. lock' = [i \in INums |-> IF i = HeldLock(r) THEN Nobody ELSE lock[i]]
  BY <1>2, <1>5
<1>9. CASE r.pc = "linkdir" /\ AddLink(r) /\ ftype' = ftype
  <2>1. lock[r.curr] = Nobody
    BY <1>1, <1>2
  <2>2. /\ DiskSound' /\ nlink' \in [INums -> Nat] /\ Unlinks'
        /\ \A i \in INums : valid'[i] => nlink'[i] = dnlink'[i] /\ ftype'[i] # "free"
    BY <1>2, <1>9, <2>1, AddLinkIs
  <2>3. CacheSound'
    BY <1>2, <2>2 DEF Inv, CacheSound
  <2> QED
    BY <1>1, <1>2, <1>5, <1>7, <2>2, <2>3, EndedSound
<1>10. CASE /\ r.pc # "linkdir" /\ CanCreate(d) /\ nlink' = nlink /\ dirty' = dirty
            /\ create_inode_in_dir(d, n, IF r.pc = "mk" THEN "dir" ELSE "file")
  <2>1. PICK type \in {"file", "dir"} : type = IF r.pc = "mk" THEN "dir" ELSE "file"
    OBVIOUS
  <2>2. create_inode_in_dir(d, n, type) /\ lock[d] \in {t, Nobody}
    BY <1>2, <1>10, <2>1
  <2>3. RefsAtMost(Min(FreeInodes))
    BY <1>2 DEF Inv, CacheSound, RefsAtMost
  <2>4. DiskSound' /\ CacheSound' /\ Unlinks'
    BY <1>2, <1>5, <1>6, <1>10, <2>2, <2>3, CreatedCache
  <2> QED
    BY <1>1, <1>2, <1>5, <1>7, <2>4, EndedSound
<1>11. CASE UNCHANGED disk /\ nlink' = nlink /\ dirty' = dirty
  <2>1. DiskSound'
    BY <1>11, DiskKept DEF Inv
  <2>2. CacheSound' /\ Unlinks'
    BY <1>2, <1>11 DEF Inv, CacheSound, Unlinks, Unsettled, disk
  <2> QED
    BY <1>1, <1>2, <1>5, <1>7, <2>1, <2>2, EndedSound
<1> QED
  BY <1>3, <1>9, <1>10, <1>11

(* The new file is not found: the kernel stops where it is. *)
LEMMA MadeUnseenSound ==
  ASSUME Inv, NEW t \in Threads, MadeUnseen(t)
  PROVE  TypeOK' /\ LinksExact' /\ CleanupSound' /\ CycleHasLink'
<1> DEFINE r == th[t]
<1>1. PICK d, n : d = r.curr /\ n = Leaf(r)
  OBVIOUS
<1>2. PICK type \in {"file", "dir"} : type = "file"
  OBVIOUS
<1>3. /\ r.pc = "open" /\ n # "" /\ lock[d] \in {t, Nobody} /\ ended' = TRUE
      /\ CanCreate(d) /\ create_inode_in_dir(d, n, type)
      /\ ref' = ref /\ valid' = valid /\ nlink' = nlink /\ dirty' = dirty /\ lock' = lock
      /\ cleanup' = cleanup /\ cwd' = cwd /\ file' = file /\ th' = th
  BY <1>1, <1>2 DEF MadeUnseen, MakesFile, cache
<1>4. /\ r \in CallType /\ Shape(r) /\ InHand(t)
  BY InvTyped
<1>5. d # NONE /\ ftype[d] = "dir"
  BY <1>1, <1>3, <1>4 DEF Shape, InDir, InHand
<1>6. d \in INums /\ n \in Names
  BY <1>1, <1>3, <1>4, <1>5, InodesIn, Zenon
<1>7. RefsAtMost(Min(FreeInodes))
  BY <1>3 DEF Inv, CacheSound, RefsAtMost
<1>8. DiskSound' /\ CacheSound' /\ Unlinks'
  BY <1>3, <1>5, <1>6, <1>7, CreatedCache
<1>9. OwnersTyped'
  BY <1>3, <1>8 DEF Inv, LocksSound, PlacesSound, Unlinks, OwnersTyped
<1>10. TypeOK'
  BY <1>8, <1>9, TypesAre, PTL
<1>11. LinksExact' /\ CleanupSound'
  BY <1>8, LinksAre, CleanupIs, PTL
<1>12. CycleHasLink'
  <2>1. \A u \in Threads : Needs(u)' = Needs(u)
    BY <1>3, Zenon DEF Needs, Leaf
  <2> QED
    BY <1>3, <2>1, CyclesAre DEF CycleHasLink, WaitsFor
<1> QED
  BY <1>10, <1>11, <1>12

(* A reference is lost, and nothing else. *)
LEMMA ReferenceLostSound ==
  ASSUME Inv, NEW t \in Threads, ReferenceLost(t)
  PROVE  TypeOK' /\ LinksExact' /\ CleanupSound' /\ CycleHasLink'
<1> DEFINE r == th[t]
<1>1. /\ r.pc = "rmlock" /\ Load(r.ino) /\ lock' = [lock EXCEPT ![r.curr] = Nobody]
      /\ Goto(t, Done(r)) /\ ended' = TRUE
      /\ UNCHANGED disk /\ ref' = ref /\ dirty' = dirty /\ cleanup' = cleanup /\ cwd' = cwd /\ file' = file
  BY DEF ReferenceLost
<1>2. /\ r \in CallType /\ Shape(r) /\ InHand(t)
  BY InvTyped
<1>3. r.curr # NONE /\ r.ino # NONE /\ HeldLock(r) = r.curr
  BY <1>1, <1>2 DEF Shape, OpSound, InDir, Locked, Looked, HeldLock
<1>4. r.curr \in INums /\ r.ino \in INums
  BY <1>2, <1>3, InodesIn, Zenon
<1>5. r.ino \in Kept(t)
  BY <1>3 DEF Kept
<1>6. lock' = [i \in INums |-> IF i = HeldLock(r) THEN Nobody ELSE lock[i]]
  BY <1>1, <1>3, <1>4, LocksGiven
<1>7. DiskSound'
  BY <1>1, DiskKept DEF Inv
<1>8. CacheSound'
  <2>1. CacheSound /\ DiskSound /\ ftype[r.ino] # "free"
    BY <1>5, KeptTyped DEF Inv
  <2>2. /\ valid' \in [INums -> BOOLEAN] /\ nlink' \in [INums -> Nat]
        /\ \A i \in INums : valid'[i] => nlink'[i] = dnlink[i] /\ ftype[i] # "free"
    BY <1>1, <1>4, <2>1, Loaded
  <2> QED
    BY <1>1, <2>1, <2>2 DEF CacheSound, disk
<1>9. Unlinks'
  <2>1. Unlinks /\ dirty' \subseteq INums
    BY <1>1 DEF Inv, Unlinks
  <2>2. CacheSound /\ DiskSound /\ ftype[r.ino] # "free"
    BY <1>5, KeptTyped DEF Inv
  <2>3. \A i \in INums : valid[i] /\ ref[i] > 0 => valid'[i] /\ ref'[i] > 0
    BY <1>1, <1>4, <2>2, Loaded
  <2>4. \A i \in INums : Unsettled(i)' => Unsettled(i)
    BY <1>1 DEF Unsettled, disk
  <2> QED
    BY <1>1, <2>1, <2>3, <2>4, UnlinksKept
<1> QED
  BY <1>1, <1>3, <1>6, <1>7, <1>8, <1>9, EndedSound

-----------------------------------------------------------------------------
(* The invariant holds *)

(* At the start the root has a reference for every thread's directory. *)
LEMMA InitHolders ==
  ASSUME Init, NEW i \in INums
  PROVE  ref[i] = Holders(i)
<1>1. \A t \in Threads : Places(t) = <<NONE, NONE, NONE, SFS_ROOT_INUM, NONE>>
  <2> TAKE t \in Threads
  <2>1. th[t] = Idle /\ cwd[t] = SFS_ROOT_INUM /\ file[t] = NONE
    BY DEF Init
  <2>2. Idle.curr = NONE /\ Idle.ino = NONE /\ Idle.src = NONE /\ Idle.drop = <<>>
    BY DEF Idle
  <2>3. PICK s : s = <<NONE, NONE, NONE, SFS_ROOT_INUM, NONE>>
    OBVIOUS
  <2>4. s \in Seq({NONE, SFS_ROOT_INUM})
    BY <2>3
  <2>5. s \o <<>> = s
    BY <2>4, ConcatEmptySeq
  <2> QED
    BY <2>1, <2>2, <2>3, <2>5 DEF Places
<1>2. Count(i, cleanup) = 0
  <2>1. {k \in DOMAIN cleanup : cleanup[k] = i} = {}
    BY DEF Init
  <2> QED
    BY <2>1, FS_EmptySet DEF Count
<1>3. PICK S : S = UNION {{t} \X {k \in DOMAIN Places(t) : Places(t)[k] = i} : t \in Threads}
  OBVIOUS
<1>4. Holders(i) = Cardinality(S) + 0
  BY <1>2, <1>3 DEF Holders
<1>5. PICK K : K = {k \in 1..5 : <<NONE, NONE, NONE, SFS_ROOT_INUM, NONE>>[k] = i}
  OBVIOUS
<1>6. \A t \in Threads : {k \in DOMAIN Places(t) : Places(t)[k] = i} = K
  <2> TAKE t \in Threads
  <2>1. DOMAIN <<NONE, NONE, NONE, SFS_ROOT_INUM, NONE>> = 1..5
    OBVIOUS
  <2> QED
    BY <1>1, <1>5, <2>1
<1>7. S = Threads \X K
  BY <1>3, <1>6
<1>8. IsFiniteSet(Threads) /\ Cardinality(Threads) \in Nat
  BY ConstantsTyped, FS_CardinalityType
<1>9. CASE i = SFS_ROOT_INUM
  <2>1. K = {4}
    BY <1>5, <1>9, ConstantsTyped
  <2>2. IsFiniteSet(K) /\ Cardinality(K) = 1
    BY <2>1, FS_Singleton
  <2>3. Cardinality(S) = Cardinality(Threads) * 1
    BY <1>7, <1>8, <2>2, FS_Product
  <2>4. ref[i] = Cardinality(Threads)
    BY <1>9 DEF Init
  <2> QED
    BY <1>4, <1>8, <2>3, <2>4
<1>10. CASE i # SFS_ROOT_INUM
  <2>1. K = {}
    BY <1>5, <1>10, ConstantsTyped
  <2>2. S = {}
    BY <1>7, <2>1
  <2>3. Cardinality(S) = 0
    BY <2>2, FS_EmptySet
  <2>4. ref[i] = 0
    BY <1>10 DEF Init
  <2> QED
    BY <1>4, <2>3, <2>4
<1> QED
  BY <1>9, <1>10

LEMMA InitInv ==
  ASSUME Init
  PROVE  Inv
<1> DEFINE e == NoEntry
<1>1. NoEntry \in EntryType /\ NoEntry.inum = NONE
  <2>1. (CHOOSE n \in Names : TRUE) \in Names
    BY ConstantsTyped
  <2>2. NONE \in 0..NInodes
    BY ConstantsTyped DEF NONE
  <2> QED
    BY <2>1, <2>2 DEF NoEntry, EntryType
<1>2. \A t \in Threads : th[t] = Idle /\ cwd[t] = SFS_ROOT_INUM /\ file[t] = NONE
  BY DEF Init
<1>3. CallsSound
  <2>1. th \in [Threads -> CallType]
    BY IdleIs DEF Init
  <2> QED
    BY <1>2, <2>1, IdleIs DEF CallsSound
<1>4. LocksSound
  <2>1. lock \in [INums -> Threads \cup {Nobody}] /\ \A i \in INums : lock[i] = Nobody
    BY DEF Init
  <2>2. Nobody \notin Threads /\ \A i \in INums : i # NONE
    BY VfsAssumption, ConstantsTyped
  <2> QED
    BY <1>2, <2>1, <2>2, IdleIs DEF LocksSound
<1>5. PlacesSound
  <2>1. cwd \in [Threads -> INums] /\ file \in [Threads -> 0..NInodes]
    <3>1. NONE \in 0..NInodes
      BY ConstantsTyped DEF NONE
    <3> QED
      BY <3>1, ConstantsTyped DEF Init
  <2>2. ftype[SFS_ROOT_INUM] = "dir"
    BY ConstantsTyped DEF Init
  <2>3. \A t \in Threads : Kept(t) \subseteq {SFS_ROOT_INUM}
    BY <1>2, IdleIs DEF Kept
  <2>4. \A t \in Threads : InHand(t) /\ EntryFound(t)
    BY <1>2, <2>2, <2>3, IdleIs DEF InHand, EntryFound, InDir, Locked, Looked
  <2>5. \A t \in Threads : FileLoaded(t)
    BY <1>2 DEF FileLoaded
  <2> QED
    BY <2>1, <2>4, <2>5 DEF PlacesSound
<1>6. /\ dirents \in [INums -> [Slots -> EntryType]]
      /\ \A d \in INums, s \in Slots : dirents[d][s].inum = NONE
  BY <1>1 DEF Init
<1>7. DiskSound
  <2>1. /\ ftype \in [INums -> {"free", "file", "dir"}] /\ ftype[SFS_ROOT_INUM] = "dir"
        /\ dnlink \in [INums -> Nat]
    BY ConstantsTyped DEF Init
  <2>2. \A i \in INums : dnlink[i] = Cardinality(Entries(i)) + Ind(SFS_ROOT_INUM, i)
    <3> TAKE i \in INums
    <3>1. i # NONE
      BY ConstantsTyped
    <3>2. Entries(i) = {}
      BY <1>6, <3>1 DEF Entries
    <3>3. Cardinality(Entries(i)) = 0
      BY <3>2, FS_EmptySet
    <3>4. dnlink[i] = Ind(SFS_ROOT_INUM, i)
      BY DEF Init, Ind
    <3> QED
      BY <3>3, <3>4 DEF Ind
  <2>3. \A d, i \in INums, s, z \in Slots : ~(dirents[d][s].inum = i /\ dirents[i][z].inum = d)
    BY <1>6, ConstantsTyped
  <2> QED
    BY <1>6, <2>1, <2>2, <2>3 DEF DiskSound
<1>8. EntriesUnique
  BY <1>6 DEF EntriesUnique
<1>9. CacheSound
  <2>1. Cardinality(Threads) \in Nat
    BY ConstantsTyped, FS_CardinalityType
  <2> QED
    BY <2>1 DEF Init, CacheSound
<1>10. RefsCounted
  BY InitHolders DEF RefsCounted
<1>11. Unlinks
  <2>1. cleanup = <<>> /\ dirty = {} /\ \A i \in INums : ftype[i] # "free" => dnlink[i] = 1
    BY DEF Init
  <2>2. \A i \in INums : ~Unsettled(i)
    BY <2>1 DEF Unsettled
  <2> QED
    BY <2>1, <2>2 DEF Unlinks
<1>12. Apart
  BY <1>2, IdleIs DEF Apart
<1> QED
  BY <1>3, <1>4, <1>5, <1>7, <1>8, <1>9, <1>10, <1>11, <1>12 DEF Inv

(* A step that changes nothing of what calls have in hand *)
LEMMA FrameInv ==
  ASSUME Inv, Unlinks',
         UNCHANGED <<ftype, dnlink, dirents, ref, valid, nlink, lock, cleanup, cwd, file, th>>
  PROVE  Inv'
<1>1. CallsSound' /\ LocksSound'
  BY DEF Inv, CallsSound, LocksSound
<1>2. PlacesSound'
  <2> SUFFICES ASSUME NEW t \in Threads
               PROVE  InHand(t)' /\ EntryFound(t)' /\ FileLoaded(t)'
    BY DEF Inv, PlacesSound
  <2>1. InHand(t) /\ EntryFound(t) /\ FileLoaded(t)
    BY DEF Inv, PlacesSound
  <2>2. InHand(t)' /\ FileLoaded(t)'
    BY <2>1 DEF InHand, Kept, FileLoaded
  <2>3. Leaf(th[t])' = Leaf(th[t])
    BY DEF Leaf
  <2>4. Matches(th[t].curr, Leaf(th[t]))' = Matches(th[t].curr, Leaf(th[t]))
    BY <2>3 DEF Matches
  <2>5. EntryFound(t)'
    BY <2>1, <2>3, <2>4 DEF EntryFound
  <2> QED
    BY <2>2, <2>5
<1>3. DiskSound' /\ EntriesUnique' /\ CacheSound'
  BY DEF Inv, DiskSound, Entries, EntriesUnique, Shared, CacheSound
<1>4. Apart'
  BY DEF Inv, Apart
<1>5. RefsCounted'
  <2>1. \A i \in INums : Holders(i)' = Holders(i)
    <3> TAKE i \in INums
    <3>1. \A t \in Threads : Places(t)' = Places(t)
      BY DEF Places
    <3>2. UNION {{t} \X {k \in DOMAIN Places(t)' : Places(t)'[k] = i} : t \in Threads}
            = UNION {{t} \X {k \in DOMAIN Places(t) : Places(t)[k] = i} : t \in Threads}
      BY <3>1
    <3>3. Count(i, cleanup)' = Count(i, cleanup)
      BY DEF Count
    <3> QED
      BY <3>2, <3>3 DEF Holders
  <2> QED
    BY <2>1 DEF Inv, RefsCounted
<1> QED
  BY <1>1, <1>2, <1>3, <1>4, <1>5 DEF Inv

(* An open file is cached: it may be dirty. *)
LEMMA WriteInv ==
  ASSUME Inv, NEW t \in Threads, sfs_write(t)
  PROVE  Inv'
<1>1. PICK i : i = file[t]
  OBVIOUS
<1>2. /\ i # NONE /\ ftype[i] = "file" /\ dirty' \in {dirty \cup {i}, dirty \ {i}}
      /\ UNCHANGED <<ftype, dnlink, dirents, ref, valid, nlink, lock, cleanup, cwd, file, th>>
  BY <1>1 DEF sfs_write, disk
<1>3. FileLoaded(t) /\ file[t] \in 0..NInodes
  BY InvTyped
<1>4. i \in INums /\ valid[i]
  BY <1>1, <1>2, <1>3 DEF FileLoaded, INums, NONE
<1>5. i \in Kept(t)
  BY <1>1, <1>2 DEF Kept
<1>6. ref[i] > 0
  BY <1>4, <1>5, KeptAlive
<1>7. Unlinks'
  <2>1. Unlinks /\ dirty' \subseteq INums /\ dirty' \subseteq dirty \cup {i}
    BY <1>2, <1>4 DEF Inv, Unlinks
  <2>2. \A j \in INums : valid[j] /\ ref[j] > 0 => valid'[j] /\ ref'[j] > 0
    BY <1>2
  <2>3. \A j \in INums : Unsettled(j)' => Unsettled(j) \/ (valid'[j] /\ ref'[j] > 0)
    BY <1>2, <1>4, <1>6, <2>1 DEF Unsettled
  <2> QED
    BY <1>2, <2>1, <2>2, <2>3, UnlinksKept
<1> QED
  BY <1>2, <1>7, FrameInv

(* A step that changes nothing *)
LEMMA StutterInv ==
  ASSUME IInv, UNCHANGED vars
  PROVE  IInv'
<1>1. /\ UNCHANGED <<ftype, dnlink, dirents, ref, valid, nlink, lock, cleanup, cwd, file, th>>
      /\ UNCHANGED <<dirty, ended>>
  BY DEF vars
<1>2. ended' \in BOOLEAN
  BY <1>1 DEF IInv
<1>3. ~ended => Inv'
  <2> SUFFICES ASSUME Inv PROVE Inv'
    BY DEF IInv
  <2>1. Unlinks'
    BY <1>1 DEF Inv, Unlinks, Unsettled
  <2> QED
    BY <1>1, <2>1, FrameInv
<1>4. ended => TypeOK' /\ LinksExact' /\ CleanupSound' /\ CycleHasLink'
  <2> SUFFICES ASSUME TypeOK, LinksExact, CleanupSound, CycleHasLink
               PROVE  TypeOK' /\ LinksExact' /\ CleanupSound' /\ CycleHasLink'
    BY DEF IInv
  <2>1. TypeOK'
    BY <1>1 DEF TypeOK
  <2>2. LinksExact'
    BY <1>1 DEF LinksExact
  <2>3. CleanupSound'
    BY <1>1 DEF CleanupSound, Count, Unsettled
  <2>4. CycleHasLink'
    <3>1. \A t \in Threads : Needs(t)' = Needs(t)
      BY <1>1, Zenon DEF Needs, Leaf
    <3> QED
      BY <1>1, <3>1 DEF CycleHasLink, WaitsFor
  <2> QED
    BY <2>1, <2>2, <2>3, <2>4
<1> QED
  BY <1>1, <1>2, <1>3, <1>4 DEF IInv

LEMMA NextInv ==
  ASSUME IInv, Next
  PROVE  IInv'
<1>1. Inv /\ ~ended
  BY DEF IInv, Next
<1>2. PICK t \in Threads : \/ (Call(t) \/ Step(t)) /\ UNCHANGED ended
                           \/ NameMissed(t) \/ MadeUnseen(t) \/ ReferenceLost(t)
  BY DEF Next
<1>3. CASE (Call(t) \/ Step(t)) /\ UNCHANGED ended
  <2>1. ASSUME Call(t) PROVE Inv'
    BY <1>1, <2>1, BeginInv, CloseInv, WriteInv DEF Call
  <2>2. ASSUME Step(t) PROVE Inv'
    <3>1. ASSUME fs_find_parent_inode(t) \/ Enter(t) \/ Release(t) \/ fs_find_inode(t)
                 \/ ReadEntry(t) \/ Take(t) \/ Hold(t) \/ sys_chdir(t)
          PROVE  Inv'
      BY <1>1, <3>1, WalkInv, EnterInv, ReleaseInv, FindInv, ReadInv, TakeInv, HoldInv,
         ChdirInv
    <3>2. ASSUME LinkFound(t) \/ LinkSrc(t) \/ sfs_link(t)
          PROVE  Inv'
      BY <1>1, <3>2, LinkFoundInv, LinkSrcInv, SfsLinkInv
    <3>3. ASSUME \/ fs_open_file(t) \/ Opened(t) \/ fs_mkdir(t)
                 \/ fs_unlink(t) \/ unlink_inode_in_dir(t) \/ Unlinked(t)
          PROVE  Inv'
      BY <1>1, <3>3, OpenInv, OpenedInv, MkdirInv, UnlinkInv, RemoveInv, UnlinkedInv
    <3> QED
      BY <2>2, <3>1, <3>2, <3>3 DEF Step
  <2>3. Inv' /\ ended' = ended
    BY <1>3, <2>1, <2>2
  <2> QED
    BY <1>1, <2>3 DEF IInv
<1>4. CASE NameMissed(t)
  <2>1. TypeOK' /\ LinksExact' /\ CleanupSound' /\ CycleHasLink'
    BY <1>1, <1>4, NameMissedSound
  <2>2. ended' = TRUE
    BY <1>4 DEF NameMissed
  <2> QED
    BY <2>1, <2>2 DEF IInv
<1>5. CASE ReferenceLost(t)
  <2>1. TypeOK' /\ LinksExact' /\ CleanupSound' /\ CycleHasLink'
    BY <1>1, <1>5, ReferenceLostSound
  <2>2. ended' = TRUE
    BY <1>5 DEF ReferenceLost
  <2> QED
    BY <2>1, <2>2 DEF IInv
<1>6. CASE MadeUnseen(t)
  <2>1. TypeOK' /\ LinksExact' /\ CleanupSound' /\ CycleHasLink'
    BY <1>1, <1>6, MadeUnseenSound
  <2>2. ended' = TRUE
    BY <1>6 DEF MadeUnseen
  <2> QED
    BY <2>1, <2>2 DEF IInv
<1> QED
  BY <1>2, <1>3, <1>4, <1>5, <1>6

(* Through walks, links, openings, writes and removals in any order, and   *)
(* lookups that fail, every thread's call has the inodes and locks that    *)
(* its place in the code says, and the disk and the cache agree; a         *)
(* shortage that is not handled, or a kassert that fails, leaves the       *)
(* directories counted all the same.                                       *)
THEOREM Invariance == Spec => []IInv
<1>1. Init => IInv
  <2> SUFFICES ASSUME Init PROVE IInv
    OBVIOUS
  <2>1. Inv /\ ended = FALSE
    BY InitInv DEF Init
  <2> QED
    BY <2>1 DEF IInv
<1>2. IInv /\ [Next]_vars => IInv'
  BY NextInv, StutterInv
<1> QED
  BY <1>1, <1>2, PTL DEF Spec

(* i_ref of an inode is the number of places that hold it: what calls have *)
(* in hand, the directories and files of processes, and the cleanup list.  *)
THEOREM References == Spec => []RefsExact
<1>1. IInv => RefsExact
  BY DEF IInv, Inv, RefsCounted, RefsExact
<1> QED
  BY <1>1, Invariance, PTL

(* No entry is made twice by calls that race (create_inode_in_dir and      *)
(* sfs_link under the directory's lock) where alloc_dirent cuts no name    *)
(* to it, and the link counts on disk and in the cache are the number of   *)
(* entries.                                                                *)
THEOREM Directories == Spec => []DirsSound
<1>1. IInv => DirsSound
  <2> SUFFICES ASSUME IInv PROVE DirsSound
    OBVIOUS
  <2>1. TypeOK /\ LinksExact
    BY InvSound DEF IInv
  <2>2. NamesUnique
    BY NamesAre DEF IInv, Inv, NamesUnique
  <2> QED
    BY <2>1, <2>2 DEF DirsSound
<1> QED
  BY <1>1, Invariance, PTL

(* fs_release_inode drops no inode from the cache that has lost its last   *)
(* link or has to be written, through lookups that race with the removal;  *)
(* what it puts on the cleanup list is there once, and stays cached.       *)
THEOREM Cleanup == Spec => []CleanupSound
<1>1. IInv => CleanupSound
  BY InvSound DEF IInv
<1> QED
  BY <1>1, Invariance, PTL

(* Two threads, or one alone, wait for each other's inode locks only where *)
(* one of them is in fs_link.                                              *)
THEOREM Cycles == Spec => []CycleHasLink
<1>1. IInv => CycleHasLink
  BY InvSound DEF IInv
<1> QED
  BY <1>1, Invariance, PTL

=============================================================================
