------------------------- MODULE LRUCountersProofs -------------------------
(***************************************************************************)
(* Proofs about the counters of an eviction pass, for any finite number of *)
(* addresses: LRU::size is the size of what the pass still counts, and a   *)
(* pass evicts no more than it has to.  They need facts about Sum, which   *)
(* folds over a set in an arbitrary order.                                 *)
(***************************************************************************)
EXTENDS LRUProofs, Minima

-----------------------------------------------------------------------------
(* Sums *)

\* The element a fold takes first.
Some(s) == CHOOSE x \in s : TRUE

\* g is the recursive function a sum is defined by, on a set D of sets.
SumStep(f, D, g) ==
  g = [s \in D |-> IF s = {} THEN 0 ELSE f[Some(s)].size + g[s \ {Some(s)}]]

LEMMA SomeIn ==
  ASSUME NEW s, s # {}
  PROVE  Some(s) \in s
  BY DEF Some

LEMMA SumDef ==
  ASSUME NEW f, NEW S
  PROVE  Sum(f, S) = (CHOOSE g : SumStep(f, SUBSET S, g))[S]
  BY DEF Sum, MapThenSumSet, MapThenFoldSet, SumStep, Some

\* The recursive function exists ...
LEMMA SumStepExists ==
  ASSUME NEW f, NEW S, IsFiniteSet(S)
  PROVE  \E g : SumStep(f, SUBSET S, g)
<1> DEFINE L(n) == {s \in SUBSET S : Cardinality(s) <= n}
           C == {n \in Nat : \E g : SumStep(f, L(n), g)}
<1>1. \A s \in SUBSET S :
        /\ IsFiniteSet(s) /\ Cardinality(s) \in Nat
        /\ Cardinality(s) <= Cardinality(S)
        /\ s # {} => /\ s \ {Some(s)} \in SUBSET S
                     /\ Cardinality(s \ {Some(s)}) = Cardinality(s) - 1
  BY FS_Subset, FS_CardinalityType, FS_RemoveElement, SomeIn
<1>2. 0 \in C
  <2> DEFINE g == [s \in L(0) |-> 0]
  <2>1. \A s \in L(0) : s = {}
    <3> TAKE s \in L(0)
    <3>1. s \in SUBSET S /\ Cardinality(s) <= 0
      OBVIOUS
    <3>2. IsFiniteSet(s) /\ Cardinality(s) \in Nat
      BY <3>1, <1>1, Zenon
    <3>3. Cardinality(s) = 0
      BY <3>1, <3>2
    <3> QED
      BY <3>2, <3>3, FS_EmptySet
  <2>2. SumStep(f, L(0), g)
    BY <2>1 DEF SumStep
  <2> QED
    BY <2>2
<1>3. ASSUME NEW n \in Nat, n \in C PROVE n + 1 \in C
  <2>1. PICK g : SumStep(f, L(n), g)
    BY <1>3
  <2> DEFINE h == [s \in L(n + 1) |->
                     IF s = {} THEN 0 ELSE f[Some(s)].size + g[s \ {Some(s)}]]
  <2>2. \A s \in L(n) : s \in L(n + 1)
    <3> TAKE s \in L(n)
    <3>1. Cardinality(s) \in Nat /\ Cardinality(s) <= n
      BY <1>1
    <3> QED
      BY <3>1
  <2>3. \A s \in L(n) : h[s] = g[s]
    BY <2>1, <2>2 DEF SumStep
  <2>4. \A s \in L(n + 1) : s # {} => s \ {Some(s)} \in L(n)
    BY <1>1
  <2>5. h = [s \in L(n + 1) |->
               IF s = {} THEN 0 ELSE f[Some(s)].size + h[s \ {Some(s)}]]
    <3> HIDE DEF L
    <3>1. \A s \in L(n + 1) :
            (IF s = {} THEN 0 ELSE f[Some(s)].size + g[s \ {Some(s)}])
            = (IF s = {} THEN 0 ELSE f[Some(s)].size + h[s \ {Some(s)}])
      BY <2>3, <2>4
    <3> QED
      BY <3>1
  <2>6. SumStep(f, L(n + 1), h)
    BY <2>5 DEF SumStep
  <2> HIDE DEF h
  <2> QED
    BY <2>6
<1>4. Cardinality(S) \in C
  <2> HIDE DEF C
  <2>1. \A n \in Nat : n \in C
    BY <1>2, <1>3, AllNumbers
  <2> QED
    BY <2>1, FS_CardinalityType
<1>5. L(Cardinality(S)) = SUBSET S
  BY <1>1
<1> QED
  BY <1>4, <1>5

\* ... and two of them agree where both are defined.
LEMMA SumStepUnique ==
  ASSUME NEW f, NEW S, IsFiniteSet(S), NEW R \in SUBSET S,
         NEW g, NEW h, SumStep(f, SUBSET S, g), SumStep(f, SUBSET R, h)
  PROVE  g[R] = h[R]
<1> DEFINE C == {T \in SUBSET R : g[T] = h[T]}
<1>1. IsFiniteSet(R)
  BY FS_Subset
<1>2. ASSUME NEW T \in SUBSET R, \A U \in SUBSET T : U # T => U \in C
      PROVE  T \in C
  <2>1. T \in SUBSET S
    OBVIOUS
  <2>2. CASE T = {}
    BY <2>1, <2>2 DEF SumStep
  <2>3. CASE T # {}
    <3>1. T \ {Some(T)} \in C
      BY <1>2, <2>3, SomeIn
    <3> QED
      BY <2>1, <2>3, <3>1 DEF SumStep
  <2> QED
    BY <2>2, <2>3
<1> HIDE DEF C
<1>3. \A T \in SUBSET R : T \in C
  BY <1>1, <1>2, AllSubsets
<1> QED
  BY <1>3 DEF C

\* The equation of Sum.
LEMMA SumEquation ==
  ASSUME NEW f, NEW S, IsFiniteSet(S)
  PROVE  Sum(f, S) = IF S = {} THEN 0
                     ELSE f[Some(S)].size + Sum(f, S \ {Some(S)})
<1> DEFINE g == CHOOSE g : SumStep(f, SUBSET S, g)
           R == S \ {Some(S)}
           h == CHOOSE h : SumStep(f, SUBSET R, h)
<1>1. SumStep(f, SUBSET S, g)
  BY SumStepExists
<1>2. IsFiniteSet(R) /\ R \in SUBSET S
  BY FS_Subset
<1>3. SumStep(f, SUBSET R, h)
  BY <1>2, SumStepExists
<1>4. Sum(f, S) = g[S] /\ Sum(f, R) = h[R]
  BY SumDef
<1>5. g[R] = h[R]
  <2> HIDE DEF g, h, R
  <2> QED
    BY <1>1, <1>2, <1>3, SumStepUnique
<1> HIDE DEF g, h
<1> QED
  BY <1>1, <1>4, <1>5 DEF SumStep

LEMMA SumEmpty ==
  ASSUME NEW f
  PROVE  Sum(f, {}) = 0
  BY FS_EmptySet, SumEquation

\* The sum is a number ...
LEMMA SumType ==
  ASSUME NEW f, NEW S, IsFiniteSet(S), \A a \in S : f[a].size \in Nat
  PROVE  Sum(f, S) \in Nat
<1> DEFINE C == {T \in SUBSET S : Sum(f, T) \in Nat}
<1>1. ASSUME NEW T \in SUBSET S, \A U \in SUBSET T : U # T => U \in C
      PROVE  T \in C
  <2>1. IsFiniteSet(T)
    BY FS_Subset
  <2>2. CASE T = {}
    BY <2>2, SumEmpty
  <2>3. CASE T # {}
    <3>1. Some(T) \in T /\ T \ {Some(T)} \in C
      BY <1>1, <2>3, SomeIn
    <3>2. f[Some(T)].size \in Nat /\ Sum(f, T \ {Some(T)}) \in Nat
      BY <3>1
    <3>3. Sum(f, T) = f[Some(T)].size + Sum(f, T \ {Some(T)})
      BY <2>1, <2>3, SumEquation
    <3> QED
      BY <3>2, <3>3
  <2> QED
    BY <2>2, <2>3
<1> HIDE DEF C
<1>2. \A T \in SUBSET S : T \in C
  BY <1>1, AllSubsets
<1> QED
  BY <1>2 DEF C

\* ... to which each element contributes, whichever the fold takes first.
LEMMA SumRemove ==
  ASSUME NEW f, NEW S, IsFiniteSet(S), \A a \in S : f[a].size \in Nat, NEW x \in S
  PROVE  Sum(f, S) = f[x].size + Sum(f, S \ {x})
<1> DEFINE C == {T \in SUBSET S :
                   \A y \in T : Sum(f, T) = f[y].size + Sum(f, T \ {y})}
<1>1. ASSUME NEW T \in SUBSET S, \A U \in SUBSET T : U # T => U \in C
      PROVE  T \in C
  <2> SUFFICES ASSUME NEW y \in T
               PROVE  Sum(f, T) = f[y].size + Sum(f, T \ {y})
    OBVIOUS
  <2> DEFINE z == Some(T)
  <2>1. z \in T
    BY SomeIn
  <2> HIDE DEF z
  <2>2. IsFiniteSet(T) /\ IsFiniteSet(T \ {y}) /\ IsFiniteSet(T \ {z})
    BY FS_Subset
  <2>3. Sum(f, T) = f[z].size + Sum(f, T \ {z})
    BY <2>2, SumEquation DEF z
  <2>4. CASE y # z
    <3> DEFINE U == T \ {y}
               V == T \ {z}
    <3>1. U \in C /\ V \in C /\ z \in U /\ y \in V /\ U \ {z} = V \ {y}
      BY <1>1, <2>1, <2>4
    <3>2. /\ Sum(f, U) = f[z].size + Sum(f, U \ {z})
          /\ Sum(f, V) = f[y].size + Sum(f, U \ {z})
      BY <3>1
    <3>3. Sum(f, U \ {z}) \in Nat
      <4>1. IsFiniteSet(U \ {z}) /\ \A a \in U \ {z} : f[a].size \in Nat
        BY <2>2, FS_Subset
      <4> QED
        BY <4>1, SumType
    <3>4. f[y].size \in Nat /\ f[z].size \in Nat
      BY <2>1
    <3> HIDE DEF U, V, C
    <3>5. Sum(f, T) = f[z].size + Sum(f, V)
      BY <2>3 DEF V
    <3>6. Sum(f, T) = f[y].size + Sum(f, U)
      BY <3>2, <3>3, <3>4, <3>5
    <3> QED
      BY <3>6 DEF U
  <2> QED
    BY <2>3, <2>4
<1> HIDE DEF C
<1>2. \A T \in SUBSET S : T \in C
  BY <1>1, AllSubsets
<1> QED
  BY <1>2 DEF C

LEMMA SumAdd ==
  ASSUME NEW f, NEW S, IsFiniteSet(S), NEW x, x \notin S,
         \A a \in S \cup {x} : f[a].size \in Nat
  PROVE  Sum(f, S \cup {x}) = f[x].size + Sum(f, S)
<1>1. IsFiniteSet(S \cup {x}) /\ (S \cup {x}) \ {x} = S
  BY FS_AddElement
<1> QED
  BY <1>1, SumRemove

\* A larger set of larger files has the larger sum.
LEMMA SumGrows ==
  ASSUME NEW f, NEW g, NEW S, NEW R \in SUBSET S, IsFiniteSet(S),
         \A a \in S : g[a].size \in Nat,
         \A a \in R : f[a].size \in Nat /\ f[a].size <= g[a].size
  PROVE  Sum(f, R) <= Sum(g, S)
<1> DEFINE C == {T \in SUBSET S : Sum(f, T \cap R) <= Sum(g, T)}
<1>1. ASSUME NEW T \in SUBSET S, \A U \in SUBSET T : U # T => U \in C
      PROVE  T \in C
  <2>1. IsFiniteSet(T) /\ IsFiniteSet(T \cap R)
    BY FS_Subset
  <2>2. CASE T = {}
    <3>1. T \cap R = {}
      BY <2>2
    <3> QED
      BY <2>2, <3>1, SumEmpty
  <2>3. ASSUME NEW x \in T PROVE Sum(f, T \cap R) <= Sum(g, T)
    <3> DEFINE U == T \ {x}
    <3>1. U \in C /\ IsFiniteSet(U) /\ IsFiniteSet(U \cap R)
      BY <1>1, <2>1, <2>3, FS_Subset
    <3>2. Sum(f, U \cap R) <= Sum(g, U)
      BY <3>1
    <3>3. Sum(g, T) = g[x].size + Sum(g, U) /\ g[x].size \in Nat
      BY <2>1, <2>3, SumRemove
    <3>4. Sum(g, U) \in Nat /\ Sum(f, U \cap R) \in Nat
      BY <3>1, SumType
    <3>5. CASE x \in R
      <4>1. (T \cap R) \ {x} = U \cap R
        OBVIOUS
      <4>2. Sum(f, T \cap R) = f[x].size + Sum(f, U \cap R)
        BY <2>1, <2>3, <3>5, <4>1, SumRemove
      <4> HIDE DEF U
      <4> QED
        BY <3>2, <3>3, <3>4, <3>5, <4>2
    <3>6. CASE x \notin R
      <4>1. T \cap R = U \cap R
        BY <3>6
      <4>2. Sum(f, T \cap R) = Sum(f, U \cap R)
        BY <4>1
      <4> HIDE DEF U
      <4> QED
        BY <3>2, <3>3, <3>4, <4>2
    <3> QED
      BY <3>5, <3>6
  <2> QED
    BY <2>2, <2>3
<1> HIDE DEF C
<1>2. S \in C
  BY <1>1, AllSubsets
<1>3. S \cap R = R
  OBVIOUS
<1> QED
  BY <1>2, <1>3 DEF C

\* Only the sizes of the elements matter.
LEMMA SumSame ==
  ASSUME NEW f, NEW g, NEW S, IsFiniteSet(S),
         \A a \in S : f[a].size \in Nat /\ f[a].size = g[a].size
  PROVE  Sum(f, S) = Sum(g, S)
<1>1. Sum(f, S) <= Sum(g, S) /\ Sum(g, S) <= Sum(f, S)
  BY SumGrows
<1>2. Sum(f, S) \in Nat /\ Sum(g, S) \in Nat
  BY SumType
<1> QED
  BY <1>1, <1>2
-----------------------------------------------------------------------------
(* The counters *)

\* The rest of the types; that a size is not negative follows.
CountTypes ==
  /\ old \in SUBSET Address
  /\ todo \in [Evictor -> SUBSET Address]
  /\ listed \in [Evictor -> SUBSET Item]
  /\ size \in [Evictor -> Int]
  /\ faults \in 0 .. MaxFaults

\* A pass counts each entry once: what it has not read or looked at yet is not on
\* the heap, and what it has taken off the heap is in one other place only.  What
\* it has in hand was worth evicting.
Apart(e) ==
  /\ epc[e] = "idle" => heap[e] = {} /\ listed[e] = {}
  /\ epc[e] \in {"scan", "age", "removeTemp"} =>
       /\ todo[e] \cap heap[e] = {}
       /\ \A a \in Address :
            <<"entry", a>> \in listed[e] => a \notin todo[e] /\ a \notin heap[e]
  /\ epc[e] # "report" => heap[e] \cap inuse[e] = {}
  /\ epc[e] \in {"stat", "unlink"} =>
       item[e] \notin heap[e] \cup inuse[e] /\ size[e] > Target

CountOK(e) ==
  /\ size[e] = Sum(seen[e], Counted(e))
  /\ evicted[e] \cap Counted(e) = {}
  /\ Apart(e)

CountInv == CountTypes /\ \A e \in Evictor : CountOK(e)

LEMMA MetaSize ==
  ASSUME NEW m \in Meta
  PROVE  m.size \in Nat
  BY SizesAssumption DEF Meta

\* What a pass counts is entries it has seen.
LEMMA CountedSeen ==
  ASSUME Types, Places, Ordered, NEW e \in Evictor
  PROVE  /\ Counted(e) \in SUBSET Address /\ IsFiniteSet(Counted(e))
         /\ \A a \in Counted(e) : seen[e][a] \in Meta /\ seen[e][a].size \in Nat
<1>1. Counted(e) \in SUBSET Address
  BY DEF Types, Places, Counted
<1>2. IsFiniteSet(Counted(e))
  BY <1>1, AddressAssumption, FS_Subset
<1>3. ASSUME NEW a \in Counted(e) PROVE seen[e][a] \in Meta
  <2>1. seen[e][a] # None /\ a \in Address
    BY <1>1 DEF Counted, Ordered
  <2> QED
    BY <2>1 DEF Types
<1> QED
  BY <1>1, <1>2, <1>3, MetaSize

\* The pass of d is not concerned.
Same(d) ==
  /\ epc'[d] = epc[d] /\ todo'[d] = todo[d] /\ listed'[d] = listed[d]
  /\ item'[d] = item[d] /\ seen'[d] = seen[d] /\ heap'[d] = heap[d]
  /\ inuse'[d] = inuse[d] /\ evicted'[d] = evicted[d] /\ size'[d] = size[d]

LEMMA SameKeeps ==
  ASSUME NEW d \in Evictor, CountOK(d), Same(d)
  PROVE  CountOK(d)'
  BY DEF CountOK, Apart, Counted, Same

\* Users do not change what a pass has counted.
LEMMA UsersLeavePasses ==
  ASSUME NEW u \in User, UserStep(u) \/ KillUser(u)
  PROVE  UNCHANGED pass
  BY DEF UserStep, KillUser, Open, Touch, StoreBegin, StoreWrite, StoreRename,
         StoreFails, Remove, Done, pass

LEMMA CountTypesNext ==
  ASSUME Types, Places, Ordered, CountTypes, Next
  PROVE  CountTypes'
<1> USE DEF CountTypes
<1>1. ASSUME NEW u \in User, UserStep(u) \/ KillUser(u)
      PROVE  CountTypes'
  <2>1. UNCHANGED pass
    BY <1>1, UsersLeavePasses
  <2>2. old' = old /\ faults' \in 0 .. MaxFaults
    BY <1>1, TimesAssumption
    DEF UserStep, KillUser, Open, Touch, StoreBegin, StoreWrite, StoreRename,
        StoreFails, Remove, Done, files
  <2> QED
    BY <2>1, <2>2 DEF pass
<1>2. ASSUME NEW e \in Evictor, PassStep(e) \/ PassFails(e)
      PROVE  CountTypes'
  <2>1. \A a \in Address : Listing(a) \in SUBSET Item
    BY DEF Listing, Item
  <2>2. ASSUME NEW a \in Address, ScanEntry(e, a) PROVE CountTypes'
    <3>1. entry[a].size \in Int
      <4>1. entry[a] \in Meta
        BY <2>2 DEF ScanEntry, Types
      <4> QED
        BY <4>1, MetaSize
    <3> QED
      BY <2>2, <3>1 DEF ScanEntry, files
  <2>3. CASE EvictGone(e) \/ EvictUnlink(e)
    <3>1. /\ CountEvicted(e, item[e]) /\ item[e] \in Address
          /\ seen[e][item[e]] # None
          /\ UNCHANGED <<old, todo, listed, faults>>
      BY <2>3 DEF EvictGone, EvictUnlink, Places, Ordered, files
    <3>2. seen[e][item[e]].size \in Int
      <4>1. seen[e][item[e]] \in Meta
        BY <3>1 DEF Types
      <4> QED
        BY <4>1, MetaSize
    <3> QED
      BY <3>1, <3>2 DEF CountEvicted
  <2>4. CASE ScanFails(e) \/ PassEnd(e) \/ PassFails(e)
    BY <2>4, TimesAssumption DEF ScanFails, PassEnd, PassFails, EndPass, files
  <2>5. ASSUME NEW a \in Address, ScanDir(e, a) PROVE CountTypes'
    BY <2>1, <2>5 DEF ScanDir, files
  <2>6. ASSUME NEW a \in Address, ScanOld(e, a) PROVE CountTypes'
    BY <2>6 DEF ScanOld
  <2>7. ASSUME NEW n \in Temp, ScanTemp(e, n) PROVE CountTypes'
    BY <2>7 DEF ScanTemp, files
  <2>8. CASE ScanBegin(e)
    BY <2>8 DEF ScanBegin, files
  <2>9. CASE ScanAge(e) \/ ScanRemoveTemp(e) \/ ScanEnd(e)
    BY <2>9 DEF ScanAge, ScanRemoveTemp, ScanEnd, files
  <2>10. CASE EvictPop(e) \/ EvictInUse(e) \/ EvictUnused(e) \/ EvictEnd(e)
    BY <2>10 DEF EvictPop, EvictInUse, EvictUnused, EvictEnd, files
  <2> QED
    BY <1>2, <2>2, <2>3, <2>4, <2>5, <2>6, <2>7, <2>8, <2>9, <2>10 DEF PassStep
<1>3. CASE Tick
  BY <1>3 DEF Tick, files, pass
<1> QED
  BY <1>1, <1>2, <1>3 DEF Next

\* Each step of a pass counts right.
LEMMA ScanCounts ==
  ASSUME Types, Places, Ordered, CountInv, NEW e \in Evictor, NEW a \in Address,
         ScanEntry(e, a)
  PROVE  CountOK(e)'
<1>1. /\ epc[e] = "scan" /\ epc'[e] = "scan" /\ <<"entry", a>> \in listed[e]
      /\ entry[a] # None
      /\ listed'[e] = listed[e] \ {<<"entry", a>>} /\ todo'[e] = todo[e]
      /\ seen'[e] = [seen[e] EXCEPT ![a] = entry[a]]
      /\ heap'[e] = heap[e] \cup {a} /\ size'[e] = size[e] + entry[a].size
      /\ inuse'[e] = inuse[e] /\ evicted'[e] = evicted[e]
  BY DEF ScanEntry, Types, CountInv, CountTypes
<1>2. /\ a \notin todo[e] /\ a \notin heap[e] /\ inuse[e] = {} /\ evicted[e] = {}
      /\ CountOK(e)
  BY <1>1 DEF CountInv, CountOK, Apart, Ordered
<1>3. Counted(e) = heap[e] /\ Counted(e)' = heap[e] \cup {a}
  BY <1>1, <1>2 DEF Counted
<1>4. /\ heap[e] \in SUBSET Address /\ IsFiniteSet(heap[e])
      /\ \A b \in heap[e] : seen[e][b].size \in Nat
  BY <1>3, CountedSeen
<1>5. entry[a].size \in Nat
  <2>1. entry[a] \in Meta
    BY <1>1 DEF Types
  <2> QED
    BY <2>1, MetaSize
<1>6. /\ seen'[e][a] = entry[a]
      /\ \A b \in heap[e] : seen'[e][b] = seen[e][b]
  BY <1>1, <1>2, <1>4 DEF Types
<1>7. Sum(seen'[e], heap[e]) = Sum(seen[e], heap[e])
  BY <1>4, <1>6, SumSame
<1>8. Sum(seen'[e], heap[e] \cup {a}) = entry[a].size + Sum(seen'[e], heap[e])
  BY <1>2, <1>4, <1>5, <1>6, SumAdd
<1>9. size'[e] = Sum(seen'[e], Counted(e)')
  <2>1. Sum(seen[e], heap[e]) \in Nat
    BY <1>4, SumType
  <2>2. size[e] = Sum(seen[e], heap[e])
    BY <1>2, <1>3 DEF CountOK
  <2> QED
    BY <1>1, <1>3, <1>5, <1>7, <1>8, <2>1, <2>2
<1> QED
  BY <1>1, <1>2, <1>3, <1>9 DEF CountOK, Apart

LEMMA EvictionCounts ==
  ASSUME Types, Places, Ordered, CountInv, NEW e \in Evictor,
         EvictGone(e) \/ EvictUnlink(e)
  PROVE  CountOK(e)'
<1> DEFINE a == item[e]
           R == heap[e] \cup inuse[e]
<1>1. /\ epc[e] \in {"stat", "unlink"}
      /\ CountEvicted(e, item[e])
      /\ UNCHANGED <<todo, listed, seen, heap, inuse>>
  BY DEF EvictGone, EvictUnlink
<1>2. /\ epc'[e] = "evict" /\ size'[e] = size[e] - seen[e][a].size
      /\ evicted'[e] = evicted[e] \cup {a}
      /\ a \in Address /\ a \notin R /\ CountOK(e)
  BY <1>1 DEF CountEvicted, Types, Places, CountInv, CountTypes, CountOK, Apart
<1>3. Counted(e) = R \cup {a} /\ Counted(e)' = R
  BY <1>1, <1>2 DEF Counted
<1>4. /\ IsFiniteSet(R \cup {a})
      /\ \A b \in R \cup {a} : seen[e][b].size \in Nat
  BY <1>3, CountedSeen
<1>5. IsFiniteSet(R)
  BY <1>4, FS_Subset
<1>6. Sum(seen[e], R \cup {a}) = seen[e][a].size + Sum(seen[e], R)
  <2> HIDE DEF R, a
  <2> QED
    BY <1>2, <1>4, <1>5, SumAdd
<1>7. Sum(seen[e], R) \in Nat
  <2> HIDE DEF R, a
  <2> QED
    BY <1>4, <1>5, SumType
<1>8. size'[e] = Sum(seen'[e], Counted(e)')
  <2>1. size[e] = Sum(seen[e], R \cup {a}) /\ seen[e][a].size \in Nat
    BY <1>2, <1>3, <1>4 DEF CountOK
  <2> HIDE DEF R, a
  <2> QED
    BY <1>1, <1>2, <1>3, <1>6, <1>7, <2>1
<1>9. Apart(e)'
  BY <1>1, <1>2 DEF CountOK, Apart
<1>10. evicted'[e] \cap Counted(e)' = {}
  BY <1>2, <1>3 DEF CountOK
<1> QED
  BY <1>8, <1>9, <1>10 DEF CountOK

\* Every step keeps the counters of every pass right.
LEMMA CountNext ==
  ASSUME Types, Places, Ordered, CountInv, Next
  PROVE  CountInv'
<1>1. CountTypes
  BY DEF CountInv
<1>2. CountTypes'
  BY <1>1, CountTypesNext
<1>3. ASSUME NEW u \in User, UserStep(u) \/ KillUser(u)
      PROVE  \A d \in Evictor : CountOK(d)'
  <2>1. \A d \in Evictor : Same(d)
    BY <1>3, UsersLeavePasses DEF pass, Same
  <2> QED
    BY <2>1, SameKeeps DEF CountInv
<1>4. ASSUME Tick
      PROVE  \A d \in Evictor : CountOK(d)'
  <2>1. \A d \in Evictor : Same(d)
    BY <1>4 DEF Tick, pass, Same
  <2> QED
    BY <2>1, SameKeeps DEF CountInv
<1>5. ASSUME NEW e \in Evictor, PassStep(e) \/ PassFails(e)
      PROVE  \A d \in Evictor : CountOK(d)'
  <2>1. ASSUME NEW d \in Evictor, d # e PROVE Same(d)
    <3>1. CASE ScanBegin(e) \/ ScanAge(e) \/ ScanRemoveTemp(e) \/ ScanEnd(e)
      BY <1>1, <2>1, <3>1 DEF ScanBegin, ScanAge, ScanRemoveTemp, ScanEnd, Types, CountTypes, Same
    <3>2. CASE ScanFails(e) \/ PassEnd(e) \/ PassFails(e)
      BY <1>1, <2>1, <3>2 DEF ScanFails, PassEnd, PassFails, EndPass, Types, CountTypes, Same
    <3>3. ASSUME NEW a \in Address, ScanDir(e, a) \/ ScanEntry(e, a) \/ ScanOld(e, a)
          PROVE  Same(d)
      BY <1>1, <2>1, <3>3 DEF ScanDir, ScanEntry, ScanOld, Types, CountTypes, Same
    <3>4. ASSUME NEW n \in Temp, ScanTemp(e, n) PROVE Same(d)
      BY <1>1, <2>1, <3>4 DEF ScanTemp, Types, CountTypes, Same
    <3>5. CASE EvictPop(e) \/ EvictInUse(e) \/ EvictUnused(e) \/ EvictEnd(e)
      BY <1>1, <2>1, <3>5 DEF EvictPop, EvictInUse, EvictUnused, EvictEnd, Types, CountTypes, Same
    <3>6. CASE EvictGone(e) \/ EvictUnlink(e)
      BY <1>1, <2>1, <3>6 DEF EvictGone, EvictUnlink, CountEvicted, Types, CountTypes, Same
    <3> QED
      BY <1>5, <3>1, <3>2, <3>3, <3>4, <3>5, <3>6 DEF PassStep
  <2>2. CountOK(e)
    BY DEF CountInv
  <2>3. ASSUME ScanBegin(e) PROVE CountOK(e)'
    <3>1. /\ epc[e] = "idle" /\ epc'[e] = "scan" /\ heap'[e] = heap[e]
          /\ inuse'[e] = inuse[e] /\ evicted'[e] = evicted[e]
          /\ size'[e] = size[e] /\ seen'[e] = seen[e] /\ listed'[e] = listed[e]
      BY <1>1, <2>3 DEF ScanBegin, Types, CountTypes
    <3>2. lock = None /\ heap[e] = {} /\ inuse[e] = {} /\ evicted[e] = {}
      BY <2>2, <2>3, <3>1 DEF CountOK, Apart, Ordered, ScanBegin
    <3>3. Counted(e) = {} /\ Counted(e)' = {}
      BY <3>1, <3>2 DEF Counted
    <3>4. listed[e] = {}
      BY <2>2, <3>1 DEF CountOK, Apart
    <3>5. Apart(e)'
      BY <2>2, <3>1, <3>2, <3>3, <3>4 DEF CountOK, Apart
    <3> QED
      BY <2>2, <3>1, <3>2, <3>3, <3>4, <3>5 DEF CountOK
  <2>4. ASSUME NEW a \in Address, ScanDir(e, a) PROVE CountOK(e)'
    <3>1. /\ epc[e] = "scan" /\ epc'[e] = "scan" /\ a \in todo[e]
          /\ todo'[e] = todo[e] \ {a} /\ listed'[e] = Listing(a)
          /\ heap'[e] = heap[e] /\ inuse'[e] = inuse[e] /\ evicted'[e] = evicted[e]
          /\ size'[e] = size[e] /\ seen'[e] = seen[e]
      BY <1>1, <2>4 DEF ScanDir, Types, CountTypes
    <3>2. \A b : <<"entry", b>> \in Listing(a) => b = a
      BY DEF Listing
    <3>3. Counted(e)' = Counted(e)
      BY <3>1 DEF Counted
    <3>4. Apart(e)'
      BY <2>2, <3>1, <3>2, <3>3 DEF CountOK, Apart
    <3> QED
      BY <2>2, <3>1, <3>2, <3>3, <3>4 DEF CountOK
  <2>5. ASSUME NEW a \in Address, ScanEntry(e, a) PROVE CountOK(e)'
    BY <2>5, ScanCounts
  <2>6. ASSUME epc[e] \in {"scan", "age", "removeTemp"},
               epc'[e] \in {"scan", "age", "removeTemp"},
               listed'[e] \subseteq listed[e], todo'[e] = todo[e],
               seen'[e] = seen[e], heap'[e] = heap[e], inuse'[e] = inuse[e],
               evicted'[e] = evicted[e], size'[e] = size[e]
        PROVE  CountOK(e)'
    <3>1. Counted(e)' = Counted(e)
      BY <2>6 DEF Counted
    <3>2. Apart(e)'
      BY <2>2, <2>6 DEF CountOK, Apart
    <3> QED
      BY <2>2, <2>6, <3>1, <3>2 DEF CountOK
  <2>7. ASSUME NEW n \in Temp, ScanTemp(e, n) PROVE CountOK(e)'
    <3>1. /\ epc[e] = "scan" /\ epc'[e] = "age"
          /\ listed'[e] \subseteq listed[e] /\ todo'[e] = todo[e]
          /\ seen'[e] = seen[e] /\ heap'[e] = heap[e] /\ inuse'[e] = inuse[e]
          /\ evicted'[e] = evicted[e] /\ size'[e] = size[e]
      BY <1>1, <2>7 DEF ScanTemp, Types, CountTypes
    <3> QED
      BY <2>6, <3>1
  <2>8. ASSUME NEW a \in Address, ScanOld(e, a) PROVE CountOK(e)'
    <3>1. /\ epc[e] = "scan" /\ epc'[e] = "scan"
          /\ listed'[e] \subseteq listed[e] /\ todo'[e] = todo[e]
          /\ seen'[e] = seen[e] /\ heap'[e] = heap[e] /\ inuse'[e] = inuse[e]
          /\ evicted'[e] = evicted[e] /\ size'[e] = size[e]
      BY <1>1, <2>8 DEF ScanOld, Types, CountTypes
    <3> QED
      BY <2>6, <3>1
  <2>9. ASSUME ScanAge(e) \/ ScanRemoveTemp(e) PROVE CountOK(e)'
    <3>1. /\ epc[e] \in {"age", "removeTemp"} /\ epc'[e] \in {"scan", "removeTemp"}
          /\ listed'[e] \subseteq listed[e] /\ todo'[e] = todo[e]
          /\ seen'[e] = seen[e] /\ heap'[e] = heap[e] /\ inuse'[e] = inuse[e]
          /\ evicted'[e] = evicted[e] /\ size'[e] = size[e]
      BY <1>1, <2>9 DEF ScanAge, ScanRemoveTemp, Types, CountTypes
    <3> QED
      BY <2>6, <3>1
  <2>10. ASSUME ScanFails(e) \/ PassEnd(e) \/ PassFails(e) PROVE CountOK(e)'
    <3>1. /\ epc'[e] = "idle" /\ heap'[e] = {} /\ inuse'[e] = {} /\ evicted'[e] = {}
          /\ size'[e] = 0 /\ todo'[e] = {} /\ listed'[e] = {}
      BY <1>1, <2>10 DEF ScanFails, PassEnd, PassFails, EndPass, Types, CountTypes
    <3>2. Counted(e)' = {}
      BY <3>1 DEF Counted
    <3>3. Sum(seen'[e], {}) = 0
      BY SumEmpty
    <3>4. size'[e] = Sum(seen'[e], Counted(e)')
      BY <3>1, <3>2, <3>3
    <3>5. Apart(e)'
      BY <3>1 DEF Apart
    <3> QED
      BY <3>1, <3>2, <3>4, <3>5 DEF CountOK
  <2>11. ASSUME ScanEnd(e) PROVE CountOK(e)'
    <3>1. /\ epc[e] = "scan" /\ epc'[e] \in {"evict", "report"}
          /\ UNCHANGED <<seen, heap, inuse, evicted, size>>
      BY <1>1, <2>11 DEF ScanEnd, Types, CountTypes
    <3>2. inuse[e] = {} /\ evicted[e] = {}
      BY <3>1 DEF Ordered
    <3>3. Counted(e)' = Counted(e)
      BY <3>1, <3>2 DEF Counted
    <3>4. Apart(e)'
      BY <2>2, <3>1, <3>2, <3>3 DEF CountOK, Apart
    <3> QED
      BY <2>2, <3>1, <3>2, <3>3, <3>4 DEF CountOK
  <2>12. ASSUME EvictPop(e) PROVE CountOK(e)'
    <3>1. PICK a \in heap[e] : heap'[e] = heap[e] \ {a} /\ item'[e] = a
      BY <1>1, <2>12 DEF EvictPop, Oldest, Types, CountTypes
    <3>2. /\ epc[e] = "evict" /\ epc'[e] = "stat" /\ size[e] > Target
          /\ UNCHANGED <<seen, inuse, evicted, size>>
      BY <1>1, <2>12 DEF EvictPop, Types, CountTypes
    <3>3. Counted(e)' = Counted(e)
      BY <3>1, <3>2 DEF Counted
    <3>4. Apart(e)'
      BY <2>2, <3>1, <3>2, <3>3 DEF CountOK, Apart
    <3> QED
      BY <2>2, <3>1, <3>2, <3>3, <3>4 DEF CountOK
  <2>13. ASSUME EvictGone(e) \/ EvictUnlink(e) PROVE CountOK(e)'
    BY <2>13, EvictionCounts
  <2>14. ASSUME EvictInUse(e) PROVE CountOK(e)'
    <3>1. /\ epc[e] = "stat" /\ epc'[e] = "evict"
          /\ inuse'[e] = inuse[e] \cup {item[e]}
          /\ UNCHANGED <<seen, heap, evicted, size>>
      BY <1>1, <2>14 DEF EvictInUse, Types, CountTypes
    <3>2. Counted(e)' = Counted(e)
      BY <3>1 DEF Counted
    <3>3. Apart(e)'
      BY <2>2, <3>1, <3>2 DEF CountOK, Apart
    <3> QED
      BY <2>2, <3>1, <3>2, <3>3 DEF CountOK
  <2>15. ASSUME EvictUnused(e) PROVE CountOK(e)'
    <3>1. /\ epc[e] = "stat" /\ epc'[e] = "unlink"
          /\ UNCHANGED <<seen, heap, inuse, evicted, size, item>>
      BY <1>1, <2>15 DEF EvictUnused, Types, CountTypes
    <3>2. Counted(e)' = Counted(e)
      BY <3>1 DEF Counted
    <3>3. Apart(e)'
      BY <2>2, <3>1, <3>2 DEF CountOK, Apart
    <3> QED
      BY <2>2, <3>1, <3>2, <3>3 DEF CountOK
  <2>16. ASSUME EvictEnd(e) PROVE CountOK(e)'
    <3>1. /\ epc[e] = "evict" /\ epc'[e] = "report"
          /\ heap'[e] = heap[e] \cup inuse[e]
          /\ UNCHANGED <<seen, inuse, evicted, size>>
      BY <1>1, <2>16 DEF EvictEnd, Types, CountTypes
    <3>2. Counted(e)' = Counted(e)
      BY <3>1 DEF Counted
    <3>3. Apart(e)'
      BY <2>2, <3>1, <3>2 DEF CountOK, Apart
    <3> QED
      BY <2>2, <3>1, <3>2, <3>3 DEF CountOK
  <2>17. CountOK(e)'
    BY <1>5, <2>3, <2>4, <2>5, <2>7, <2>8, <2>9, <2>10, <2>11, <2>12, <2>13, <2>14,
       <2>15, <2>16 DEF PassStep
  <2> QED
    BY <2>1, <2>17, SameKeeps DEF CountInv
<1> QED
  BY <1>2, <1>3, <1>4, <1>5 DEF Next, CountInv

LEMMA CountStep ==
  ASSUME IInv, CountInv, [Next]_vars
  PROVE  CountInv'
<1>1. CASE Next
  BY <1>1, CountNext DEF IInv
<1>2. CASE UNCHANGED vars
  <2>1. \A d \in Evictor : Same(d)
    BY <1>2 DEF vars, pass, Same
  <2>2. \A d \in Evictor : CountOK(d)'
    BY <2>1, SameKeeps DEF CountInv
  <2> QED
    BY <1>2, <2>2 DEF vars, files, pass, CountInv, CountTypes
<1> QED
  BY <1>1, <1>2

LEMMA CountInit ==
  ASSUME Init
  PROVE  CountInv
<1>1. CountTypes
  BY TimesAssumption DEF Init, CountTypes
<1>2. ASSUME NEW e \in Evictor PROVE CountOK(e)
  <2>1. /\ epc[e] = "idle" /\ heap[e] = {} /\ inuse[e] = {} /\ evicted[e] = {}
        /\ listed[e] = {} /\ size[e] = 0
    BY DEF Init
  <2>2. Counted(e) = {}
    BY <2>1 DEF Counted
  <2>3. Sum(seen[e], {}) = 0
    BY SumEmpty
  <2>4. Apart(e)
    BY <2>1 DEF Apart
  <2> QED
    BY <2>1, <2>2, <2>3, <2>4 DEF CountOK
<1> QED
  BY <1>1, <1>2 DEF CountInv

LEMMA CountInvariance == Spec => [](IInv /\ CountInv)
<1>1. Init => CountInv
  BY CountInit
<1>2. IInv /\ CountInv /\ [Next]_vars => CountInv'
  BY CountStep
<1> QED
  BY <1>1, <1>2, Invariance, PTL DEF Spec

-----------------------------------------------------------------------------
(* What follows *)

\* LRU::size is the size of what the pass has seen and not evicted, the entries
\* in use included, after every step of every pass (lru.rs:94-118): the totals
\* clean_up and eviction_loop report and decide by are right.
THEOREM CountersStayRight == Spec => []CountersAgree
<1>1. CountInv => CountersAgree
  BY DEF CountInv, CountOK, CountersAgree
<1> QED
  BY <1>1, CountInvariance, PTL

\* What is on the disk is at least what a pass counts, as long as the users have
\* not removed or shrunk any of it; and it unlinks an entry only while that is
\* more than the target.
LEMMA NeverTooMuch ==
  ASSUME Types, Places, Ordered, CountInv
  PROVE  NoOverEviction
<1>1. SUFFICES ASSUME NEW e \in Evictor, epc[e] = "unlink",
                      \A a \in Counted(e) :
                        entry[a] # None /\ entry[a].size >= seen[e][a].size
               PROVE  Usage > Target
  BY DEF NoOverEviction
<1>2. /\ Counted(e) \in SUBSET Address /\ IsFiniteSet(Counted(e))
      /\ \A a \in Counted(e) : seen[e][a].size \in Nat
  BY CountedSeen
<1>3. IsFiniteSet(Present) /\ Counted(e) \in SUBSET Present
  <2>1. Present \in SUBSET Address /\ Counted(e) \in SUBSET Present
    BY <1>1, <1>2 DEF Present
  <2> QED
    BY <2>1, AddressAssumption, FS_Subset
<1>4. ASSUME NEW a \in Present PROVE entry[a].size \in Nat
  <2>1. entry[a] \in Meta
    BY <1>4 DEF Present, Types
  <2> QED
    BY <2>1, MetaSize
<1>5. \A a \in Counted(e) : seen[e][a].size <= entry[a].size
  <2>1. ASSUME NEW a \in Counted(e) PROVE seen[e][a].size <= entry[a].size
    BY <1>1, <1>2, <1>3, <1>4
  <2> QED
    BY <2>1
<1>6. Sum(seen[e], Counted(e)) <= Usage
  BY <1>2, <1>3, <1>4, <1>5, SumGrows DEF Usage
<1>7. size[e] = Sum(seen[e], Counted(e)) /\ size[e] > Target
  BY <1>1 DEF CountInv, CountOK, Apart
<1>8. Sum(seen[e], Counted(e)) \in Nat /\ Usage \in Nat
  BY <1>2, <1>3, <1>4, SumType DEF Usage
<1> QED
  BY <1>6, <1>7, <1>8, SizesAssumption

\* Whatever other passes evict and other users store meanwhile, a pass leaves more
\* than its target on the disk until its last eviction (evict_until's `while`).
THEOREM NoPassEvictsTooMuch == Spec => []NoOverEviction
<1>1. IInv /\ CountInv => NoOverEviction
  BY NeverTooMuch DEF IInv
<1> QED
  BY <1>1, CountInvariance, PTL

\* The types, down to the counters: a pass never subtracts more than it has
\* counted, so LRU::size, which is a u64, never wraps below zero.
THEOREM TypesStayCorrect == Spec => []TypeOK
<1>1. ASSUME IInv, CountInv PROVE TypeOK
  <2>1. ASSUME NEW e \in Evictor PROVE size[e] \in Nat
    <3>1. Types /\ Places /\ Ordered
      BY <1>1 DEF IInv
    <3>2. Sum(seen[e], Counted(e)) \in Nat
      BY <1>1, <3>1, CountedSeen, SumType
    <3> QED
      BY <1>1, <3>2 DEF CountInv, CountOK
  <2>2. size \in [Evictor -> Nat]
    BY <1>1, <2>1 DEF CountInv, CountTypes
  <2> QED
    BY <1>1, <2>2 DEF IInv, Types, CountInv, CountTypes, TypeOK
<1> QED
  BY <1>1, CountInvariance, PTL
=============================================================================
