------------------------ MODULE CpuSchedulingProofs ------------------------
(***************************************************************************)
(* Proofs about CpuScheduling: under each of the five schedulers no        *)
(* process is lost, doubled or overdrawn, no thread idles while a process  *)
(* waits, and the CPU implements the abstract Processor.                   *)
(***************************************************************************)
EXTENDS CpuScheduling, TLAPS, FiniteSetTheorems, FunctionTheorems, SequenceTheorems,
        NaturalsInduction, WellFoundedInduction

USE DEF Kinds

-----------------------------------------------------------------------------
(* Natural numbers.                                                        *)

Less == {p \in Nat \X Nat : p[1] < p[2]}

\* A set of natural numbers has a smallest.
LEMMA SmallestNumber ==
  ASSUME NEW T, T \subseteq Nat, T # {} PROVE \E s \in T : \A r \in T : s <= r
<1>1. IsWellFoundedOn(Less, Nat)
  BY NatLessThanWellFounded DEF Less, OpToRel
<1>2. PICK s \in T : \A r \in T : ~(<<r, s>> \in Less)
  BY <1>1, WFMin
<1>3. ASSUME NEW r \in T PROVE s <= r
  <2>1. r \in Nat /\ s \in Nat /\ <<r, s>> \notin Less
    BY <1>2
  <2>2. <<r, s>>[1] = r /\ <<r, s>>[2] = s /\ <<r, s>> \in Nat \X Nat
    BY <2>1
  <2>3. ~(r < s)
    BY <2>1, <2>2 DEF Less
  <2>4. QED BY <2>1, <2>3
<1>4. QED BY <1>3

\* What holds at 0 and with a number at the next holds up to a bound: T are
\* the numbers for which it holds.
LEMMA SetInduction ==
  ASSUME NEW m \in Nat, NEW T, 0 \in T,
         \A n \in 0..m : n \in T /\ n < m => n + 1 \in T
  PROVE  \A n \in 0..m : n \in T
<1> SUFFICES ASSUME {n \in 0..m : n \notin T} # {} PROVE FALSE
  OBVIOUS
<1> DEFINE bad == {n \in 0..m : n \notin T}
<1>1. bad \subseteq Nat
  OBVIOUS
<1>2. PICK b \in bad : \A r \in bad : b <= r
  <2> HIDE DEF bad
  <2>1. QED BY <1>1, SmallestNumber DEF bad
<1>3. b \in 0..m /\ b \notin T /\ b # 0
  BY <1>2
<1>4. b - 1 \in 0..m /\ b - 1 < m /\ b - 1 + 1 = b
  BY <1>3
<1>5. b - 1 \notin bad
  BY <1>2, <1>4
<1>6. QED BY <1>3, <1>4, <1>5

\* A finite set of natural numbers has a largest.
LEMMA LargestNumber ==
  ASSUME NEW T, T \subseteq Nat, IsFiniteSet(T), T # {} PROVE \E s \in T : \A r \in T : r <= s
<1> DEFINE above(x) == {y \in T : y > x}
           sizes == {Cardinality(above(x)) : x \in T}
<1>1. \A x : IsFiniteSet(above(x)) /\ Cardinality(above(x)) \in Nat
  BY FS_Subset, FS_CardinalityType
<1>2. sizes \subseteq Nat /\ sizes # {}
  BY <1>1
<1>3. PICK s \in T : \A x \in T : Cardinality(above(s)) <= Cardinality(above(x))
  <2>1. PICK n \in sizes : \A k \in sizes : n <= k
    <3> HIDE DEF sizes
    <3>1. QED BY <1>2, SmallestNumber
  <2>2. PICK s \in T : n = Cardinality(above(s))
    BY <2>1
  <2>3. QED BY <2>1, <2>2, ZenonT(40)
<1>4. ASSUME NEW r \in T PROVE r <= s
  <2> SUFFICES ASSUME r > s PROVE FALSE
    BY <1>3
  <2>1. \A y \in T : y > r => y > s
    BY <1>3
  <2>2. above(r) \subseteq above(s)
    BY <2>1
  <2>3. r \in above(s) /\ r \notin above(r)
    OBVIOUS
  <2>4. Cardinality(above(r)) <= Cardinality(above(s))
        /\ (Cardinality(above(s)) = Cardinality(above(r)) => above(s) = above(r))
    <3> HIDE DEF above
    <3>1. QED BY <1>1, <2>2, FS_Subset
  <2>5. QED BY <1>1, <1>3, <2>3, <2>4
<1>5. QED BY <1>4

LEMMA PlacesFinite ==
  ASSUME NEW m \in Nat PROVE IsFiniteSet(1..m) /\ Cardinality(1..m) = m
BY FS_Interval

\* A set of the first places of a list, if it has all those before its members
LEMMA FirstPlaces ==
  ASSUME NEW m \in Nat, NEW D, D \subseteq 1..m, \A k \in D, l \in 1..m : l <= k => l \in D
  PROVE  Cardinality(D) \in 0..m /\ D = 1..Cardinality(D)
<1>1. IsFiniteSet(D) /\ D \subseteq Nat
  <2>1. IsFiniteSet(1..m)
    BY FS_Interval
  <2>2. IsFiniteSet(D)
    BY <2>1, FS_Subset
  <2>3. \A k \in D : k \in 1..m
    OBVIOUS
  <2>4. QED BY <2>2, <2>3
<1>2. CASE D = {}
  BY <1>2, FS_EmptySet
<1>3. CASE D # {}
  <2>1. PICK n \in D : \A k \in D : k <= n
    BY <1>1, <1>3, LargestNumber
  <2>2. n \in 1..m
    BY <2>1
  <2>3. \A k \in D : k \in 1..n
    BY <2>1, <2>2
  <2>4. \A k \in 1..n : k \in D
    BY <2>1, <2>2
  <2>5. D = 1..n
    BY <2>3, <2>4
  <2>6. Cardinality(1..n) = n
    BY <2>2, FS_Interval
  <2>7. QED BY <2>2, <2>5, <2>6
<1>4. QED BY <1>2, <1>3

-----------------------------------------------------------------------------
(* Queues of processes.                                                    *)

\* Where a queue holds something, and what
LEMMA ElementsFinite ==
  ASSUME NEW S, NEW ps \in Seq(S)
  PROVE  IsFiniteSet(Elements(ps)) /\ (\A k \in DOMAIN ps : ps[k] \in Elements(ps))
         /\ (ps # <<>> => Elements(ps) # {}) /\ Elements(ps) \subseteq S
<1>1. ps \in Surjection(1..Len(ps), Elements(ps))
  <2>1. DOMAIN ps = 1..Len(ps) /\ ps \in [DOMAIN ps -> S]
    OBVIOUS
  <2>2. \A t \in Elements(ps) : \E k \in 1..Len(ps) : ps[k] = t
    BY <2>1, Zenon DEF Elements
  <2>3. \A k \in 1..Len(ps) : ps[k] \in Elements(ps)
    BY <2>1 DEF Elements
  <2>4. ps \in [1..Len(ps) -> Elements(ps)]
    BY <2>1, <2>3
  <2>5. QED BY <2>2, <2>4 DEF Surjection
<1>2. IsFiniteSet(1..Len(ps))
  <2>1. Len(ps) \in Nat
    OBVIOUS
  <2>2. QED BY <2>1, FS_Interval
<1>3. IsFiniteSet(Elements(ps))
  BY <1>1, <1>2, FS_Surjection
<1>4. \A k \in DOMAIN ps : ps[k] \in Elements(ps) /\ ps[k] \in S
  BY DEF Elements
<1>5. Elements(ps) \subseteq S
  BY <1>4 DEF Elements
<1>6. ps # <<>> => 1 \in DOMAIN ps
  OBVIOUS
<1>7. QED BY <1>3, <1>4, <1>5, <1>6

\* Some process of a queue has the k-th smallest rest.
LEMMA KthRestExists ==
  ASSUME NEW ps \in Seq(Process), NEW rs \in [Process -> Nat], NEW k \in 1..Len(ps)
  PROVE  KthRest(ps, k, rs) \in Nat
<1> DEFINE D == {rs[p] : p \in Elements(ps)}
           upto(d) == {j \in DOMAIN ps : rs[ps[j]] <= d}
           below(d) == {j \in DOMAIN ps : rs[ps[j]] < d}
           T == {d \in D : k <= Cardinality(upto(d))}
<1>1. /\ D \subseteq Nat /\ IsFiniteSet(Elements(ps)) /\ D # {}
      /\ \A j \in DOMAIN ps : rs[ps[j]] \in D
  <2>1. /\ IsFiniteSet(Elements(ps)) /\ Elements(ps) # {} /\ Elements(ps) \subseteq Process
        /\ \A j \in DOMAIN ps : ps[j] \in Elements(ps)
    BY ElementsFinite
  <2>2. QED BY <2>1
<1>2. /\ IsFiniteSet(DOMAIN ps) /\ Cardinality(DOMAIN ps) = Len(ps)
      /\ \A d : /\ IsFiniteSet(upto(d)) /\ Cardinality(upto(d)) \in Nat
                /\ IsFiniteSet(below(d)) /\ Cardinality(below(d)) \in Nat
  <2>1. DOMAIN ps = 1..Len(ps) /\ Len(ps) \in Nat
    OBVIOUS
  <2>2. IsFiniteSet(DOMAIN ps) /\ Cardinality(DOMAIN ps) = Len(ps)
    BY <2>1, PlacesFinite
  <2>3. \A d : upto(d) \in SUBSET DOMAIN ps /\ below(d) \in SUBSET DOMAIN ps
    OBVIOUS
  <2> HIDE DEF upto, below
  <2>4. QED BY <2>2, <2>3, FS_Subset, FS_CardinalityType
<1>3. \A I : I \subseteq DOMAIN ps /\ I # {} =>
        \E d \in D : (\A j \in I : rs[ps[j]] <= d) /\ (\E j \in I : rs[ps[j]] = d)
  <2> SUFFICES ASSUME NEW I, I \subseteq DOMAIN ps, I # {}
               PROVE \E d \in D : (\A j \in I : rs[ps[j]] <= d) /\ (\E j \in I : rs[ps[j]] = d)
    OBVIOUS
  <2> DEFINE E == {rs[ps[j]] : j \in I}
             f == [j \in I |-> rs[ps[j]]]
  <2>1. E \subseteq Nat /\ E # {} /\ E \subseteq D
    BY <1>1
  <2>2. IsFiniteSet(E)
    <3>1. IsFiniteSet(I)
      BY <1>2, FS_Subset
    <3>2. f \in Surjection(I, E)
      BY DEF Surjection
    <3>3. QED BY <3>1, <3>2, FS_Surjection
  <2>3. \E d \in E : \A e \in E : e <= d
    <3> HIDE DEF E
    <3>1. QED BY <2>1, <2>2, LargestNumber
  <2>4. QED BY <2>1, <2>3
<1>4. T \subseteq Nat /\ T # {}
  <2>1. k \in DOMAIN ps
    OBVIOUS
  <2>2. PICK d \in D : \A j \in DOMAIN ps : rs[ps[j]] <= d
    BY <1>3, <2>1
  <2>3. upto(d) = DOMAIN ps
    BY <2>2
  <2>4. k <= Cardinality(upto(d))
    BY <1>2, <2>3
  <2>5. QED BY <1>1, <2>2, <2>4
<1>5. PICK d \in T : \A e \in T : d <= e
  <2> HIDE DEF T
  <2>1. QED BY <1>4, SmallestNumber
<1>6. d \in D /\ d \in Nat /\ k <= Cardinality(upto(d))
  BY <1>1, <1>5
<1>7. Cardinality(below(d)) < k
  <2>1. CASE below(d) = {}
    <3>1. Cardinality(below(d)) = 0
      BY <2>1, FS_EmptySet
    <3> HIDE DEF below
    <3>2. QED BY <3>1
  <2>2. CASE below(d) # {}
    <3>1. below(d) \subseteq DOMAIN ps
      OBVIOUS
    <3>2. PICK e \in D : (\A j \in below(d) : rs[ps[j]] <= e) /\ (\E j \in below(d) : rs[ps[j]] = e)
      <4> HIDE DEF below, D
      <4>1. QED BY <1>3, <2>2, <3>1
    <3>3. e \in Nat /\ e < d
      BY <1>1, <3>2
    <3>4. ~(k <= Cardinality(upto(e)))
      <4>1. e \notin T
        <5> HIDE DEF T
        <5>1. QED BY <1>5, <1>6, <3>3
      <4> HIDE DEF upto, below
      <4>2. QED BY <3>2, <4>1
    <3>5. \A j \in DOMAIN ps : rs[ps[j]] \in Nat
      BY <1>1
    <3>6. \A j \in DOMAIN ps : rs[ps[j]] < d <=> rs[ps[j]] <= e
      BY <1>6, <3>2, <3>3, <3>5
    <3>7. below(d) = upto(e)
      BY <3>6
    <3> HIDE DEF below, upto
    <3>8. QED BY <1>2, <3>4, <3>7
  <2>3. QED BY <2>1, <2>2
<1>8. KthRest(ps, k, rs) \in D
  <2>1. \E x \in D : Cardinality(below(x)) < k /\ k <= Cardinality(upto(x))
    BY <1>6, <1>7
  <2>2. KthRest(ps, k, rs) = CHOOSE x \in D : Cardinality(below(x)) < k /\ k <= Cardinality(upto(x))
    BY DEF KthRest
  <2> HIDE DEF D, below, upto
  <2>3. QED BY <2>1, <2>2
<1>9. QED BY <1>1, <1>8

LEMMA MedianIsNatural ==
  ASSUME NEW ps \in Seq(Process), NEW rs \in [Process -> Nat], ps # <<>>
  PROVE  Median(ps, rs) \in Nat
<1> DEFINE n == Len(ps)
<1>1. n \in Nat \ {0}
  OBVIOUS
<1>2. CASE n % 2 = 1
  <2>1. (n + 1) \div 2 \in 1..n
    BY <1>1, <1>2
  <2>2. KthRest(ps, (n + 1) \div 2, rs) \in Nat
    BY <2>1, KthRestExists
  <2>3. QED BY <1>2, <2>2 DEF Median
<1>3. CASE n % 2 # 1
  <2>1. n \div 2 \in 1..n /\ n \div 2 + 1 \in 1..n
    BY <1>1, <1>3
  <2>2. KthRest(ps, n \div 2, rs) \in Nat /\ KthRest(ps, n \div 2 + 1, rs) \in Nat
    BY <2>1, KthRestExists
  <2>3. \A a, b \in Nat : (a + b) \div 2 \in Nat
    OBVIOUS
  <2>4. Median(ps, rs) = (KthRest(ps, n \div 2, rs) + KthRest(ps, n \div 2 + 1, rs)) \div 2
    BY <1>3 DEF Median
  <2>5. QED BY <2>2, <2>3, <2>4
<1>4. QED BY <1>2, <1>3

\* r is the list ps with p after the first n.
IsInsertion(r, ps, p, n) ==
  /\ n \in 0..Len(ps) /\ Len(r) = Len(ps) + 1 /\ r[n + 1] = p
  /\ \A k \in 1..n : r[k] = ps[k]
  /\ \A k \in (n + 1)..Len(ps) : r[k + 1] = ps[k]

LEMMA InsertionPlaces ==
  ASSUME NEW S, NEW ps \in Seq(S), NEW r \in Seq(S), NEW p, NEW n, IsInsertion(r, ps, p, n)
  PROVE  /\ n \in Nat /\ DOMAIN r = 1..(Len(ps) + 1) /\ DOMAIN ps = 1..Len(ps) /\ Len(ps) \in Nat
         /\ \A k \in DOMAIN r : \/ k = n + 1 /\ r[k] = p
                                \/ k \in 1..n /\ k \in DOMAIN ps /\ r[k] = ps[k]
                                \/ k - 1 \in (n + 1)..Len(ps) /\ k - 1 \in DOMAIN ps /\ r[k] = ps[k - 1]
         /\ \A k \in DOMAIN ps : \/ k \in 1..n /\ k \in DOMAIN r /\ r[k] = ps[k]
                                 \/ k \in (n + 1)..Len(ps) /\ k + 1 \in DOMAIN r /\ r[k + 1] = ps[k]
<1>1. n \in Nat /\ n <= Len(ps) /\ Len(ps) \in Nat /\ Len(r) = Len(ps) + 1
  BY DEF IsInsertion
<1>2. DOMAIN r = 1..(Len(ps) + 1) /\ DOMAIN ps = 1..Len(ps)
  BY <1>1
<1>3. ASSUME NEW k \in 1..(Len(ps) + 1)
      PROVE  \/ k = n + 1 /\ r[k] = p
             \/ k \in 1..n /\ k \in DOMAIN ps /\ r[k] = ps[k]
             \/ k - 1 \in (n + 1)..Len(ps) /\ k - 1 \in DOMAIN ps /\ r[k] = ps[k - 1]
  <2>1. CASE k = n + 1
    BY <2>1 DEF IsInsertion
  <2>2. CASE k \in 1..n
    BY <1>1, <1>2, <2>2 DEF IsInsertion
  <2>3. CASE k > n + 1
    <3>1. k - 1 \in (n + 1)..Len(ps) /\ (k - 1) + 1 = k
      BY <1>1, <2>3
    <3>2. r[(k - 1) + 1] = ps[k - 1]
      BY <3>1 DEF IsInsertion
    <3>3. k - 1 \in DOMAIN ps
      BY <1>1, <1>2, <3>1
    <3>4. QED BY <3>1, <3>2, <3>3
  <2>4. QED BY <1>1, <2>1, <2>2, <2>3
<1>4. ASSUME NEW k \in 1..Len(ps)
      PROVE  \/ k \in 1..n /\ k \in DOMAIN r /\ r[k] = ps[k]
             \/ k \in (n + 1)..Len(ps) /\ k + 1 \in DOMAIN r /\ r[k + 1] = ps[k]
  BY <1>1, <1>2 DEF IsInsertion
<1>5. QED BY <1>1, <1>2, <1>3, <1>4

LEMMA InsertionFits ==
  ASSUME NEW S, NEW ps \in Seq(S), NEW r \in Seq(S), NEW p \in S, NEW n, IsInsertion(r, ps, p, n),
         IsInjective(ps), p \notin Elements(ps)
  PROVE  IsInjective(r) /\ Elements(r) = Elements(ps) \cup {p}
<1>1. /\ n \in Nat /\ DOMAIN r = 1..(Len(ps) + 1) /\ DOMAIN ps = 1..Len(ps) /\ Len(ps) \in Nat
      /\ \A k \in DOMAIN r : \/ k = n + 1 /\ r[k] = p
                             \/ k \in 1..n /\ k \in DOMAIN ps /\ r[k] = ps[k]
                             \/ k - 1 \in (n + 1)..Len(ps) /\ k - 1 \in DOMAIN ps /\ r[k] = ps[k - 1]
      /\ \A k \in DOMAIN ps : \/ k \in 1..n /\ k \in DOMAIN r /\ r[k] = ps[k]
                              \/ k \in (n + 1)..Len(ps) /\ k + 1 \in DOMAIN r /\ r[k + 1] = ps[k]
  BY InsertionPlaces
<1>2. n + 1 \in DOMAIN r /\ r[n + 1] = p
  BY <1>1 DEF IsInsertion
<1>3. \A k \in DOMAIN ps : ps[k] # p /\ ps[k] \in Elements(ps)
  BY DEF Elements
<1> DEFINE from(k) == IF k \in 1..n THEN k ELSE k - 1
<1>4. \A k \in DOMAIN r : k # n + 1 => from(k) \in DOMAIN ps /\ r[k] = ps[from(k)] /\ r[k] # p
  BY <1>1, <1>3
<1>5. \A k, l \in DOMAIN r : k # n + 1 /\ l # n + 1 /\ from(k) = from(l) => k = l
  BY <1>1
<1>6. IsInjective(r)
  <2> SUFFICES ASSUME NEW k \in DOMAIN r, NEW l \in DOMAIN r, r[k] = r[l] PROVE k = l
    BY DEF IsInjective
  <2>1. CASE k = n + 1 \/ l = n + 1
    BY <1>2, <1>4, <2>1
  <2>2. CASE k # n + 1 /\ l # n + 1
    <3>1. from(k) = from(l)
      <4>1. from(k) \in DOMAIN ps /\ from(l) \in DOMAIN ps /\ ps[from(k)] = ps[from(l)]
        BY <1>4, <2>2
      <4> HIDE DEF from
      <4>2. QED BY <4>1 DEF IsInjective
    <3>2. QED BY <1>5, <2>2, <3>1
  <2>3. QED BY <2>1, <2>2
<1>7. \A x \in Elements(r) : x \in Elements(ps) \cup {p}
  <2>1. \A k \in DOMAIN r : r[k] \in Elements(ps) \cup {p}
    BY <1>2, <1>3, <1>4
  <2>2. QED BY <2>1 DEF Elements
<1>8. \A x \in Elements(ps) \cup {p} : x \in Elements(r)
  <2>1. \A k \in DOMAIN ps : \E l \in DOMAIN r : r[l] = ps[k]
    BY <1>1
  <2>2. \A k \in DOMAIN r : r[k] \in Elements(r)
    BY DEF Elements
  <2>3. QED BY <1>2, <2>1, <2>2 DEF Elements
<1>9. QED BY <1>6, <1>7, <1>8

\* How many of the processes of a queue have at most as much left as p
Before(ps, p, rs) == Cardinality({j \in DOMAIN ps : rs[ps[j]] <= rs[p]})

LEMMA BeforeIsPlace ==
  ASSUME NEW ps \in Seq(Process), NEW p, NEW rs
  PROVE  Before(ps, p, rs) \in 0..Len(ps)
<1> DEFINE D == {j \in DOMAIN ps : rs[ps[j]] <= rs[p]}
<1>1. IsFiniteSet(1..Len(ps)) /\ Cardinality(1..Len(ps)) = Len(ps) /\ Len(ps) \in Nat
  BY PlacesFinite
<1>2. D \in SUBSET (1..Len(ps))
  OBVIOUS
<1> HIDE DEF D
<1>3. IsFiniteSet(D) /\ Cardinality(D) <= Len(ps)
  BY <1>1, <1>2, FS_Subset
<1>4. Cardinality(D) \in Nat
  BY <1>3, FS_CardinalityType
<1>5. QED BY <1>1, <1>3, <1>4 DEF Before, D

\* enterProcess puts a process that does not wait yet into the list: at its
\* end, at its front, or behind those with less work.
LEMMA EnteredInserts ==
  ASSUME NEW k, NEW ps \in Seq(Process), NEW p \in Process, NEW rs, p \notin Elements(ps)
  PROVE  /\ Entered(k, ps, p, rs) \in Seq(Process)
         /\ \E n \in Nat : /\ IsInsertion(Entered(k, ps, p, rs), ps, p, n)
                           /\ k = "ShortestJobNext" => n = Before(ps, p, rs)
<1>1. CASE k = "LIFO"
  <2>1. Entered(k, ps, p, rs) = <<p>> \o ps
    BY <1>1 DEF Entered, LifoEnter
  <2>2. <<p>> \o ps \in Seq(Process) /\ IsInsertion(<<p>> \o ps, ps, p, 0)
    BY DEF IsInsertion
  <2>3. QED BY <1>1, <2>1, <2>2
<1>2. CASE k = "ShortestJobNext"
  <2> DEFINE n == Before(ps, p, rs)
             s == SubSeq(ps, 1, n)
             t == SubSeq(ps, n + 1, Len(ps))
             r == s \o <<p>> \o t
  <2>1. Entered(k, ps, p, rs) = r
    BY <1>2 DEF Entered, ShortestJobEnter, Before
  <2>2. n \in Nat /\ n <= Len(ps) /\ Len(ps) \in Nat
    BY BeforeIsPlace
  <2> HIDE DEF n
  <2>3. s \in Seq(Process) /\ Len(s) = n /\ \A i \in 1..n : s[i] = ps[i]
    <3>1. \A i \in 1..n : ps[i] \in Process
      BY <2>2
    <3>2. /\ s \in Seq(Process) /\ Len(s) = IF 1 <= n THEN n - 1 + 1 ELSE 0
          /\ \A i \in 1..(n - 1 + 1) : s[i] = ps[1 + i - 1]
      BY <2>2, <3>1, SubSeqProperties
    <3>3. \A i \in 1..n : i \in 1..(n - 1 + 1) /\ 1 + i - 1 = i
      BY <2>2
    <3> HIDE DEF s
    <3>4. QED BY <2>2, <3>2, <3>3
  <2>4. t \in Seq(Process) /\ Len(t) = Len(ps) - n /\ \A i \in 1..(Len(ps) - n) : t[i] = ps[n + i]
    <3>1. \A i \in (n + 1)..Len(ps) : ps[i] \in Process
      BY <2>2
    <3>2. /\ t \in Seq(Process) /\ Len(t) = IF n + 1 <= Len(ps) THEN Len(ps) - (n + 1) + 1 ELSE 0
          /\ \A i \in 1..(Len(ps) - (n + 1) + 1) : t[i] = ps[(n + 1) + i - 1]
      BY <2>2, <3>1, SubSeqProperties
    <3>3. \A i \in 1..(Len(ps) - n) : i \in 1..(Len(ps) - (n + 1) + 1) /\ (n + 1) + i - 1 = n + i
      BY <2>2
    <3> HIDE DEF t
    <3>4. QED BY <2>2, <3>2, <3>3
  <2> HIDE DEF s, t
  <2>5. r \in Seq(Process) /\ Len(r) = Len(ps) + 1
    <3>1. s \o <<p>> \in Seq(Process) /\ Len(s \o <<p>>) = n + 1
      BY <2>2, <2>3
    <3>2. \A a, b \in Seq(Process) : a \o b \in Seq(Process) /\ Len(a \o b) = Len(a) + Len(b)
      OBVIOUS
    <3>3. r \in Seq(Process) /\ Len(r) = Len(s \o <<p>>) + Len(t)
      BY <2>4, <3>1, <3>2
    <3>4. (n + 1) + (Len(ps) - n) = Len(ps) + 1
      BY <2>2
    <3>5. Len(s \o <<p>>) + Len(t) = Len(ps) + 1
      BY <2>4, <3>1, <3>4
    <3> HIDE DEF r
    <3>6. QED BY <3>3, <3>5
  <2>6. r[n + 1] = p /\ \A i \in 1..n : r[i] = ps[i]
    BY <2>2, <2>3, <2>4
  <2>7. \A i \in (n + 1)..Len(ps) : r[i + 1] = ps[i]
    <3> SUFFICES ASSUME NEW i \in (n + 1)..Len(ps) PROVE r[i + 1] = ps[i]
      OBVIOUS
    <3>1. i - n \in 1..(Len(ps) - n) /\ n + (i - n) = i
      BY <2>2
    <3>2. r[i + 1] = t[i - n]
      BY <2>2, <2>3, <2>4, <3>1
    <3>3. QED BY <2>4, <3>1, <3>2
  <2> HIDE DEF r
  <2>8. IsInsertion(r, ps, p, n)
    BY <2>2, <2>5, <2>6, <2>7 DEF IsInsertion
  <2>9. QED BY <2>1, <2>2, <2>5, <2>8 DEF n
<1>3. CASE k \notin {"LIFO", "ShortestJobNext"}
  <2>1. Entered(k, ps, p, rs) = Append(ps, p)
    BY <1>3 DEF Entered, FifoEnter
  <2>2. Append(ps, p) \in Seq(Process) /\ IsInsertion(Append(ps, p), ps, p, Len(ps))
    BY DEF IsInsertion
  <2>3. Len(ps) \in Nat
    OBVIOUS
  <2>4. QED BY <1>3, <2>1, <2>2, <2>3
<1>4. QED BY <1>1, <1>2, <1>3

\* Insertion behind those with at most as much left keeps the order.
LEMMA InsertionSorted ==
  ASSUME NEW ps \in Seq(Process), NEW r \in Seq(Process), NEW p \in Process,
         NEW rs \in [Process -> Nat], SortedByRest(ps, rs),
         IsInsertion(r, ps, p, Before(ps, p, rs))
  PROVE  SortedByRest(r, rs)
<1> DEFINE n == Before(ps, p, rs)
           D == {j \in DOMAIN ps : rs[ps[j]] <= rs[p]}
<1>1. D = 1..n
  <2>1. D \subseteq 1..Len(ps) /\ Len(ps) \in Nat /\ DOMAIN ps = 1..Len(ps)
    OBVIOUS
  <2>2. \A k \in D, l \in 1..Len(ps) : l <= k => l \in D
    <3> SUFFICES ASSUME NEW k \in D, NEW l \in 1..Len(ps), l <= k PROVE l \in D
      OBVIOUS
    <3>1. k \in DOMAIN ps /\ l \in DOMAIN ps /\ ps[k] \in Process /\ ps[l] \in Process
      OBVIOUS
    <3>2. rs[ps[l]] <= rs[ps[k]] /\ rs[ps[k]] <= rs[p]
      BY <3>1 DEF SortedByRest
    <3>3. QED BY <3>1, <3>2
  <2> HIDE DEF D
  <2>3. D = 1..Cardinality(D)
    BY <2>1, <2>2, FirstPlaces
  <2>4. QED BY <2>3 DEF Before, D
<1>2. /\ n \in Nat /\ DOMAIN r = 1..(Len(ps) + 1) /\ DOMAIN ps = 1..Len(ps) /\ Len(ps) \in Nat
      /\ \A k \in DOMAIN r : \/ k = n + 1 /\ r[k] = p
                             \/ k \in 1..n /\ k \in DOMAIN ps /\ r[k] = ps[k]
                             \/ k - 1 \in (n + 1)..Len(ps) /\ k - 1 \in DOMAIN ps /\ r[k] = ps[k - 1]
  BY InsertionPlaces
<1>2a. n + 1 \in Nat /\ r[n + 1] = p
  BY <1>2 DEF IsInsertion
<1>3. \A k \in DOMAIN ps : /\ rs[ps[k]] \in Nat
                           /\ k \in 1..n => rs[ps[k]] <= rs[p]
                           /\ k \notin 1..n => rs[ps[k]] > rs[p]
  <2>1. \A k \in DOMAIN ps : rs[ps[k]] \in Nat /\ rs[p] \in Nat
    OBVIOUS
  <2>2. \A k \in DOMAIN ps : k \in 1..n <=> rs[ps[k]] <= rs[p]
    BY <1>1
  <2>3. QED BY <2>1, <2>2
<1> HIDE DEF n, D
<1>4. rs[p] \in Nat
  OBVIOUS
<1> DEFINE from(k) == IF k \in 1..n THEN k ELSE k - 1
<1>5. \A k \in DOMAIN r : k # n + 1 =>
        /\ from(k) \in DOMAIN ps /\ r[k] = ps[from(k)]
        /\ k <= n <=> from(k) \in 1..n
  BY <1>2
<1> SUFFICES ASSUME NEW k \in DOMAIN r, NEW l \in DOMAIN r, k <= l PROVE rs[r[k]] <= rs[r[l]]
  BY DEF SortedByRest
<1>6. k \in Nat /\ l \in Nat
  BY <1>2
<1>7. CASE k = n + 1 /\ l = n + 1
  BY <1>2, <1>4, <1>7
<1>8. CASE k # n + 1 /\ l = n + 1
  <2>1. k <= n /\ from(k) \in 1..n /\ from(k) \in DOMAIN ps /\ r[k] = ps[from(k)]
    BY <1>2, <1>5, <1>6, <1>8
  <2>2. r[l] = p
    BY <1>2a, <1>8
  <2> HIDE DEF from
  <2>3. QED BY <1>3, <2>1, <2>2
<1>9. CASE k = n + 1 /\ l # n + 1
  <2>1. from(l) \notin 1..n /\ from(l) \in DOMAIN ps /\ r[l] = ps[from(l)]
    BY <1>2, <1>5, <1>6, <1>9
  <2>2. r[k] = p
    BY <1>2a, <1>9
  <2> HIDE DEF from
  <2>3. QED BY <1>3, <1>4, <2>1, <2>2
<1>10. CASE k # n + 1 /\ l # n + 1
  <2>1. /\ from(k) \in DOMAIN ps /\ r[k] = ps[from(k)]
        /\ from(l) \in DOMAIN ps /\ r[l] = ps[from(l)]
    BY <1>5, <1>10
  <2>2. from(k) <= from(l)
    BY <1>2, <1>6, <1>10
  <2> HIDE DEF from
  <2>3. QED BY <2>1, <2>2 DEF SortedByRest
<1>11. QED BY <1>7, <1>8, <1>9, <1>10

\* What is left of a queue without its first process
LEMMA TailFits ==
  ASSUME NEW ps \in Seq(Process), ps # <<>>, IsInjective(ps)
  PROVE  /\ Tail(ps) \in Seq(Process) /\ IsInjective(Tail(ps))
         /\ Head(ps) \in Process /\ Head(ps) \in Elements(ps)
         /\ Elements(Tail(ps)) = Elements(ps) \ {Head(ps)}
<1>1. /\ Len(ps) \in Nat \ {0} /\ DOMAIN ps = 1..Len(ps) /\ Head(ps) = ps[1]
      /\ Tail(ps) \in Seq(Process) /\ Len(Tail(ps)) = Len(ps) - 1
      /\ DOMAIN Tail(ps) = 1..(Len(ps) - 1)
  OBVIOUS
<1>2. \A k \in DOMAIN Tail(ps) : k + 1 \in DOMAIN ps /\ Tail(ps)[k] = ps[k + 1] /\ k + 1 # 1
  BY <1>1
<1>3. 1 \in DOMAIN ps /\ \A k \in DOMAIN ps : k # 1 => k - 1 \in DOMAIN Tail(ps) /\ (k - 1) + 1 = k
  BY <1>1
<1>4. \A k, l \in DOMAIN ps : ps[k] = ps[l] => k = l
  BY DEF IsInjective
<1>5. IsInjective(Tail(ps))
  <2> SUFFICES ASSUME NEW k \in DOMAIN Tail(ps), NEW l \in DOMAIN Tail(ps), Tail(ps)[k] = Tail(ps)[l]
               PROVE k = l
    BY DEF IsInjective
  <2>1. k + 1 = l + 1
    BY <1>2, <1>4
  <2>2. k \in Nat /\ l \in Nat
    BY <1>1
  <2>3. QED BY <2>1, <2>2
<1>6. \A x \in Elements(Tail(ps)) : x \in Elements(ps) \ {Head(ps)}
  <2>1. \A k \in DOMAIN Tail(ps) : Tail(ps)[k] \in Elements(ps) /\ Tail(ps)[k] # Head(ps)
    BY <1>1, <1>2, <1>3, <1>4 DEF Elements
  <2>2. QED BY <2>1 DEF Elements
<1>7. \A x \in Elements(ps) \ {Head(ps)} : x \in Elements(Tail(ps))
  <2>1. \A k \in DOMAIN ps : k # 1 => ps[k] \in Elements(Tail(ps))
    BY <1>2, <1>3 DEF Elements
  <2>2. QED BY <1>1, <2>1 DEF Elements
<1>8. Head(ps) \in Process /\ Head(ps) \in Elements(ps)
  BY <1>1, <1>3 DEF Elements
<1>9. QED BY <1>1, <1>5, <1>6, <1>7, <1>8

LEMMA TailSorted ==
  ASSUME NEW ps \in Seq(Process), ps # <<>>, NEW rs, SortedByRest(ps, rs)
  PROVE  SortedByRest(Tail(ps), rs)
<1>1. /\ DOMAIN ps = 1..Len(ps) /\ Len(ps) \in Nat /\ DOMAIN Tail(ps) = 1..(Len(ps) - 1)
      /\ \A k \in DOMAIN Tail(ps) : k + 1 \in DOMAIN ps /\ Tail(ps)[k] = ps[k + 1]
  OBVIOUS
<1>2. \A k, l \in DOMAIN Tail(ps) : k <= l => k + 1 <= l + 1
  BY <1>1
<1>3. QED BY <1>1, <1>2 DEF SortedByRest

\* The lists of two schedulers are the same, except the i-th.
SameBut(a, b, i) ==
  /\ DOMAIN b.queues = DOMAIN a.queues /\ i \in DOMAIN a.queues
  /\ \A j \in DOMAIN a.queues : j # i => b.queues[j].processes = a.queues[j].processes

LEMMA JoinsOnce ==
  ASSUME NEW a, NEW b, NEW i, NEW p, WaitsOnce(a), p \notin Waiting(a), SameBut(a, b, i),
         IsInjective(b.queues[i].processes),
         Elements(b.queues[i].processes) = Elements(a.queues[i].processes) \cup {p}
  PROVE  WaitsOnce(b) /\ Waiting(b) = Waiting(a) \cup {p}
<1> DEFINE A(j) == Elements(a.queues[j].processes)
           B(j) == Elements(b.queues[j].processes)
<1>1. /\ DOMAIN b.queues = DOMAIN a.queues /\ i \in DOMAIN a.queues
      /\ \A j \in DOMAIN a.queues : j # i => B(j) = A(j)
      /\ B(i) = A(i) \cup {p}
      /\ \A j \in DOMAIN a.queues : p \notin A(j)
  BY DEF SameBut, Waiting
<1>2. /\ \A j, l \in DOMAIN a.queues : j # l => A(j) \cap A(l) = {}
      /\ \A j \in DOMAIN a.queues : IsInjective(b.queues[j].processes)
  BY DEF SameBut, WaitsOnce
<1>3. Waiting(a) = UNION {A(j) : j \in DOMAIN a.queues} /\ Waiting(b) = UNION {B(j) : j \in DOMAIN a.queues}
  BY <1>1 DEF Waiting
<1>4. WaitsOnce(b) <=> \A j, l \in DOMAIN a.queues :
        IsInjective(b.queues[j].processes) /\ (j # l => B(j) \cap B(l) = {})
  BY <1>1 DEF WaitsOnce
<1> HIDE DEF A, B
<1>5. WaitsOnce(b)
  BY <1>1, <1>2, <1>4
<1>6. Waiting(b) = Waiting(a) \cup {p}
  BY <1>1, <1>3
<1>7. QED BY <1>5, <1>6

LEMMA LeavesOnce ==
  ASSUME NEW a, NEW b, NEW i, NEW p, WaitsOnce(a), SameBut(a, b, i),
         IsInjective(b.queues[i].processes), p \in Elements(a.queues[i].processes),
         Elements(b.queues[i].processes) = Elements(a.queues[i].processes) \ {p}
  PROVE  WaitsOnce(b) /\ p \in Waiting(a) /\ Waiting(b) = Waiting(a) \ {p}
<1> DEFINE A(j) == Elements(a.queues[j].processes)
           B(j) == Elements(b.queues[j].processes)
<1>1. /\ DOMAIN b.queues = DOMAIN a.queues /\ i \in DOMAIN a.queues
      /\ \A j \in DOMAIN a.queues : j # i => B(j) = A(j)
      /\ B(i) = A(i) \ {p} /\ p \in A(i)
  BY DEF SameBut
<1>2. /\ \A j, l \in DOMAIN a.queues : j # l => A(j) \cap A(l) = {}
      /\ \A j \in DOMAIN a.queues : IsInjective(b.queues[j].processes)
  BY DEF SameBut, WaitsOnce
<1>3. Waiting(a) = UNION {A(j) : j \in DOMAIN a.queues} /\ Waiting(b) = UNION {B(j) : j \in DOMAIN a.queues}
  BY <1>1 DEF Waiting
<1>4. WaitsOnce(b) <=> \A j, l \in DOMAIN a.queues :
        IsInjective(b.queues[j].processes) /\ (j # l => B(j) \cap B(l) = {})
  BY <1>1 DEF WaitsOnce
<1> HIDE DEF A, B
<1>5. WaitsOnce(b)
  BY <1>1, <1>2, <1>4
<1>6. \A j \in DOMAIN a.queues : B(j) = A(j) \ {p}
  BY <1>1, <1>2
<1>7. Waiting(b) = Waiting(a) \ {p} /\ p \in Waiting(a)
  BY <1>1, <1>3, <1>6
<1>8. QED BY <1>5, <1>7

LEMMA WaitingFinite ==
  ASSUME NEW k, NEW s \in Scheduler(k)
  PROVE  IsFiniteSet(Waiting(s)) /\ Waiting(s) \subseteq Process
<1>1. PICK m \in Nat : DOMAIN s.queues = 1..m /\ \A i \in 1..m : s.queues[i].processes \in Seq(Process)
  BY SchedulerAssumption DEF Scheduler, Queue
<1> DEFINE E(i) == Elements(s.queues[i].processes)
           f == [i \in 1..m |-> E(i)]
           T == {E(i) : i \in 1..m}
<1>2. \A i \in 1..m : IsFiniteSet(E(i)) /\ E(i) \subseteq Process
  BY <1>1, ElementsFinite
<1>3. Waiting(s) = UNION T
  BY <1>1 DEF Waiting
<1>4. IsFiniteSet(T)
  <2> HIDE DEF E
  <2>1. f \in Surjection(1..m, T)
    BY DEF Surjection
  <2>2. IsFiniteSet(1..m)
    BY PlacesFinite
  <2> HIDE DEF f, T
  <2>3. QED BY <2>1, <2>2, FS_Surjection
<1>5. \A t \in T : IsFiniteSet(t) /\ t \subseteq Process
  BY <1>2
<1> HIDE DEF T
<1>6. QED BY <1>3, <1>4, <1>5, FS_UNION

-----------------------------------------------------------------------------
(* Units of work.                                                          *)

LEMMA UnitsOfOne ==
  ASSUME NEW n \in Nat, NEW p
  PROVE  IsFiniteSet({p} \X (1..n)) /\ Cardinality({p} \X (1..n)) = n
<1>1. IsFiniteSet({p}) /\ Cardinality({p}) = 1
  BY FS_Singleton
<1>2. IsFiniteSet(1..n) /\ Cardinality(1..n) = n
  BY PlacesFinite
<1> DEFINE N == 1..n
           W == {p}
<1> HIDE DEF N, W
<1>3. IsFiniteSet(W \X N) /\ Cardinality(W \X N) = Cardinality(W) * Cardinality(N)
  BY <1>1, <1>2, FS_Product DEF N, W
<1>4. Cardinality(W \X N) = 1 * n
  BY <1>1, <1>2, <1>3 DEF N, W
<1>5. QED BY <1>3, <1>4 DEF N, W

LEMMA UnitsFinite ==
  ASSUME NEW P, P \subseteq Process, IsFiniteSet(P), NEW tot \in [Process -> Nat]
  PROVE  IsFiniteSet(Units(P, tot)) /\ Cardinality(Units(P, tot)) \in Nat
<1> DEFINE E(p) == {p} \X (1..tot[p])
           T == {E(p) : p \in P}
           f == [p \in P |-> E(p)]
<1>1. \A p \in P : IsFiniteSet(E(p))
  BY UnitsOfOne
<1>2. IsFiniteSet(T)
  <2> HIDE DEF E
  <2>1. f \in Surjection(P, T)
    BY DEF Surjection
  <2> HIDE DEF f, T
  <2>2. QED BY <2>1, FS_Surjection
<1>3. \A t \in T : IsFiniteSet(t)
  BY <1>1
<1>4. Units(P, tot) = UNION T
  BY DEF Units
<1> HIDE DEF T
<1>5. IsFiniteSet(Units(P, tot))
  BY <1>2, <1>3, <1>4, FS_UNION
<1>6. QED BY <1>5, FS_CardinalityType

\* A process adds what it asks for.
LEMMA UnitsAdd ==
  ASSUME NEW P, P \subseteq Process, IsFiniteSet(P), NEW tot \in [Process -> Nat],
         NEW p \in Process, p \notin P
  PROVE  Cardinality(Units(P \cup {p}, tot)) = Cardinality(Units(P, tot)) + tot[p]
<1> DEFINE U == Units(P, tot)
           V == {p} \X (1..tot[p])
<1>1. IsFiniteSet(U) /\ Cardinality(U) \in Nat
  BY UnitsFinite
<1>2. IsFiniteSet(V) /\ Cardinality(V) = tot[p] /\ tot[p] \in Nat
  BY UnitsOfOne
<1>3. Units(P \cup {p}, tot) = U \cup V
  BY DEF Units
<1>4. U \cap V = {}
  BY DEF Units
<1> HIDE DEF U, V
<1>5. Cardinality(U \cap V) = 0
  BY <1>4, FS_EmptySet
<1>6. Cardinality(U \cup V) = Cardinality(U) + Cardinality(V) - Cardinality(U \cap V)
  BY <1>1, <1>2, FS_Union
<1>7. Cardinality(U \cup V) = Cardinality(U) + tot[p]
  BY <1>1, <1>2, <1>5, <1>6
<1>8. QED BY <1>3, <1>7 DEF U

LEMMA UnitsSame ==
  ASSUME NEW P, NEW tot, NEW tot2, \A p \in P : tot2[p] = tot[p]
  PROVE  Units(P, tot2) = Units(P, tot)
<1>1. \A p \in P : {p} \X (1..tot2[p]) = {p} \X (1..tot[p])
  OBVIOUS
<1>2. QED BY <1>1 DEF Units

-----------------------------------------------------------------------------
(* The operations of the schedulers.                                       *)

Queues(k) == 1..(IF k = "MultiLevelFeedback" THEN Layers ELSE 1)

LEMMA QueuesOf ==
  ASSUME NEW k, NEW s \in Scheduler(k)
  PROVE  /\ DOMAIN s.queues = Queues(k) /\ s.queues \in [Queues(k) -> Queue]
         /\ s.layer \in [Process -> 0..Layers] /\ s.demand \in Int
         /\ 1 \in Queues(k) /\ Queues(k) \subseteq 1..Layers
         /\ k # "MultiLevelFeedback" => Queues(k) = {1}
         /\ k = "MultiLevelFeedback" => Queues(k) = 1..Layers
         /\ \A i \in Queues(k) : s.queues[i].processes \in Seq(Process)
BY SchedulerAssumption DEF Scheduler, Queues, Queue

LEMMA SchedulerOf ==
  ASSUME NEW k, NEW qs \in [Queues(k) -> Queue], NEW la \in [Process -> 0..Layers], NEW d \in Int
  PROVE  [queues |-> qs, layer |-> la, demand |-> d] \in Scheduler(k)
BY DEF Scheduler, Queues

LEMMA NewFits ==
  ASSUME NEW k, NEW rs, NEW tot
  PROVE  SchedulerFits(k, NewScheduler(k), rs, tot) /\ Waiting(NewScheduler(k)) = {}
<1> DEFINE s == NewScheduler(k)
<1>1. s \in Scheduler(k)
  BY SchedulerAssumption DEF NewScheduler, Scheduler, Queue
<1>2. /\ DOMAIN s.queues = Queues(k) /\ s.demand = 0
      /\ \A i \in Queues(k) : s.queues[i].processes = <<>> /\ s.queues[i].update
      /\ \A p \in Process : s.layer[p] = 0
  BY DEF NewScheduler, Queues
<1> HIDE DEF s
<1>3. Elements(<<>>) = {} /\ IsInjective(<<>>) /\ SortedByRest(<<>>, rs)
  BY DEF Elements, IsInjective, SortedByRest
<1>4. Waiting(s) = {} /\ WaitsOnce(s)
  BY <1>2, <1>3 DEF Waiting, WaitsOnce
<1>5. DemandCounted(k, s, tot)
  <2>1. Units({}, tot) = {}
    BY DEF Units
  <2>2. QED BY <1>2, <1>4, <2>1, FS_EmptySet DEF DemandCounted
<1>6. 1 \in Queues(k)
  BY <1>1, QueuesOf
<1>7. SchedulerFits(k, s, rs, tot)
  BY <1>1, <1>2, <1>3, <1>4, <1>5, <1>6 DEF SchedulerFits, QuantumFits
<1>8. QED BY <1>4, <1>7 DEF s

\* The work of the processes that do not wait does not concern a scheduler.
LEMMA ElsewhereFits ==
  ASSUME NEW k, NEW s, NEW rs, NEW tot, NEW rs2, NEW tot2, SchedulerFits(k, s, rs, tot),
         \A p \in Waiting(s) : rs2[p] = rs[p] /\ tot2[p] = tot[p]
  PROVE  SchedulerFits(k, s, rs2, tot2)
<1>1. s \in Scheduler(k)
  BY DEF SchedulerFits
<1>2. Units(Waiting(s), tot2) = Units(Waiting(s), tot)
  BY UnitsSame
<1>3. DemandCounted(k, s, tot2)
  BY <1>2 DEF SchedulerFits, DemandCounted
<1>4. ASSUME k = "ShortestJobNext" PROVE SortedByRest(s.queues[1].processes, rs2)
  <2>1. 1 \in DOMAIN s.queues
    BY <1>1, QueuesOf
  <2>2. \A j \in DOMAIN s.queues[1].processes : s.queues[1].processes[j] \in Waiting(s)
    BY <2>1 DEF Waiting, Elements
  <2>3. SortedByRest(s.queues[1].processes, rs)
    BY <1>4 DEF SchedulerFits
  <2>4. QED BY <2>2, <2>3 DEF SortedByRest
<1>5. QED BY <1>3, <1>4 DEF SchedulerFits

LEMMA EnterFits ==
  ASSUME NEW k, NEW s, NEW p \in Process, NEW rs \in [Process -> Nat], NEW tot \in [Process -> Nat],
         SchedulerFits(k, s, rs, tot), p \notin Waiting(s), ~Preemptive(k) => rs[p] = tot[p]
  PROVE  /\ SchedulerFits(k, Enter(k, s, p, rs, tot), rs, tot)
         /\ Waiting(Enter(k, s, p, rs, tot)) = Waiting(s) \cup {p}
<1> DEFINE t == Enter(k, s, p, rs, tot)
           i == IF s.layer[p] = 0 THEN 1 ELSE s.layer[p]
           ps == s.queues[i].processes
           r == Entered(k, ps, p, rs)
<1>1. s \in Scheduler(k) /\ WaitsOnce(s) /\ QuantumFits(s)
  BY DEF SchedulerFits
<1>2. /\ DOMAIN s.queues = Queues(k) /\ s.queues \in [Queues(k) -> Queue]
      /\ s.layer \in [Process -> 0..Layers] /\ s.demand \in Int
      /\ 1 \in Queues(k) /\ Queues(k) \subseteq 1..Layers
      /\ k # "MultiLevelFeedback" => Queues(k) = {1}
      /\ k = "MultiLevelFeedback" => Queues(k) = 1..Layers
      /\ \A j \in Queues(k) : s.queues[j].processes \in Seq(Process)
  BY <1>1, QueuesOf
<1>3. i \in Queues(k) /\ i \in 0..Layers /\ (k # "MultiLevelFeedback" => i = 1)
  <2>1. s.layer[p] \in 0..Layers /\ (k # "MultiLevelFeedback" => s.layer[p] = 0)
    BY <1>2 DEF SchedulerFits
  <2>2. QED BY <1>2, <2>1, SchedulerAssumption
<1> HIDE DEF i
<1>4. ps \in Seq(Process) /\ p \notin Elements(ps) /\ IsInjective(ps)
  BY <1>1, <1>2, <1>3 DEF Waiting, WaitsOnce
<1>5. r \in Seq(Process) /\ \E n \in Nat : /\ IsInsertion(r, ps, p, n)
                                           /\ k = "ShortestJobNext" => n = Before(ps, p, rs)
  <2> HIDE DEF ps
  <2>1. QED BY <1>4, EnteredInserts
<1>6. IsInjective(r) /\ Elements(r) = Elements(ps) \cup {p}
  <2> HIDE DEF ps, r
  <2>1. QED BY <1>4, <1>5, InsertionFits
<1> HIDE DEF r
<1>7. /\ t.queues = [s.queues EXCEPT ![i].processes = r, ![i].update = TRUE]
      /\ t.layer = IF k = "MultiLevelFeedback" THEN [s.layer EXCEPT ![p] = i] ELSE s.layer
      /\ t.demand = s.demand + CountedDemand(k, tot[p])
      /\ t = [queues |-> t.queues, layer |-> t.layer, demand |-> t.demand]
  BY DEF Enter, r, i
<1> HIDE DEF t
<1>8. /\ t.queues \in [Queues(k) -> Queue]
      /\ t.queues[i].processes = r /\ t.queues[i].update
      /\ \A j \in Queues(k) : j # i => t.queues[j] = s.queues[j]
  <2> DEFINE q == [s.queues[i] EXCEPT !.processes = r, !.update = TRUE]
  <2>1. s.queues[i] \in Queue
    BY <1>2, <1>3
  <2>2. q \in Queue /\ q.processes = r /\ q.update
    BY <1>5, <2>1 DEF Queue
  <2>3. t.queues = [s.queues EXCEPT ![i] = q]
    <3>1. s.queues = [j \in Queues(k) |-> s.queues[j]]
      BY <1>2
    <3>2. QED BY <1>3, <1>7, <3>1
  <2> HIDE DEF q
  <2>4. QED BY <1>2, <1>3, <2>2, <2>3
<1>9. tot[p] \in Nat /\ CountedDemand(k, tot[p]) \in Nat
  BY DEF CountedDemand
<1>10. t \in Scheduler(k)
  <2>1. t.layer \in [Process -> 0..Layers] /\ t.demand \in Int
    BY <1>2, <1>3, <1>7, <1>9
  <2>2. QED BY <1>7, <1>8, <2>1 DEF Scheduler, Queues
<1>11. WaitsOnce(t) /\ Waiting(t) = Waiting(s) \cup {p}
  <2>1. SameBut(s, t, i)
    BY <1>2, <1>3, <1>8 DEF SameBut
  <2>2. Elements(t.queues[i].processes) = Elements(s.queues[i].processes) \cup {p}
    BY <1>6, <1>8
  <2>3. QED BY <1>1, <1>6, <1>8, <2>1, <2>2, JoinsOnce
<1>12. QuantumFits(t)
  BY <1>1, <1>2, <1>8 DEF QuantumFits
<1>13. DemandCounted(k, t, tot)
  <2> SUFFICES ASSUME k = "FIFO" PROVE t.demand = Cardinality(Units(Waiting(t), tot))
    BY DEF DemandCounted
  <2>1. IsFiniteSet(Waiting(s)) /\ Waiting(s) \subseteq Process
    BY <1>1, WaitingFinite
  <2>2. Cardinality(Units(Waiting(t), tot)) = Cardinality(Units(Waiting(s), tot)) + tot[p]
    BY <1>11, <2>1, UnitsAdd
  <2>3. s.demand = Cardinality(Units(Waiting(s), tot))
    BY DEF SchedulerFits, DemandCounted
  <2>4. QED BY <1>7, <2>2, <2>3 DEF CountedDemand
<1>14. ~Preemptive(k) => \A x \in Waiting(t) : rs[x] = tot[x]
  BY <1>11 DEF SchedulerFits
<1>15. k # "MultiLevelFeedback" => \A x \in Process : t.layer[x] = 0
  BY <1>7 DEF SchedulerFits
<1>16. k = "ShortestJobNext" => SortedByRest(t.queues[1].processes, rs)
  <2> SUFFICES ASSUME k = "ShortestJobNext" PROVE SortedByRest(t.queues[1].processes, rs)
    OBVIOUS
  <2>1. i = 1 /\ SortedByRest(ps, rs) /\ IsInsertion(r, ps, p, Before(ps, p, rs))
    BY <1>3, <1>5 DEF SchedulerFits
  <2> HIDE DEF ps
  <2>2. SortedByRest(r, rs)
    BY <1>4, <1>5, <2>1, InsertionSorted
  <2>3. QED BY <1>8, <2>1, <2>2
<1>17. SchedulerFits(k, t, rs, tot)
  BY <1>10, <1>11, <1>12, <1>13, <1>14, <1>15, <1>16 DEF SchedulerFits
<1>18. QED BY <1>11, <1>17 DEF t

LEMMA LayerFits ==
  ASSUME NEW k, NEW s \in Scheduler(k), HasProcessesToSchedule(s)
  PROVE  /\ Layer(s) \in Queues(k) /\ s.queues[Layer(s)].processes # <<>>
         /\ \A j \in Queues(k) : j < Layer(s) => s.queues[j].processes = <<>>
         /\ k # "MultiLevelFeedback" => Layer(s) = 1
<1> DEFINE full == {i \in Queues(k) : s.queues[i].processes # <<>>}
<1>1. DOMAIN s.queues = Queues(k) /\ Queues(k) \subseteq 1..Layers
      /\ (k # "MultiLevelFeedback" => Queues(k) = {1})
  BY QueuesOf
<1>2. \A i \in Queues(k) : i \in Nat /\ i >= 1 /\ \A j \in 1..(i - 1) : j \in Queues(k)
  BY SchedulerAssumption DEF Queues
<1>3. full # {}
  <2>1. Elements(<<>>) = {}
    BY DEF Elements
  <2>2. QED BY <1>1, <2>1 DEF HasProcessesToSchedule, Waiting
<1>4. PICK i \in full : \A j \in full : i <= j
  <2>1. full \subseteq Nat
    BY <1>2
  <2> HIDE DEF full
  <2>2. QED BY <1>3, <2>1, SmallestNumber
<1>5. \A j \in 1..(i - 1) : s.queues[j].processes = <<>>
  BY <1>2, <1>4
<1>6. /\ Layer(s) \in Queues(k) /\ s.queues[Layer(s)].processes # <<>>
      /\ \A j \in 1..(Layer(s) - 1) : s.queues[j].processes = <<>>
  BY <1>1, <1>4, <1>5 DEF Layer
<1>7. \A j \in Queues(k) : j < Layer(s) => j \in 1..(Layer(s) - 1)
  BY <1>2, <1>6
<1>8. QED BY <1>1, <1>6, <1>7

LEMMA AtLeastFits ==
  ASSUME NEW n \in Nat, NEW m \in Nat PROVE AtLeast(n, m) \in Nat /\ AtLeast(n, m) >= m
BY DEF AtLeast

LEMMA UpdatedFits ==
  ASSUME NEW q \in Queue, NEW rs \in [Process -> Nat], ~q.update => q.quantum >= MinQuantum
  PROVE  /\ Updated(q, rs) \in Queue /\ Updated(q, rs).processes = q.processes
         /\ Updated(q, rs).quantum >= MinQuantum
<1>1. MinQuantum \in Nat /\ q.processes \in Seq(Process)
  BY SchedulerAssumption DEF Queue
<1>2. CASE ~q.update
  BY <1>2 DEF Updated
<1>3. CASE q.update /\ q.processes = <<>>
  <2>1. Updated(q, rs) = [q EXCEPT !.executed = {}, !.quantum = MinQuantum]
    BY <1>3 DEF Updated
  <2>2. [q EXCEPT !.executed = {}, !.quantum = MinQuantum] \in Queue
    BY <1>1 DEF Queue
  <2>3. /\ [q EXCEPT !.executed = {}, !.quantum = MinQuantum].processes = q.processes
        /\ [q EXCEPT !.executed = {}, !.quantum = MinQuantum].quantum = MinQuantum
    BY <1>1 DEF Queue
  <2>4. QED BY <1>1, <2>1, <2>2, <2>3
<1>4. CASE q.update /\ q.processes # <<>>
  <2> DEFINE m == AtLeast(Median(q.processes, rs), MinQuantum)
  <2>1. Updated(q, rs) = [q EXCEPT !.executed = {}, !.update = FALSE, !.quantum = m]
    BY <1>4 DEF Updated
  <2>2. m \in Nat /\ m >= MinQuantum
    BY <1>1, <1>4, MedianIsNatural, AtLeastFits
  <2> HIDE DEF m
  <2>3. [q EXCEPT !.executed = {}, !.update = FALSE, !.quantum = m] \in Queue
    BY <2>2 DEF Queue
  <2>4. /\ [q EXCEPT !.executed = {}, !.update = FALSE, !.quantum = m].processes = q.processes
        /\ [q EXCEPT !.executed = {}, !.update = FALSE, !.quantum = m].quantum = m
    BY <2>2 DEF Queue
  <2>5. QED BY <2>1, <2>2, <2>3, <2>4
<1>5. QED BY <1>2, <1>3, <1>4

LEMMA RetrievedFits ==
  ASSUME NEW q \in Queue, NEW rs \in [Process -> Nat], ~q.update => q.quantum >= MinQuantum,
         q.processes # <<>>
  PROVE  /\ Retrieved(q, rs) \in Queue /\ Retrieved(q, rs).processes = Tail(q.processes)
         /\ Retrieved(q, rs).quantum >= MinQuantum
<1> DEFINE u == Updated(q, rs)
           p == Head(q.processes)
           qs == IF rs[p] <= u.quantum THEN Tail(q.processes) ELSE Append(Tail(q.processes), p)
           e == u.executed \cup {p}
           f == u.update \/ (qs # <<>> /\ Head(qs) \in e)
<1>1. u \in Queue /\ u.processes = q.processes /\ u.quantum >= MinQuantum
  BY UpdatedFits
<1>2. Retrieved(q, rs) = [u EXCEPT !.processes = Tail(@), !.executed = e, !.update = f]
  BY <1>1 DEF Retrieved
<1>3. p \in Process /\ Tail(q.processes) \in Seq(Process)
  BY DEF Queue
<1>4. e \in SUBSET Process
  BY <1>1, <1>3 DEF Queue
<1>5. f \in BOOLEAN
  BY <1>1 DEF Queue
<1> HIDE DEF u, e, f
<1>6. QED BY <1>1, <1>2, <1>3, <1>4, <1>5 DEF Queue

LEMMA SliceFits ==
  ASSUME NEW q \in Queue, NEW rs \in [Process -> Nat], ~q.update => q.quantum >= MinQuantum,
         q.processes # <<>>
  PROVE  /\ Slice(q, rs) \in Nat /\ Slice(q, rs) <= rs[Head(q.processes)]
         /\ Slice(q, rs) < rs[Head(q.processes)] => Slice(q, rs) >= MinQuantum
<1> DEFINE u == Updated(q, rs)
<1>1. u \in Queue /\ u.processes = q.processes /\ u.quantum >= MinQuantum
  BY UpdatedFits
<1>2. rs[Head(q.processes)] \in Nat /\ u.quantum \in Nat
  BY <1>1 DEF Queue
<1>3. Slice(q, rs) = IF rs[Head(q.processes)] <= u.quantum THEN rs[Head(q.processes)] ELSE u.quantum
  BY <1>1 DEF Slice
<1> HIDE DEF u
<1>4. QED BY <1>1, <1>2, <1>3, SchedulerAssumption

\* The burst of the next process is no longer than what it has left, and
\* shorter only for a preemptive scheduler, by no less than the quantum.
WorkFits(k, n, r) ==
  /\ n \in Nat /\ n <= r
  /\ n < r => Preemptive(k) /\ n >= MinQuantum

LEMMA NextFits ==
  ASSUME NEW k, NEW s, NEW rs \in [Process -> Nat], NEW tot \in [Process -> Nat],
         SchedulerFits(k, s, rs, tot), HasProcessesToSchedule(s)
  PROVE  /\ NextProcess(s) \in Waiting(s) /\ NextProcess(s) \in Process
         /\ SchedulerFits(k, AfterNext(k, s, rs, tot), rs, tot)
         /\ Waiting(AfterNext(k, s, rs, tot)) = Waiting(s) \ {NextProcess(s)}
         /\ WorkFits(k, NextWork(k, s, rs, tot), rs[NextProcess(s)])
<1> DEFINE t == AfterNext(k, s, rs, tot)
           p == NextProcess(s)
           i == Layer(s)
           ps == s.queues[i].processes
<1>1. s \in Scheduler(k) /\ WaitsOnce(s) /\ QuantumFits(s)
  BY DEF SchedulerFits
<1>2. /\ DOMAIN s.queues = Queues(k) /\ s.queues \in [Queues(k) -> Queue]
      /\ s.layer \in [Process -> 0..Layers] /\ s.demand \in Int
      /\ 1 \in Queues(k) /\ Queues(k) \subseteq 1..Layers
      /\ k # "MultiLevelFeedback" => Queues(k) = {1}
      /\ \A j \in Queues(k) : s.queues[j].processes \in Seq(Process)
  BY <1>1, QueuesOf
<1>3. /\ i \in Queues(k) /\ ps # <<>> /\ p = Head(ps)
      /\ \A j \in Queues(k) : j < i => s.queues[j].processes = <<>>
      /\ k # "MultiLevelFeedback" => i = 1
  BY <1>1, LayerFits DEF NextProcess
<1>4. \A j \in Queues(k) : s.queues[j] \in Queue /\ (~s.queues[j].update => s.queues[j].quantum >= MinQuantum)
  BY <1>1, <1>2 DEF QuantumFits
<1> HIDE DEF i, p
<1>5. ps \in Seq(Process) /\ IsInjective(ps)
  BY <1>1, <1>2, <1>3 DEF WaitsOnce
<1>6. /\ Tail(ps) \in Seq(Process) /\ IsInjective(Tail(ps))
      /\ p \in Process /\ p \in Elements(ps) /\ Elements(Tail(ps)) = Elements(ps) \ {p}
  <2> HIDE DEF ps
  <2>1. QED BY <1>3, <1>5, TailFits
<1>7. /\ t.queues = IF Preemptive(k) THEN QueuesAfterNext(s, rs)
                    ELSE [s.queues EXCEPT ![1].processes = Tail(@)]
      /\ t.layer = IF k = "MultiLevelFeedback" THEN [s.layer EXCEPT ![p] = Layers] ELSE s.layer
      /\ t.demand = s.demand - CountedDemand(k, tot[p])
      /\ t = [queues |-> t.queues, layer |-> t.layer, demand |-> t.demand]
  BY DEF AfterNext, p
<1> HIDE DEF t
<1>8. /\ t.queues \in [Queues(k) -> Queue]
      /\ t.queues[i].processes = Tail(ps)
      /\ \A j \in Queues(k) : j # i => t.queues[j].processes = s.queues[j].processes
      /\ \A j \in Queues(k) : ~t.queues[j].update => t.queues[j].quantum >= MinQuantum
  <2>1. CASE Preemptive(k)
    <3>1. t.queues = [j \in Queues(k) |-> CASE j < i -> Updated(s.queues[j], rs)
                                            [] j = i -> Retrieved(s.queues[j], rs)
                                            [] j > i -> s.queues[j]]
      BY <1>2, <1>7, <2>1 DEF QueuesAfterNext, i
    <3>2. \A j \in Queues(k) : j \in Nat
      BY <1>2
    <3>3. \A j \in Queues(k) : j < i => t.queues[j] = Updated(s.queues[j], rs)
      BY <1>3, <3>1, <3>2
    <3>4. t.queues[i] = Retrieved(s.queues[i], rs)
      BY <1>3, <3>1, <3>2
    <3>5. \A j \in Queues(k) : j > i => t.queues[j] = s.queues[j]
      BY <1>3, <3>1, <3>2
    <3>6. \A j \in Queues(k) : j # i => /\ t.queues[j] \in Queue
                                        /\ t.queues[j].processes = s.queues[j].processes
                                        /\ ~t.queues[j].update => t.queues[j].quantum >= MinQuantum
      <4> SUFFICES ASSUME NEW j \in Queues(k), j # i
                   PROVE /\ t.queues[j] \in Queue
                         /\ t.queues[j].processes = s.queues[j].processes
                         /\ ~t.queues[j].update => t.queues[j].quantum >= MinQuantum
        OBVIOUS
      <4>1. CASE j < i
        BY <1>4, <3>3, <4>1, UpdatedFits
      <4>2. CASE j > i
        BY <1>4, <3>5, <4>2
      <4>3. QED BY <1>3, <3>2, <4>1, <4>2
    <3>7. /\ t.queues[i] \in Queue /\ t.queues[i].processes = Tail(ps)
          /\ t.queues[i].quantum >= MinQuantum
      BY <1>3, <1>4, <3>4, RetrievedFits
    <3>8. t.queues = [j \in Queues(k) |-> t.queues[j]]
      BY <3>1
    <3> HIDE DEF ps
    <3>9. QED BY <3>6, <3>7, <3>8
  <2>2. CASE ~Preemptive(k)
    <3> DEFINE q == [s.queues[1] EXCEPT !.processes = Tail(@)]
    <3>1. i = 1 /\ Queues(k) = {1}
      BY <1>2, <1>3, <2>2 DEF Preemptive
    <3>2. t.queues = [s.queues EXCEPT ![1] = q]
      BY <1>7, <2>2
    <3>3. q \in Queue /\ q.processes = Tail(ps) /\ (~q.update => q.quantum >= MinQuantum)
      BY <1>4, <1>6, <3>1 DEF Queue
    <3> HIDE DEF q, ps
    <3>4. t.queues[1] = q /\ t.queues \in [Queues(k) -> Queue]
      BY <1>2, <3>1, <3>2, <3>3
    <3>5. QED BY <3>1, <3>3, <3>4
  <2>3. QED BY <2>1, <2>2
<1>9. tot[p] \in Nat /\ CountedDemand(k, tot[p]) \in Nat
  BY <1>6 DEF CountedDemand
<1>10. t \in Scheduler(k)
  <2>1. t.layer \in [Process -> 0..Layers] /\ t.demand \in Int
    <3>1. Layers \in 0..Layers
      BY SchedulerAssumption
    <3>2. t.layer \in [Process -> 0..Layers]
      BY <1>2, <1>7, <3>1
    <3>3. t.demand \in Int
      BY <1>2, <1>7, <1>9
    <3>4. QED BY <3>2, <3>3
  <2>2. QED BY <1>7, <1>8, <2>1 DEF Scheduler, Queues
<1>11. WaitsOnce(t) /\ p \in Waiting(s) /\ Waiting(t) = Waiting(s) \ {p}
  <2>1. SameBut(s, t, i)
    BY <1>2, <1>3, <1>8 DEF SameBut
  <2>2. Elements(t.queues[i].processes) = Elements(s.queues[i].processes) \ {p}
    BY <1>6, <1>8
  <2>3. IsInjective(t.queues[i].processes) /\ p \in Elements(s.queues[i].processes)
    BY <1>6, <1>8
  <2> HIDE DEF ps
  <2>4. QED BY <1>1, <2>1, <2>2, <2>3, LeavesOnce
<1>12. QuantumFits(t)
  BY <1>8 DEF QuantumFits
<1>13. DemandCounted(k, t, tot)
  <2> SUFFICES ASSUME k = "FIFO" PROVE t.demand = Cardinality(Units(Waiting(t), tot))
    BY DEF DemandCounted
  <2>1. IsFiniteSet(Waiting(t)) /\ Waiting(t) \subseteq Process
    BY <1>10, WaitingFinite
  <2>2. Cardinality(Units(Waiting(t), tot)) \in Nat
    BY <2>1, UnitsFinite
  <2>3. Waiting(s) = Waiting(t) \cup {p} /\ p \notin Waiting(t)
    BY <1>11
  <2>4. Cardinality(Units(Waiting(s), tot)) = Cardinality(Units(Waiting(t), tot)) + tot[p]
    BY <1>6, <2>1, <2>3, UnitsAdd
  <2>5. s.demand = Cardinality(Units(Waiting(s), tot))
    BY DEF SchedulerFits, DemandCounted
  <2>6. QED BY <1>7, <1>9, <2>2, <2>4, <2>5 DEF CountedDemand
<1>14. ~Preemptive(k) => \A x \in Waiting(t) : rs[x] = tot[x]
  BY <1>11 DEF SchedulerFits
<1>15. k # "MultiLevelFeedback" => \A x \in Process : t.layer[x] = 0
  BY <1>7 DEF SchedulerFits
<1>16. k = "ShortestJobNext" => SortedByRest(t.queues[1].processes, rs)
  <2> SUFFICES ASSUME k = "ShortestJobNext" PROVE SortedByRest(t.queues[1].processes, rs)
    OBVIOUS
  <2>1. i = 1 /\ SortedByRest(ps, rs)
    BY <1>3 DEF SchedulerFits
  <2> HIDE DEF ps
  <2>2. SortedByRest(Tail(ps), rs)
    BY <1>3, <1>5, <2>1, TailSorted
  <2>3. QED BY <1>8, <2>1, <2>2
<1>17. SchedulerFits(k, t, rs, tot)
  BY <1>10, <1>11, <1>12, <1>13, <1>14, <1>15, <1>16 DEF SchedulerFits
<1>18. WorkFits(k, NextWork(k, s, rs, tot), rs[p])
  <2>1. CASE Preemptive(k)
    <3>1. NextWork(k, s, rs, tot) = Slice(s.queues[i], rs)
      BY <2>1 DEF NextWork, i
    <3>2. /\ Slice(s.queues[i], rs) \in Nat /\ Slice(s.queues[i], rs) <= rs[p]
          /\ Slice(s.queues[i], rs) < rs[p] => Slice(s.queues[i], rs) >= MinQuantum
      BY <1>3, <1>4, SliceFits
    <3>3. QED BY <2>1, <3>1, <3>2 DEF WorkFits
  <2>2. CASE ~Preemptive(k)
    <3>1. NextWork(k, s, rs, tot) = rs[p] /\ rs[p] \in Nat
      BY <1>6, <1>11, <2>2 DEF NextWork, SchedulerFits, p
    <3>2. QED BY <3>1 DEF WorkFits
  <2>3. QED BY <2>1, <2>2
<1>19. QED BY <1>6, <1>11, <1>17, <1>18 DEF t, p

LEMMA QueueCleared ==
  ASSUME NEW q \in Queue
  PROVE  /\ [q EXCEPT !.processes = <<>>, !.executed = {}] \in Queue
         /\ [q EXCEPT !.processes = <<>>, !.executed = {}].processes = <<>>
         /\ [q EXCEPT !.processes = <<>>, !.executed = {}].quantum = q.quantum
         /\ [q EXCEPT !.processes = <<>>, !.executed = {}].update = q.update
<1>1. <<>> \in Seq(Process) /\ {} \in SUBSET Process
  OBVIOUS
<1>2. QED BY <1>1 DEF Queue

LEMMA QueueForgets ==
  ASSUME NEW q \in Queue, NEW p
  PROVE  /\ [q EXCEPT !.executed = @ \ {p}] \in Queue
         /\ [q EXCEPT !.executed = @ \ {p}].processes = q.processes
         /\ [q EXCEPT !.executed = @ \ {p}].quantum = q.quantum
         /\ [q EXCEPT !.executed = @ \ {p}].update = q.update
<1>1. q.executed \ {p} \in SUBSET Process
  BY DEF Queue
<1>2. QED BY <1>1 DEF Queue

LEMMA ClearFits ==
  ASSUME NEW k, NEW s, NEW rs, NEW tot, SchedulerFits(k, s, rs, tot)
  PROVE  SchedulerFits(k, Cleared(s), rs, tot) /\ Waiting(Cleared(s)) = {}
<1> DEFINE t == Cleared(s)
<1>1. /\ DOMAIN s.queues = Queues(k) /\ s.queues \in [Queues(k) -> Queue]
      /\ s.layer \in [Process -> 0..Layers] /\ 1 \in Queues(k)
      /\ s = [queues |-> s.queues, layer |-> s.layer, demand |-> s.demand]
  <2>1. s \in Scheduler(k)
    BY DEF SchedulerFits
  <2>2. QED BY <2>1, QueuesOf DEF Scheduler
<1>2. /\ t.queues = [i \in Queues(k) |-> [s.queues[i] EXCEPT !.processes = <<>>, !.executed = {}]]
      /\ t.layer = s.layer /\ t.demand = 0
      /\ t = [queues |-> t.queues, layer |-> t.layer, demand |-> t.demand]
  <2> DEFINE g == [i \in DOMAIN s.queues |-> [s.queues[i] EXCEPT !.processes = <<>>, !.executed = {}]]
  <2>1. t = [s EXCEPT !.queues = g, !.demand = 0]
    BY DEF Cleared
  <2>2. g = [i \in Queues(k) |-> [s.queues[i] EXCEPT !.processes = <<>>, !.executed = {}]]
    BY <1>1
  <2> HIDE DEF g, t
  <2>3. t = [queues |-> g, layer |-> s.layer, demand |-> 0]
    BY <1>1, <2>1
  <2>4. t.queues = g /\ t.layer = s.layer /\ t.demand = 0
    BY <2>3
  <2>5. QED BY <2>2, <2>3, <2>4
<1> HIDE DEF t
<1>3. \A i \in Queues(k) : /\ t.queues[i] \in Queue /\ t.queues[i].processes = <<>>
                           /\ t.queues[i].update = s.queues[i].update
                           /\ t.queues[i].quantum = s.queues[i].quantum
  <2> SUFFICES ASSUME NEW i \in Queues(k)
               PROVE /\ t.queues[i] \in Queue /\ t.queues[i].processes = <<>>
                     /\ t.queues[i].update = s.queues[i].update
                     /\ t.queues[i].quantum = s.queues[i].quantum
    BY Zenon
  <2>1. s.queues[i] \in Queue
    BY <1>1
  <2>2. t.queues[i] = [s.queues[i] EXCEPT !.processes = <<>>, !.executed = {}]
    BY <1>2
  <2>3. QED BY <2>1, <2>2, QueueCleared
<1>4. t.queues \in [Queues(k) -> Queue] /\ DOMAIN t.queues = Queues(k)
  BY <1>2, <1>3
<1>5. t \in Scheduler(k)
  <2>1. s.layer \in [Process -> 0..Layers] /\ t.layer = s.layer
    BY <1>1, <1>2, Zenon
  <2>2. t.layer \in [Process -> 0..Layers]
    BY <2>1, Zenon
  <2>3. t.demand = 0
    BY <1>2
  <2>4. t.demand \in Int
    BY <2>3
  <2>5. [queues |-> t.queues, layer |-> t.layer, demand |-> t.demand] \in Scheduler(k)
    BY <1>4, <2>2, <2>4, SchedulerOf
  <2>6. QED BY <1>2, <2>5, Zenon
<1>6. Elements(<<>>) = {} /\ IsInjective(<<>>) /\ SortedByRest(<<>>, rs)
  BY DEF Elements, IsInjective, SortedByRest
<1>7. Waiting(t) = {} /\ WaitsOnce(t)
  BY <1>3, <1>4, <1>6 DEF Waiting, WaitsOnce
<1>8. DemandCounted(k, t, tot)
  <2>1. Units({}, tot) = {}
    BY DEF Units
  <2>2. QED BY <1>2, <1>7, <2>1, FS_EmptySet DEF DemandCounted
<1>9. QuantumFits(t)
  BY <1>1, <1>3, <1>4 DEF QuantumFits, SchedulerFits
<1>10. SchedulerFits(k, t, rs, tot)
  BY <1>1, <1>2, <1>3, <1>5, <1>6, <1>7, <1>8, <1>9 DEF SchedulerFits
<1>11. QED BY <1>7, <1>10 DEF t

LEMMA ForgetFits ==
  ASSUME NEW k, NEW s, NEW rs, NEW tot, NEW p, SchedulerFits(k, s, rs, tot)
  PROVE  SchedulerFits(k, Forgotten(s, p), rs, tot) /\ Waiting(Forgotten(s, p)) = Waiting(s)
<1> DEFINE t == Forgotten(s, p)
<1>1. /\ DOMAIN s.queues = Queues(k) /\ s.queues \in [Queues(k) -> Queue] /\ s.demand \in Int
      /\ s.layer \in [Process -> 0..Layers] /\ 1 \in Queues(k)
  <2>1. s \in Scheduler(k)
    BY DEF SchedulerFits
  <2>2. QED BY <2>1, QueuesOf
<1>2. /\ t.queues = [i \in Queues(k) |-> [s.queues[i] EXCEPT !.executed = @ \ {p}]]
      /\ t.layer = [s.layer EXCEPT ![p] = 0] /\ t.demand = s.demand
      /\ t = [queues |-> t.queues, layer |-> t.layer, demand |-> t.demand]
  BY <1>1 DEF Forgotten
<1> HIDE DEF t
<1>3. \A i \in Queues(k) : /\ t.queues[i] \in Queue
                           /\ t.queues[i].processes = s.queues[i].processes
                           /\ t.queues[i].update = s.queues[i].update
                           /\ t.queues[i].quantum = s.queues[i].quantum
  <2> SUFFICES ASSUME NEW i \in Queues(k)
               PROVE /\ t.queues[i] \in Queue
                     /\ t.queues[i].processes = s.queues[i].processes
                     /\ t.queues[i].update = s.queues[i].update
                     /\ t.queues[i].quantum = s.queues[i].quantum
    BY Zenon
  <2>1. s.queues[i] \in Queue
    BY <1>1
  <2>2. t.queues[i] = [s.queues[i] EXCEPT !.executed = @ \ {p}]
    BY <1>2
  <2>3. \A q \in Queue : /\ [q EXCEPT !.executed = @ \ {p}] \in Queue
                         /\ [q EXCEPT !.executed = @ \ {p}].processes = q.processes
                         /\ [q EXCEPT !.executed = @ \ {p}].quantum = q.quantum
                         /\ [q EXCEPT !.executed = @ \ {p}].update = q.update
    BY QueueForgets
  <2>4. QED BY <2>1, <2>2, <2>3, Zenon
<1>4. t.queues \in [Queues(k) -> Queue] /\ DOMAIN t.queues = Queues(k)
  BY <1>2, <1>3
<1>5. t.layer \in [Process -> 0..Layers] /\ \A x \in Process : t.layer[x] \in {s.layer[x], 0}
  <2>1. 0 \in 0..Layers
    BY SchedulerAssumption
  <2>2. QED BY <1>1, <1>2, <2>1
<1>6. t \in Scheduler(k)
  BY <1>1, <1>2, <1>4, <1>5 DEF Scheduler, Queues
<1>7. Waiting(t) = Waiting(s)
  BY <1>1, <1>3, <1>4 DEF Waiting
<1>8. WaitsOnce(t) /\ QuantumFits(t)
  BY <1>1, <1>3, <1>4 DEF WaitsOnce, QuantumFits, SchedulerFits
<1>9. DemandCounted(k, t, tot)
  BY <1>2, <1>7 DEF DemandCounted, SchedulerFits
<1>10. SchedulerFits(k, t, rs, tot)
  BY <1>1, <1>3, <1>5, <1>6, <1>7, <1>8, <1>9 DEF SchedulerFits
<1>11. QED BY <1>7, <1>10 DEF t

-----------------------------------------------------------------------------
(* The rounds of the CPU's event.                                          *)

\* The first n values of a recursive function
Begins(g, n, b, G) == g = [i \in 0..n |-> IF i = 0 THEN b ELSE G[g[i - 1]]]

LEMMA BeginningExists ==
  ASSUME NEW n \in Nat, NEW b, NEW G PROVE \E g : Begins(g, n, b, G)
<1> DEFINE T == {m \in Nat : \E g : Begins(g, m, b, G)}
<1>1. 0 \in T
  <2> DEFINE g == [i \in 0..0 |-> b]
  <2>1. Begins(g, 0, b, G)
    BY DEF Begins
  <2>2. QED BY <2>1
<1>2. ASSUME NEW m \in 0..n, m \in T PROVE m + 1 \in T
  <2>1. PICK g : Begins(g, m, b, G)
    BY <1>2
  <2> DEFINE h == [i \in 0..(m + 1) |-> IF i <= m THEN g[i] ELSE G[g[m]]]
  <2>2. m \in Nat /\ m + 1 \in Nat
    OBVIOUS
  <2>3. \A i \in 0..m : g[i] = IF i = 0 THEN b ELSE G[g[i - 1]]
    BY <2>1 DEF Begins
  <2>4. \A i \in 0..(m + 1) : h[i] = IF i = 0 THEN b ELSE G[h[i - 1]]
    <3> SUFFICES ASSUME NEW i \in 0..(m + 1) PROVE h[i] = IF i = 0 THEN b ELSE G[h[i - 1]]
      OBVIOUS
    <3>1. CASE i <= m
      <4>1. i \in 0..m /\ h[i] = g[i] /\ (i # 0 => h[i - 1] = g[i - 1])
        BY <2>2, <3>1
      <4> HIDE DEF h
      <4>2. QED BY <2>3, <4>1
    <3>2. CASE ~(i <= m)
      <4>1. i = m + 1 /\ i # 0 /\ i - 1 = m /\ h[i] = G[g[m]]
        BY <2>2, <3>2
      <4>2. h[m] = g[m]
        BY <2>2
      <4> HIDE DEF h
      <4>3. QED BY <4>1, <4>2
    <3>3. QED BY <3>1, <3>2
  <2>5. Begins(h, m + 1, b, G)
    <3>1. h = [i \in 0..(m + 1) |-> h[i]]
      OBVIOUS
    <3> HIDE DEF h
    <3>2. QED BY <2>4, <3>1 DEF Begins
  <2>6. QED BY <2>2, <2>5
<1> HIDE DEF T
<1>3. \A m \in 0..n : m \in T
  BY <1>1, <1>2, SetInduction
<1>4. QED BY <1>3 DEF T

LEMMA BeginningsAgree ==
  ASSUME NEW b, NEW G, NEW g, NEW h, NEW m \in Nat, NEW n \in Nat, m <= n,
         Begins(g, m, b, G), Begins(h, n, b, G)
  PROVE  \A i \in 0..m : g[i] = h[i]
<1> DEFINE T == {i \in 0..m : g[i] = h[i]}
<1>1. /\ \A i \in 0..m : g[i] = IF i = 0 THEN b ELSE G[g[i - 1]]
      /\ \A i \in 0..n : h[i] = IF i = 0 THEN b ELSE G[h[i - 1]]
  BY DEF Begins
<1>2. 0 \in T
  BY <1>1
<1>3. \A i \in 0..m : i \in T /\ i < m => i + 1 \in T
  BY <1>1
<1> HIDE DEF T
<1>4. \A i \in 0..m : i \in T
  BY <1>2, <1>3, SetInduction
<1>5. QED BY <1>4 DEF T

\* A recursive function of natural numbers exists.
Repeats(f, b, G) == f = [n \in Nat |-> IF n = 0 THEN b ELSE G[f[n - 1]]]

LEMMA RecursionExists ==
  ASSUME NEW b, NEW G PROVE \E f : Repeats(f, b, G)
<1> DEFINE g(n) == CHOOSE g : Begins(g, n, b, G)
           f == [n \in Nat |-> g(n)[n]]
<1>1. \A n \in Nat : Begins(g(n), n, b, G)
  BY BeginningExists
<1> HIDE DEF g
<1>2. ASSUME NEW n \in Nat PROVE f[n] = IF n = 0 THEN b ELSE G[f[n - 1]]
  <2>1. n \in 0..n /\ f[n] = g(n)[n]
    OBVIOUS
  <2>2. g(n)[n] = IF n = 0 THEN b ELSE G[g(n)[n - 1]]
    BY <1>1, <2>1 DEF Begins
  <2>3. n # 0 => n - 1 \in Nat /\ n - 1 \in 0..(n - 1) /\ n - 1 <= n /\ f[n - 1] = g(n - 1)[n - 1]
    OBVIOUS
  <2>4. n # 0 => g(n - 1)[n - 1] = g(n)[n - 1]
    BY <1>1, <2>3, BeginningsAgree
  <2> HIDE DEF f
  <2>5. QED BY <2>1, <2>2, <2>3, <2>4
<1>3. f = [n \in Nat |-> f[n]]
  OBVIOUS
<1> HIDE DEF f
<1>4. Repeats(f, b, G)
  BY <1>2, <1>3 DEF Repeats
<1>5. QED BY <1>4

Start == [sched |-> sched, active |-> active, bursts |-> bursts]

LEMMA RoundsStep ==
  /\ Rounds[0] = Start
  /\ \A n \in Nat : Rounds[n + 1] = Round[Rounds[n]]
<1> DEFINE R == Rounds
           G == Round
           b == Start
<1>1. R = CHOOSE f : Repeats(f, b, G)
  BY DEF Rounds, Start, Repeats
<1> HIDE DEF R, G, b
<1>2. \E f : Repeats(f, b, G)
  BY RecursionExists
<1>3. Repeats(R, b, G)
  BY <1>1, <1>2
<1>4. R[0] = b /\ \A n \in Nat : R[n + 1] = G[R[n]]
  <2>1. \A n \in Nat : R[n] = IF n = 0 THEN b ELSE G[R[n - 1]]
    BY <1>3 DEF Repeats
  <2>2. \A n \in Nat : n + 1 \in Nat /\ n + 1 # 0 /\ (n + 1) - 1 = n
    OBVIOUS
  <2>3. R[0] = b
    BY <2>1
  <2>4. \A n \in Nat : R[n + 1] = G[R[n]]
    BY <2>1, <2>2
  <2>5. QED BY <2>3, <2>4
<1>5. QED BY <1>4 DEF R, G, b

Ready(c) == HasProcessesToSchedule(c.sched) /\ ThreadsAvailable(c.active)

\* Every process has at most one burst, the active ones have one each, and no
\* burst is too long.
BurstsOf(a, B) ==
  /\ B \subseteq Burst /\ {b.process : b \in B} = a
  /\ \A b, d \in B : b.process = d.process => b = d
  /\ \A b \in B : WorkFits(kind, b.work, rest[b.process])

\* What the rounds keep: no process gets lost or is computed twice.
RoundFits(c) ==
  /\ c \in Cpu
  /\ SchedulerFits(kind, c.sched, rest, total)
  /\ IsFiniteSet(c.active) /\ Cardinality(c.active) <= Threads
  /\ Waiting(c.sched) \cap c.active = {}
  /\ Waiting(c.sched) \cup c.active = Waiting(sched) \cup active
  /\ active \subseteq c.active
  /\ BurstsOf(c.active, c.bursts)

\* A process gets a burst.
LEMMA BurstAdded ==
  ASSUME NEW a, NEW B, BurstsOf(a, B), NEW p \in Process, p \notin a,
         NEW n, WorkFits(kind, n, rest[p])
  PROVE  BurstsOf(a \cup {p}, B \cup {[process |-> p, work |-> n, left |-> n]})
<1> DEFINE e == [process |-> p, work |-> n, left |-> n]
<1>1. n \in Nat /\ e \in Burst /\ e.process = p /\ e.work = n
  BY DEF Burst, WorkFits
<1> HIDE DEF e
<1>2. B \cup {e} \subseteq Burst /\ \A b \in B : b.process # p
  BY <1>1 DEF BurstsOf
<1>3. {b.process : b \in B \cup {e}} = a \cup {p}
  BY <1>1 DEF BurstsOf
<1>4. \A b, d \in B \cup {e} : b.process = d.process => b = d
  BY <1>1, <1>2 DEF BurstsOf
<1>5. \A b \in B \cup {e} : WorkFits(kind, b.work, rest[b.process])
  BY <1>1 DEF BurstsOf
<1>6. BurstsOf(a \cup {p}, B \cup {e})
  BY <1>2, <1>3, <1>4, <1>5 DEF BurstsOf
<1>7. QED BY <1>6 DEF e

LEMMA RoundKeeps ==
  ASSUME NEW c, RoundFits(c), TypeOK
  PROVE  /\ RoundFits(Round[c])
         /\ Ready(c) => Cardinality(Round[c].active) = Cardinality(c.active) + 1
         /\ ~Ready(c) => Round[c] = c
<1>1. /\ c \in Cpu /\ SchedulerFits(kind, c.sched, rest, total)
      /\ IsFiniteSet(c.active) /\ Cardinality(c.active) \in Nat /\ c.active \subseteq Process
      /\ rest \in [Process -> Nat] /\ total \in [Process -> Nat] /\ Threads \in Nat
  BY FS_CardinalityType, CpuAssumption DEF RoundFits, Cpu, TypeOK
<1>2. CASE ~Ready(c)
  <2>1. Round[c] = c
    BY <1>1, <1>2 DEF Round, Ready
  <2>2. QED BY <1>2, <2>1
<1>3. CASE Ready(c)
  <2> DEFINE p == NextProcess(c.sched)
             n == NextWork(kind, c.sched, rest, total)
             s == AfterNext(kind, c.sched, rest, total)
             a == c.active \cup {p}
             B == c.bursts \cup {[process |-> p, work |-> n, left |-> n]}
             d == [sched |-> s, active |-> a, bursts |-> B]
  <2>1. Round[c] = d
    BY <1>1, <1>3 DEF Round, Ready
  <2>2. /\ p \in Waiting(c.sched) /\ p \in Process
        /\ SchedulerFits(kind, s, rest, total) /\ Waiting(s) = Waiting(c.sched) \ {p}
        /\ WorkFits(kind, n, rest[p])
    BY <1>1, <1>3, NextFits DEF Ready
  <2> HIDE DEF p, n, s
  <2>3. p \notin c.active
    BY <2>2 DEF RoundFits
  <2>4. IsFiniteSet(a) /\ Cardinality(a) = Cardinality(c.active) + 1
    BY <1>1, <2>3, FS_AddElement
  <2>5. Cardinality(a) <= Threads
    BY <1>1, <1>3, <2>4 DEF Ready, ThreadsAvailable
  <2>6. BurstsOf(a, B)
    BY <2>2, <2>3, BurstAdded DEF RoundFits
  <2>7. Waiting(s) \cap a = {} /\ Waiting(s) \cup a = Waiting(sched) \cup active /\ active \subseteq a
    BY <2>2, <2>3 DEF RoundFits
  <2>8. d \in Cpu
    <3>1. s \in Scheduler(kind) /\ a \subseteq Process /\ B \subseteq Burst
      BY <1>1, <2>2, <2>6 DEF SchedulerFits, BurstsOf
    <3> HIDE DEF a, B
    <3>2. QED BY <3>1 DEF Cpu
  <2> HIDE DEF a, B
  <2>9. d.sched = s /\ d.active = a /\ d.bursts = B
    OBVIOUS
  <2> HIDE DEF d
  <2>10. RoundFits(d)
    BY <2>2, <2>4, <2>5, <2>6, <2>7, <2>8, <2>9 DEF RoundFits
  <2>11. QED BY <1>3, <2>1, <2>4, <2>9, <2>10
<1>4. QED BY <1>2, <1>3

\* After as many rounds as there are threads, no process and thread are left
\* to be brought together.
LEMMA RoundsFit ==
  ASSUME RoundFits(Start), TypeOK
  PROVE  RoundFits(Rounds[Threads]) /\ ~Ready(Rounds[Threads])
<1> DEFINE Good(n) == RoundFits(Rounds[n])
                      /\ (Ready(Rounds[n]) => Cardinality(Rounds[n].active) >= n)
           T == {n \in Nat : Good(n)}
<1>1. Threads \in Nat
  BY CpuAssumption
<1>2. 0 \in T
  <2>1. Rounds[0] = Start
    BY RoundsStep
  <2>2. IsFiniteSet(Start.active)
    BY DEF RoundFits
  <2>3. Cardinality(Start.active) >= 0
    BY <2>2, FS_CardinalityType
  <2>4. QED BY <2>1, <2>3
<1>3. ASSUME NEW n \in 0..Threads, n \in T PROVE n + 1 \in T
  <2>1. n \in Nat /\ n + 1 \in Nat /\ Rounds[n + 1] = Round[Rounds[n]]
    BY RoundsStep
  <2>2. RoundFits(Rounds[n]) /\ (Ready(Rounds[n]) => Cardinality(Rounds[n].active) >= n)
    BY <1>3
  <2>3. /\ RoundFits(Rounds[n + 1])
        /\ Ready(Rounds[n]) => Cardinality(Rounds[n + 1].active) = Cardinality(Rounds[n].active) + 1
        /\ ~Ready(Rounds[n]) => Rounds[n + 1] = Rounds[n]
    BY <2>1, <2>2, RoundKeeps
  <2>4. Cardinality(Rounds[n].active) \in Nat
    BY <2>2, FS_CardinalityType DEF RoundFits
  <2>5. CASE Ready(Rounds[n])
    BY <2>1, <2>2, <2>3, <2>4, <2>5
  <2>6. CASE ~Ready(Rounds[n])
    BY <2>1, <2>2, <2>3, <2>6
  <2>7. QED BY <2>5, <2>6
<1> HIDE DEF T
<1>4. \A n \in 0..Threads : n \in T
  BY <1>1, <1>2, <1>3, SetInduction
<1>5. Good(Threads)
  BY <1>1, <1>4 DEF T
<1>6. ~Ready(Rounds[Threads])
  <2>1. IsFiniteSet(Rounds[Threads].active)
    BY <1>5 DEF RoundFits
  <2>2. Cardinality(Rounds[Threads].active) \in Nat
    BY <2>1, FS_CardinalityType
  <2>3. QED BY <1>1, <1>5, <2>2 DEF Ready, ThreadsAvailable
<1>7. QED BY <1>5, <1>6

-----------------------------------------------------------------------------
(* The invariant.                                                          *)

LEMMA InitHolds == Init => CpuInvariant
<1> SUFFICES ASSUME Init PROVE CpuInvariant
  OBVIOUS
<1>1. /\ SchedulerFits(kind, sched, rest, total) /\ Waiting(sched) = {}
  BY NewFits DEF Init
<1>2. sched \in Scheduler(kind) /\ WaitsOnce(sched)
  BY <1>1 DEF SchedulerFits
<1>3. TypeOK
  <2>1. \A d \in {0} : d \in Nat
    OBVIOUS
  <2>2. QED BY <1>2, <2>1 DEF TypeOK, Init
<1>4. InOnePlace
  BY <1>1, <1>2 DEF InOnePlace, Running, Init
<1>5. NoIdleThread /\ BurstsFit
  BY <1>1 DEF NoIdleThread, HasProcessesToSchedule, BurstsFit, Init
<1>6. IsFiniteSet(active) /\ Cardinality(active) <= Threads
  BY FS_EmptySet, CpuAssumption DEF Init
<1>7. QED BY <1>1, <1>3, <1>4, <1>5, <1>6 DEF CpuInvariant, Init

\* What the invariant says of the bursts and their processes
LEMMA BurstsHeld ==
  ASSUME CpuInvariant
  PROVE  /\ BurstsOf(Running, bursts) /\ Running \subseteq active
         /\ Threads \in Nat /\ MinQuantum \in Nat /\ MinQuantum > 0
         /\ Cardinality(active) \in Nat
<1>1. Running \subseteq active
  BY DEF CpuInvariant, InOnePlace
<1>2. \A b \in bursts : WorkFits(kind, b.work, rest[b.process])
  BY DEF CpuInvariant, BurstsFit, TypeOK, Burst, WorkFits
<1>3. BurstsOf(Running, bursts)
  BY <1>2 DEF BurstsOf, CpuInvariant, TypeOK, InOnePlace, Running
<1>4. Cardinality(active) \in Nat
  BY FS_CardinalityType DEF CpuInvariant
<1>5. QED BY <1>1, <1>3, <1>4, CpuAssumption, SchedulerAssumption

LEMMA SubmitKeeps ==
  ASSUME CpuInvariant, NEW p \in Process, SubmitProcess(p)
  PROVE  CpuInvariant' /\ Waiting(sched') = Waiting(sched) \cup {p}
<1>1. PICK d \in Demands : total' = [total EXCEPT ![p] = d] /\ rest' = [rest EXCEPT ![p] = d]
  BY DEF SubmitProcess
<1>2. /\ ~cleared /\ p \notin Waiting(sched) /\ p \notin active /\ p \notin finished
      /\ sched' = Enter(kind, sched, p, rest', total')
      /\ routine' = (routine \/ ThreadsAvailable(active))
      /\ kind' = kind /\ active' = active /\ bursts' = bursts /\ finished' = finished /\ cleared' = cleared
  BY DEF SubmitProcess, Woken
<1>3. /\ TypeOK /\ InOnePlace /\ BurstsFit /\ SchedulerFits(kind, sched, rest, total)
      /\ IsFiniteSet(active) /\ Cardinality(active) <= Threads
  BY DEF CpuInvariant
<1>4. /\ rest' \in [Process -> Nat] /\ total' \in [Process -> Nat] /\ rest'[p] = total'[p]
      /\ \A x \in Process : x # p => rest'[x] = rest[x] /\ total'[x] = total[x]
  <2>1. d \in Nat
    BY CpuAssumption
  <2>2. QED BY <1>1, <1>3, <2>1 DEF TypeOK
<1>5. \A x \in Waiting(sched) : rest'[x] = rest[x] /\ total'[x] = total[x]
  <2>1. Waiting(sched) \subseteq Process
    BY <1>3, WaitingFinite DEF SchedulerFits
  <2>2. QED BY <1>2, <1>4, <2>1
<1>6. SchedulerFits(kind, sched, rest', total')
  BY <1>3, <1>5, ElsewhereFits
<1>7. SchedulerFits(kind, sched', rest', total') /\ Waiting(sched') = Waiting(sched) \cup {p}
  BY <1>2, <1>4, <1>6, EnterFits
<1>8. TypeOK'
  <2>1. sched' \in Scheduler(kind)
    BY <1>7 DEF SchedulerFits
  <2>2. QED BY <1>2, <1>3, <1>4, <2>1 DEF TypeOK
<1>9. InOnePlace'
  <2>1. WaitsOnce(sched')
    BY <1>7 DEF SchedulerFits
  <2>2. QED BY <1>2, <1>3, <1>7, <2>1 DEF InOnePlace, Running
<1>10. NoIdleThread'
  BY <1>2 DEF NoIdleThread, ThreadsAvailable
<1>11. BurstsFit'
  <2>1. \A b \in bursts : b.process \in Process /\ b.process # p
    BY <1>2, <1>3 DEF InOnePlace, Running, TypeOK, Burst
  <2>2. QED BY <1>2, <1>3, <1>4, <2>1 DEF BurstsFit
<1>12. QED BY <1>2, <1>3, <1>7, <1>8, <1>9, <1>10, <1>11 DEF CpuInvariant

LEMMA CompleteKeeps ==
  ASSUME CpuInvariant, NEW p \in Process, Complete(p)
  PROVE  CpuInvariant'
<1>1. /\ p \in finished /\ finished' = finished \ {p} /\ total' = [total EXCEPT ![p] = 0]
      /\ kind' = kind /\ sched' = sched /\ rest' = rest /\ active' = active /\ bursts' = bursts
      /\ routine' = routine /\ cleared' = cleared
  BY DEF Complete
<1>2. /\ TypeOK /\ InOnePlace /\ BurstsFit /\ NoIdleThread /\ SchedulerFits(kind, sched, rest, total)
      /\ IsFiniteSet(active) /\ Cardinality(active) <= Threads
      /\ cleared => ~routine /\ Waiting(sched) = {}
  BY DEF CpuInvariant
<1>3. \A x \in Waiting(sched) : total'[x] = total[x]
  <2>1. Waiting(sched) \subseteq Process /\ p \notin Waiting(sched)
    BY <1>1, <1>2, WaitingFinite DEF SchedulerFits, InOnePlace
  <2>2. QED BY <1>1, <1>2, <2>1 DEF TypeOK
<1>4. SchedulerFits(kind, sched, rest, total')
  BY <1>2, <1>3, ElsewhereFits
<1>5. TypeOK'
  <2>1. total' \in [Process -> Nat]
    BY <1>1, <1>2 DEF TypeOK
  <2>2. QED BY <1>1, <1>2, <2>1 DEF TypeOK
<1>6. InOnePlace'
  BY <1>1, <1>2 DEF InOnePlace, Running
<1>7. NoIdleThread' /\ BurstsFit'
  BY <1>1, <1>2 DEF NoIdleThread, BurstsFit
<1>8. QED BY <1>1, <1>2, <1>4, <1>5, <1>6, <1>7 DEF CpuInvariant

\* The CPU's event assigns threads: the processes that become active leave the
\* scheduler, and no thread idles while a process waits.
LEMMA RoutineKeeps ==
  ASSUME CpuInvariant, Routine
  PROVE  /\ CpuInvariant'
         /\ Waiting(sched') \cup active' = Waiting(sched) \cup active
         /\ active \subseteq active' /\ Running = active /\ Running' = active'
         /\ ~(HasProcessesToSchedule(sched') /\ ThreadsAvailable(active'))
<1> DEFINE c == Rounds[Threads]
<1>1. /\ routine /\ sched' = c.sched /\ active' = c.active /\ bursts' = c.bursts /\ routine' = FALSE
      /\ kind' = kind /\ total' = total /\ rest' = rest /\ finished' = finished /\ cleared' = cleared
  BY DEF Routine
<1>2. /\ TypeOK /\ InOnePlace /\ SchedulerFits(kind, sched, rest, total) /\ ~cleared
      /\ IsFiniteSet(active) /\ Cardinality(active) <= Threads
  BY <1>1 DEF CpuInvariant
<1>3. Running = active
  BY <1>2 DEF InOnePlace
<1>4. RoundFits(Start)
  <2>1. Start.sched = sched /\ Start.active = active /\ Start.bursts = bursts
    BY DEF Start
  <2>2. BurstsOf(active, bursts)
    BY <1>3, BurstsHeld
  <2>3. Start \in Cpu
    BY <1>2 DEF Start, Cpu, TypeOK
  <2>4. Waiting(sched) \cap active = {}
    BY <1>2 DEF InOnePlace
  <2>5. QED BY <1>2, <2>1, <2>2, <2>3, <2>4 DEF RoundFits
<1>5. RoundFits(c) /\ ~Ready(c)
  BY <1>2, <1>4, RoundsFit
<1> HIDE DEF c
<1>6. /\ sched' \in Scheduler(kind) /\ active' \subseteq Process
      /\ SchedulerFits(kind, sched', rest, total)
      /\ IsFiniteSet(active') /\ Cardinality(active') <= Threads
      /\ Waiting(sched') \cap active' = {}
      /\ Waiting(sched') \cup active' = Waiting(sched) \cup active
      /\ active \subseteq active' /\ BurstsOf(active', bursts')
      /\ ~(HasProcessesToSchedule(sched') /\ ThreadsAvailable(active'))
  BY <1>1, <1>5 DEF RoundFits, Ready, Cpu
<1>7. TypeOK'
  BY <1>1, <1>2, <1>6 DEF TypeOK, BurstsOf
<1>8. Running' = active' /\ \A b, d \in bursts' : b.process = d.process => b = d
  BY <1>6 DEF Running, BurstsOf
<1>9. InOnePlace'
  <2>1. WaitsOnce(sched')
    BY <1>6 DEF SchedulerFits
  <2>2. (Waiting(sched) \cup active) \cap finished = {}
    BY <1>2 DEF InOnePlace
  <2>3. Waiting(sched') \cap (active' \cup finished) = {} /\ active' \cap finished = {}
    BY <1>6, <2>2
  <2>4. QED BY <1>1, <1>2, <1>8, <2>1, <2>3 DEF InOnePlace
<1>10. NoIdleThread' /\ BurstsFit'
  <2>1. NoIdleThread'
    BY <1>6 DEF NoIdleThread
  <2>2. \A b \in bursts' : WorkFits(kind, b.work, rest[b.process])
    BY <1>6 DEF BurstsOf
  <2>3. BurstsFit'
    BY <1>1, <2>2 DEF BurstsFit, WorkFits
  <2>4. QED BY <2>1, <2>3
<1>11. CpuInvariant'
  BY <1>1, <1>2, <1>6, <1>7, <1>9, <1>10 DEF CpuInvariant
<1>12. QED BY <1>3, <1>6, <1>8, <1>11

\* A burst ends: its process has as much less left as the burst was long, and
\* waits again or is finished.
LEMMA EndBurstKeeps ==
  ASSUME CpuInvariant, NEW b \in bursts, EndBurst(b)
  PROVE  /\ CpuInvariant'
         /\ b.process \in Running /\ Running = active /\ Running' = active \ {b.process}
         /\ rest[b.process] \in Nat /\ b.work \in 0..rest[b.process]
         /\ rest[b.process] > 0 => b.work > 0
         /\ rest' = [rest EXCEPT ![b.process] = @ - b.work]
         /\ IF b.work = rest[b.process]
            THEN Waiting(sched') = Waiting(sched) /\ finished' = finished \cup {b.process}
            ELSE Waiting(sched') = Waiting(sched) \cup {b.process} /\ finished' = finished
<1> DEFINE p == b.process
           r == rest[p] - b.work
<1>1. /\ bursts' = bursts \ {b} /\ rest' = [rest EXCEPT ![p] = r]
      /\ sched' = Reentered(p, rest') /\ active' = active \ {p} /\ routine' = TRUE
      /\ finished' = IF rest'[p] <= 0 THEN finished \cup {p} ELSE finished
      /\ kind' = kind /\ total' = total /\ cleared' = cleared
  BY DEF EndBurst
<1>2. /\ TypeOK /\ InOnePlace /\ BurstsFit /\ SchedulerFits(kind, sched, rest, total)
      /\ IsFiniteSet(active) /\ Cardinality(active) <= Threads
  BY DEF CpuInvariant
<1>3. p \in Running
  BY DEF Running
<1>4. ~cleared /\ Running = active
  BY <1>2, <1>3 DEF InOnePlace
<1>5. /\ p \in Process /\ p \in active /\ p \notin Waiting(sched) /\ p \notin finished
  BY <1>2, <1>3, <1>4 DEF InOnePlace, TypeOK
<1>6. /\ rest[p] \in Nat /\ b.work \in Nat /\ b.work <= rest[p]
      /\ b.work < rest[p] => Preemptive(kind) /\ b.work >= MinQuantum
      /\ MinQuantum \in Nat /\ MinQuantum > 0
      /\ Threads \in Nat
  <2>1. WorkFits(kind, b.work, rest[p])
    BY BurstsHeld DEF BurstsOf
  <2>2. rest[p] \in Nat
    BY <1>2, <1>5 DEF TypeOK
  <2>3. QED BY <2>1, <2>2, SchedulerAssumption, CpuAssumption DEF WorkFits
<1>7. r \in Nat /\ (r > 0 => Preemptive(kind))
  BY <1>6
<1> HIDE DEF p
<1>8. /\ rest' \in [Process -> Nat] /\ rest'[p] = r /\ total \in [Process -> Nat]
      /\ \A x \in Process : x # p => rest'[x] = rest[x]
  <2> HIDE DEF r
  <2>1. QED BY <1>1, <1>2, <1>5, <1>7 DEF TypeOK
<1>9. \A x \in Waiting(sched) : rest'[x] = rest[x]
  <2>1. Waiting(sched) \subseteq Process
    BY <1>2, WaitingFinite DEF SchedulerFits
  <2>2. QED BY <1>5, <1>8, <2>1
<1>10. SchedulerFits(kind, sched, rest', total)
  BY <1>2, <1>9, ElsewhereFits
<1>11. /\ SchedulerFits(kind, sched', rest', total)
       /\ IF r = 0 THEN Waiting(sched') = Waiting(sched) /\ finished' = finished \cup {p}
                   ELSE Waiting(sched') = Waiting(sched) \cup {p} /\ finished' = finished
  <2>1. CASE r > 0
    <3>1. sched' = Enter(kind, sched, p, rest', total) /\ finished' = finished
      BY <1>1, <1>7, <1>8, <2>1 DEF Reentered
    <3>2. /\ SchedulerFits(kind, Enter(kind, sched, p, rest', total), rest', total)
          /\ Waiting(Enter(kind, sched, p, rest', total)) = Waiting(sched) \cup {p}
      <4>1. Preemptive(kind)
        BY <1>7, <2>1
      <4> HIDE DEF r
      <4>2. QED BY <1>5, <1>8, <1>10, <4>1, EnterFits
    <3>3. QED BY <1>7, <2>1, <3>1, <3>2
  <2>2. CASE r = 0
    <3>1. sched' = Forgotten(sched, p) /\ finished' = finished \cup {p}
      BY <1>1, <1>8, <2>2 DEF Reentered
    <3>2. SchedulerFits(kind, sched', rest', total) /\ Waiting(sched') = Waiting(sched)
      BY <1>10, <3>1, ForgetFits
    <3>3. QED BY <2>2, <3>1, <3>2
  <2>3. QED BY <1>7, <2>1, <2>2
<1>12. Running' = active \ {p}
  <2>1. \A d \in bursts : d.process = p <=> d = b
    BY <1>2 DEF InOnePlace, p
  <2>2. Running' = {d.process : d \in bursts \ {b}}
    BY <1>1 DEF Running
  <2>3. Running = {d.process : d \in bursts}
    BY DEF Running
  <2>4. QED BY <1>4, <2>1, <2>2, <2>3
<1>13. TypeOK'
  <2>1. sched' \in Scheduler(kind)
    BY <1>11 DEF SchedulerFits
  <2>2. finished' \subseteq Process
    BY <1>1, <1>2, <1>5 DEF TypeOK
  <2> HIDE DEF r
  <2>3. QED BY <1>1, <1>2, <1>8, <2>1, <2>2 DEF TypeOK
<1>14. InOnePlace'
  <2>1. WaitsOnce(sched')
    BY <1>11 DEF SchedulerFits
  <2>2. Waiting(sched') \cap (active' \cup finished') = {} /\ active' \cap finished' = {}
    BY <1>1, <1>2, <1>5, <1>11 DEF InOnePlace
  <2>3. \A d, e \in bursts' : d.process = e.process => d = e
    BY <1>1, <1>2 DEF InOnePlace
  <2> HIDE DEF r
  <2>4. QED BY <1>1, <1>4, <1>12, <2>1, <2>2, <2>3 DEF InOnePlace
<1>15. NoIdleThread'
  BY <1>1 DEF NoIdleThread
<1>16. BurstsFit'
  <2>1. \A d \in bursts' : d \in bursts /\ d.process \in Process /\ d.process # p
    BY <1>1, <1>2 DEF InOnePlace, TypeOK, Burst, p
  <2>2. QED BY <1>1, <1>2, <1>8, <2>1 DEF BurstsFit
<1>17. IsFiniteSet(active') /\ Cardinality(active') <= Threads
  <2>1. active' \in SUBSET active
    BY <1>1
  <2>2. IsFiniteSet(active') /\ Cardinality(active') <= Cardinality(active)
    BY <1>2, <2>1, FS_Subset
  <2>3. Cardinality(active') \in Nat /\ Cardinality(active) \in Nat
    BY <1>2, <2>2, FS_CardinalityType
  <2>4. QED BY <1>2, <1>6, <2>2, <2>3
<1>18. CpuInvariant'
  <2> HIDE DEF r
  <2>1. QED BY <1>1, <1>4, <1>11, <1>13, <1>14, <1>15, <1>16, <1>17 DEF CpuInvariant
<1>19. (r = 0 <=> b.work = rest[p]) /\ b.work \in 0..rest[p] /\ (rest[p] > 0 => b.work > 0)
  BY <1>6
<1>20. rest' = [rest EXCEPT ![p] = @ - b.work]
  BY <1>1
<1> HIDE DEF r
<1>21. IF b.work = rest[p]
       THEN Waiting(sched') = Waiting(sched) /\ finished' = finished \cup {p}
       ELSE Waiting(sched') = Waiting(sched) \cup {p} /\ finished' = finished
  BY <1>11, <1>19
<1>22. QED BY <1>3, <1>4, <1>6, <1>12, <1>18, <1>19, <1>20, <1>21 DEF p

LEMMA ClearKeeps ==
  ASSUME CpuInvariant, Clear
  PROVE  CpuInvariant' /\ Waiting(sched') = {} /\ Running' = {}
<1>1. /\ ~routine /\ bursts' = {} /\ sched' = Cleared(sched) /\ cleared' = TRUE
      /\ kind' = kind /\ total' = total /\ rest' = rest /\ active' = active
      /\ routine' = routine /\ finished' = finished
  BY DEF Clear
<1>2. /\ TypeOK /\ InOnePlace /\ SchedulerFits(kind, sched, rest, total)
      /\ IsFiniteSet(active) /\ Cardinality(active) <= Threads
  BY DEF CpuInvariant
<1>3. SchedulerFits(kind, sched', rest, total) /\ Waiting(sched') = {}
  BY <1>1, <1>2, ClearFits
<1>4. sched' \in Scheduler(kind) /\ WaitsOnce(sched')
  BY <1>3 DEF SchedulerFits
<1>5. Running' = {}
  BY <1>1 DEF Running
<1>6. TypeOK' /\ InOnePlace'
  BY <1>1, <1>2, <1>3, <1>4, <1>5 DEF TypeOK, InOnePlace
<1>7. NoIdleThread' /\ BurstsFit'
  BY <1>1, <1>3 DEF NoIdleThread, HasProcessesToSchedule, BurstsFit
<1>8. QED BY <1>1, <1>2, <1>3, <1>5, <1>6, <1>7 DEF CpuInvariant

LEMMA TickKeeps ==
  ASSUME CpuInvariant, Tick
  PROVE  CpuInvariant' /\ Running' = Running
<1>1. /\ \A b \in bursts : b.left > 0
      /\ bursts' = {[b EXCEPT !.left = @ - 1] : b \in bursts}
      /\ kind' = kind /\ sched' = sched /\ total' = total /\ rest' = rest /\ active' = active
      /\ routine' = routine /\ finished' = finished /\ cleared' = cleared
  BY DEF Tick
<1>2. /\ TypeOK /\ InOnePlace /\ BurstsFit /\ NoIdleThread /\ SchedulerFits(kind, sched, rest, total)
      /\ IsFiniteSet(active) /\ Cardinality(active) <= Threads
      /\ cleared => ~routine /\ Waiting(sched) = {}
  BY DEF CpuInvariant
<1> DEFINE older(b) == [b EXCEPT !.left = @ - 1]
<1>3. \A b \in bursts : older(b) \in Burst /\ older(b).process = b.process /\ older(b).work = b.work
  BY <1>1, <1>2 DEF TypeOK, Burst
<1>4. bursts' = {older(b) : b \in bursts}
  BY <1>1
<1> HIDE DEF older
<1>5. Running' = Running
  BY <1>3, <1>4 DEF Running
<1>6. TypeOK'
  BY <1>1, <1>2, <1>3, <1>4 DEF TypeOK
<1>7. \A b, d \in bursts' : b.process = d.process => b = d
  BY <1>2, <1>3, <1>4 DEF InOnePlace
<1>8. InOnePlace'
  BY <1>1, <1>2, <1>5, <1>7 DEF InOnePlace
<1>9. NoIdleThread'
  BY <1>1, <1>2 DEF NoIdleThread
<1>10. BurstsFit'
  BY <1>1, <1>2, <1>3, <1>4 DEF BurstsFit
<1>11. QED BY <1>1, <1>2, <1>5, <1>6, <1>8, <1>9, <1>10 DEF CpuInvariant

LEMMA StutterKeeps == CpuInvariant /\ UNCHANGED vars => CpuInvariant'
BY DEF vars, CpuInvariant, TypeOK, InOnePlace, NoIdleThread, BurstsFit, Running

LEMMA NextKeeps == CpuInvariant /\ [Next]_vars => CpuInvariant'
<1> SUFFICES ASSUME CpuInvariant, [Next]_vars PROVE CpuInvariant'
  OBVIOUS
<1>1. ASSUME NEW p \in Process, SubmitProcess(p) PROVE CpuInvariant'
  BY <1>1, SubmitKeeps
<1>2. ASSUME NEW p \in Process, Complete(p) PROVE CpuInvariant'
  BY <1>2, CompleteKeeps
<1>3. CASE Routine
  BY <1>3, RoutineKeeps
<1>4. ASSUME NEW b \in bursts, EndBurst(b) PROVE CpuInvariant'
  BY <1>4, EndBurstKeeps
<1>5. CASE Clear
  BY <1>5, ClearKeeps
<1>6. CASE Tick
  BY <1>6, TickKeeps
<1>7. CASE UNCHANGED vars
  BY <1>7, StutterKeeps
<1>8. QED BY <1>1, <1>2, <1>3, <1>4, <1>5, <1>6, <1>7 DEF Next

\* Under every scheduler each process waits once, computes or is finished,
\* the queues are well-formed, in the order that the scheduler promises, and
\* the counted work demand is that of the processes that wait.
THEOREM CpuInvariantHolds == Spec => []CpuInvariant
BY InitHolds, NextKeeps, PTL DEF Spec

\* While a process waits for a thread, no thread is free unless the CPU's
\* event is about to assign it.
THEOREM NoThreadIdles == Spec => []NoIdleThread
<1>1. CpuInvariant => NoIdleThread
  BY DEF CpuInvariant
<1>2. QED BY <1>1, CpuInvariantHolds, PTL

\* A burst never does more work than its process has left (the exception of
\* reduceDemandRemainder is never thrown), and a shorter one does at least
\* the minimum quantum.
THEOREM EveryBurstFits == Spec => []BurstsFit
<1>1. CpuInvariant => BurstsFit
  BY DEF CpuInvariant
<1>2. QED BY <1>1, CpuInvariantHolds, PTL

\* The first-in first-out scheduler counts the work demand of the processes
\* in its queue, which the load balancer and the autoscaler read.
THEOREM WorkDemandIsCounted == Spec => []WorkDemandCounted
<1>1. CpuInvariant => WorkDemandCounted
  BY DEF CpuInvariant, SchedulerFits, WorkDemandCounted
<1>2. QED BY <1>1, CpuInvariantHolds, PTL

-----------------------------------------------------------------------------
(* The CPU implements the Processor.                                       *)

LEMMA InitMaps == Init => Proc!Init
<1> SUFFICES ASSUME Init PROVE Proc!Init
  OBVIOUS
<1>1. Waiting(sched) = {}
  BY NewFits DEF Init
<1>2. Running = {}
  BY DEF Init, Running
<1>3. QED BY <1>1, <1>2 DEF Init, Proc!Init

LEMMA SubmitMaps ==
  ASSUME CpuInvariant, NEW p \in Process, SubmitProcess(p) PROVE Proc!Submit(p)
<1>1. Waiting(sched)' = Waiting(sched) \cup {p}
  BY SubmitKeeps
<1>2. Running \subseteq active
  BY BurstsHeld
<1>3. Running' = Running
  BY DEF SubmitProcess, Running
<1>4. QED BY <1>1, <1>2, <1>3 DEF SubmitProcess, Proc!Submit

LEMMA CompleteMaps ==
  ASSUME CpuInvariant, NEW p \in Process, Complete(p) PROVE Proc!Complete(p)
<1>1. Waiting(sched)' = Waiting(sched) /\ Running' = Running
  BY DEF Complete, Running
<1>2. QED BY <1>1 DEF Complete, Proc!Complete

\* The threads that the CPU's event assigns, if any, are all it can assign.
LEMMA RoutineMaps ==
  ASSUME CpuInvariant, Routine
  PROVE  (\E S \in SUBSET (Waiting(sched) \cup Running) : Proc!Assign(S)) \/ UNCHANGED Proc!vars
<1> DEFINE S == active' \ active
<1>1. /\ CpuInvariant'
      /\ Waiting(sched)' \cup active' = Waiting(sched) \cup active
      /\ active \subseteq active' /\ Running = active /\ Running' = active'
      /\ ~(HasProcessesToSchedule(sched') /\ ThreadsAvailable(active'))
      /\ Waiting(sched)' = Waiting(sched')
  BY RoutineKeeps
<1>2. rest' = rest /\ finished' = finished
  BY DEF Routine
<1>3. CASE S = {}
  <2>1. active' = active
    BY <1>1, <1>3
  <2>2. QED BY <1>1, <1>2, <2>1 DEF Proc!vars
<1>4. CASE S # {}
  <2>1. Cardinality(active') \in Nat /\ Cardinality(active') <= Threads /\ Threads \in Nat
    BY <1>1, FS_CardinalityType, CpuAssumption DEF CpuInvariant
  <2>2. Waiting(sched)' = {} \/ Cardinality(active') = Threads
    BY <1>1, <2>1 DEF HasProcessesToSchedule, ThreadsAvailable
  <2>3. S \in SUBSET (Waiting(sched) \cup Running) /\ Running \cap S = {} /\ Running' = Running \cup S
    BY <1>1
  <2>4. Running' \subseteq (Waiting(sched) \cup Running)
    BY <1>1, <2>3
  <2>5. Waiting(sched)' \cup Running' = Waiting(sched) \cup Running
    BY <1>1
  <2>6. Waiting(sched)' = {} => Running' = Waiting(sched) \cup Running
    BY <2>5
  <2>7. Cardinality(Running') <= Threads
    BY <1>1, <2>1
  <2>8. Waiting(sched)' # {} => Cardinality(Running') = Threads
    BY <1>1, <2>2
  <2> HIDE DEF S
  <2>9. Proc!Cardinality(Running') = Cardinality(Running')
    BY DEF Proc!Cardinality, Cardinality
  <2>10. Proc!Assign(S)
    BY <1>2, <1>4, <2>3, <2>4, <2>5, <2>6, <2>7, <2>8, <2>9 DEF Proc!Assign
  <2>11. QED BY <2>3, <2>10
<1>5. QED BY <1>3, <1>4

LEMMA EndBurstMaps ==
  ASSUME CpuInvariant, NEW b \in bursts, EndBurst(b)
  PROVE  \E p \in Running : \E n \in 0..rest[p] : Proc!EndBurst(p, n)
<1> DEFINE p == b.process
           n == b.work
<1>1. /\ p \in Running /\ Running = active /\ Running' = active \ {p}
      /\ rest[p] \in Nat /\ n \in 0..rest[p] /\ (rest[p] > 0 => n > 0)
      /\ rest' = [rest EXCEPT ![p] = @ - n]
      /\ IF n = rest[p]
         THEN Waiting(sched') = Waiting(sched) /\ finished' = finished \cup {p}
         ELSE Waiting(sched') = Waiting(sched) \cup {p} /\ finished' = finished
  BY EndBurstKeeps
<1> HIDE DEF p, n
<1>2. p \notin Waiting(sched)
  BY <1>1 DEF CpuInvariant, InOnePlace
<1>3. Running' = Running \ {p}
  BY <1>1
<1>4. IF n = rest[p]
      THEN Waiting(sched)' \cup Running' = (Waiting(sched) \cup Running) \ {p}
           /\ finished' = finished \cup {p}
      ELSE Waiting(sched)' \cup Running' = Waiting(sched) \cup Running /\ finished' = finished
  <2>1. CASE n = rest[p]
    BY <1>1, <1>2, <1>3, <2>1
  <2>2. CASE n # rest[p]
    BY <1>1, <1>3, <2>2
  <2>3. QED BY <2>1, <2>2
<1>5. Proc!EndBurst(p, n)
  BY <1>1, <1>3, <1>4 DEF Proc!EndBurst
<1>6. QED BY <1>1, <1>5

LEMMA NextMaps == CpuInvariant /\ [Next]_vars => [Proc!Next]_(Proc!vars)
<1> SUFFICES ASSUME CpuInvariant, [Next]_vars PROVE Proc!Next \/ UNCHANGED Proc!vars
  BY Zenon
<1>1. ASSUME NEW p \in Process, SubmitProcess(p) PROVE Proc!Next
  BY <1>1, SubmitMaps DEF Proc!Next
<1>2. ASSUME NEW p \in Process, Complete(p) PROVE Proc!Next
  BY <1>2, CompleteMaps DEF Proc!Next
<1>3. CASE Routine
  BY <1>3, RoutineMaps DEF Proc!Next
<1>4. ASSUME NEW b \in bursts, EndBurst(b) PROVE Proc!Next
  BY <1>4, EndBurstMaps DEF Proc!Next
<1>5. CASE Clear
  <2>1. Waiting(sched)' = {} /\ Running' = {}
    BY <1>5, ClearKeeps
  <2>2. Waiting(sched)' \cup Running' = {}
    BY <2>1
  <2>3. Proc!Clear
    BY <1>5, <2>1, <2>2 DEF Clear, Proc!Clear
  <2>4. QED BY <2>3 DEF Proc!Next
<1>6. CASE Tick
  <2>1. Running' = Running
    BY <1>6, TickKeeps
  <2>2. QED BY <1>6, <2>1 DEF Tick, Proc!vars
<1>7. CASE UNCHANGED vars
  BY <1>7 DEF vars, Proc!vars, Running
<1>8. QED BY <1>1, <1>2, <1>3, <1>4, <1>5, <1>6, <1>7 DEF Next

\* Whatever its scheduler, the CPU is a Processor: each process is computed
\* to the end, once, on one of the threads, and the CPU's event leaves none
\* of them idle.
THEOREM CpuIsProcessor == Spec => IsProcessor
BY InitMaps, NextMaps, CpuInvariantHolds, PTL DEF Spec, IsProcessor, Proc!Spec
=============================================================================
