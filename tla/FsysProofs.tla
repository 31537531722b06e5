----------------------------- MODULE FsysProofs ----------------------------
(***************************************************************************)
(* Proofs about the filesystem drivers, for every disk that is well formed *)
(* (the assumptions of FsysRead, FsysDir and Fsys), every number of        *)
(* pointers, extents and nodes, and every order of opens, seeks and reads. *)
(***************************************************************************)
EXTENDS Fsys, SequenceTheorems, WellFoundedInduction, TLAPS

----------------------------------------------------------------------------
(* Induction, with the property as a set.                                  *)

LEMMA Naturals ==
  ASSUME NEW S, 0 \in S, \A n \in Nat : n \in S => n + 1 \in S
  PROVE  Nat \subseteq S
<1> DEFINE T == Nat \ S
           R == OpToRel(<, Nat)
<1>1. SUFFICES ASSUME T # {} PROVE FALSE
  OBVIOUS
<1>2. IsWellFoundedOn(R, Nat)
  BY NatLessThanWellFounded
<1>3. PICK x \in T : \A y \in T : ~(<<y, x>> \in R)
  <2> HIDE DEF R
  <2> QED BY <1>1, <1>2, WFMin
<1>4. x \in Nat /\ x # 0 /\ x - 1 \in Nat
  OBVIOUS
<1>5. \A y \in T : ~(y < x)
  BY <1>3 DEF OpToRel
<1>6. x - 1 \in S
  BY <1>4, <1>5
<1> QED BY <1>4, <1>6

----------------------------------------------------------------------------
(* Extents.                                                                *)

Count(f) == Len(Ext[f])
EndOf(f, i) == Ext[f][i].off + Ext[f][i].len
Holds(f, i, n) == i \in 1 .. Count(f) /\ Ext[f][i].off <= n /\ n < EndOf(f, i)

LEMMA Extents ==
  ASSUME NEW f \in Files
  PROVE  /\ Count(f) \in Nat \ {0} /\ DOMAIN Ext[f] = 1 .. Count(f)
         /\ \A i \in 1 .. Count(f) : /\ Ext[f][i].off \in Nat
                                     /\ Ext[f][i].len \in Nat \ {0}
                                     /\ Ext[f][i].start \in Nat
                                     /\ EndOf(f, i) \in Nat /\ Ext[f][i].off < EndOf(f, i)
         /\ Ext[f][1].off = 0 /\ EndOf(f, Count(f)) = Blocks[f]
         /\ \A i \in 1 .. Count(f) - 1 : Ext[f][i + 1].off = EndOf(f, i)
<1> DEFINE x == Ext[f]
           E == [off : Nat, len : Nat \ {0}, start : Nat]
<1>1. /\ x \in Seq(E) /\ x # <<>>
      /\ x[1].off = 0 /\ x[Len(x)].off + x[Len(x)].len = Blocks[f]
      /\ \A i \in 1 .. Len(x) - 1 : x[i + 1].off = x[i].off + x[i].len
  BY ExtentAssumption
<1>2. Len(x) \in Nat \ {0} /\ DOMAIN x = 1 .. Len(x) /\ \A i \in 1 .. Len(x) : x[i] \in E
  <2> HIDE DEF E, x
  <2> QED BY <1>1
<1>3. \A e \in E : e.off \in Nat /\ e.len \in Nat \ {0} /\ e.start \in Nat
  OBVIOUS
<1>4. /\ Count(f) \in Nat \ {0} /\ DOMAIN Ext[f] = 1 .. Count(f)
      /\ \A i \in 1 .. Count(f) : /\ Ext[f][i].off \in Nat
                                  /\ Ext[f][i].len \in Nat \ {0}
                                  /\ Ext[f][i].start \in Nat
  <2> HIDE DEF E
  <2> QED BY <1>2, <1>3 DEF Count
<1>5. \A i \in 1 .. Count(f) : EndOf(f, i) \in Nat /\ Ext[f][i].off < EndOf(f, i)
  BY <1>4 DEF EndOf
<1> HIDE DEF E
<1> QED BY <1>1, <1>4, <1>5 DEF Count, EndOf

\* Every extent ends before the later ones begin.
LEMMA InOrder ==
  ASSUME NEW f \in Files, NEW j \in 1 .. Count(f), NEW i \in 1 .. j - 1
  PROVE  EndOf(f, i) <= Ext[f][j].off
<1> DEFINE S == {n \in Nat : n + 1 <= Count(f) => \A k \in 1 .. n : EndOf(f, k) <= Ext[f][n + 1].off}
<1>1. 0 \in S
  OBVIOUS
<1>2. ASSUME NEW n \in Nat, n \in S PROVE n + 1 \in S
  <2>1. SUFFICES ASSUME n + 2 <= Count(f), NEW k \in 1 .. n + 1
                 PROVE EndOf(f, k) <= Ext[f][n + 2].off
    OBVIOUS
  <2> DEFINE m == n + 1
  <2>a. m \in 1 .. Count(f) - 1 /\ m \in 1 .. Count(f) /\ k \in 1 .. Count(f) /\ m + 1 = n + 2
    BY <2>1, Extents
  <2>2. /\ Ext[f][n + 2].off = EndOf(f, n + 1) /\ n + 1 \in 1 .. Count(f)
        /\ Ext[f][n + 1].off \in Nat /\ EndOf(f, n + 1) > Ext[f][n + 1].off
        /\ EndOf(f, k) \in Nat /\ EndOf(f, m) \in Nat
    <3> HIDE DEF m
    <3>1. /\ Ext[f][m + 1].off = EndOf(f, m) /\ Ext[f][m].off \in Nat /\ EndOf(f, m) > Ext[f][m].off
          /\ EndOf(f, k) \in Nat /\ EndOf(f, m) \in Nat
      BY <2>a, Extents
    <3> QED BY <2>a, <3>1 DEF m
  <2>3. CASE k = n + 1
    BY <2>2, <2>3
  <2>4. CASE k # n + 1
    <3>1. EndOf(f, k) <= Ext[f][n + 1].off
      BY <1>2, <2>1, <2>4, Extents
    <3> QED BY <2>2, <3>1, Extents DEF EndOf
  <2> QED BY <2>3, <2>4
<1>3. j - 1 \in S
  <2> HIDE DEF S
  <2>1. Nat \subseteq S
    BY <1>1, <1>2, Naturals
  <2> QED BY <2>1
<1> QED BY <1>3, Extents

LEMMA OneExtent ==
  ASSUME NEW f \in Files, NEW n \in Int, NEW i, NEW j, Holds(f, i, n), Holds(f, j, n)
  PROVE  i = j
<1>1. i \in 1 .. Count(f) /\ j \in 1 .. Count(f) /\ Count(f) \in Nat
  BY Extents DEF Holds
<1>2. /\ Ext[f][i].off \in Nat /\ Ext[f][j].off \in Nat /\ EndOf(f, i) \in Nat /\ EndOf(f, j) \in Nat
  BY <1>1, Extents DEF EndOf
<1>3. CASE i < j
  BY <1>1, <1>2, <1>3, InOrder DEF Holds
<1>4. CASE j < i
  BY <1>1, <1>2, <1>4, InOrder DEF Holds
<1> QED BY <1>1, <1>3, <1>4

LEMMA SomeExtent ==
  ASSUME NEW f \in Files, NEW n \in 0 .. Blocks[f] - 1
  PROVE  \E i \in 1 .. Count(f) : Holds(f, i, n)
<1> DEFINE S == {k \in Nat : k + 1 <= Count(f) =>
                   (\E i \in 1 .. k + 1 : Holds(f, i, n)) \/ EndOf(f, k + 1) <= n}
<1> USE Extents
<1>1. 0 \in S
  <2>1. 1 \in 1 .. Count(f) /\ EndOf(f, 1) \in Nat /\ Ext[f][1].off = 0
    OBVIOUS
  <2>2. Holds(f, 1, n) \/ EndOf(f, 1) <= n
    BY <2>1 DEF Holds
  <2> QED BY <2>2
<1>2. ASSUME NEW k \in Nat, k \in S PROVE k + 1 \in S
  <2>1. SUFFICES ASSUME k + 2 <= Count(f) 
                 PROVE (\E i \in 1 .. k + 2 : Holds(f, i, n)) \/ EndOf(f, k + 2) <= n
    OBVIOUS
  <2>2. Ext[f][k + 2].off = EndOf(f, k + 1) /\ k + 2 \in 1 .. Count(f)
    BY <2>1
  <2>3. CASE \E i \in 1 .. k + 1 : Holds(f, i, n)
    BY <2>3
  <2>4. CASE EndOf(f, k + 1) <= n
    <3>1. EndOf(f, k + 2) \in Nat
      BY <2>2 DEF EndOf
    <3> QED BY <2>2, <2>4, <3>1 DEF Holds
  <2> QED BY <1>2, <2>1, <2>3, <2>4
<1>3. Count(f) - 1 \in S
  <2> HIDE DEF S
  <2>1. Nat \subseteq S
    BY <1>1, <1>2, Naturals
  <2> QED BY <2>1
<1> QED BY <1>3, FsysAssumption

LEMMA PhysIs ==
  ASSUME NEW f \in Files, NEW n \in Int, NEW i, Holds(f, i, n)
  PROVE  Phys(f, n) = Ext[f][i].start + n - Ext[f][i].off /\ Phys(f, n) \in Nat
<1> DEFINE P(k) == Ext[f][k].off <= n /\ n < Ext[f][k].off + Ext[f][k].len
           e == CHOOSE k \in DOMAIN Ext[f] : P(k)
<1>1. \A k : Holds(f, k, n) <=> k \in DOMAIN Ext[f] /\ P(k)
  BY Extents DEF Holds, EndOf
<1>2. e \in DOMAIN Ext[f] /\ P(e)
  BY <1>1
<1>3. e = i
  BY <1>1, <1>2, OneExtent
<1>4. Phys(f, n) = Ext[f][e].start + n - Ext[f][e].off
  BY DEF Phys
<1>5. i \in 1 .. Count(f) /\ Ext[f][i].off <= n
  BY DEF Holds
<1> HIDE DEF e
<1> QED BY <1>3, <1>4, <1>5, Extents

\* The block that a position has on the disk holds that position.
LEMMA AtPhys ==
  ASSUME NEW f \in Files, NEW n \in 0 .. Blocks[f] - 1
  PROVE  At(Phys(f, n)) = <<f, n>>
<1> DEFINE u == <<f, n>>
<1>1. u \in Used
  BY DEF Used
<1>2. u[1] = f /\ u[2] = n
  OBVIOUS
<1>3. Phys(f, n) \in DOMAIN Disk
  BY <1>1, <1>2 DEF Disk
<1>4. Disk[Phys(f, n)] = CHOOSE v \in Used : Phys(v[1], v[2]) = Phys(f, n)
  BY <1>1, <1>2 DEF Disk
<1> DEFINE v == CHOOSE v \in Used : Phys(v[1], v[2]) = Phys(f, n)
<1>5. v \in Used /\ Phys(v[1], v[2]) = Phys(u[1], u[2])
  BY <1>1, <1>2
<1>6. v = u
  <2> HIDE DEF v, u
  <2> QED BY <1>1, <1>5, BlockAssumption
<1> QED BY <1>3, <1>4, <1>6 DEF At

\* The block that an extent gives for one of its positions.
LEMMA AtExtent ==
  ASSUME NEW f \in Files, NEW n \in Int, NEW i, Holds(f, i, n)
  PROVE  n \in 0 .. Blocks[f] - 1 /\ At(Ext[f][i].start + n - Ext[f][i].off) = <<f, n>>
<1>1. i \in 1 .. Count(f) /\ Ext[f][i].off <= n /\ n < EndOf(f, i)
  BY DEF Holds
<1>2. EndOf(f, i) <= Blocks[f]
  <2>a. /\ Count(f) \in Nat \ {0} /\ EndOf(f, Count(f)) = Blocks[f] /\ EndOf(f, i) \in Nat
        /\ Count(f) \in 1 .. Count(f)
    BY <1>1, Extents
  <2>b. Ext[f][Count(f)].off \in Nat /\ Ext[f][Count(f)].off < EndOf(f, Count(f))
         /\ EndOf(f, Count(f)) \in Nat
    BY <2>a, Extents
  <2>1. CASE i = Count(f)
    BY <2>1, <2>a
  <2>2. CASE i # Count(f)
    <3>1. EndOf(f, i) <= Ext[f][Count(f)].off
      BY <1>1, <2>2, <2>a, InOrder
    <3> QED BY <2>a, <2>b, <3>1
  <2> QED BY <2>1, <2>2
<1>3. n \in 0 .. Blocks[f] - 1
  BY <1>1, <1>2, Extents, FsysAssumption DEF EndOf
<1> QED BY <1>3, PhysIs, AtPhys

----------------------------------------------------------------------------
(* ext4: bisection.                                                        *)

Half(l, r) == l + (r - l) \div 2

LEMMA Halves ==
  ASSUME NEW l \in Nat, NEW r \in Nat, l <= r
  PROVE  Half(l, r) \in Nat /\ l <= Half(l, r) /\ Half(l, r) <= r
BY DEF Half

\* Where the search ends in a table whose entries up to K begin before the block.
Found4(K, l, r) == IF l > r THEN l - 1 ELSE IF K < l THEN l - 1 ELSE IF K > r THEN r ELSE K

LEMMA BinSearchLow ==
  ASSUME NEW r0 \in Nat \ {0}, NEW K \in 1 .. r0,
         NEW l \in 1 .. r0 + 1, NEW r \in 0 .. r0, l <= r, Half(l, r) > K
  PROVE  /\ Half(l, r) - 1 \in 0 .. r0
         /\ Found4(K, l, r) = Found4(K, l, Half(l, r) - 1)
<1> DEFINE m == Half(l, r)
<1>1. m \in 1 .. r0 /\ l <= m /\ m <= r /\ m > K
  BY Halves
<1> HIDE DEF m
<1>2. m - 1 \in 0 .. r0 /\ Found4(K, l, r) = Found4(K, l, m - 1)
  BY <1>1 DEF Found4
<1> QED BY <1>2 DEF m

LEMMA BinSearchHigh ==
  ASSUME NEW r0 \in Nat \ {0}, NEW K \in 1 .. r0,
         NEW l \in 1 .. r0 + 1, NEW r \in 0 .. r0, l <= r, ~(Half(l, r) > K)
  PROVE  /\ Half(l, r) + 1 \in 1 .. r0 + 1
         /\ Found4(K, l, r) = Found4(K, Half(l, r) + 1, r)
<1> DEFINE m == Half(l, r)
<1>0. m \in Nat /\ l <= m /\ m <= r
  BY Halves
<1>1. m \in 1 .. r0 /\ l <= m /\ m <= r /\ ~(m > K)
  BY <1>0
<1> HIDE DEF m
<1>2. m + 1 \in 1 .. r0 + 1 /\ Found4(K, l, r) = Found4(K, m + 1, r)
  BY <1>1 DEF Found4
<1> QED BY <1>2 DEF m

LEMMA BinSearch ==
  ASSUME NEW r0 \in Nat \ {0}, NEW K \in 1 .. r0, NEW first, NEW n,
         \A i \in 1 .. r0 : (n < first[i]) <=> i > K
  PROVE  binsearch(first, 2, r0, n) = K
<1> DEFINE D == (1 .. r0 + 1) \X (0 .. r0)
           Next1(h, p) == IF p[1] > p[2] THEN p[1] - 1
                          ELSE IF n < first[Half(p[1], p[2])] THEN h[<<p[1], Half(p[1], p[2]) - 1>>]
                               ELSE h[<<Half(p[1], p[2]) + 1, p[2]>>]
           Is(h) == h = [p \in D |-> Next1(h, p)]
           G == [p \in D |-> Found4(K, p[1], p[2])]
           search == CHOOSE h : Is(h)
<1>0. \A l \in 1 .. r0 + 1, r \in 0 .. r0 :
        l <= r => ((n < first[Half(l, r)]) <=> Half(l, r) > K)
  <2> SUFFICES ASSUME NEW l \in 1 .. r0 + 1, NEW r \in 0 .. r0, l <= r
               PROVE  (n < first[Half(l, r)]) <=> Half(l, r) > K
    OBVIOUS
  <2>1. Half(l, r) \in 1 .. r0
    BY Halves
  <2> QED BY <2>1
<1>1. \A l \in 1 .. r0 + 1, r \in 0 .. r0 : G[<<l, r>>] = Found4(K, l, r)
  OBVIOUS
<1>2. Is(G)
  <2>1. ASSUME NEW l \in 1 .. r0 + 1, NEW r \in 0 .. r0
        PROVE  Found4(K, l, r) = Next1(G, <<l, r>>)
    <3> HIDE DEF G
    <3>1. CASE l > r
      BY <3>1 DEF Found4
    <3>2. CASE ~(l > r) /\ n < first[Half(l, r)]
      <4>1. /\ Half(l, r) - 1 \in 0 .. r0
            /\ Found4(K, l, r) = Found4(K, l, Half(l, r) - 1)
        BY <3>2, BinSearchLow, <1>0
      <4>2. G[<<l, Half(l, r) - 1>>] = Found4(K, l, Half(l, r) - 1)
        BY <1>1, <4>1
      <4> QED BY <3>2, <4>1, <4>2
    <3>3. CASE ~(l > r) /\ ~(n < first[Half(l, r)])
      <4>1. /\ Half(l, r) + 1 \in 1 .. r0 + 1
            /\ Found4(K, l, r) = Found4(K, Half(l, r) + 1, r)
        BY <3>3, BinSearchHigh, <1>0
      <4>2. G[<<Half(l, r) + 1, r>>] = Found4(K, Half(l, r) + 1, r)
        BY <1>1, <4>1
      <4> QED BY <3>3, <4>1, <4>2
    <3> QED BY <3>1, <3>2, <3>3
  <2>2. ASSUME NEW p \in D PROVE Found4(K, p[1], p[2]) = Next1(G, p)
    <3> HIDE DEF G
    <3>1. PICK l \in 1 .. r0 + 1, r \in 0 .. r0 : p = <<l, r>>
      OBVIOUS
    <3> QED BY <2>1, <3>1
  <2> QED BY <2>2
<1>3. Is(search)
  <2> HIDE DEF Is, G
  <2> QED BY <1>2
<1>4. \A l \in 1 .. r0 + 1, r \in 0 .. r0 :
        search[<<l, r>>] = IF l > r THEN l - 1
                       ELSE IF n < first[Half(l, r)] THEN search[<<l, Half(l, r) - 1>>]
                                                    ELSE search[<<Half(l, r) + 1, r>>]
  <2> HIDE DEF search
  <2>1. ASSUME NEW p \in D PROVE search[p] = Next1(search, p)
    <3> HIDE DEF Next1
    <3> QED BY <1>3
  <2>2. ASSUME NEW l \in 1 .. r0 + 1, NEW r \in 0 .. r0
        PROVE  search[<<l, r>>] = IF l > r THEN l - 1
                       ELSE IF n < first[Half(l, r)] THEN search[<<l, Half(l, r) - 1>>]
                                                    ELSE search[<<Half(l, r) + 1, r>>]
    BY <2>1
  <2> QED BY <2>2
<1>5. ASSUME NEW l \in 1 .. r0 + 1, NEW r \in 0 .. r0
      PROVE  search[<<l, r>>] = Found4(K, l, r)
  <2> HIDE DEF search
  <2> DEFINE S == {k \in Nat : \A a \in 1 .. r0 + 1, b \in 0 .. r0 :
                                  b + 1 - a <= k => search[<<a, b>>] = Found4(K, a, b)}
  <2>1. 0 \in S
    <3> SUFFICES ASSUME NEW a \in 1 .. r0 + 1, NEW b \in 0 .. r0, b + 1 - a <= 0
                 PROVE  search[<<a, b>>] = Found4(K, a, b)
      OBVIOUS
    <3>1. a > b
      OBVIOUS
    <3> QED BY <3>1, <1>4 DEF Found4
  <2>2. ASSUME NEW k \in Nat, k \in S PROVE k + 1 \in S
    <3> SUFFICES ASSUME NEW a \in 1 .. r0 + 1, NEW b \in 0 .. r0, b + 1 - a <= k + 1
                 PROVE  search[<<a, b>>] = Found4(K, a, b)
      OBVIOUS
    <3> DEFINE m == Half(a, b)
    <3>0. a <= b => m \in Nat /\ a <= m /\ m <= b
      BY Halves
    <3>4. a <= b => (n < first[m] <=> m > K)
      BY <1>0
    <3>5. search[<<a, b>>] = IF a > b THEN a - 1
                             ELSE IF n < first[m] THEN search[<<a, m - 1>>] ELSE search[<<m + 1, b>>]
      BY <1>4
    <3>1. CASE a > b
      BY <3>1, <1>4 DEF Found4
    <3>2. CASE a <= b /\ n < first[m]
      <4>1. m - 1 \in 0 .. r0 /\ Found4(K, a, b) = Found4(K, a, m - 1)
        BY <3>2, BinSearchLow, <3>4
      <4>2. search[<<a, b>>] = search[<<a, m - 1>>]
        BY <3>2, <3>5
      <4>3. search[<<a, m - 1>>] = Found4(K, a, m - 1)
        <5> HIDE DEF m
        <5>1. (m - 1) + 1 - a <= k
          BY <3>0, <3>2, <4>1
        <5> QED BY <2>2, <4>1, <5>1
      <4> QED BY <4>1, <4>2, <4>3
    <3>3. CASE a <= b /\ ~(n < first[m])
      <4>1. m + 1 \in 1 .. r0 + 1 /\ Found4(K, a, b) = Found4(K, m + 1, b)
        BY <3>3, BinSearchHigh, <3>4
      <4>2. search[<<a, b>>] = search[<<m + 1, b>>]
        BY <3>3, <3>5
      <4>3. search[<<m + 1, b>>] = Found4(K, m + 1, b)
        <5> HIDE DEF m
        <5>1. b + 1 - (m + 1) <= k
          BY <3>0, <3>3, <4>1
        <5> QED BY <2>2, <4>1, <5>1
      <4> QED BY <4>1, <4>2, <4>3
    <3> QED BY <3>1, <3>2, <3>3
  <2>3. Nat \subseteq S
    <3> HIDE DEF S
    <3> QED BY <2>1, <2>2, Naturals
  <2>4. CASE r + 1 - l <= 0
    BY <2>1, <2>4
  <2>5. CASE ~(r + 1 - l <= 0)
    <3>1. r + 1 - l \in S
      <4>1. r + 1 - l \in Nat
        BY <2>5
      <4> HIDE DEF S
      <4> QED BY <2>3, <4>1
    <3>2. r + 1 - l <= r + 1 - l
      OBVIOUS
    <3> HIDE DEF search
    <3>3. \A a \in 1 .. r0 + 1, b \in 0 .. r0 : b + 1 - a <= r + 1 - l => search[<<a, b>>] = Found4(K, a, b)
      BY <3>1
    <3> QED BY <3>2, <3>3
  <2> QED BY <2>4, <2>5
<1>6. binsearch(first, 2, r0, n) = search[<<2, r0>>]
  BY DEF binsearch, Half
<1>7. search[<<2, r0>>] = Found4(K, 2, r0)
  <2> HIDE DEF search
  <2> QED BY <1>5
<1> QED BY <1>6, <1>7 DEF Found4

----------------------------------------------------------------------------
(* The leaves of an extent tree.                                           *)

LEMMA Divide ==
  ASSUME NEW a \in Nat, NEW p \in Nat \ {0}
  PROVE  /\ a \div p \in Nat /\ a % p \in 0 .. p - 1
         /\ a = p * (a \div p) + (a % p)
<1>1. a % p \in 0 .. p - 1
  OBVIOUS
<1>2. a = p * (a \div p) + (a % p)
  OBVIOUS
<1>3. a \div p \in Nat
  OBVIOUS
<1> QED BY <1>1, <1>2, <1>3

LEMMA TimesMonotone ==
  ASSUME NEW p \in Nat, NEW a \in Int, NEW b \in Int, a <= b
  PROVE  p * a <= p * b /\ p * a \in Int /\ p * b \in Int
OBVIOUS

LEMMA TimesNext ==
  ASSUME NEW p \in Nat, NEW a \in Int
  PROVE  p * (a + 1) = p * a + p /\ p * (a - 1) = p * a - p /\ p * a \in Int
OBVIOUS

Before(i)  == PerNode * (i - 1)      \* extents before leaf i
Upto(f, i) == IF i = Leaves(f) THEN Count(f) ELSE PerNode * i

LEMMA LeafCount ==
  ASSUME NEW f \in Files
  PROVE  /\ Leaves(f) \in Nat \ {0} /\ Before(Leaves(f)) < Count(f)
         /\ Count(f) <= PerNode * Leaves(f) /\ Before(1) = 0
<1> DEFINE a == Count(f) + PerNode - 1
           q == Leaves(f)
<1>1. Count(f) \in Nat \ {0} /\ PerNode \in Nat \ {0} /\ a \in Nat
  BY Extents, FsysAssumption
<1>2. q \in Nat /\ a % PerNode \in 0 .. PerNode - 1 /\ a = PerNode * q + (a % PerNode)
  BY <1>1, Divide DEF Leaves, Count
<1>3. PerNode * (q - 1) = PerNode * q - PerNode /\ PerNode * q \in Int
  BY <1>1, <1>2, TimesNext
<1>4. q # 0
  <2> HIDE DEF q
  <2>1. SUFFICES ASSUME q = 0 PROVE FALSE
    OBVIOUS
  <2>2. PerNode * q = 0
    BY <1>1, <2>1
  <2> QED BY <1>1, <1>2, <2>2
<1>5. Before(1) = 0
  BY <1>1 DEF Before
<1> DEFINE r == a % PerNode
<1>6. Before(q) = PerNode * q - PerNode
  BY <1>3 DEF Before
<1> QED
  <2>1. r \in Int /\ 0 <= r /\ r <= PerNode - 1 /\ Count(f) + PerNode - 1 = PerNode * q + r
    BY <1>1, <1>2
  <2> HIDE DEF q, r
  <2>2. PerNode * q - PerNode < Count(f) /\ Count(f) <= PerNode * q
    BY <1>1, <1>3, <2>1
  <2> QED BY <1>2, <1>4, <1>5, <1>6, <2>2 DEF q

LEMMA LeafBounds ==
  ASSUME NEW f \in Files, NEW i \in 1 .. Leaves(f)
  PROVE  /\ Before(i) \in Nat /\ Upto(f, i) \in Nat
         /\ Before(i) < Upto(f, i) /\ Upto(f, i) <= Count(f)
         /\ i < Leaves(f) => Before(i + 1) = Upto(f, i)
         /\ \A j \in 1 .. Leaves(f) : i < j => Upto(f, i) <= Before(j)
<1>1. /\ Count(f) \in Nat \ {0} /\ PerNode \in Nat \ {0}
      /\ Leaves(f) \in Nat \ {0} /\ Before(Leaves(f)) < Count(f)
  BY Extents, FsysAssumption, LeafCount
<1>2. i \in Nat /\ 0 <= i - 1
  BY <1>1
<1>3. Before(i) \in Nat
  BY <1>1, <1>2 DEF Before
<1>4. PerNode * (i - 1) = PerNode * i - PerNode /\ PerNode * i \in Int
  BY <1>1, <1>2, TimesNext
<1>5. CASE i = Leaves(f)
  BY <1>1, <1>3, <1>5 DEF Upto
<1>6. CASE i # Leaves(f)
  <2>1. i <= Leaves(f) - 1 /\ Upto(f, i) = PerNode * i
    BY <1>1, <1>6 DEF Upto
  <2>2. PerNode * i <= Before(Leaves(f)) /\ Before(Leaves(f)) \in Int
    BY <1>1, <1>2, <2>1, TimesMonotone DEF Before
  <2>3. Before(i + 1) = PerNode * i
    BY <1>1 DEF Before
  <2>4. ASSUME NEW j \in 1 .. Leaves(f), i < j PROVE PerNode * i <= Before(j)
    <3>1. i <= j - 1 /\ j \in Int
      BY <1>1, <2>4
    <3> QED BY <1>1, <1>2, <3>1, TimesMonotone DEF Before
  <2> QED BY <1>1, <1>3, <1>4, <2>1, <2>2, <2>3, <2>4 DEF Before
<1> QED BY <1>5, <1>6

LEMMA LeafIs ==
  ASSUME NEW f \in Files, NEW i \in 1 .. Leaves(f)
  PROVE  /\ Len(LeafOf(f, i)) = Upto(f, i) - Before(i)
         /\ \A k \in 1 .. Upto(f, i) - Before(i) :
               /\ Before(i) + k \in 1 .. Count(f)
               /\ LeafOf(f, i)[k] = Ext[f][Before(i) + k]
<1> DEFINE m == Before(i) + 1
           n == Upto(f, i)
<1>1. m \in Nat /\ n \in Nat /\ m <= n /\ 1 <= m /\ n <= Count(f) /\ Count(f) \in Nat
  BY LeafBounds, Extents
<1>2. LeafOf(f, i) = SubSeq(Ext[f], m, n)
  BY DEF LeafOf, Before, Upto, Count
<1>3. SubSeq(Ext[f], m, n) = [j \in 1 .. (1 + n - m) |-> Ext[f][j + m - 1]]
  <2> HIDE DEF m, n
  <2>1. Ext[f] \in Seq([off : Nat, len : Nat \ {0}, start : Nat])
    BY ExtentAssumption
  <2> QED BY <1>1, <2>1 DEF Count
<1>4. 1 + n - m = Upto(f, i) - Before(i) /\ 1 + n - m \in Nat
  BY <1>1, LeafBounds
<1>5. Before(i) \in Nat
  BY LeafBounds
<1> DEFINE g == [j \in 1 .. (1 + n - m) |-> Ext[f][j + m - 1]]
<1>6. Len(g) = 1 + n - m
  <2> HIDE DEF n, m
  <2> QED BY <1>4
<1>7. \A k \in 1 .. Upto(f, i) - Before(i) :
         /\ Before(i) + k \in 1 .. Count(f) /\ g[k] = Ext[f][Before(i) + k]
  <2> TAKE k \in 1 .. Upto(f, i) - Before(i)
  <2>1. k + m - 1 = Before(i) + k /\ k \in 1 .. (1 + n - m)
    BY <1>4, <1>5
  <2>2. Before(i) + k \in 1 .. Count(f)
    BY <1>1, <1>4, <1>5, <2>1
  <2> HIDE DEF n, m
  <2> QED BY <2>1, <2>2
<1> HIDE DEF n, m, g
<1> QED BY <1>2, <1>3, <1>4, <1>6, <1>7 DEF g

\* Leaf and place of an extent.
LEMMA LeafWith ==
  ASSUME NEW f \in Files, NEW e \in 1 .. Count(f)
  PROVE  \E i \in 1 .. Leaves(f) : Before(i) < e /\ e <= Upto(f, i)
<1> DEFINE S == {n \in Nat : n + 1 <= Leaves(f) =>
                   \/ e > Upto(f, n + 1)
                   \/ \E i \in 1 .. n + 1 : Before(i) < e /\ e <= Upto(f, i)}
<1>0. /\ Count(f) \in Nat \ {0} /\ Leaves(f) \in Nat \ {0} /\ Before(1) = 0
      /\ e \in Nat /\ e <= Count(f) /\ e > 0
  BY Extents, LeafCount
<1>1. 0 \in S
  <2>1. 1 \in 1 .. Leaves(f)
    BY <1>0
  <2>2. Upto(f, 1) \in Nat
    BY <2>1, LeafBounds
  <2> QED BY <1>0, <2>1, <2>2
<1>2. ASSUME NEW n \in Nat, n \in S PROVE n + 1 \in S
  <2>1. SUFFICES ASSUME n + 2 <= Leaves(f), ~(e > Upto(f, n + 2))
                 PROVE  \E i \in 1 .. n + 2 : Before(i) < e /\ e <= Upto(f, i)
    OBVIOUS
  <2> DEFINE k == n + 1
  <2>2. k \in 1 .. Leaves(f) /\ k < Leaves(f) /\ k + 1 = n + 2 /\ n + 2 \in 1 .. Leaves(f)
    BY <1>0, <2>1
  <2>3. Before(n + 2) = Upto(f, n + 1) /\ Upto(f, n + 2) \in Nat /\ Upto(f, n + 1) \in Nat
    <3> HIDE DEF k
    <3>1. Before(k + 1) = Upto(f, k) /\ Upto(f, k) \in Nat /\ Upto(f, n + 2) \in Nat
      BY <2>2, LeafBounds
    <3> QED BY <2>2, <3>1 DEF k
  <2>4. CASE e > Upto(f, n + 1)
    BY <1>0, <2>1, <2>3, <2>4
  <2>5. CASE \E i \in 1 .. n + 1 : Before(i) < e /\ e <= Upto(f, i)
    BY <2>5
  <2> QED BY <1>2, <2>2, <2>4, <2>5
<1>3. Leaves(f) - 1 \in S
  <2> HIDE DEF S
  <2>1. Nat \subseteq S
    BY <1>1, <1>2, Naturals
  <2> QED BY <1>0, <2>1
<1>4. Upto(f, Leaves(f)) = Count(f)
  BY DEF Upto
<1> QED BY <1>0, <1>3, <1>4

LEMMA Behind ==
  ASSUME NEW f \in Files, NEW n \in Int, NEW e, Holds(f, e, n), NEW k \in 1 .. Count(f)
  PROVE  (n < Ext[f][k].off) <=> k > e
<1>1. /\ Count(f) \in Nat /\ e \in 1 .. Count(f) /\ Ext[f][e].off \in Nat /\ Ext[f][k].off \in Nat
      /\ EndOf(f, e) \in Nat /\ EndOf(f, k) \in Nat /\ Ext[f][k].off < EndOf(f, k)
  BY Extents DEF Holds
<1>2. CASE k > e
  BY <1>1, <1>2, InOrder DEF Holds
<1>3. CASE k = e
  BY <1>1, <1>3 DEF Holds
<1>4. CASE k < e
  BY <1>1, <1>4, InOrder DEF Holds
<1> QED BY <1>1, <1>2, <1>3, <1>4

\* ext4: the block that two bisections find is the block of the file.
LEMMA Ext4Map ==
  ASSUME NEW f \in Files, NEW n \in 0 .. Blocks[f] - 1, NEW m, NEW F, DOMAIN m = F, "map" \in F
  PROVE  ext4fs_block_map(f, n, m) = [m EXCEPT !.map = <<f, n>>]
<1>1. PICK e \in 1 .. Count(f) : Holds(f, e, n)
  BY SomeExtent
<1>2. PICK i \in 1 .. Leaves(f) : Before(i) < e /\ e <= Upto(f, i)
  BY LeafWith
<1>3. Leaves(f) \in Nat \ {0} /\ Before(i) \in Nat /\ Upto(f, i) \in Nat /\ Count(f) \in Nat /\ n \in Int
  BY LeafCount, LeafBounds, Extents, FsysAssumption
<1>4. ext4_ext_binsearch_idx(f, n) = i
  <2> DEFINE first == [j \in 1 .. Leaves(f) |-> LeafOf(f, j)[1].off]
  <2>1. ASSUME NEW j \in 1 .. Leaves(f) PROVE (n < first[j]) <=> j > i
    <3>1. /\ 1 \in 1 .. Upto(f, j) - Before(j) /\ Before(j) \in Nat /\ Upto(f, j) \in Nat
      BY LeafBounds
    <3>2. first[j] = Ext[f][Before(j) + 1].off /\ Before(j) + 1 \in 1 .. Count(f)
      BY <3>1, LeafIs
    <3>3. (n < first[j]) <=> Before(j) + 1 > e
      BY <1>1, <1>3, <3>2, Behind
    <3>4. j > i => Before(j) >= Upto(f, i)
      BY <1>3, LeafBounds
    <3>5. j < i => Upto(f, j) <= Before(i) /\ Before(j) < Upto(f, j)
      BY <1>3, LeafBounds
    <3> HIDE DEF first
    <3> QED BY <1>2, <1>3, <3>1, <3>3, <3>4, <3>5
  <2> HIDE DEF first
  <2>2. binsearch(first, 2, Leaves(f), n) = i
    BY <1>3, <2>1, BinSearch
  <2> QED BY <2>2 DEF ext4_ext_binsearch_idx, first
<1> DEFINE leaf == LeafOf(f, i)
           k == e - Before(i)
<1>5. /\ Len(leaf) = Upto(f, i) - Before(i) /\ Len(leaf) \in Nat \ {0} /\ k \in 1 .. Len(leaf)
      /\ \A j \in 1 .. Len(leaf) : Before(i) + j \in 1 .. Count(f) /\ leaf[j] = Ext[f][Before(i) + j]
  BY <1>2, <1>3, LeafIs, LeafBounds
<1>6. ext4_ext_binsearch(leaf, n) = Ext[f][e]
  <2> DEFINE first == [j \in 1 .. Len(leaf) |-> leaf[j].off]
  <2>1. ASSUME NEW j \in 1 .. Len(leaf) PROVE (n < first[j]) <=> j > k
    <3>1. first[j] = Ext[f][Before(i) + j].off /\ Before(i) + j \in 1 .. Count(f)
      BY <1>5
    <3>2. (n < first[j]) <=> Before(i) + j > e
      BY <1>1, <1>3, <3>1, Behind
    <3> HIDE DEF first, leaf
    <3> QED BY <1>3, <3>2
  <2> HIDE DEF first, leaf, k
  <2>2. binsearch(first, 2, Len(leaf), n) = k
    BY <1>5, <2>1, BinSearch
  <2>3. ext4_ext_binsearch(leaf, n) = leaf[k]
    BY <2>2 DEF ext4_ext_binsearch, first
  <2>4. Before(i) + k = e
    BY <1>3 DEF k
  <2> QED BY <1>5, <2>3, <2>4
<1>7. At(Ext[f][e].start + n - Ext[f][e].off) = <<f, n>>
  BY <1>1, <1>3, AtExtent
<1> HIDE DEF leaf, k
<1> QED BY <1>4, <1>6, <1>7 DEF ext4fs_block_map, leaf

----------------------------------------------------------------------------
(* Maps of pointers.                                                       *)

(* What a driver keeps, by name.                                           *)
MemFields == {"map", "map1", "map2", "d1", "d2", "moff", "ccn", "cc", "win", "buf", "page", "ix", "prev",
              "trans", "table", "key", "end", "nk", "node", "old", "cur", "num", "blk"}

(* mapblock1 says which first level is in DATABLOCK1, mapblock2 which block *)
(* is in DATABLOCK2.                                                       *)
Second(m)   == m.map2 # None => m.d2 = m.map2
MapOK(m, f) == (m.map1 \in {1, 2, 3} => m.d1 = <<f, NDir + m.map1 - 1>>) /\ Second(m)
TopOK(m, f) == (m.map1 \in {1, 2, 3} => m.d1 = Top(f, m.map1)) /\ Second(m)

(* A block of pointers that fits in MAPBUF is there from its start on.     *)
InMapBuf(m) == Second(m) /\ (m.map2 # None => m.moff = 0)
UfsOK(d, m) == Addr <= MapLen[d] => InMapBuf(m)

\* The map after a block of a directory was read over the second level.
Scanned(m) == [m EXCEPT !.map2 = None, !.d2 = m.map]

LEMMA ScannedKeeps ==
  ASSUME NEW m, DOMAIN m = MemFields, NEW f
  PROVE  /\ DOMAIN Scanned(m) = MemFields
         /\ MapOK(m, f) => MapOK(Scanned(m), f)
         /\ TopOK(m, f) => TopOK(Scanned(m), f)
<1>1. /\ DOMAIN Scanned(m) = MemFields /\ Scanned(m).map1 = m.map1 /\ Scanned(m).d1 = m.d1
      /\ Scanned(m).map2 = None
  BY DEF Scanned, MemFields
<1> QED BY <1>1 DEF MapOK, TopOK, Second

LEMMA AppendIs ==
  ASSUME NEW S, NEW s \in Seq(S), NEW e \in S, NEW n \in Nat, Len(s) = n
  PROVE  /\ Append(s, e) \in Seq(S) /\ Len(Append(s, e)) = n + 1
         /\ Append(s, e)[n + 1] = e /\ \A i \in 1 .. n : Append(s, e)[i] = s[i]
BY AppendProperties

LEMMA Pairs ==
  ASSUME NEW a, NEW b, NEW c
  PROVE  Append(<<a, b>>, c) = <<a, b, c>>
<1> DEFINE S == {a, b, c}
           s == <<a, b>>
           u == <<a, b, c>>
           v == Append(s, c)
<1>1. s \in Seq(S) /\ u \in Seq(S) /\ Len(s) = 2 /\ Len(u) = 3
  OBVIOUS
<1>2. c \in S
  OBVIOUS
<1>3. v \in Seq(S) /\ Len(v) = 3 /\ v[3] = c /\ \A i \in 1 .. 2 : v[i] = s[i]
  <2> DEFINE k == 2
  <2>1. k \in Nat /\ Len(s) = k /\ k + 1 = 3 /\ s \in Seq(S)
    BY <1>1
  <2> HIDE DEF S, s, k
  <2>2. /\ v \in Seq(S) /\ Len(v) = k + 1
        /\ v[k + 1] = c /\ \A i \in 1 .. k : v[i] = s[i]
    BY <1>2, <2>1, AppendIs
  <2> HIDE DEF v
  <2>3. /\ v \in Seq(S) /\ Len(v) = 3
        /\ v[3] = c /\ \A i \in 1 .. k : v[i] = s[i]
    BY <2>1, <2>2
  <2> QED BY <2>3 DEF k
<1>4. \A i \in 1 .. 3 : v[i] = u[i]
  <2> TAKE i \in 1 .. 3
  <2>1. CASE i = 3
    BY <1>1, <1>3, <2>1
  <2>2. CASE i # 3
    <3>1. i \in 1 .. Len(s) /\ v[i] = s[i]
      <4> HIDE DEF v, s
      <4> QED BY <1>1, <1>3, <2>2
    <3>2. s[i] = u[i]
      <4> i \in 1 .. 2
        BY <2>2
      <4> QED OBVIOUS
    <3> HIDE DEF s, u, v
    <3> QED BY <3>1, <3>2
  <2> QED BY <2>1, <2>2
<1> HIDE DEF S, s, u, v
<1>5. v = u
  BY <1>1, <1>3, <1>4, SeqEqual
<1> QED BY <1>5 DEF u, v, s

LEMMA Triples ==
  ASSUME NEW a, NEW b, NEW c, NEW d
  PROVE  Append(<<a, b, c>>, d) = <<a, b, c, d>>
<1> DEFINE S == {a, b, c, d}
           s == <<a, b, c>>
           u == <<a, b, c, d>>
           v == Append(s, d)
<1>1. s \in Seq(S) /\ u \in Seq(S) /\ Len(s) = 3 /\ Len(u) = 4
  OBVIOUS
<1>2. d \in S
  OBVIOUS
<1>3. v \in Seq(S) /\ Len(v) = 4 /\ v[4] = d /\ \A i \in 1 .. 3 : v[i] = s[i]
  <2> DEFINE k == 3
  <2>1. k \in Nat /\ Len(s) = k /\ k + 1 = 4 /\ s \in Seq(S)
    BY <1>1
  <2> HIDE DEF S, s, k
  <2>2. /\ v \in Seq(S) /\ Len(v) = k + 1
        /\ v[k + 1] = d /\ \A i \in 1 .. k : v[i] = s[i]
    BY <1>2, <2>1, AppendIs
  <2> HIDE DEF v
  <2>3. /\ v \in Seq(S) /\ Len(v) = 4
        /\ v[4] = d /\ \A i \in 1 .. k : v[i] = s[i]
    BY <2>1, <2>2
  <2> QED BY <2>3 DEF k
<1>4. \A i \in 1 .. 4 : v[i] = u[i]
  <2> TAKE i \in 1 .. 4
  <2>1. CASE i = 4
    BY <1>1, <1>3, <2>1
  <2>2. CASE i # 4
    <3>1. i \in 1 .. Len(s) /\ v[i] = s[i]
      <4> HIDE DEF v, s
      <4> QED BY <1>1, <1>3, <2>2
    <3>2. s[i] = u[i]
      <4> i \in 1 .. 3
        BY <2>2
      <4> QED OBVIOUS
    <3> HIDE DEF s, u, v
    <3> QED BY <3>1, <3>2
  <2> QED BY <2>1, <2>2
<1> HIDE DEF S, s, u, v
<1>5. v = u
  BY <1>1, <1>3, <1>4, SeqEqual
<1> QED BY <1>5 DEF u, v, s

LEMMA Quads ==
  ASSUME NEW a, NEW b, NEW c, NEW d, NEW e
  PROVE  Append(<<a, b, c, d>>, e) = <<a, b, c, d, e>>
<1> DEFINE S == {a, b, c, d, e}
           s == <<a, b, c, d>>
           u == <<a, b, c, d, e>>
           v == Append(s, e)
<1>1. s \in Seq(S) /\ u \in Seq(S) /\ Len(s) = 4 /\ Len(u) = 5
  OBVIOUS
<1>2. e \in S
  OBVIOUS
<1>3. v \in Seq(S) /\ Len(v) = 5 /\ v[5] = e /\ \A i \in 1 .. 4 : v[i] = s[i]
  <2> DEFINE k == 4
  <2>1. k \in Nat /\ Len(s) = k /\ k + 1 = 5 /\ s \in Seq(S)
    BY <1>1
  <2> HIDE DEF S, s, k
  <2>2. /\ v \in Seq(S) /\ Len(v) = k + 1
        /\ v[k + 1] = e /\ \A i \in 1 .. k : v[i] = s[i]
    BY <1>2, <2>1, AppendIs
  <2> HIDE DEF v
  <2>3. /\ v \in Seq(S) /\ Len(v) = 5
        /\ v[5] = e /\ \A i \in 1 .. k : v[i] = s[i]
    BY <2>1, <2>2
  <2> QED BY <2>3 DEF k
<1>4. \A i \in 1 .. 5 : v[i] = u[i]
  <2> TAKE i \in 1 .. 5
  <2>1. CASE i = 5
    BY <1>1, <1>3, <2>1
  <2>2. CASE i # 5
    <3>1. i \in 1 .. Len(s) /\ v[i] = s[i]
      <4> HIDE DEF v, s
      <4> QED BY <1>1, <1>3, <2>2
    <3>2. s[i] = u[i]
      <4> i \in 1 .. 4
        BY <2>2
      <4> QED OBVIOUS
    <3> HIDE DEF s, u, v
    <3> QED BY <3>1, <3>2
  <2> QED BY <2>1, <2>2
<1> HIDE DEF S, s, u, v
<1>5. v = u
  BY <1>1, <1>3, <1>4, SeqEqual
<1> QED BY <1>5 DEF u, v, s

LEMMA MaxInt == MAXINT \in Nat
BY SMT DEF MAXINT

Data(f, n) == IF <<f, n>> \in Sparse THEN Zero ELSE OnDisk(f, n)

\* The last pointer, of a block of the file, leads to data or to a hole.
LEMMA LastPointer ==
  ASSUME NEW f \in Files, NEW n \in 0 .. Blocks[f] - 1
  PROVE  f # 0 /\ (Absent(f, {n}) <=> <<f, n>> \in Sparse)
<1>1. f # 0
  BY FsysAssumption
<1>2. n < Blocks[f]
  BY FsysAssumption, MaxInt
<1>3. Absent(f, {n}) <=> <<f, n>> \in Sparse
  BY <1>2 DEF Absent
<1> QED BY <1>1, <1>3

\* ext2: where no table is absent, every level of the map leads to the block that
\* the format says.
LEMMA Ext2Map ==
  ASSUME NEW f \in Files, NEW n \in 0 .. Blocks[f] - 1, NEW m, DOMAIN m = MemFields, TopOK(m, f)
  PROVE  LET r == ext2fs_block_map(f, n, m)
         IN /\ DOMAIN r = MemFields /\ TopOK(r, f)
            /\ (n >= NDir => \A S \in Tables(n) : ~Absent(f, S)) => r.map = Data(f, n)
<1> DEFINE a == n - NDir
           b == a - Addr
           AA == Addr * Addr
           t == b - AA
           d1(k) == IF m.map1 = k THEN m.d1 ELSE Top(f, k)
           bnum == Pointer(f, d1(2), b \div Addr, Leaf0(n))
           d2 == Cached(bnum, m)
           third == Pointer(f, d1(3), t \div AA, Mid(n))
           t2 == Pointer(f, third, (t \div Addr) % Addr, Leaf0(n))
           There == n >= NDir => \A S \in Tables(n) : ~Absent(f, S)
           r == ext2fs_block_map(f, n, m)
<1> SUFFICES DOMAIN r = MemFields /\ TopOK(r, f) /\ (There => r.map = Data(f, n))
  OBVIOUS
<1>0. NDir \in Nat \ {0} /\ Addr \in Nat \ {0, 1} /\ AA \in Nat /\ Second(m) /\ n \in Nat
  BY FsysAssumption DEF TopOK
<1>1. \A k \in {1, 2, 3} : d1(k) = Top(f, k)
  BY DEF TopOK
<1>2. d2 = bnum \/ bnum = None
  <2> HIDE DEF bnum
  <2> QED BY <1>0 DEF Second, Cached
<1>4. r = CASE n < NDir -> [m EXCEPT !.map = IF <<f, n>> \in Sparse THEN Zero ELSE <<f, n>>]
       [] n >= NDir /\ a < Addr ->
            [m EXCEPT !.map1 = 1, !.d1 = d1(1), !.map = Pointer(f, d1(1), a, {n})]
       [] a >= Addr /\ b < AA ->
            [m EXCEPT !.map1 = 2, !.d1 = d1(2), !.map2 = bnum, !.d2 = d2,
                      !.map = Pointer(f, d2, b % Addr, {n})]
       [] b >= AA ->
            [m EXCEPT !.map1 = 3, !.d1 = d1(3), !.map2 = None, !.d2 = t2,
                      !.map = Pointer(f, t2, t % Addr, {n})]
  BY DEF ext2fs_block_map
<1>5. OnDisk(f, n) = CASE n < NDir -> <<f, n>>
       [] n >= NDir /\ a < Addr -> <<f, NDir, a>>
       [] a >= Addr /\ b < AA -> <<f, NDir + 1, b \div Addr, b % Addr>>
       [] b >= AA -> <<f, NDir + 2, t \div AA, (t \div Addr) % Addr, t % Addr>>
  BY DEF OnDisk
<1>6. CASE n < NDir
  <2> DEFINE v == IF <<f, n>> \in Sparse THEN Zero ELSE <<f, n>>
  <2>1. r = [m EXCEPT !.map = v] /\ v = Data(f, n)
    <3>1. OnDisk(f, n) = <<f, n>>
      BY <1>0, <1>5, <1>6
    <3>2. r = [m EXCEPT !.map = v]
      <4> HIDE DEF r
      <4> QED BY <1>0, <1>4, <1>6
    <3> QED BY <3>1, <3>2 DEF Data
  <2> HIDE DEF r, v
  <2>2. /\ DOMAIN r = MemFields /\ r.map = v /\ r.map1 = m.map1 /\ r.d1 = m.d1
        /\ r.map2 = m.map2 /\ r.d2 = m.d2
    BY <2>1 DEF MemFields
  <2> QED BY <2>1, <2>2 DEF TopOK, Second
<1>7. CASE n >= NDir /\ a < Addr
  <2>1. ~(n < NDir)
    BY <1>0, <1>7
  <2> DEFINE v == Pointer(f, d1(1), a, {n})
             d == d1(1)
  <2>2. r = [m EXCEPT !.map1 = 1, !.d1 = d, !.map = v]
    <3> HIDE DEF r, d1, bnum, d2, t2
    <3> QED BY <1>0, <1>4, <1>7, <2>1
  <2>3. d = Top(f, 1) /\ OnDisk(f, n) = <<f, NDir, a>>
    <3>1. OnDisk(f, n) = <<f, NDir, a>>
      BY <1>0, <1>5, <1>7, <2>1
    <3> QED BY <1>1, <3>1
  <2>4. ASSUME There PROVE v = Data(f, n)
    <3>1. ~Absent(f, Under(1))
      BY <1>7, <2>4 DEF Tables
    <3>2. d1(1) = <<f, NDir>>
      <4>1. NDir + 1 - 1 = NDir
        BY <1>0
      <4> QED BY <2>3, <3>1, <4>1 DEF Top
    <3> DEFINE e == d1(1)
    <3>3. e = <<f, NDir>> /\ v = Pointer(f, e, a, {n})
      BY <3>2
    <3> HIDE DEF e, v, d, a
    <3>4. Append(e, a) = <<f, NDir, a>> /\ e[1] = f
      BY <3>3, Pairs
    <3>5. e[1] # 0 /\ (Absent(f, {n}) <=> <<f, n>> \in Sparse)
      BY <3>4, LastPointer
    <3>6. v = IF <<f, n>> \in Sparse THEN Zero ELSE Append(e, a)
      BY <3>3, <3>5 DEF Pointer
    <3> QED BY <2>3, <3>4, <3>6 DEF Data
  <2> HIDE DEF r, d, v, There
  <2>6. /\ DOMAIN r = MemFields /\ r.map = v /\ r.map1 = 1 /\ r.d1 = d
        /\ r.map2 = m.map2 /\ r.d2 = m.d2
    BY <2>2 DEF MemFields
  <2>7. TopOK(r, f)
    BY <1>0, <2>3, <2>6 DEF TopOK, Second
  <2> QED BY <2>4, <2>6, <2>7
<1>8. CASE a >= Addr /\ b < AA
  <2>1. ~(n < NDir) /\ ~(a < Addr)
    BY <1>0, <1>8
  <2> DEFINE v == Pointer(f, d2, b % Addr, {n})
             d == d1(2)
             x == bnum
             e == d2
  <2>2. r = [m EXCEPT !.map1 = 2, !.d1 = d, !.map2 = x, !.d2 = e, !.map = v]
    <3> HIDE DEF r, d1, bnum, d2, t2
    <3> QED BY <1>0, <1>4, <1>8, <2>1
  <2>3. d = Top(f, 2) /\ OnDisk(f, n) = <<f, NDir + 1, b \div Addr, b % Addr>>
    <3>1. OnDisk(f, n) = <<f, NDir + 1, b \div Addr, b % Addr>>
      BY <1>0, <1>5, <1>8, <2>1
    <3> QED BY <1>1, <3>1
  <2>4. x # None => e = x
    BY <1>2
  <2>5. ASSUME There PROVE v = Data(f, n)
    <3>1. ~Absent(f, Under(2)) /\ ~Absent(f, Leaf0(n))
      <4>1. n >= NDir
        BY <1>0, <2>1
      <4>2. Tables(n) = {Under(2), Leaf0(n)}
        BY <1>8, <2>1 DEF Tables
      <4> QED BY <2>5, <4>1, <4>2
    <3>2. d = <<f, NDir + 1>>
      <4>1. NDir + 2 - 1 = NDir + 1
        BY <1>0
      <4> QED BY <2>3, <3>1, <4>1 DEF Top
    <3>3. x = Append(d, b \div Addr)
      BY <3>1 DEF Pointer
    <3> DEFINE q == b \div Addr
    <3>4. x = <<f, NDir + 1, q>>
      <4>1. x = Append(d, q)
        BY <3>3
      <4> HIDE DEF x, d, q
      <4> QED BY <3>2, <4>1, Pairs
    <3>5. e = x
      <4>1. x # None
        <5> HIDE DEF x, q
        <5> QED BY <3>4 DEF None
      <4> QED BY <2>4, <4>1
    <3> DEFINE u == b % Addr
    <3>6. v = Pointer(f, e, u, {n})
      OBVIOUS
    <3> HIDE DEF x, e, d, v, q, u, b
    <3>7. Append(e, u) = <<f, NDir + 1, q, u>> /\ e[1] = f
      BY <3>4, <3>5, Triples
    <3>8. v = IF <<f, n>> \in Sparse THEN Zero ELSE Append(e, u)
      <4>1. e[1] # 0 /\ (Absent(f, {n}) <=> <<f, n>> \in Sparse)
        BY <3>7, LastPointer
      <4> QED BY <3>6, <4>1 DEF Pointer
    <3>9. OnDisk(f, n) = <<f, NDir + 1, q, u>>
      BY <2>3 DEF q, u
    <3> QED BY <3>7, <3>8, <3>9 DEF Data
  <2> HIDE DEF r, d, v, x, e, There
  <2>7. /\ DOMAIN r = MemFields /\ r.map = v /\ r.map1 = 2 /\ r.d1 = d /\ r.map2 = x /\ r.d2 = e
    BY <2>2 DEF MemFields
  <2>8. TopOK(r, f)
    BY <2>3, <2>4, <2>7 DEF TopOK, Second
  <2> QED BY <2>5, <2>7, <2>8
<1>9. CASE b >= AA
  <2>1. ~(n < NDir) /\ ~(a < Addr) /\ ~(b < AA) /\ n >= NDir
    <3> HIDE DEF AA
    <3> QED BY <1>0, <1>9
  <2> DEFINE v == Pointer(f, t2, t % Addr, {n})
             d == d1(3)
             e == t2
  <2>2. r = [m EXCEPT !.map1 = 3, !.d1 = d, !.map2 = None, !.d2 = e, !.map = v]
    <3> HIDE DEF r, d1, bnum, d2, t2
    <3> QED BY <1>0, <1>4, <1>9, <2>1
  <2>3. d = Top(f, 3)
        /\ OnDisk(f, n) = <<f, NDir + 2, t \div AA, (t \div Addr) % Addr, t % Addr>>
    <3>1. OnDisk(f, n) = <<f, NDir + 2, t \div AA, (t \div Addr) % Addr, t % Addr>>
      BY <1>0, <1>5, <1>9, <2>1
    <3> QED BY <1>1, <3>1
  <2>5. ASSUME There PROVE v = Data(f, n)
    <3>1. ~Absent(f, Under(3)) /\ ~Absent(f, Mid(n)) /\ ~Absent(f, Leaf0(n))
      <4>1. Tables(n) = {Under(3), Mid(n), Leaf0(n)}
        BY <2>1 DEF Tables
      <4> QED BY <2>1, <2>5, <4>1
    <3>2. d = <<f, NDir + 2>>
      <4>1. NDir + 3 - 1 = NDir + 2
        BY <1>0
      <4> QED BY <2>3, <3>1, <4>1 DEF Top
    <3> DEFINE q1 == t \div AA
               q2 == (t \div Addr) % Addr
               q3 == t % Addr
               y == third
    <3>3. y = Append(d, q1) /\ e = Append(y, q2) /\ v = Pointer(f, e, q3, {n})
      <4>1. y = Append(d, q1)
        BY <3>1 DEF Pointer
      <4>2. e = Append(y, q2)
        BY <3>1 DEF Pointer
      <4> QED BY <4>1, <4>2
    <3>4. OnDisk(f, n) = <<f, NDir + 2, q1, q2, q3>>
      BY <2>3
    <3> HIDE DEF y, e, d, v, q1, q2, q3, third, t2, d1, t
    <3>5. y = <<f, NDir + 2, q1>>
      BY <3>2, <3>3, Pairs
    <3>6. e = <<f, NDir + 2, q1, q2>>
      BY <3>3, <3>5, Triples
    <3>7. Append(e, q3) = <<f, NDir + 2, q1, q2, q3>> /\ e[1] = f
      BY <3>6, Quads
    <3>8. v = IF <<f, n>> \in Sparse THEN Zero ELSE Append(e, q3)
      <4>1. e[1] # 0 /\ (Absent(f, {n}) <=> <<f, n>> \in Sparse)
        BY <3>7, LastPointer
      <4> QED BY <3>3, <4>1 DEF Pointer
    <3> QED BY <3>4, <3>7, <3>8 DEF Data
  <2> HIDE DEF r, d, v, e, There
  <2>7. /\ DOMAIN r = MemFields /\ r.map = v /\ r.map1 = 3 /\ r.d1 = d /\ r.map2 = None
        /\ r.d2 = e
    BY <2>2 DEF MemFields
  <2>8. TopOK(r, f)
    BY <2>3, <2>7 DEF TopOK, Second
  <2> QED BY <2>5, <2>7, <2>8
<1> QED
  <2> HIDE DEF AA, r, There
  <2>1. n < NDir \/ (n >= NDir /\ a < Addr) \/ (a >= Addr /\ b < AA) \/ b >= AA
    BY <1>0
  <2> QED BY <1>6, <1>7, <1>8, <1>9, <2>1

LEMMA MinixMap ==
  ASSUME NEW f, NEW n \in 0 .. NDir + Addr + Addr * Addr - 1, NEW m,
         DOMAIN m = MemFields, MapOK(m, f)
  PROVE  LET r == minix_block_map(f, n, m)
         IN DOMAIN r = MemFields /\ MapOK(r, f) /\ r.map = OnDisk(f, n)
<1> DEFINE a == n - NDir
           b == a - Addr
           AA == Addr * Addr
           d1(k) == IF m.map1 = k THEN m.d1 ELSE <<f, NDir + k - 1>>
           i  == Append(d1(2), b \div Addr)
           d2 == Cached(i, m)
           r == minix_block_map(f, n, m)
<1> SUFFICES DOMAIN r = MemFields /\ MapOK(r, f) /\ r.map = OnDisk(f, n)
  OBVIOUS
<1>0. NDir \in Nat \ {0} /\ Addr \in Nat \ {0, 1} /\ AA \in Nat /\ Second(m) /\ n \in Nat
  BY FsysAssumption DEF MapOK
<1>a. b < AA
  <2> HIDE DEF AA
  <2>1. n \in 0 .. NDir + Addr + AA - 1
    BY DEF AA
  <2> QED BY <1>0, <2>1
<1>1. \A k \in {1, 2} : d1(k) = <<f, NDir + k - 1>>
  BY DEF MapOK
<1>2. i = <<f, NDir + 1, b \div Addr>> /\ d2 = i
  <2>1. d1(2) = <<f, NDir + 1>>
    <3>1. NDir + 2 - 1 = NDir + 1
      BY <1>0
    <3> QED BY <1>1, <3>1
  <2>2. i = <<f, NDir + 1, b \div Addr>>
    <3> HIDE DEF d1, b
    <3> QED BY <2>1, Pairs
  <2>3. i # None
    <3> HIDE DEF i, b
    <3> QED BY <2>2 DEF None
  <2>4. d2 = i
    <3> HIDE DEF i
    <3> QED BY <1>0, <2>3 DEF Second, Cached
  <2> QED BY <2>2, <2>4
<1>4. r = CASE n < NDir -> [m EXCEPT !.map = <<f, n>>]
       [] n >= NDir /\ a < Addr ->
            [m EXCEPT !.map1 = 1, !.d1 = d1(1), !.map = Append(d1(1), a)]
       [] a >= Addr ->
            [m EXCEPT !.map1 = 2, !.d1 = d1(2), !.map2 = i, !.d2 = d2, !.map = Append(d2, b % Addr)]
  BY DEF minix_block_map
<1>5. OnDisk(f, n) = IF n < NDir THEN <<f, n>> ELSE IF a < Addr THEN <<f, NDir, a>>
                     ELSE <<f, NDir + 1, b \div Addr, b % Addr>>
  BY <1>0, <1>a DEF OnDisk
<1>6. CASE n < NDir
  <2>1. r = [m EXCEPT !.map = <<f, n>>] /\ OnDisk(f, n) = <<f, n>>
    <3> HIDE DEF r
    <3> QED BY <1>0, <1>4, <1>5, <1>6
  <2> HIDE DEF r
  <2>2. /\ DOMAIN r = MemFields /\ r.map = <<f, n>> /\ r.map1 = m.map1 /\ r.d1 = m.d1
        /\ r.map2 = m.map2 /\ r.d2 = m.d2
    BY <2>1 DEF MemFields
  <2> QED BY <2>1, <2>2 DEF MapOK, Second
<1>7. CASE n >= NDir /\ a < Addr
  <2>1. ~(n < NDir)
    BY <1>0, <1>7
  <2> DEFINE d == d1(1)
             v == Append(d, a)
  <2>2. r = [m EXCEPT !.map1 = 1, !.d1 = d, !.map = v]
    <3> HIDE DEF r, d1, i, d2
    <3> QED BY <1>0, <1>4, <1>7, <2>1
  <2>3. d = <<f, NDir + 1 - 1>> /\ NDir + 1 - 1 = NDir /\ OnDisk(f, n) = <<f, NDir, a>>
    <3>1. OnDisk(f, n) = <<f, NDir, a>>
      BY <1>0, <1>5, <1>7, <2>1
    <3> QED BY <1>0, <1>1, <3>1
  <2> HIDE DEF r, d, a
  <2>4. v = <<f, NDir, a>>
    BY <2>3, Pairs
  <2> HIDE DEF v
  <2>6. /\ DOMAIN r = MemFields /\ r.map = v /\ r.map1 = 1 /\ r.d1 = d
        /\ r.map2 = m.map2 /\ r.d2 = m.d2
    BY <2>2 DEF MemFields
  <2>7. MapOK(r, f)
    BY <1>0, <2>3, <2>6 DEF MapOK, Second
  <2> QED BY <2>3, <2>4, <2>6, <2>7
<1>8. CASE a >= Addr
  <2>1. ~(n < NDir) /\ ~(a < Addr)
    BY <1>0, <1>8
  <2> DEFINE d == d1(2)
             v == Append(d2, b % Addr)
  <2>2. r = [m EXCEPT !.map1 = 2, !.d1 = d, !.map2 = i, !.d2 = d2, !.map = v]
    <3> HIDE DEF r, d1, i, d2
    <3> QED BY <1>0, <1>4, <1>8, <2>1
  <2>3. OnDisk(f, n) = <<f, NDir + 1, b \div Addr, b % Addr>>
    BY <1>0, <1>5, <1>8, <2>1
  <2>4. d = <<f, NDir + 2 - 1>>
    BY <1>1
  <2> HIDE DEF r, d, i, d2, b
  <2>5. v = <<f, NDir + 1, b \div Addr, b % Addr>>
    BY <1>2, Triples
  <2> HIDE DEF v
  <2>7. /\ DOMAIN r = MemFields /\ r.map = v /\ r.map1 = 2 /\ r.d1 = d /\ r.map2 = i /\ r.d2 = d2
    BY <2>2 DEF MemFields
  <2>8. MapOK(r, f)
    BY <2>4, <2>7, <1>2 DEF MapOK, Second
  <2> QED BY <2>3, <2>5, <2>7, <2>8
<1> QED
  <2> HIDE DEF AA, r
  <2>1. n < NDir \/ (n >= NDir /\ a < Addr) \/ a >= Addr
    BY <1>0
  <2> QED BY <1>6, <1>7, <1>8, <2>1

\* ffs and ufs2: the one block of pointers, whose address stays when an inode is
\* loaded, is in MAPBUF from its start on.
LEMMA MapBufOK ==
  ASSUME NEW f, NEW n \in 0 .. NDir + Addr - 1, NEW m, DOMAIN m = MemFields,
         NEW w \in Nat \ {0}, NEW len \in Nat \ {0}, Addr <= len, InMapBuf(m)
  PROVE  LET r == MapBuf(f, n, m, w, len)
         IN DOMAIN r = MemFields /\ InMapBuf(r) /\ r.map = OnDisk(f, n)
<1> DEFINE r == MapBuf(f, n, m, w, len)
<1> SUFFICES DOMAIN r = MemFields /\ InMapBuf(r) /\ r.map = OnDisk(f, n)
  OBVIOUS
<1>0. NDir \in Nat \ {0} /\ Addr \in Nat \ {0, 1} /\ n \in Nat
  BY FsysAssumption
<1>1. CASE n < NDir
  <2>1. r = [m EXCEPT !.map = <<f, n>>] /\ OnDisk(f, n) = <<f, n>>
    <3>1. OnDisk(f, n) = <<f, n>>
      BY <1>0, <1>1 DEF OnDisk
    <3> QED BY <1>1, <3>1 DEF MapBuf
  <2> HIDE DEF r
  <2>2. /\ DOMAIN r = MemFields /\ r.map = <<f, n>> /\ r.map2 = m.map2 /\ r.d2 = m.d2
        /\ r.moff = m.moff
    BY <2>1 DEF MemFields
  <2> QED BY <2>1, <2>2 DEF InMapBuf, Second
<1>2. CASE ~(n < NDir)
  <2> DEFINE a == n - NDir
             bnum == <<f, NDir>>
             idx == a % Addr
             load == \/ bnum # m.map2
                     \/ m.moff <= IndAt[f] /\ IndAt[f] <= m.moff + w * AtMost(Addr, len)
             off == IF ~load THEN m.moff ELSE IF Addr <= len THEN 0
                    ELSE IF idx + w * len > w * Addr THEN (w * (Addr - len)) \div 4 ELSE idx
             buf == IF load THEN bnum ELSE m.d2
             v == IF idx - off \in 0 .. len - 1 /\ (4 * off) % w = 0
                    THEN Append(buf, (4 * off) \div w + idx - off) ELSE <<"junk">>
  <2>1. r = [m EXCEPT !.map2 = bnum, !.d2 = buf, !.moff = off, !.map = v]
    BY <1>2 DEF MapBuf
  <2>2. OnDisk(f, n) = <<f, NDir, a>>
    BY <1>0, <1>2 DEF OnDisk
  <2>3. idx = a /\ a \in 0 .. Addr - 1
    BY <1>0, <1>2
  <2>4. bnum # None
    BY DEF None
  <2>5. off = 0 /\ buf = bnum
    <3>1. CASE load
      <4> HIDE DEF load
      <4> QED BY <3>1
    <3>2. CASE ~load
      <4>1. bnum = m.map2
        BY <3>2
      <4> HIDE DEF load, bnum
      <4> QED BY <2>4, <3>2, <4>1 DEF InMapBuf, Second
    <3> QED BY <3>1, <3>2
  <2> HIDE DEF off, buf, load, bnum, idx, a
  <2>6. v = Append(bnum, a)
    <3>1. idx - off = a /\ (4 * off) % w = 0 /\ (4 * off) \div w + idx - off = a
      <4>1. a \in Int
        BY <1>0, <2>3
      <4>2. 0 % w = 0 /\ 0 \div w = 0
        OBVIOUS
      <4>3. 4 * off = 0
        BY <2>5
      <4> QED BY <2>3, <2>5, <4>1, <4>2, <4>3
    <3>2. a \in 0 .. len - 1
      BY <1>0, <2>3
    <3> QED BY <2>5, <3>1, <3>2
  <2>7. v = <<f, NDir, a>>
    <3>1. bnum = <<f, NDir>>
      BY DEF bnum
    <3> HIDE DEF v
    <3> QED BY <2>6, <3>1, Pairs
  <2> HIDE DEF r, v
  <2>8. DOMAIN r = MemFields /\ r.map = v /\ r.map2 = bnum /\ r.d2 = buf /\ r.moff = off
    BY <2>1 DEF MemFields
  <2> QED BY <2>2, <2>5, <2>7, <2>8 DEF InMapBuf, Second
<1> QED BY <1>1, <1>2

\* What a map of UFS returns, whatever is in MAPBUF.
LEMMA MapBufFields ==
  ASSUME NEW f, NEW n, NEW m, DOMAIN m = MemFields, NEW w, NEW len
  PROVE  LET r == MapBuf(f, n, m, w, len)
         IN DOMAIN r = MemFields /\ (n < NDir => r.map = <<f, n>>)
BY DEF MapBuf, MemFields

----------------------------------------------------------------------------
(* FAT: the current cluster is that of its number, and the buffer holds    *)
(* the window that cached_fat names.                                       *)

FatOK(m, f) ==
  /\ m.ccn \in Nat /\ (m.ccn # MAXINT => m.ccn < Blocks[f] /\ m.cc = Cluster(f, m.ccn))
  /\ m.win = m.buf

LEMMA ClusterIs ==
  ASSUME NEW f \in Files, NEW n \in 0 .. Blocks[f] - 1
  PROVE  Cluster(f, n) \in Nat /\ Cluster(f, n) >= 2 /\ At(Cluster(f, n) - 2) = <<f, n>>
<1>1. n \in Int
  BY FsysAssumption
<1>2. PICK i \in 1 .. Count(f) : Holds(f, i, n)
  BY SomeExtent
<1>3. Phys(f, n) \in Nat
  BY <1>1, <1>2, PhysIs
<1>4. Cluster(f, n) - 2 = Phys(f, n)
  BY <1>3 DEF Cluster
<1> QED BY <1>3, <1>4, AtPhys DEF Cluster

LEMMA FatNext ==
  ASSUME NEW f \in Files, NEW n \in Nat, n + 1 < Blocks[f], NEW c, c = Cluster(f, n),
         NEW buf, buf = c \div Window
  PROVE  /\ FatEntry(buf * Window + (c % Window)) = Cluster(f, n + 1)
         /\ Cluster(f, n + 1) # EofMarker
<1>0. Blocks[f] \in Nat /\ Window \in Nat \ {0}
  BY FsysAssumption
<1>1. n \in 0 .. Blocks[f] - 1 /\ n + 1 \in 0 .. Blocks[f] - 1
  BY <1>0
<1>2. c \in Nat /\ At(c - 2) = <<f, n>> /\ Cluster(f, n + 1) >= 2 /\ Cluster(f, n + 1) \in Nat
  BY <1>1, ClusterIs
<1>3. c = Window * (c \div Window) + (c % Window) /\ c \div Window \in Nat
  BY <1>0, <1>2, Divide
<1>4. buf * Window = Window * (c \div Window)
  BY <1>0, <1>3
<1>5. buf * Window + (c % Window) = c
  BY <1>3, <1>4
<1>6. FatEntry(c) = Cluster(f, n + 1)
  BY <1>2 DEF FatEntry
<1> QED BY <1>2, <1>5, <1>6 DEF EofMarker

LEMMA FatStartOK ==
  ASSUME file \in Files, filepos \in 0 .. Blocks[file] - 1, NEW m, DOMAIN m = MemFields, FatOK(m, file)
  PROVE  LET r == FatStart(m)
         IN /\ DOMAIN r = MemFields /\ FatOK(r, file) /\ r.ccn \in Nat /\ r.ccn <= filepos
            /\ r.cc = Cluster(file, r.ccn)
<1> DEFINE r == FatStart(m)
<1> SUFFICES /\ DOMAIN r = MemFields /\ FatOK(r, file) /\ r.ccn \in Nat /\ r.ccn <= filepos
             /\ r.cc = Cluster(file, r.ccn)
  OBVIOUS
<1>0. Blocks[file] \in 1 .. MAXINT - 1 /\ MAXINT \in Nat /\ m.ccn \in Nat
  BY FsysAssumption, MaxInt DEF FatOK
<1>1. CASE filepos < m.ccn
  <2>1. r = [m EXCEPT !.ccn = 0, !.cc = Cluster(file, 0)]
    BY <1>1 DEF FatStart
  <2> HIDE DEF r
  <2>2. /\ DOMAIN r = MemFields /\ r.ccn = 0 /\ r.cc = Cluster(file, 0) /\ r.win = m.win /\ r.buf = m.buf
    BY <2>1 DEF MemFields
  <2> QED BY <1>0, <2>2 DEF FatOK
<1>2. CASE ~(filepos < m.ccn)
  <2>1. r = m
    BY <1>2 DEF FatStart
  <2>2. m.ccn # MAXINT /\ m.ccn <= filepos
    BY <1>0, <1>2
  <2> HIDE DEF r
  <2> QED BY <1>0, <2>1, <2>2 DEF FatOK
<1> QED BY <1>1, <1>2

----------------------------------------------------------------------------
(* XFS and JFS: the extent that is looked at does not begin behind the     *)
(* position.                                                               *)

CursorOK(m, f, pos) ==
  /\ m.page \in 1 .. Leaves(f) /\ m.ix \in 1 .. Upto(f, m.page) - Before(m.page)
  /\ Ext[f][Before(m.page) + m.ix].off <= pos

LEMMA CursorStart ==
  ASSUME NEW f \in Files, NEW m, DOMAIN m = MemFields, NEW pos \in Nat
  PROVE  LET r == init_extents(m)
         IN DOMAIN r = MemFields /\ CursorOK(r, f, pos)
<1> DEFINE r == init_extents(m)
<1>1. DOMAIN r = MemFields /\ r.page = 1 /\ r.ix = 1
  BY DEF init_extents, MemFields
<1>2. 1 \in 1 .. Leaves(f) /\ Before(1) = 0 /\ Upto(f, 1) \in Nat /\ Before(1) < Upto(f, 1)
  BY LeafCount, LeafBounds
<1>3. Ext[f][1].off = 0
  BY Extents
<1> HIDE DEF r
<1>4. CursorOK(r, f, pos)
  BY <1>1, <1>2, <1>3 DEF CursorOK
<1> QED BY <1>1, <1>4 DEF r

\* The extent at the cursor, and the one after it.
LEMMA CursorExtent ==
  ASSUME file \in Files, NEW m, NEW pos \in Nat, CursorOK(m, file, pos)
  PROVE  LET e == Before(m.page) + m.ix
         IN /\ e \in 1 .. Count(file) /\ Xad(m) = Ext[file][e] /\ Ext[file][e].off <= pos
            /\ ~AtEnd(m)
<1> DEFINE e == Before(m.page) + m.ix
<1>1. m.page \in 1 .. Leaves(file) /\ m.ix \in 1 .. Upto(file, m.page) - Before(m.page)
      /\ Ext[file][Before(m.page) + m.ix].off <= pos
  BY DEF CursorOK
<1>2. e \in 1 .. Count(file) /\ LeafOf(file, m.page)[m.ix] = Ext[file][e]
  BY <1>1, LeafIs
<1>3. ~(m.page > Leaves(file))
  BY <1>1, LeafCount
<1> QED BY <1>1, <1>2, <1>3 DEF Xad, AtEnd

LEMMA CursorNext ==
  ASSUME file \in Files, NEW m, DOMAIN m = MemFields, NEW pos \in Nat, CursorOK(m, file, pos),
         NEW q \in Nat, EndOf(file, Before(m.page) + m.ix) <= q, q < Blocks[file], NEW v, NEW r,
         \/ r = [xfs_next_extent(m) EXCEPT !.prev = v]
         \/ r = [jfs_next_extent(m) EXCEPT !.prev = v] /\ ~(Leaves(file) > 1)
  PROVE  CursorOK(r, file, q)
<1> DEFINE e == Before(m.page) + m.ix
           page == m.page
           ix == m.ix
<1>0. page \in 1 .. Leaves(file) /\ ix \in 1 .. Upto(file, page) - Before(page)
      /\ Leaves(file) \in Nat \ {0} /\ Count(file) \in Nat \ {0}
      /\ Len(LeafOf(file, page)) = Upto(file, page) - Before(page)
      /\ Before(page) \in Nat /\ Upto(file, page) \in Nat /\ Upto(file, page) <= Count(file)
  BY LeafCount, Extents, LeafIs, LeafBounds DEF CursorOK
<1>1. e \in 1 .. Count(file)
  BY <1>0
<1>2. e # Count(file)
  <2>1. EndOf(file, Count(file)) = Blocks[file] /\ Blocks[file] \in Nat
    BY Extents, FsysAssumption
  <2> HIDE DEF e
  <2> QED BY <2>1 DEF e
<1>3. Ext[file][e + 1].off = EndOf(file, e)
  <2>1. e \in 1 .. Count(file) - 1
    BY <1>0, <1>1, <1>2
  <2> HIDE DEF e
  <2> QED BY <2>1, Extents
<1>4. CASE ix < Upto(file, page) - Before(page)
  <2> DEFINE n == [m EXCEPT !.ix = @ + 1]
  <2>1. r = [n EXCEPT !.prev = v]
    BY <1>0, <1>4 DEF xfs_next_extent, jfs_next_extent
  <2>2. DOMAIN n = MemFields /\ n.page = page /\ n.ix = ix + 1
    BY DEF MemFields
  <2> HIDE DEF n
  <2>3. r.page = page /\ r.ix = ix + 1
    BY <2>1, <2>2 DEF MemFields
  <2>4. Before(page) + (ix + 1) = e + 1
    BY <1>0
  <2> HIDE DEF e
  <2> QED BY <1>0, <1>3, <1>4, <2>3, <2>4 DEF CursorOK, e
<1>5. CASE ~(ix < Upto(file, page) - Before(page))
  <2>1. e = Upto(file, page)
    BY <1>0, <1>5
  <2>2. page < Leaves(file)
    <3>1. SUFFICES ASSUME page = Leaves(file) PROVE FALSE
      BY <1>0
    <3>2. Upto(file, page) = Count(file)
      BY <3>1 DEF Upto
    <3> QED BY <1>2, <2>1, <3>2
  <2> DEFINE n == [m EXCEPT !.page = @ + 1, !.ix = 1]
  <2>3. r = [n EXCEPT !.prev = v]
    BY <1>0, <1>5, <2>2 DEF xfs_next_extent
  <2>4. DOMAIN n = MemFields /\ n.page = page + 1 /\ n.ix = 1
    BY DEF MemFields
  <2> HIDE DEF n
  <2>5. r.page = page + 1 /\ r.ix = 1
    BY <2>3, <2>4 DEF MemFields
  <2>6. Before(page + 1) = Upto(file, page) /\ page + 1 \in 1 .. Leaves(file)
    BY <1>0, <2>2, LeafBounds
  <2>7. Before(page + 1) \in Nat /\ Upto(file, page + 1) \in Nat /\ Before(page + 1) < Upto(file, page + 1)
    BY <2>6, LeafBounds
  <2>8. Before(page + 1) + 1 = e + 1
    BY <2>1, <2>6
  <2> HIDE DEF e, page
  <2> QED BY <1>3, <2>5, <2>6, <2>7, <2>8 DEF CursorOK, e
<1> QED BY <1>4, <1>5

----------------------------------------------------------------------------
(* Block lists: BLK_CUR_FILEPOS lies in block BLK_CUR_BLKNUM of the entry. *)

BlockOK(m, f) ==
  /\ m.cur \in Nat /\ m.num \in Nat /\ m.blk \in 1 .. Count(f)
  /\ m.num < Ext[f][m.blk].len /\ Ext[f][m.blk].off + m.num = m.cur \div 2

LEMMA BlockStart ==
  ASSUME NEW f \in Files, NEW m, m.cur = 0, m.num = 0, m.blk = 1
  PROVE  BlockOK(m, f)
<1>1. 1 \in 1 .. Count(f) /\ Ext[f][1].off = 0 /\ Ext[f][1].len \in Nat \ {0}
  BY Extents
<1>2. 0 \div 2 = 0
  OBVIOUS
<1> QED BY <1>1, <1>2 DEF BlockOK

LEMMA BlkSeekOK ==
  ASSUME file \in Files, filepos \in Nat, NEW m, DOMAIN m = MemFields, BlockOK(m, file)
  PROVE  LET r == BlkSeek(m)
         IN DOMAIN r = MemFields /\ BlockOK(r, file) /\ r.cur <= filepos
<1> DEFINE r == BlkSeek(m)
<1>1. CASE filepos < m.cur
  <2>1. r = [m EXCEPT !.cur = 0, !.blk = 1, !.num = 0]
    BY <1>1 DEF BlkSeek
  <2>2. DOMAIN r = MemFields /\ r.cur = 0 /\ r.blk = 1 /\ r.num = 0
    BY <2>1 DEF MemFields
  <2> HIDE DEF r
  <2>3. BlockOK(r, file)
    BY <2>2, BlockStart
  <2> QED BY <2>2, <2>3 DEF r
<1>2. CASE ~(filepos < m.cur)
  <2>1. r = m /\ m.cur <= filepos
    BY <1>2 DEF BlkSeek, BlockOK
  <2> QED BY <2>1
<1> QED BY <1>1, <1>2

\* One whole block is passed over.
LEMMA BlockNext ==
  ASSUME NEW f \in Files, NEW m, DOMAIN m = MemFields, BlockOK(m, f), NEW pos \in Nat,
         pos - 2 * (m.cur \div 2) >= 2, pos < 2 * Blocks[f], NEW r,
         r = IF m.num + 1 >= Ext[f][m.blk].len
               THEN [m EXCEPT !.cur = @ + 2, !.num = 0, !.blk = @ + 1]
               ELSE [m EXCEPT !.cur = @ + 2, !.num = @ + 1]
  PROVE  DOMAIN r = MemFields /\ BlockOK(r, f)
<1> DEFINE c == m.cur
           x == Ext[f][m.blk]
<1>0. /\ c \in Nat /\ m.num \in Nat /\ m.blk \in 1 .. Count(f) /\ m.num < x.len
      /\ x.off + m.num = c \div 2
  BY DEF BlockOK
<1>1. /\ x.off \in Nat /\ x.len \in Nat /\ Count(f) \in Nat /\ Blocks[f] \in Nat
      /\ EndOf(f, m.blk) = x.off + x.len /\ EndOf(f, Count(f)) = Blocks[f]
  <2>1. Count(f) \in Nat /\ Blocks[f] \in Nat /\ EndOf(f, Count(f)) = Blocks[f]
    BY Extents, FsysAssumption
  <2>2. x.off \in Nat /\ x.len \in Nat
    BY <1>0, Extents
  <2> QED BY <2>1, <2>2 DEF EndOf
<1> HIDE DEF c, x
<1>2. (c + 2) \div 2 = (c \div 2) + 1 /\ c \div 2 \in Nat
  BY <1>0
<1>3. CASE m.num + 1 >= x.len
  <2>1. r = [m EXCEPT !.cur = @ + 2, !.num = 0, !.blk = @ + 1]
    BY <1>3 DEF x
  <2>2. DOMAIN r = MemFields /\ r.cur = c + 2 /\ r.num = 0 /\ r.blk = m.blk + 1
    BY <2>1 DEF MemFields, c
  <2>3. EndOf(f, m.blk) = (c \div 2) + 1
    BY <1>0, <1>1, <1>3
  <2>4. m.blk # Count(f)
    <3>1. SUFFICES ASSUME m.blk = Count(f) PROVE FALSE
      OBVIOUS
    <3>2. Blocks[f] = (c \div 2) + 1
      BY <1>1, <2>3, <3>1
    <3>3. pos - 2 * (c \div 2) >= 2
      BY DEF c
    <3> QED BY <1>2, <3>2, <3>3
  <2>5. m.blk \in 1 .. Count(f) - 1 /\ m.blk + 1 \in 1 .. Count(f)
    BY <1>0, <1>1, <2>4
  <2>6. Ext[f][m.blk + 1].off = (c \div 2) + 1 /\ Ext[f][m.blk + 1].len \in Nat \ {0}
    BY <2>3, <2>5, Extents
  <2>7. Ext[f][m.blk + 1].off + 0 = (c + 2) \div 2
    BY <1>2, <2>6
  <2> QED BY <1>0, <2>2, <2>5, <2>6, <2>7 DEF BlockOK
<1>4. CASE ~(m.num + 1 >= x.len)
  <2>1. r = [m EXCEPT !.cur = @ + 2, !.num = @ + 1]
    BY <1>4 DEF x
  <2>2. DOMAIN r = MemFields /\ r.cur = c + 2 /\ r.num = m.num + 1 /\ r.blk = m.blk
    BY <2>1 DEF MemFields, c
  <2>3. x.off + (m.num + 1) = (c + 2) \div 2 /\ m.num + 1 < x.len
    BY <1>0, <1>1, <1>2, <1>4
  <2> QED BY <1>0, <2>2, <2>3 DEF BlockOK, x
<1> QED BY <1>3, <1>4

LEMMA Halved ==
  ASSUME NEW p \in Nat, NEW i \in Nat
  PROVE  /\ (p % 2) \in {0, 1} /\ (p + i) \div 2 = (p \div 2) + (((p % 2) + i) \div 2)
         /\ p \div 2 \in Nat /\ ((p % 2) + i) \div 2 \in Nat
OBVIOUS

LEMMA HalfBound ==
  ASSUME NEW i \in Nat, NEW n \in Nat, i < 2 * n
  PROVE  i \div 2 < n
OBVIOUS

\* What remains of the entry is the file from there on.
LEMMA BlockRead ==
  ASSUME NEW f \in Files, NEW m, BlockOK(m, f), NEW pos \in Nat, m.cur = pos,
         NEW i \in Nat, i < 2 * (Ext[f][m.blk].len - m.num) - (pos % 2)
  PROVE  /\ At(Ext[f][m.blk].start + m.num + (((pos % 2) + i) \div 2)) = <<f, (pos + i) \div 2>>
         /\ pos + i < 2 * Blocks[f]
<1> DEFINE x == Ext[f][m.blk]
           o == pos % 2
           h == (o + i) \div 2
           n == (pos + i) \div 2
<1>0. /\ m.num \in Nat /\ m.blk \in 1 .. Count(f) /\ m.num < x.len
      /\ x.off + m.num = pos \div 2
  BY DEF BlockOK
<1>1. /\ x.off \in Nat /\ x.len \in Nat /\ x.start \in Nat /\ EndOf(f, m.blk) = x.off + x.len
  BY <1>0, Extents DEF EndOf
<1>2. o \in {0, 1} /\ n = (pos \div 2) + h /\ pos \div 2 \in Nat /\ h \in Nat
  BY Halved
<1>3. h < x.len - m.num
  <2>1. o + i \in Nat /\ o + i < 2 * (x.len - m.num) /\ x.len - m.num \in Nat
    BY <1>0, <1>1, <1>2
  <2> HIDE DEF x, o
  <2> QED BY <2>1, HalfBound
<1>5. pos + i \in Nat /\ n \in Nat /\ pos + i <= 2 * n + 1
  OBVIOUS
<1> HIDE DEF x, o, h, n
<1>4. n = x.off + m.num + h /\ n \in Int /\ x.off <= n /\ n < x.off + x.len
  BY <1>0, <1>1, <1>2, <1>3
<1>6. Holds(f, m.blk, n)
  BY <1>0, <1>1, <1>4 DEF Holds, x
<1>7. n \in 0 .. Blocks[f] - 1 /\ At(x.start + n - x.off) = <<f, n>>
  BY <1>4, <1>6, AtExtent DEF x
<1>8. x.start + n - x.off = x.start + m.num + h
  BY <1>0, <1>1, <1>2, <1>4
<1>9. pos + i < 2 * Blocks[f]
  BY <1>5, <1>7, FsysAssumption
<1>10. At(x.start + m.num + h) = <<f, n>>
  BY <1>7, <1>8
<1> QED BY <1>9, <1>10 DEF x, o, h, n

----------------------------------------------------------------------------
(* ReiserFS: the journal.  Whatever transactions were committed, the block *)
(* that is read is the newest copy that counts.                            *)

LEMMA Highest ==
  ASSUME NEW n \in Nat, NEW T, T \subseteq 1 .. n, T # {}
  PROVE  \E a \in T : \A b \in T : b <= a
<1> DEFINE D == {n - a : a \in T}
           R == OpToRel(<, Nat)
<1>0. \A a \in T : a \in Int /\ n - a \in Nat
  OBVIOUS
<1>1. D \subseteq Nat /\ D # {}
  BY <1>0
<1>2. IsWellFoundedOn(R, Nat)
  BY NatLessThanWellFounded
<1>3. PICK x \in D : \A y \in D : ~(<<y, x>> \in R)
  <2> HIDE DEF D, R
  <2> QED BY <1>1, <1>2, WFMin
<1>4. \A y \in D : ~(y < x)
  BY <1>1, <1>3 DEF OpToRel
<1>5. PICK a \in T : x = n - a
  OBVIOUS
<1>6. ASSUME NEW b \in T PROVE b <= a
  <2>1. n - b \in D
    OBVIOUS
  <2>2. ~(n - b < n - a)
    BY <1>4, <1>5, <2>1
  <2>3. a \in Int /\ b \in Int
    OBVIOUS
  <2> QED BY <2>2, <2>3
<1> QED BY <1>6

\* What a recursion over 0 .. n computes is the only function that satisfies it.
LEMMA OnlyOne ==
  ASSUME NEW n \in Nat, NEW g, NEW h, g[0] = h[0],
         \A k \in 1 .. n : g[k - 1] = h[k - 1] => g[k] = h[k]
  PROVE  \A k \in 0 .. n : g[k] = h[k]
<1> DEFINE S == {k \in Nat : k <= n => g[k] = h[k]}
<1>1. 0 \in S
  OBVIOUS
<1>2. ASSUME NEW k \in Nat, k \in S PROVE k + 1 \in S
  <2>1. SUFFICES ASSUME k + 1 <= n PROVE g[k + 1] = h[k + 1]
    OBVIOUS
  <2> DEFINE j == k + 1
  <2>2. j \in 1 .. n /\ j - 1 = k /\ g[k] = h[k]
    BY <1>2, <2>1
  <2> HIDE DEF j
  <2>3. g[j - 1] = h[j - 1]
    BY <2>2
  <2>4. g[j] = h[j]
    BY <2>2, <2>3
  <2> QED BY <2>4 DEF j
<1>3. Nat \subseteq S
  <2> HIDE DEF S
  <2> QED BY <1>1, <1>2, Naturals
<1> QED BY <1>3

\* The blocks of transaction t, whose descriptor is in slot first[t].
Ring == DOMAIN Slots
List(first, t) == Slots[first[t]].blocks

LEMMA Journal ==
  /\ JTable \in Nat /\ JSize \in Nat \ {0} /\ Ring = 0 .. JSize - 1
  /\ \A i \in Ring : Slots[i].id \in Nat /\ (Slots[i].kind = "desc" => Slots[i].len \in Nat)
  /\ \E N, first : Transactions(N, first)
<1>1. /\ JTable \in Nat /\ JSize \in Nat /\ Ring = 0 .. JSize - 1
      /\ \A i \in Ring : Slots[i].id \in Nat /\ (Slots[i].kind = "desc" => Slots[i].len \in Nat)
  BY JournalAssumption DEF Ring
<1>2. \E N \in 0 .. JSize : \E first \in [1 .. N + 1 -> Ring] : Transactions(N, first)
  BY JournalAssumption DEF Ring
<1>3. JSize # 0
  <2>1. PICK N \in 0 .. JSize : \E first \in [1 .. N + 1 -> Ring] : Transactions(N, first)
    BY <1>2
  <2>2. PICK first \in [1 .. N + 1 -> Ring] : Transactions(N, first)
    BY <2>1
  <2>3. 1 \in 1 .. N + 1
    BY <1>1
  <2>4. first[1] \in 0 .. JSize - 1
    BY <1>1, <2>3
  <2> QED BY <1>1, <2>4
<1> QED BY <1>1, <1>2, <1>3

\* One transaction, in a form that the provers read.
LEMMA Transaction ==
  ASSUME NEW N, NEW first, Transactions(N, first), NEW t \in 1 .. N
  PROVE  /\ N \in Nat /\ N <= JSize /\ first[t] \in Ring /\ first[t + 1] \in Ring
         /\ Slots[first[t]].kind = "desc" /\ Slots[first[t]].id = t
         /\ Slots[first[t]].len = Len(List(first, t)) /\ Len(List(first, t)) \in Nat
         /\ DOMAIN List(first, t) = 1 .. Len(List(first, t))
         /\ Slots[(first[t] + Slots[first[t]].len + 1) % JSize].kind = "commit"
         /\ Slots[(first[t] + Slots[first[t]].len + 1) % JSize].id = t
         /\ first[t + 1] = (first[t] + Slots[first[t]].len + 2) % JSize
         /\ \A i, k \in DOMAIN List(first, t) : List(first, t)[i] = List(first, t)[k] => i = k
         /\ \A i \in DOMAIN List(first, t) :
              /\ Slots[(first[t] + i) % JSize].kind = "copy"
              /\ Slots[(first[t] + i) % JSize].of = List(first, t)[i]
              /\ Slots[(first[t] + i) % JSize].id = t
<1>1. N \in Nat /\ N <= JSize /\ first \in [1 .. N + 1 -> Ring]
  BY Journal DEF Transactions, Ring
<1>2. first[t] \in Ring /\ first[t + 1] \in Ring
  BY <1>1
<1>3. /\ Slots[first[t]].kind = "desc" /\ Slots[first[t]].id = t
      /\ Slots[first[t]].len = Len(List(first, t)) /\ List(first, t) \in Seq(Nat \X Nat)
      /\ Slots[(first[t] + Slots[first[t]].len + 1) % JSize].kind = "commit"
      /\ Slots[(first[t] + Slots[first[t]].len + 1) % JSize].id = t
      /\ first[t + 1] = (first[t] + Slots[first[t]].len + 2) % JSize
      /\ \A i, k \in DOMAIN List(first, t) : List(first, t)[i] = List(first, t)[k] => i = k
      /\ \A i \in DOMAIN List(first, t) :
              /\ Slots[(first[t] + i) % JSize].kind = "copy"
              /\ Slots[(first[t] + i) % JSize].of = List(first, t)[i]
              /\ Slots[(first[t] + i) % JSize].id = t
  <2> DEFINE d == Slots[first[t]]
             e == Slots[(first[t] + d.len + 1) % JSize]
  <2>1. /\ d.kind = "desc" /\ d.id = t /\ d.len = Len(d.blocks) /\ d.blocks \in Seq(Nat \X Nat)
        /\ e.kind = "commit" /\ e.id = t
        /\ first[t + 1] = (first[t] + d.len + 2) % JSize
        /\ \A i, k \in DOMAIN d.blocks : d.blocks[i] = d.blocks[k] => i = k
    BY DEF Transactions
  <2>2. ASSUME NEW i \in DOMAIN d.blocks
        PROVE  /\ Slots[(first[t] + i) % JSize].kind = "copy"
               /\ Slots[(first[t] + i) % JSize].of = d.blocks[i]
               /\ Slots[(first[t] + i) % JSize].id = t
    BY DEF Transactions
  <2> QED BY <2>1, <2>2 DEF List
<1>4. Len(List(first, t)) \in Nat /\ DOMAIN List(first, t) = 1 .. Len(List(first, t))
  BY <1>3
<1> QED BY <1>1, <1>2, <1>3, <1>4

\* The lists of the first n transactions.
Lists(first, n) == [t \in 1 .. n |-> List(first, t)]
AllLists(N, first) == {List(first, t) : t \in 1 .. N}

LEMMA ListsIs ==
  ASSUME NEW N, NEW first, Transactions(N, first), NEW n \in 0 .. N
  PROVE  /\ Lists(first, n) \in Seq(AllLists(N, first)) /\ Len(Lists(first, n)) = n
         /\ \A t \in 1 .. n : Lists(first, n)[t] = List(first, t)
         /\ n = 0 => Lists(first, n) = <<>>
         /\ n >= 1 => Lists(first, n) = Append(Lists(first, n - 1), List(first, n))
<1> DEFINE A == AllLists(N, first)
           L(k) == Lists(first, k)
<1>0. N \in Nat /\ n \in Nat
  BY Journal DEF Transactions
<1>1. ASSUME NEW k \in 0 .. N
      PROVE  L(k) \in Seq(A) /\ Len(L(k)) = k /\ \A t \in 1 .. k : L(k)[t] = List(first, t)
  <2>1. k \in Nat /\ \A t \in 1 .. k : List(first, t) \in A
    BY <1>0 DEF AllLists
  <2>2. L(k) = [t \in 1 .. k |-> List(first, t)]
    BY DEF Lists
  <2> HIDE DEF A, L
  <2> QED BY <2>1, <2>2
<1>2. CASE n = 0
  <2>1. Len(L(n)) = 0 /\ L(n) \in Seq(A)
    BY <1>1, <1>2
  <2> HIDE DEF A, L
  <2>2. L(n) = <<>>
    BY <2>1
  <2>3. ~(n >= 1)
    BY <1>2
  <2> QED BY <1>1, <2>2, <2>3 DEF A, L
<1>3. CASE n # 0
  <2> DEFINE k == n - 1
             e == List(first, n)
             v == Append(L(k), e)
  <2>1. k \in 0 .. N /\ k \in Nat /\ k + 1 = n /\ n \in 1 .. N
    BY <1>0, <1>3
  <2>2. e \in A
    BY <2>1 DEF AllLists
  <2> HIDE DEF A, L, e, k
  <2>3. /\ v \in Seq(A) /\ Len(v) = k + 1
        /\ v[k + 1] = e /\ \A i \in 1 .. k : v[i] = L(k)[i]
    BY <1>1, <2>1, <2>2, AppendIs
  <2>4. L(n) \in Seq(A) /\ Len(L(n)) = n
    BY <1>1
  <2> HIDE DEF v
  <2>5. \A i \in 1 .. n : v[i] = L(n)[i]
    <3> TAKE i \in 1 .. n
    <3>1. L(n)[i] = List(first, i)
      BY <1>1
    <3>2. CASE i = n
      BY <2>1, <2>3, <3>1, <3>2 DEF e
    <3>3. CASE i # n
      <4>1. i \in 1 .. k
        BY <2>1, <3>3
      <4>2. L(k)[i] = List(first, i)
        BY <1>1, <2>1, <4>1
      <4> QED BY <2>3, <3>1, <4>1, <4>2
    <3> QED BY <3>2, <3>3
  <2>6. v = L(n)
    BY <2>1, <2>3, <2>4, <2>5, SeqEqual
  <2>7. L(n) = Append(L(n - 1), List(first, n))
    BY <2>6 DEF v, k, e
  <2> QED BY <1>1, <1>3, <2>7 DEF A, L
<1> QED BY <1>2, <1>3

LEMMA JournalInit ==
  ASSUME NEW N, NEW first, Transactions(N, first)
  PROVE  LET J == journal_init(Mounted)
         IN /\ DOMAIN J = MemFields /\ J.trans = N
            /\ Len(J.table) \in Nat
            /\ \A t \in 1 .. Len(J.table) : t <= N /\ J.table[t] = List(first, t)
<1> DEFINE next(i) == (i + Slots[i].len + 2) % JSize
           Whole1(i, id) == /\ Describes(i, id)
                           /\ LET c == (i + Slots[i].len + 1) % JSize
                              IN Slots[c].kind = "commit" /\ Slots[c].id = id
           Step(p, n) == IF Len(p[2]) = n - 1 /\ Whole1(p[1], n)
                           THEN <<next(p[1]), Append(p[2], Slots[p[1]].blocks)>> ELSE p
           Is(h) == h = [n \in 0 .. JSize |-> IF n = 0 THEN <<JFirst, <<>> >> ELSE Step(h[n - 1], n)]
           Most(n) == IF n <= N THEN n ELSE N
           V(n) == <<first[Most(n) + 1], Lists(first, Most(n))>>
           G == [n \in 0 .. JSize |-> V(n)]
           count == CHOOSE h : Is(h)
<1>0. N \in Nat /\ N <= JSize /\ JSize \in Nat /\ first[1] = JFirst /\ JTable \in Nat
  BY Journal DEF Transactions
<1>1. ASSUME NEW n \in 1 .. JSize PROVE Step(V(n - 1), n) = V(n)
  <2> DEFINE p == V(n - 1)
  <2>1. CASE n <= N
    <3>1. Most(n - 1) = n - 1 /\ Most(n) = n /\ n - 1 \in 0 .. N /\ n \in 1 .. N /\ n - 1 + 1 = n
          /\ n \in 0 .. N
      BY <1>0, <2>1
    <3>2. p[1] = first[n] /\ p[2] = Lists(first, n - 1)
      <4> HIDE DEF Most
      <4> QED BY <3>1
    <3>3. Len(p[2]) = n - 1
      <4> HIDE DEF p
      <4> QED BY <3>1, <3>2, ListsIs
    <3> HIDE DEF p
    <3>4. /\ Slots[first[n]].kind = "desc" /\ Slots[first[n]].id = n
          /\ Slots[(first[n] + Slots[first[n]].len + 1) % JSize].kind = "commit"
          /\ Slots[(first[n] + Slots[first[n]].len + 1) % JSize].id = n
          /\ first[n + 1] = (first[n] + Slots[first[n]].len + 2) % JSize
      BY <3>1, Transaction
    <3>5. Whole1(p[1], n) /\ next(p[1]) = first[n + 1]
      BY <3>2, <3>4 DEF Describes
    <3>6. Append(p[2], Slots[p[1]].blocks) = Lists(first, n)
      <4>1. n >= 1
        BY <3>1
      <4>2. Lists(first, n) = Append(Lists(first, n - 1), List(first, n))
        BY <3>1, <4>1, ListsIs
      <4> QED BY <3>2, <4>2 DEF List
    <3>7. Step(p, n) = <<first[n + 1], Lists(first, n)>>
      <4> HIDE DEF next, Whole1
      <4> QED BY <3>3, <3>5, <3>6
    <3> HIDE DEF Step, Most
    <3> QED BY <3>1, <3>7 DEF p
  <2>2. CASE ~(n <= N)
    <3>1. Most(n - 1) = N /\ Most(n) = N /\ N \in 0 .. N
      BY <1>0, <2>2
    <3>2. p[1] = first[N + 1] /\ p[2] = Lists(first, N) /\ p = V(n)
      <4> HIDE DEF Most
      <4> QED BY <3>1
    <3> HIDE DEF p
    <3>3. Len(p[2]) = N
      BY <3>1, <3>2, ListsIs
    <3>4. ~(Len(p[2]) = n - 1 /\ Whole1(p[1], n))
      <4>1. SUFFICES ASSUME n = N + 1, Whole1(p[1], n) PROVE FALSE
        BY <1>0, <3>3
      <4> DEFINE c == (p[1] + Slots[p[1]].len + 1) % JSize
      <4>2. Slots[c].kind = "commit" /\ Slots[c].id = N + 1
        BY <4>1
      <4>3. Slots[p[1]].kind = "desc"
        BY <4>1 DEF Describes
      <4>4. ASSUME c \in Ring PROVE FALSE
        <5> HIDE DEF c
        <5> QED BY <4>2, <4>4 DEF Transactions, Ring
      <4>5. c \in Ring
        <5>1. p[1] \in Ring
          <6>1. N + 1 \in 1 .. N + 1 /\ first \in [1 .. N + 1 -> Ring]
            BY <1>0 DEF Transactions, Ring
          <6> QED BY <3>2, <6>1
        <5>2. Slots[p[1]].len \in Nat /\ p[1] \in Nat /\ JSize \in Nat \ {0} /\ Ring = 0 .. JSize - 1
          BY <4>3, <5>1, Journal
        <5>3. p[1] + Slots[p[1]].len + 1 \in Nat
          BY <5>2
        <5>4. c \in 0 .. JSize - 1
          BY <5>2, <5>3, Divide
        <5> QED BY <5>2, <5>4
      <4> QED BY <4>4, <4>5
    <3> HIDE DEF Whole1, next, V
    <3> QED BY <3>2, <3>4 DEF p
  <2> QED BY <2>1, <2>2
<1>2. Is(G)
  <2>0. Most(0) = 0 /\ 0 \in 0 .. N
    BY <1>0
  <2>1. V(0) = <<JFirst, <<>> >>
    <3>1. Lists(first, 0) = <<>>
      BY <2>0, ListsIs
    <3> HIDE DEF Most
    <3> QED BY <1>0, <2>0, <3>1
  <2> HIDE DEF Step, V, Most
  <2>2. ASSUME NEW n \in 0 .. JSize
        PROVE  V(n) = IF n = 0 THEN <<JFirst, <<>> >> ELSE Step(G[n - 1], n)
    <3>1. CASE n = 0
      BY <2>1, <3>1
    <3>2. CASE n # 0
      <4>1. n \in 1 .. JSize /\ n - 1 \in 0 .. JSize
        BY <1>0, <3>2
      <4>2. G[n - 1] = V(n - 1)
        BY <4>1
      <4> HIDE DEF G
      <4> QED BY <1>1, <3>2, <4>1, <4>2
    <3> QED BY <3>1, <3>2
  <2> QED BY <2>2
<1>3. Is(count)
  <2> HIDE DEF Is, G
  <2> QED BY <1>2
<1>4. count[JSize] = V(JSize)
  <2> HIDE DEF count, Step, V
  <2>1. count[0] = G[0] /\ \A k \in 1 .. JSize : count[k - 1] = G[k - 1] => count[k] = G[k]
    <3>1. count[0] = G[0]
      <4>1. 0 \in 0 .. JSize
        BY <1>0
      <4>2. count[0] = <<JFirst, <<>> >> /\ G[0] = <<JFirst, <<>> >>
        <5> HIDE DEF G
        <5> QED BY <1>2, <1>3, <4>1
      <4> HIDE DEF G
      <4> QED BY <4>2
    <3>2. ASSUME NEW k \in 1 .. JSize, count[k - 1] = G[k - 1] PROVE count[k] = G[k]
      <4>1. k \in 0 .. JSize /\ k # 0
        BY <1>0
      <4>2. count[k] = Step(count[k - 1], k) /\ G[k] = Step(G[k - 1], k)
        <5> HIDE DEF G
        <5> QED BY <1>2, <1>3, <4>1
      <4> HIDE DEF G
      <4> QED BY <3>2, <4>2
    <3> QED BY <3>1, <3>2
  <2>2. \A k \in 0 .. JSize : count[k] = G[k]
    <3> HIDE DEF G, Is
    <3> QED BY <1>0, <2>1, OnlyOne
  <2>3. JSize \in 0 .. JSize
    BY <1>0
  <2> QED BY <2>2, <2>3
<1> DEFINE seen == count[JSize][2]
           table == SubSeq(seen, 1, IF Len(seen) < JTable THEN Len(seen) ELSE JTable)
           J == journal_init(Mounted)
<1>5. seen = Lists(first, N)
  <2>1. Most(JSize) = N
    BY <1>0
  <2> HIDE DEF count, Most
  <2> QED BY <1>4, <2>1
<1>6. J = [Mounted EXCEPT !.trans = Len(seen), !.table = table]
  BY DEF journal_init
<1> HIDE DEF count, seen
<1>7. /\ Len(seen) = N /\ seen \in Seq(AllLists(N, first))
      /\ \A t \in 1 .. N : seen[t] = List(first, t)
  <2>1. N \in 0 .. N
    BY <1>0
  <2> QED BY <1>5, <2>1, ListsIs
<1>8. /\ Len(table) \in Nat
      /\ \A t \in 1 .. Len(table) : t <= N /\ table[t] = List(first, t)
  <2> DEFINE j == IF Len(seen) < JTable THEN Len(seen) ELSE JTable
  <2>1. j \in Nat /\ j <= N
    BY <1>0, <1>7
  <2> HIDE DEF j
  <2>2. SubSeq(seen, 1, j) = [i \in 1 .. (1 + j - 1) |-> seen[i + 1 - 1]]
    BY <1>0, <1>7, <2>1
  <2>3. 1 + j - 1 = j /\ \A i \in 1 .. j : i + 1 - 1 = i /\ i \in 1 .. N
    BY <1>0, <2>1
  <2> DEFINE x == [i \in 1 .. j |-> seen[i]]
  <2>4. SubSeq(seen, 1, j) = x
    BY <2>2, <2>3
  <2>5. Len(x) = j
    BY <2>1
  <2>6. table = x
    BY <2>4 DEF j
  <2> HIDE DEF table
  <2> QED BY <1>7, <2>1, <2>3, <2>5, <2>6
<1> HIDE DEF table, J
<1>9. DOMAIN J = MemFields /\ J.trans = N /\ J.table = table
  BY <1>6, <1>7 DEF Mounted, MemFields
<1> QED BY <1>8, <1>9 DEF J

\* Where the list of transaction t has block b, and the slot of its copy.
Hits(first, t, b) == {i \in DOMAIN List(first, t) : List(first, t)[i] = b}
Spot(first, t, b) == (first[t] + (CHOOSE i \in Hits(first, t, b) : \A h \in Hits(first, t, b) : i <= h))
                       % JSize
CopiesOf(b) == {i \in DOMAIN Slots : Slots[i].kind = "copy" /\ Slots[i].of = b /\
                  Slots[i].id >= 1 /\ \A id \in 1 .. Slots[i].id : \E c \in DOMAIN Slots :
                                        Slots[c].kind = "commit" /\ Slots[c].id = id}

LEMMA SpotIs ==
  ASSUME NEW N, NEW first, Transactions(N, first), NEW t \in 1 .. N, NEW b,
         NEW i \in Hits(first, t, b)
  PROVE  Spot(first, t, b) = (first[t] + i) % JSize /\ Hits(first, t, b) = {i}
<1> DEFINE H == Hits(first, t, b)
<1>1. i \in Nat /\ \A h \in H : h = i
  BY Transaction DEF Hits
<1> HIDE DEF H
<1>2. H = {i}
  <2>1. i \in H
    BY DEF H
  <2> QED BY <1>1, <2>1
<1>3. (CHOOSE h \in H : \A g \in H : h <= g) = i
  BY <1>1, <1>2
<1> QED BY <1>2, <1>3 DEF Spot, H

\* A slot of the ring, by what it is an offset from.
LEMMA InRing ==
  ASSUME NEW N, NEW first, Transactions(N, first), NEW t \in 1 .. N, NEW i \in Nat
  PROVE  (first[t] + i) % JSize \in Ring
<1>1. first[t] \in 0 .. JSize - 1 /\ JSize \in Nat \ {0} /\ Ring = 0 .. JSize - 1
  BY Transaction, Journal
<1>2. first[t] + i \in Nat
  BY <1>1
<1>3. (first[t] + i) % JSize \in 0 .. JSize - 1
  BY <1>1, <1>2, Divide
<1> QED BY <1>1, <1>3

LEMMA CopyCounts ==
  ASSUME NEW N, NEW first, Transactions(N, first), NEW t \in 1 .. N, NEW b,
         NEW i \in Hits(first, t, b)
  PROVE  /\ (first[t] + i) % JSize \in CopiesOf(b)
         /\ Slots[(first[t] + i) % JSize].id = t
<1> DEFINE c == (first[t] + i) % JSize
<1>1. Slots[c].kind = "copy" /\ Slots[c].of = b /\ Slots[c].id = t /\ i \in Nat
  BY Transaction DEF Hits
<1>2. c \in Ring
  BY <1>1, InRing
<1>3. ASSUME NEW id \in 1 .. t
      PROVE  \E e \in Ring : Slots[e].kind = "commit" /\ Slots[e].id = id
  <2>1. N \in Nat
    BY Transaction
  <2>2. id \in 1 .. N
    BY <2>1
  <2>3. Slots[first[id]].len + 1 \in Nat /\ first[id] \in Nat /\ Slots[first[id]].len \in Nat
    <3>1. first[id] \in Ring /\ Slots[first[id]].kind = "desc"
      BY <2>2, Transaction
    <3>2. first[id] \in 0 .. JSize - 1 /\ JSize \in Nat /\ Slots[first[id]].len \in Nat
      BY <3>1, Journal
    <3> QED BY <3>2
  <2>4. (first[id] + Slots[first[id]].len + 1) = first[id] + (Slots[first[id]].len + 1)
    BY <2>3
  <2> DEFINE e == (first[id] + Slots[first[id]].len + 1) % JSize
  <2>5. e \in Ring
    BY <2>2, <2>3, <2>4, InRing
  <2>6. Slots[e].kind = "commit" /\ Slots[e].id = id
    BY <2>2, Transaction
  <2> QED BY <2>5, <2>6
<1> HIDE DEF c
<1>4. c \in CopiesOf(b)
  <2>1. Slots[c].id >= 1
    BY <1>1
  <2> QED BY <1>1, <1>2, <1>3, <2>1 DEF CopiesOf, Ring
<1> QED BY <1>1, <1>4 DEF c

LEMMA CountingCopy ==
  ASSUME NEW N, NEW first, Transactions(N, first), NEW b, NEW c \in CopiesOf(b)
  PROVE  /\ Slots[c].id \in 1 .. N
         /\ \E i \in Hits(first, Slots[c].id, b) : c = (first[Slots[c].id] + i) % JSize
<1> DEFINE t == Slots[c].id
<1>1. c \in Ring /\ Slots[c].kind = "copy" /\ Slots[c].of = b /\ t >= 1 /\ t \in Nat
      /\ \A id \in 1 .. t : \E e \in Ring : Slots[e].kind = "commit" /\ Slots[e].id = id
  BY Journal DEF CopiesOf, Ring
<1>2. N \in Nat /\ \A e \in Ring : Slots[e].kind = "commit" => Slots[e].id # N + 1
  BY Journal DEF Transactions, Ring
<1>3. t \in 1 .. N
  <2>1. ~(N + 1 \in 1 .. t)
    BY <1>1, <1>2
  <2> QED BY <1>1, <1>2, <2>1
<1>4. \E h \in DOMAIN Slots[first[t]].blocks : c = (first[t] + h) % JSize
  BY <1>1, <1>3 DEF Transactions, Ring
<1>5. PICK h \in DOMAIN List(first, t) : c = (first[t] + h) % JSize
  BY <1>4 DEF List
<1>6. Slots[c].of = List(first, t)[h]
  BY <1>3, <1>5, Transaction
<1>7. h \in Hits(first, t, b)
  BY <1>1, <1>5, <1>6 DEF Hits
<1> QED BY <1>3, <1>5, <1>7

\* The last of the first n transactions that has a copy of block b, and its place.
Having(first, n, b) == {t \in 1 .. n : Hits(first, t, b) # {}}
LastSpot(first, n, b) == IF Having(first, n, b) = {} THEN Home
  ELSE Spot(first, CHOOSE t \in Having(first, n, b) : \A s \in Having(first, n, b) : s <= t, b)

LEMMA CurrentIs ==
  ASSUME NEW N, NEW first, Transactions(N, first), NEW b
  PROVE  Current(b) = LastSpot(first, N, b)
<1> DEFINE T == Having(first, N, b)
           a == CHOOSE t \in T : \A s \in T : s <= t
           C == CopiesOf(b)
<1>0. N \in Nat /\ T \subseteq 1 .. N
  BY Journal DEF Transactions, Having
<1>1. Current(b) = IF C = {} THEN Home ELSE CHOOSE i \in C : \A h \in C : Slots[h].id <= Slots[i].id
  BY DEF Current, CopiesOf
<1>2. CASE T = {}
  <2>1. ASSUME NEW c \in C PROVE FALSE
    <3>1. Slots[c].id \in T
      BY CountingCopy DEF Having
    <3> QED BY <1>2, <3>1
  <2>2. C = {}
    BY <2>1
  <2> QED BY <1>1, <1>2, <2>2 DEF LastSpot
<1>3. CASE T # {}
  <2> HIDE DEF T, C
  <2>1. a \in T /\ \A s \in T : s <= a
    <3>1. \E t \in T : \A s \in T : s <= t
      BY <1>0, <1>3, Highest
    <3> QED BY <3>1
  <2> HIDE DEF a
  <2>2. a \in 1 .. N /\ Hits(first, a, b) # {}
    BY <2>1 DEF T, Having
  <2>3. PICK i \in Hits(first, a, b) : TRUE
    BY <2>2
  <2> DEFINE c == (first[a] + i) % JSize
  <2>4. Spot(first, a, b) = c /\ Hits(first, a, b) = {i}
    BY <2>2, SpotIs
  <2>5. c \in C /\ Slots[c].id = a
    BY <2>2, CopyCounts DEF C
  <2> HIDE DEF c
  <2>6. ASSUME NEW h \in C
        PROVE  Slots[h].id \in 1 .. N /\ Slots[h].id <= a /\ (Slots[h].id = a => h = c)
    <3>1. /\ Slots[h].id \in 1 .. N
          /\ \E k \in Hits(first, Slots[h].id, b) : h = (first[Slots[h].id] + k) % JSize
      BY CountingCopy DEF C
    <3>2. Slots[h].id \in T
      BY <3>1 DEF T, Having
    <3>3. Slots[h].id = a => h = c
      BY <2>4, <3>1 DEF c
    <3> QED BY <2>1, <3>1, <3>2, <3>3
  <2>7. (CHOOSE k \in C : \A h \in C : Slots[h].id <= Slots[k].id) = c
    <3>1. \A h \in C : Slots[h].id <= Slots[c].id
      BY <2>5, <2>6
    <3>2. ASSUME NEW k \in C, \A h \in C : Slots[h].id <= Slots[k].id PROVE k = c
      <4>1. a <= Slots[k].id /\ Slots[k].id <= a /\ Slots[k].id \in 1 .. N
        BY <2>5, <2>6, <3>2
      <4>2. Slots[k].id = a
        BY <1>0, <2>2, <4>1
      <4> QED BY <2>6, <4>2
    <3> QED BY <2>5, <3>1, <3>2
  <2>8. C # {}
    BY <2>5
  <2>9. LastSpot(first, N, b) = Spot(first, a, b)
    BY <1>3 DEF LastSpot, T, a
  <2> QED BY <1>1, <2>4, <2>7, <2>8, <2>9
<1> QED BY <1>2, <1>3

\* What journal_init has left in the driver.
JournalOK(m) == \E N, first : /\ Transactions(N, first) /\ m.trans = N /\ Len(m.table) \in Nat
                              /\ \A t \in 1 .. Len(m.table) : t <= N /\ m.table[t] = List(first, t)

\* A block is read where its newest copy that counts is.
LEMMA BlockReadIs ==
  ASSUME NEW m, JournalOK(m), NEW b
  PROVE  block_read(b, m) = Current(b)
<1>1. PICK N, first : /\ Transactions(N, first) /\ m.trans = N /\ Len(m.table) \in Nat
                      /\ \A t \in 1 .. Len(m.table) : t <= N /\ m.table[t] = List(first, t)
  BY DEF JournalOK
<1> DEFINE Step(p, t) ==
             LET list == IF t <= Len(m.table) THEN m.table[t] ELSE Slots[p.desc].blocks
                 hits == {i \in DOMAIN list : list[i] = b}
             IN [at |-> IF hits = {} THEN p.at
                        ELSE (p.desc + (CHOOSE i \in hits : \A h \in hits : i <= h)) % JSize,
                 desc |-> (p.desc + 2 + Len(list)) % JSize]
           Is(h) == h = [t \in 0 .. m.trans |->
                           IF t = 0 THEN [at |-> Home, desc |-> JFirst] ELSE Step(h[t - 1], t)]
           V(t) == [at |-> LastSpot(first, t, b), desc |-> first[t + 1]]
           G == [t \in 0 .. N |-> V(t)]
           go == CHOOSE h : Is(h)
<1>2. N \in Nat /\ first[1] = JFirst
  BY <1>1, Journal DEF Transactions
<1>3. ASSUME NEW t \in 1 .. N PROVE Step(V(t - 1), t) = V(t)
  <2> DEFINE p == V(t - 1)
             list == IF t <= Len(m.table) THEN m.table[t] ELSE Slots[p.desc].blocks
             hits == {i \in DOMAIN list : list[i] = b}
             at == IF hits = {} THEN p.at
                   ELSE (p.desc + (CHOOSE i \in hits : \A h \in hits : i <= h)) % JSize
  <2>1. t \in Nat /\ t >= 1 /\ t - 1 + 1 = t /\ t - 1 \in Nat
    BY <1>2
  <2>2. p.desc = first[t] /\ p.at = LastSpot(first, t - 1, b)
    BY <2>1
  <2> HIDE DEF p
  <2>3. list = List(first, t)
    <3>1. CASE t <= Len(m.table)
      <4>1. t \in 1 .. Len(m.table)
        BY <1>1, <2>1, <3>1
      <4> QED BY <1>1, <3>1, <4>1
    <3>2. CASE ~(t <= Len(m.table))
      BY <2>2, <3>2 DEF List
    <3> QED BY <3>1, <3>2
  <2> HIDE DEF list
  <2>4. hits = Hits(first, t, b)
    BY <2>3 DEF Hits
  <2>5. (p.desc + 2 + Len(list)) % JSize = first[t + 1]
    <3>1. /\ first[t] \in Ring /\ Slots[first[t]].len = Len(List(first, t))
          /\ Len(List(first, t)) \in Nat
          /\ first[t + 1] = (first[t] + Slots[first[t]].len + 2) % JSize
      BY <1>1, Transaction
    <3>2. first[t] \in Nat
      BY <3>1, Journal
    <3>3. first[t] + 2 + Len(list) = first[t] + Slots[first[t]].len + 2
      BY <2>3, <3>1, <3>2
    <3> QED BY <2>2, <3>1, <3>3
  <2> HIDE DEF hits
  <2>6. at = LastSpot(first, t, b)
    <3> DEFINE T(n) == Having(first, n, b)
    <3>1. CASE hits = {}
      <4>1. T(t) = T(t - 1)
        <5>1. ASSUME NEW s \in T(t) PROVE s \in T(t - 1)
          <6>1. s \in 1 .. t /\ s # t
            BY <2>4, <3>1 DEF Having
          <6>2. s \in 1 .. t - 1
            BY <2>1, <6>1
          <6> QED BY <5>1, <6>2 DEF Having
        <5>2. ASSUME NEW s \in T(t - 1) PROVE s \in T(t)
          <6>1. s \in 1 .. t - 1
            BY DEF Having
          <6>2. s \in 1 .. t
            BY <2>1, <6>1
          <6> QED BY <6>2 DEF Having
        <5> HIDE DEF T
        <5> QED BY <5>1, <5>2
      <4>2. LastSpot(first, t, b) = LastSpot(first, t - 1, b)
        BY <4>1 DEF LastSpot
      <4> QED BY <2>2, <3>1, <4>2
    <3>2. CASE hits # {}
      <4>1. t \in T(t) /\ \A s \in T(t) : s \in Int /\ s <= t
        BY <2>1, <2>4, <3>2 DEF Having
      <4> HIDE DEF T
      <4>2. (CHOOSE s \in T(t) : \A r \in T(t) : r <= s) = t
        BY <2>1, <4>1
      <4>3. LastSpot(first, t, b) = Spot(first, t, b)
        BY <4>1, <4>2 DEF LastSpot, T
      <4>4. at = Spot(first, t, b)
        BY <2>2, <2>4, <3>2 DEF Spot
      <4> QED BY <4>3, <4>4
    <3> QED BY <3>1, <3>2
  <2>7. Step(p, t) = [at |-> at, desc |-> (p.desc + 2 + Len(list)) % JSize]
    BY DEF list, hits
  <2> HIDE DEF at, Step
  <2> QED BY <2>5, <2>6, <2>7 DEF p
<1>4. Is(G)
  <2>0. 0 \in 0 .. N /\ 0 + 1 = 1 /\ Having(first, 0, b) = {}
    BY <1>2 DEF Having
  <2>1. V(0) = [at |-> Home, desc |-> JFirst]
    BY <1>2, <2>0 DEF LastSpot
  <2> HIDE DEF Step, V
  <2>2. ASSUME NEW t \in 0 .. N
        PROVE  V(t) = IF t = 0 THEN [at |-> Home, desc |-> JFirst] ELSE Step(G[t - 1], t)
    <3>1. CASE t = 0
      BY <2>1, <3>1
    <3>2. CASE t # 0
      <4>1. t \in 1 .. N /\ t - 1 \in 0 .. N
        BY <1>2, <3>2
      <4>2. G[t - 1] = V(t - 1)
        BY <4>1
      <4> HIDE DEF G
      <4> QED BY <1>3, <3>2, <4>1, <4>2
    <3> QED BY <3>1, <3>2
  <2> QED BY <1>1, <2>2
<1>5. Is(go)
  <2> HIDE DEF Is, G
  <2> QED BY <1>4
<1>6. go[N] = V(N)
  <2> HIDE DEF go, Step, V
  <2>1. go[0] = G[0]
    <3>1. 0 \in 0 .. m.trans
      BY <1>1, <1>2
    <3>2. go[0] = [at |-> Home, desc |-> JFirst] /\ G[0] = [at |-> Home, desc |-> JFirst]
      <4> HIDE DEF G
      <4> QED BY <1>4, <1>5, <3>1
    <3> HIDE DEF G
    <3> QED BY <3>2
  <2>2. ASSUME NEW k \in 1 .. N, go[k - 1] = G[k - 1] PROVE go[k] = G[k]
    <3>1. k \in 0 .. m.trans /\ k # 0
      BY <1>1, <1>2
    <3>2. go[k] = Step(go[k - 1], k) /\ G[k] = Step(G[k - 1], k)
      <4> HIDE DEF G
      <4> QED BY <1>4, <1>5, <3>1
    <3> HIDE DEF G
    <3> QED BY <2>2, <3>2
  <2>3. \A k \in 0 .. N : go[k] = G[k]
    <3> HIDE DEF G, Is
    <3> QED BY <1>2, <2>1, <2>2, OnlyOne
  <2>4. N \in 0 .. N
    BY <1>2
  <2> QED BY <2>3, <2>4
<1>7. block_read(b, m) = go[N].at
  BY <1>1 DEF block_read
<1>8. Current(b) = LastSpot(first, N, b)
  BY <1>1, CurrentIs
<1> HIDE DEF go
<1> QED BY <1>6, <1>7, <1>8

----------------------------------------------------------------------------
(* ReiserFS: the tree.                                                     *)

LEMMA PositionIs ==
  \A j, k, i : <<j, k, i>> \in Positions <=>
     j \in 1 .. Len(Tree) /\ k \in 1 .. Len(Tree[j]) /\ i \in 1 .. Len(Tree[j][k])
BY DEF Positions

LEMMA Position ==
  ASSUME NEW p \in Positions
  PROVE  \E j \in 1 .. Len(Tree) : \E k \in 1 .. Len(Tree[j]) : \E i \in 1 .. Len(Tree[j][k]) :
           p = <<j, k, i>>
<1> DEFINE R(j, k) == {<<j, k, i>> : i \in 1 .. Len(Tree[j][k])}
           Q(j) == UNION {R(j, k) : k \in 1 .. Len(Tree[j])}
<1>1. Positions = UNION {Q(j) : j \in 1 .. Len(Tree)}
  BY DEF Positions
<1>2. PICK j \in 1 .. Len(Tree) : p \in Q(j)
  <2> HIDE DEF Q
  <2> QED BY <1>1
<1>3. PICK k \in 1 .. Len(Tree[j]) : p \in R(j, k)
  <2> HIDE DEF R
  <2> QED BY <1>2
<1> QED BY <1>3

\* The items, in a form that the provers read.
LEMMA Items ==
  /\ Len(Tree) \in Nat \ {0}
  /\ \A j \in 1 .. Len(Tree) : Len(Tree[j]) \in Nat \ {0}
  /\ \A j \in 1 .. Len(Tree) : \A k \in 1 .. Len(Tree[j]) : Len(Tree[j][k]) \in Nat \ {0}
  /\ \A p \in Positions : /\ ItemAt(p).obj \in Nat \ {0} /\ ItemAt(p).off \in Nat
                           /\ ItemAt(p).kind \in {"stat", "direct", "indirect"} /\ ItemAt(p).n \in Nat
  /\ \A f \in Files : f \in Nat \ {0} /\ \E p \in Positions : ItemAt(p) = Stat(f)
<1>1. /\ Len(Tree) \in Nat \ {0}
      /\ \A j \in 1 .. Len(Tree) : Len(Tree[j]) \in Nat \ {0}
      /\ \A j \in 1 .. Len(Tree) : \A k \in 1 .. Len(Tree[j]) : Len(Tree[j][k]) \in Nat \ {0}
  BY TreeAssumption
<1>2. \A p \in Positions :
        ItemAt(p) \in [obj : Nat \ {0}, off : Nat, kind : {"stat", "direct", "indirect"}, n : Nat]
  BY TreeAssumption
<1>3. \A p \in Positions : /\ ItemAt(p).obj \in Nat \ {0} /\ ItemAt(p).off \in Nat
                           /\ ItemAt(p).kind \in {"stat", "direct", "indirect"} /\ ItemAt(p).n \in Nat
  <2> TAKE p \in Positions
  <2> DEFINE it == ItemAt(p)
  <2>1. it \in [obj : Nat \ {0}, off : Nat, kind : {"stat", "direct", "indirect"}, n : Nat]
    BY <1>2
  <2> HIDE DEF it
  <2>2. /\ it.obj \in Nat \ {0} /\ it.off \in Nat /\ it.kind \in {"stat", "direct", "indirect"}
        /\ it.n \in Nat
    BY <2>1
  <2> QED BY <2>2 DEF it
<1>4. \A f \in Files : f \in Nat \ {0} /\ \E p \in Positions : ItemAt(p) = Stat(f)
  BY TreeAssumption
<1> QED BY <1>1, <1>3, <1>4

\* An item of a file, and the next one if there is more of the file.
LEMMA ItemOf ==
  ASSUME NEW p \in Positions, NEW f \in Files, ItemAt(p).obj = f
  PROVE  LET it == ItemAt(p)
         IN /\ IF it.kind = "stat" THEN it.off = 0 ELSE it.off >= 1 /\ it.n >= 1
            /\ ItemEnd(it) \in Nat /\ ItemEnd(it) <= Blocks[f]
            /\ ItemEnd(it) < Blocks[f] =>
                 \E q \in Following(p) : ItemAt(q).obj = f /\ ItemAt(q).off = ItemEnd(it) + 1
<1> DEFINE it == ItemAt(p)
<1>1. it.obj \in Files
  OBVIOUS
<1>2. /\ IF it.kind = "stat" THEN it.off = 0 ELSE it.off >= 1 /\ it.n >= 1
      /\ ItemEnd(it) <= Blocks[it.obj]
      /\ ItemEnd(it) < Blocks[it.obj] =>
           \E q \in Following(p) : ItemAt(q).obj = it.obj /\ ItemAt(q).off = ItemEnd(it) + 1
  BY <1>1, TreeAssumption
<1>3. it.off \in Nat /\ it.n \in Nat
  BY Items
<1> HIDE DEF it
<1>4. ItemEnd(it) \in Nat
  BY <1>2, <1>3 DEF ItemEnd
<1> QED BY <1>2, <1>4 DEF it

LEMMA Ordered ==
  ASSUME NEW p \in Positions, NEW q \in Positions, NEW f \in Files, ItemAt(p) = Stat(f)
  PROVE  /\ Precedes(p, q) => KeyAbove(ItemAt(q), f)
         /\ Precedes(q, p) \/ p = q => ~KeyAbove(ItemAt(q), f)
<1> DEFINE x == ItemAt(p)
           y == ItemAt(q)
<1>1. /\ Precedes(p, q) => x.obj < y.obj \/ (x.obj = y.obj /\ x.off < y.off)
      /\ Precedes(q, p) => y.obj < x.obj \/ (y.obj = x.obj /\ y.off < x.off)
  BY TreeAssumption
<1>2. x.obj = f /\ x.off = 0
  BY DEF Stat
<1>3. y.obj \in Nat /\ y.off \in Nat /\ f \in Nat
  BY Items
<1>4. p = q => y.obj = f /\ y.off = 0
  BY <1>2
<1> HIDE DEF x, y
<1> QED BY <1>1, <1>2, <1>3, <1>4 DEF KeyAbove, x, y

LEMMA ChildIs ==
  ASSUME NEW n \in Nat, NEW first, Len(first) = n, NEW f, NEW c \in 1 .. n,
         \A i \in 1 .. n : KeyAbove(first[i], f) <=> i > c
  PROVE  ChildOf(first, f) = c
<1> DEFINE above == {i \in 2 .. n : KeyAbove(first[i], f)}
<1>1. \A i : i \in above <=> i \in 1 .. n /\ i > c
  OBVIOUS
<1> HIDE DEF above
<1>2. CASE c = n
  <2>1. above = {}
    BY <1>1, <1>2
  <2> QED BY <1>2, <2>1 DEF ChildOf, above
<1>3. CASE c # n
  <2> DEFINE d == c + 1
  <2>1. d \in above /\ d \in Nat /\ \A i \in above : i \in Nat /\ d <= i
    BY <1>1, <1>3
  <2> HIDE DEF d
  <2>2. (CHOOSE i \in above : \A h \in above : i <= h) = d
    <3>1. \A i \in above : (\A h \in above : i <= h) => i = d
      BY <2>1
    <3> QED BY <2>1, <3>1
  <2>3. above # {}
    BY <2>1
  <2>4. ChildOf(first, f) = d - 1
    BY <2>2, <2>3 DEF ChildOf, above
  <2> QED BY <2>4 DEF d
<1> QED BY <1>2, <1>3

\* Where a driver stands in the tree: at an item of a leaf that it has read newly,
\* with the children to go to next.
PosOK(m) == /\ m.end = FALSE /\ m.old = FALSE /\ m.key \in Positions
            /\ m.node = <<m.key[1], m.key[2]>>
            /\ m.nk = <<0, Follow(m.key[2], Len(Tree[m.key[1]])), Follow(m.key[1], Len(Tree))>>

LEMMA ItemIs ==
  ASSUME NEW m, PosOK(m)
  PROVE  Item(m) = ItemAt(m.key)
BY DEF PosOK, Item, ItemAt, Leaf

\* s is m at a leaf that has been read newly.
AtNode(s, m, j, k) == /\ DOMAIN s = MemFields /\ s.trans = m.trans /\ s.table = m.table
                      /\ s.node = <<j, k>> /\ s.old = FALSE /\ s.end = m.end

LEMMA ReadNode ==
  ASSUME NEW m, DOMAIN m = MemFields, JournalOK(m), NEW j, NEW k
  PROVE  AtNode(read_tree_node(m, j, k), m, j, k)
<1>1. block_read(<<j, k>>, m) = Current(<<j, k>>)
  BY BlockReadIs
<1> DEFINE o == block_read(<<j, k>>, m) # Current(<<j, k>>)
<1>2. o = FALSE
  BY <1>1
<1>3. read_tree_node(m, j, k) = [m EXCEPT !.node = <<j, k>>, !.old = o]
  BY DEF read_tree_node
<1> HIDE DEF o
<1> QED BY <1>2, <1>3 DEF MemFields, AtNode

LEMMA SearchStat ==
  ASSUME NEW m, DOMAIN m = MemFields, JournalOK(m), NEW f \in Files
  PROVE  LET s == search_stat(m, f)
         IN /\ DOMAIN s = MemFields /\ JournalOK(s) /\ PosOK(s) /\ Item(s) = Stat(f)
<1>1. PICK p \in Positions : ItemAt(p) = Stat(f)
  BY Items
<1>2. PICK j \in 1 .. Len(Tree) : \E k \in 1 .. Len(Tree[j]) : \E i \in 1 .. Len(Tree[j][k]) :
        p = <<j, k, i>>
  BY Position
<1>3. PICK k \in 1 .. Len(Tree[j]) : \E i \in 1 .. Len(Tree[j][k]) : p = <<j, k, i>>
  BY <1>2
<1>4. PICK i \in 1 .. Len(Tree[j][k]) : p = <<j, k, i>>
  BY <1>3
<1>5. j \in Nat /\ k \in Nat /\ i \in Nat /\ Len(Tree) \in Nat /\ Len(Tree[j]) \in Nat
      /\ Len(Tree[j][k]) \in Nat
  BY Items
<1> DEFINE F == [h \in 1 .. Len(Tree) |-> Tree[h][1][1]]
           E == [h \in 1 .. Len(Tree[j]) |-> Tree[j][h][1]]
<1>6. ChildOf(F, f) = j
  <2>1. ASSUME NEW h \in 1 .. Len(Tree) PROVE KeyAbove(F[h], f) <=> h > j
    <3> DEFINE q == <<h, 1, 1>>
    <3>1. 1 \in 1 .. Len(Tree[h]) /\ 1 \in 1 .. Len(Tree[h][1])
      <4>1. Len(Tree[h]) \in Nat \ {0}
        BY Items
      <4>2. 1 \in 1 .. Len(Tree[h])
        BY <4>1
      <4>3. Len(Tree[h][1]) \in Nat \ {0}
        BY <4>2, Items
      <4> QED BY <4>2, <4>3
    <3>2. q \in Positions
      BY <3>1, PositionIs
    <3>3. F[h] = ItemAt(q)
      BY DEF ItemAt
    <3>4. h > j => Precedes(p, q)
      BY <1>4, <1>5 DEF Precedes
    <3>5. ~(h > j) => Precedes(q, p) \/ p = q
      BY <1>3, <1>4, <1>5 DEF Precedes
    <3> HIDE DEF q, F
    <3> QED BY <1>1, <3>2, <3>3, <3>4, <3>5, Ordered
  <2>2. Len(F) = Len(Tree)
    BY <1>5
  <2> HIDE DEF F
  <2> QED BY <1>5, <2>1, <2>2, ChildIs
<1>7. ChildOf(E, f) = k
  <2>1. ASSUME NEW h \in 1 .. Len(Tree[j]) PROVE KeyAbove(E[h], f) <=> h > k
    <3> DEFINE q == <<j, h, 1>>
    <3>1. 1 \in 1 .. Len(Tree[j][h])
      <4>1. Len(Tree[j][h]) \in Nat \ {0}
        BY Items
      <4> QED BY <4>1
    <3>2. q \in Positions
      BY <3>1, PositionIs
    <3>3. E[h] = ItemAt(q)
      BY DEF ItemAt
    <3>4. h > k => Precedes(p, q)
      BY <1>4, <1>5 DEF Precedes
    <3>5. ~(h > k) => Precedes(q, p) \/ p = q
      BY <1>4, <1>5 DEF Precedes
    <3> HIDE DEF q, E
    <3> QED BY <1>1, <3>2, <3>3, <3>4, <3>5, Ordered
  <2>2. Len(E) = Len(Tree[j])
    BY <1>5
  <2> HIDE DEF E
  <2> QED BY <1>5, <2>1, <2>2, ChildIs
<1> DEFINE at == CHOOSE h \in 1 .. Len(Leaf(j, k)) : Leaf(j, k)[h] = Stat(f)
<1>8. at \in 1 .. Len(Tree[j][k]) /\ Tree[j][k][at] = Stat(f)
  <2>1. Tree[j][k][i] = Stat(f) /\ Leaf(j, k) = Tree[j][k]
    BY <1>1, <1>4 DEF ItemAt, Leaf
  <2> QED BY <2>1
<1> DEFINE r == read_tree_node(m, j, k)
           s == search_stat(m, f)
           nk == <<0, Follow(k, Len(Tree[j])), Follow(j, Len(Tree))>>
           key == <<j, k, at>>
<1>9. s = [r EXCEPT !.nk = nk, !.key = key, !.end = FALSE]
  <2> DEFINE child(a) == ChildOf([h \in 1 .. Len(Node(a)) |-> Node(a)[h][1]], f)
             item(a, b) == CHOOSE h \in 1 .. Len(Leaf(a, b)) : Leaf(a, b)[h] = Stat(f)
             stat(a, b) == [read_tree_node(m, a, b) EXCEPT
                              !.nk = <<0, Follow(b, Len(Node(a))), Follow(a, Len(Tree))>>,
                              !.key = <<a, b, item(a, b)>>, !.end = FALSE]
  <2>1. s = stat(ChildOf(F, f), child(ChildOf(F, f)))
    BY DEF search_stat
  <2>2. [h \in 1 .. Len(Node(j)) |-> Node(j)[h][1]] = E
    BY DEF Node
  <2>3. child(j) = k
    <3> HIDE DEF E
    <3> QED BY <1>7, <2>2
  <2>4. s = stat(j, k)
    <3> HIDE DEF F, child, stat, s
    <3> QED BY <1>6, <2>1, <2>3
  <2> QED BY <2>4 DEF Node
<1> HIDE DEF s, nk, key, at, E, F
<1>10. /\ DOMAIN r = MemFields /\ r.trans = m.trans /\ r.table = m.table
       /\ r.node = <<j, k>> /\ r.old = FALSE
  <2>1. AtNode(r, m, j, k)
    BY ReadNode
  <2> HIDE DEF r
  <2> QED BY <2>1 DEF AtNode
<1> HIDE DEF r
<1>11. /\ DOMAIN s = MemFields /\ s.trans = m.trans /\ s.table = m.table
       /\ s.node = <<j, k>> /\ s.old = FALSE /\ s.nk = nk /\ s.key = key /\ s.end = FALSE
  BY <1>9, <1>10 DEF MemFields
<1>12. JournalOK(s)
  BY <1>11 DEF JournalOK
<1>13. key[1] = j /\ key[2] = k /\ key[3] = at /\ key \in Positions /\ ItemAt(key) = Stat(f)
  BY <1>8, PositionIs DEF key, ItemAt
<1>14. PosOK(s)
  BY <1>11, <1>13 DEF PosOK, nk
<1>15. Item(s) = Stat(f)
  BY <1>11, <1>13, <1>14, ItemIs
<1> QED BY <1>11, <1>12, <1>14, <1>15 DEF s

\* next_key goes to the next item of the tree, and keeps the way on from there.
LEMMA NextKey ==
  ASSUME NEW m, DOMAIN m = MemFields, JournalOK(m), PosOK(m)
  PROVE  /\ DOMAIN next_key(m) = MemFields /\ JournalOK(next_key(m))
         /\ \A q \in Following(m.key) : PosOK(next_key(m)) /\ next_key(m).key = q
<1> DEFINE s == next_key(m)
<1>1. PICK j \in 1 .. Len(Tree) : \E k \in 1 .. Len(Tree[j]) : \E i \in 1 .. Len(Tree[j][k]) :
        m.key = <<j, k, i>>
  BY Position DEF PosOK
<1>2. PICK k \in 1 .. Len(Tree[j]) : \E i \in 1 .. Len(Tree[j][k]) : m.key = <<j, k, i>>
  BY <1>1
<1>3. PICK i \in 1 .. Len(Tree[j][k]) : m.key = <<j, k, i>>
  BY <1>2
<1>4. j \in Nat \ {0} /\ k \in Nat \ {0} /\ i \in Nat \ {0} /\ Len(Tree) \in Nat
      /\ Len(Tree[j]) \in Nat /\ Len(Tree[j][k]) \in Nat
  BY Items
<1> DEFINE a == Follow(k, Len(Tree[j]))
           b == Follow(j, Len(Tree))
<1>5. /\ m.end = FALSE /\ m.old = FALSE /\ m.node = <<j, k>> /\ m.nk = <<0, a, b>>
      /\ m.node[1] = j /\ m.node[2] = k /\ m.key[3] = i /\ m.nk[2] = a /\ m.nk[3] = b
  BY <1>3 DEF PosOK
<1>6. /\ (a = 0) = (k = Len(Tree[j])) /\ (a # 0 => a = k)
      /\ (b = 0) = (j = Len(Tree)) /\ (b # 0 => b = j)
  BY <1>4 DEF Follow
<1> HIDE DEF a, b
<1>7. CASE i < Len(Tree[j][k])
  <2> DEFINE key == <<j, k, i + 1>>
  <2>1. s = [m EXCEPT !.key = [m.key EXCEPT ![3] = m.key[3] + 1]]
    BY <1>5, <1>7 DEF next_key, Leaf
  <2>2. [m.key EXCEPT ![3] = m.key[3] + 1] = key
    BY <1>3
  <2>3. s = [m EXCEPT !.key = key]
    BY <2>1, <2>2
  <2>4. key \in Positions /\ key[1] = j /\ key[2] = k
    BY <1>4, <1>7, PositionIs
  <2>5. Following(m.key) = {key}
    BY <1>3, <1>7 DEF Following
  <2> HIDE DEF key, s
  <2>6. /\ DOMAIN s = MemFields /\ s.trans = m.trans /\ s.table = m.table /\ s.key = key
        /\ s.node = m.node /\ s.nk = m.nk /\ s.old = m.old /\ s.end = m.end
    BY <2>3 DEF MemFields
  <2>7. JournalOK(s)
    BY <2>6 DEF JournalOK
  <2>8. PosOK(s)
    BY <1>5, <2>4, <2>6 DEF PosOK, a, b
  <2> QED BY <2>5, <2>6, <2>7, <2>8 DEF s
<1>8. CASE ~(i < Len(Tree[j][k])) /\ a # 0
  <2> DEFINE c == a + 1
             key == <<j, c, 1>>
             d == Follow(c, Len(Tree[j]))
             nk == <<0, d, b>>
             r == read_tree_node(m, j, c)
  <2>1. s = [r EXCEPT !.key = key, !.nk = [r.nk EXCEPT ![2] = d]]
    BY <1>5, <1>8 DEF next_key, Leaf, Node
  <2>2. c = k + 1 /\ k < Len(Tree[j]) /\ c \in 1 .. Len(Tree[j]) /\ c \in Nat
    BY <1>4, <1>6, <1>8
  <2>3. key \in Positions /\ key[1] = j /\ key[2] = c
    <3>1. Len(Tree[j][c]) \in Nat \ {0}
      BY <2>2, Items
    <3> HIDE DEF c
    <3>2. 1 \in 1 .. Len(Tree[j][c])
      BY <3>1
    <3> QED BY <2>2, <3>2, PositionIs
  <2>4. Following(m.key) = {key}
    BY <1>3, <1>8, <2>2 DEF Following
  <2>5. AtNode(r, m, j, c) /\ r.nk = m.nk
    <3>1. AtNode(r, m, j, c)
      BY ReadNode
    <3>2. r.nk = m.nk
      BY DEF read_tree_node, MemFields
    <3> QED BY <3>1, <3>2
  <2>6. [r.nk EXCEPT ![2] = d] = nk
    <3> HIDE DEF d, r
    <3> QED BY <1>5, <2>5
  <2> HIDE DEF key, s, d, nk, r, c
  <2>7. /\ DOMAIN s = MemFields /\ s.trans = m.trans /\ s.table = m.table /\ s.key = key
        /\ s.node = <<j, c>> /\ s.nk = nk /\ s.old = FALSE /\ s.end = m.end
    BY <2>1, <2>5, <2>6 DEF MemFields, AtNode
  <2>8. JournalOK(s)
    BY <2>7 DEF JournalOK
  <2>9. PosOK(s)
    BY <1>5, <2>3, <2>7 DEF PosOK, b, d, nk
  <2> QED BY <2>4, <2>7, <2>8, <2>9 DEF s
<1>9. CASE ~(i < Len(Tree[j][k])) /\ a = 0 /\ b # 0
  <2> DEFINE c == b + 1
             key == <<c, 1, 1>>
             nk == <<0, Follow(1, Len(Tree[c])), Follow(c, Len(Tree))>>
             r == read_tree_node(m, c, 1)
  <2>1. s = [r EXCEPT !.key = key, !.nk = nk]
    BY <1>5, <1>9 DEF next_key, Leaf, Node
  <2>2. c = j + 1 /\ j < Len(Tree) /\ c \in 1 .. Len(Tree) /\ c \in Nat /\ k = Len(Tree[j])
    BY <1>4, <1>6, <1>9
  <2>3. key \in Positions /\ key[1] = c /\ key[2] = 1
    <3> HIDE DEF c
    <3>1. 1 \in 1 .. Len(Tree[c])
      <4>1. Len(Tree[c]) \in Nat \ {0}
        BY <2>2, Items
      <4> QED BY <4>1
    <3>2. 1 \in 1 .. Len(Tree[c][1])
      <4>1. Len(Tree[c][1]) \in Nat \ {0}
        BY <2>2, <3>1, Items
      <4> QED BY <4>1
    <3> QED BY <2>2, <3>1, <3>2, PositionIs
  <2>4. Following(m.key) = {key}
    BY <1>3, <1>4, <1>9, <2>2 DEF Following
  <2>5. AtNode(r, m, c, 1)
    BY ReadNode
  <2> HIDE DEF key, s, nk, r, c
  <2>6. /\ DOMAIN s = MemFields /\ s.trans = m.trans /\ s.table = m.table /\ s.key = key
        /\ s.node = <<c, 1>> /\ s.nk = nk /\ s.old = FALSE /\ s.end = m.end
    BY <2>1, <2>5 DEF MemFields, AtNode
  <2>7. JournalOK(s)
    BY <2>6 DEF JournalOK
  <2>8. PosOK(s)
    BY <1>5, <2>3, <2>6 DEF PosOK, nk
  <2> QED BY <2>4, <2>6, <2>7, <2>8 DEF s
<1>10. CASE ~(i < Len(Tree[j][k])) /\ a = 0 /\ b = 0
  <2>1. s = [m EXCEPT !.end = TRUE]
    BY <1>5, <1>10 DEF next_key, Leaf
  <2>2. Following(m.key) = {}
    BY <1>3, <1>4, <1>6, <1>10 DEF Following
  <2> HIDE DEF s
  <2>3. DOMAIN s = MemFields /\ s.trans = m.trans /\ s.table = m.table
    BY <2>1 DEF MemFields
  <2>4. JournalOK(s)
    BY <2>3 DEF JournalOK
  <2> QED BY <2>2, <2>3, <2>4 DEF s
<1> QED BY <1>7, <1>8, <1>9, <1>10

\* The next item of a file of which there is more.
LEMMA NextOfFile ==
  ASSUME NEW m, DOMAIN m = MemFields, JournalOK(m), PosOK(m), NEW f \in Files,
         Item(m).obj = f, ItemEnd(Item(m)) < Blocks[f]
  PROVE  LET s == next_key(m)
         IN /\ DOMAIN s = MemFields /\ JournalOK(s) /\ PosOK(s)
            /\ Item(s).obj = f /\ Item(s).off = ItemEnd(Item(m)) + 1
<1> DEFINE p == m.key
<1>1. Item(m) = ItemAt(p) /\ p \in Positions
  BY ItemIs DEF PosOK
<1>2. PICK q \in Following(p) : ItemAt(q).obj = f /\ ItemAt(q).off = ItemEnd(ItemAt(p)) + 1
  BY <1>1, ItemOf
<1> DEFINE s == next_key(m)
<1>3. DOMAIN s = MemFields /\ JournalOK(s) /\ PosOK(s) /\ s.key = q
  BY NextKey
<1> HIDE DEF s, p
<1>4. Item(s) = ItemAt(q)
  BY <1>3, ItemIs
<1> QED BY <1>1, <1>2, <1>3, <1>4 DEF s

----------------------------------------------------------------------------
(* The invariant.                                                          *)

Formats == {"fat32", "fat16", "ext4", "ext2fs", "minix", "reiserfs", "jfs", "xfs", "ufs2",
            "iso9660", "ffs", "none"}
WalkFields == {"asked", "path", "up", "links", "off", "list", "shown", "open", "block"}
Active == pc \in {"scan", "link", "read"}

\* What the mount has found fits the maps of the driver.
Fitting == /\ fs = "minix" => \A f \in Files :
                Kind[f] # "reg" => Blocks[f] <= NDir + Addr + Addr * Addr
           /\ fs \in {"ffs", "ufs2"} => \A f \in Files :
                Kind[f] = "dir" => Blocks[f] <= NDir + Addr

Shape == /\ fs \in Formats /\ Fitting
         /\ pc \in {"idle", "walk", "scan", "link", "read"} /\ file \in Files
         /\ DOMAIN walk = WalkFields /\ walk.up \in Files
         /\ walk.block \in BOOLEAN /\ walk.open \in BOOLEAN
         /\ DOMAIN mem = MemFields
         /\ pc # "idle" => errnum = "none"
         /\ walk.block \/ walk.open => pc \in {"idle", "read"}
         /\ pc = "link" => fs \in Linked /\ Kind[file] = "link"
         /\ pc = "scan" => Kind[file] = "dir"

\* A call is within its file and within what the driver can map.
Size == IF walk.block THEN 2 * Blocks[file] ELSE Blocks[file]
Numbers == ~Exempt =>
  /\ Active \/ walk.open => filepos \in Nat
  /\ Active => /\ left \in Nat /\ goal \in Nat /\ filepos + left = goal
               /\ goal <= Size /\ goal <= Reach

\* What the driver keeps is of the file that is loaded.
FileMem(d, m, f) == /\ d = "blocklist" => BlockOK(m, f)
                    /\ d = "ext2fs" => TopOK(m, f)
                    /\ d = "minix" => MapOK(m, f)
                    /\ d \in {"ffs", "ufs2"} => UfsOK(d, m)
                    /\ d \in Fats => FatOK(m, f)
                    /\ d = "reiserfs" => JournalOK(m) /\ PosOK(m)
Buffered == errnum = "none" => FileMem(Driver, mem, file)

\* And it is at the position of the call, or before it.
Place == /\ Driver = "xfs" \/ (Driver = "jfs" /\ pc # "scan") =>
              (InCall /\ ~Exempt => CursorOK(mem, file, filepos))
         /\ Driver = "reiserfs" /\ pc = "walk" => Item(mem) = Stat(file)
         /\ Driver = "reiserfs" /\ pc = "scan" =>
              /\ Item(mem).obj = file /\ ItemEnd(Item(mem)) = filepos /\ goal = Blocks[file]
         /\ Driver = "reiserfs" /\ pc \in {"link", "read"} /\ left > 0 =>
              Item(mem).obj = file /\ Item(mem).off <= filepos + 1

FsysInv == Shape /\ Numbers /\ Buffered /\ Place /\ ReadIsFile

LEMMA NotExempt == Driver # "jfs" => ~Exempt
BY DEF Exempt

LEMMA DriverIs == (walk.block => Driver = "blocklist") /\ (~walk.block => Driver = fs)
BY DEF Driver

LEMMA Sizes ==
  ASSUME Shape
  PROVE  /\ Blocks[file] \in Nat \ {0} /\ Blocks[file] <= MAXINT - 1
         /\ Size \in Nat /\ Reach \in Nat /\ Addr \in Nat /\ NDir \in Nat
<1>1. Blocks[file] \in 1 .. MAXINT - 1
  BY FsysAssumption DEF Shape
<1>2. MAXINT \in Nat
  BY MaxInt
<1>3. Blocks[file] \in Nat \ {0} /\ Blocks[file] <= MAXINT - 1
  BY <1>1, <1>2
<1>4. Size \in Nat
  BY <1>3 DEF Size
<1>5. Addr \in Nat /\ NDir \in Nat
  BY FsysAssumption
<1>6. Reach \in Nat
  <2>1. NDir + Addr + Addr * Addr \in Nat /\ NDir + Addr \in Nat
    BY <1>5
  <2> QED BY <1>2, <2>1 DEF Reach
<1> QED BY <1>3, <1>4, <1>5, <1>6

\* What holds at the start of a round.
LEMMA InFile ==
  ASSUME FsysInv, InCall, ~Exempt
  PROVE  /\ filepos \in Nat /\ left \in Nat /\ left >= 1 /\ filepos < Size /\ filepos < Reach
         /\ goal \in Nat /\ filepos + left = goal /\ goal <= Size /\ goal <= Reach
<1>1. Active /\ left > 0
  BY DEF InCall, Active
<1>2. filepos \in Nat /\ left \in Nat /\ goal \in Nat /\ filepos + left = goal
      /\ goal <= Size /\ goal <= Reach
  BY <1>1 DEF FsysInv, Numbers
<1>3. Size \in Nat /\ Reach \in Nat
  BY Sizes DEF FsysInv
<1> QED BY <1>1, <1>2, <1>3

LEMMA InBuffers ==
  ASSUME FsysInv, InCall
  PROVE  FileMem(Driver, mem, file) /\ DOMAIN mem = MemFields /\ file \in Files
BY DEF FsysInv, InCall, Shape, Buffered

\* A round that delivers k blocks, or none, and leaves the driver where it must be.
LEMMA RoundKeeps ==
  ASSUME FsysInv, InCall, Same, DOMAIN mem' = MemFields, FileMem(Driver, mem', file), Place',
         ~Exempt => /\ \E k \in Nat : k <= left /\ filepos' = filepos + k /\ left' = left - k
                    /\ \A g \in got' : Right(g)
  PROVE  FsysInv'
<1>1. /\ fs' = fs /\ pc' = pc /\ file' = file /\ walk' = walk /\ goal' = goal /\ errnum' = errnum
  BY DEF Same
<1>2. Driver' = Driver
  BY <1>1 DEF Driver
<1>3. Exempt' = Exempt /\ Size' = Size /\ Reach' = Reach /\ Active' = Active
  BY <1>1, <1>2 DEF Exempt, Size, Reach, Active, Leaves
<1>4. Shape'
  BY <1>1 DEF FsysInv, Shape, Fitting
<1>5. Numbers'
  <2>1. SUFFICES ASSUME ~Exempt PROVE filepos' \in Nat /\ left' \in Nat /\ goal' \in Nat
                            /\ filepos' + left' = goal' /\ goal' <= Size /\ goal' <= Reach
    BY <1>3 DEF Numbers
  <2>2. PICK k \in Nat : k <= left /\ filepos' = filepos + k /\ left' = left - k
    BY <2>1
  <2>3. /\ filepos \in Nat /\ left \in Nat /\ goal \in Nat /\ filepos + left = goal
        /\ goal <= Size /\ goal <= Reach
    BY <2>1, InFile
  <2> QED BY <1>1, <2>2, <2>3
<1>6. Buffered'
  BY <1>1, <1>2 DEF Buffered
<1>7. ReadIsFile'
  <2>1. \A f, n : Content(f, n)' = Content(f, n) /\ Lost(f, n)' = Lost(f, n)
    BY <1>2 DEF Content, Lost
  <2>2. \A g : Right(g)' = Right(g)
    BY <2>1 DEF Right
  <2> QED BY <1>3, <2>2 DEF ReadIsFile
<1> QED BY <1>4, <1>5, <1>6, <1>7 DEF FsysInv

\* The drivers that have no place in a file.
LEMMA NoPlace ==
  ASSUME Same, Driver \notin {"xfs", "jfs", "reiserfs"}
  PROVE  Place'
<1>1. Driver' = Driver
  BY DEF Driver, Same
<1> QED BY <1>1 DEF Place

\* A round of one block.
LEMMA OneBlock ==
  ASSUME FsysInv, InCall, ~Exempt, NEW v, Lost(file, filepos) \/ v = Content(file, filepos),
         got' = {<<file, filepos + i, v>> : i \in 0 .. 1 - 1},
         filepos' = filepos + 1, left' = left - 1
  PROVE  /\ \E k \in Nat : k <= left /\ filepos' = filepos + k /\ left' = left - k
         /\ \A g \in got' : Right(g)
<1>1. filepos \in Nat /\ left \in Nat /\ left >= 1
  BY InFile
<1>2. \A g \in got' : g = <<file, filepos, v>>
  <2>1. \A i \in 0 .. 1 - 1 : filepos + i = filepos
    BY <1>1
  <2> QED BY <2>1
<1>3. \A g \in got' : Right(g)
  BY <1>2 DEF Right
<1>4. 1 \in Nat /\ 1 <= left
  BY <1>1
<1> QED BY <1>3, <1>4

LEMMA Ext2Round ==
  ASSUME FsysInv, ext2fs_read
  PROVE  FsysInv'
<1>1. InCall /\ Same /\ Driver \in {"ext2fs", "ext4"}
  BY DEF ext2fs_read
<1>2. ~Exempt /\ ~walk.block /\ Driver = fs
  BY <1>1, NotExempt, DriverIs
<1>3. filepos \in Nat /\ filepos < Size /\ Size = Blocks[file] /\ Size \in Nat
  BY <1>1, <1>2, InFile, Sizes DEF Size, FsysInv
<1>4. FileMem(Driver, mem, file) /\ DOMAIN mem = MemFields /\ file \in Files
  BY <1>1, InBuffers
<1> DEFINE m == IF fs = "ext4" THEN ext4fs_block_map(file, filepos, mem)
                               ELSE ext2fs_block_map(file, filepos, mem)
<1>5. /\ got' = {<<file, filepos + i, m.map>> : i \in 0 .. 1 - 1}
      /\ filepos' = filepos + 1 /\ left' = left - 1
      /\ mem' = IF pc = "scan" THEN Scanned(m) ELSE m
  BY DEF ext2fs_read, Deliver, Scanned
<1>6. /\ DOMAIN m = MemFields
      /\ Lost(file, filepos) \/ m.map = Content(file, filepos)
      /\ Driver = "ext2fs" => TopOK(m, file)
  <2>1. CASE fs = "ext4"
    <3>1. filepos \in 0 .. Blocks[file] - 1
      BY <1>3
    <3>2. m = [mem EXCEPT !.map = <<file, filepos>>]
      BY <1>4, <2>1, <3>1, Ext4Map DEF MemFields
    <3>3. Driver = "ext4"
      BY <1>2, <2>1
    <3>4. Content(file, filepos) = <<file, filepos>>
      BY <3>3 DEF Content
    <3> HIDE DEF m
    <3> QED BY <1>4, <3>2, <3>3, <3>4 DEF MemFields
  <2>2. CASE fs # "ext4"
    <3>1. Driver = "ext2fs"
      BY <1>1, <1>2, <2>2
    <3>2. TopOK(mem, file)
      BY <1>4, <3>1 DEF FileMem
    <3>3. m = ext2fs_block_map(file, filepos, mem)
      BY <2>2
    <3> HIDE DEF m
    <3>4. filepos \in 0 .. Blocks[file] - 1
      BY <1>3
    <3>5. /\ DOMAIN m = MemFields /\ TopOK(m, file)
          /\ (filepos >= NDir => \A S \in Tables(filepos) : ~Absent(file, S))
               => m.map = Data(file, filepos)
      BY <1>4, <3>2, <3>3, <3>4, Ext2Map
    <3>6. Content(file, filepos) = Data(file, filepos)
      BY <3>1 DEF Content, Data
    <3>7. ~Lost(file, filepos) =>
            (filepos >= NDir => \A S \in Tables(filepos) : ~Absent(file, S))
      BY <3>1 DEF Lost
    <3> QED BY <3>5, <3>6, <3>7
  <2> QED BY <2>1, <2>2
<1> HIDE DEF m
<1>7. DOMAIN mem' = MemFields /\ FileMem(Driver, mem', file)
  <2>1. DOMAIN Scanned(m) = MemFields
    BY <1>6 DEF Scanned
  <2>2. Driver = "ext2fs" => TopOK(Scanned(m), file)
    BY <1>6, ScannedKeeps
  <2>3. Driver = "ext2fs" => TopOK(mem', file)
    BY <1>5, <1>6, <2>2
  <2>4. Driver \notin {"blocklist", "minix", "ffs", "ufs2", "reiserfs"} \cup Fats
    BY <1>1 DEF Fats
  <2> QED BY <1>5, <1>6, <2>1, <2>3, <2>4 DEF FileMem
<1>8. Place'
  BY <1>1, NoPlace
<1> QED BY <1>1, <1>2, <1>5, <1>6, <1>7, <1>8, OneBlock, RoundKeeps

LEMMA MinixRound ==
  ASSUME FsysInv, minix_read
  PROVE  FsysInv'
<1>1. InCall /\ Same /\ Driver = "minix"
  BY DEF minix_read
<1>2. ~Exempt
  BY <1>1, NotExempt
<1>3. filepos \in Nat /\ filepos < Reach /\ Reach = NDir + Addr + Addr * Addr /\ Reach \in Nat
  BY <1>1, <1>2, InFile, Sizes DEF Reach, FsysInv
<1>4. MapOK(mem, file) /\ DOMAIN mem = MemFields /\ file \in Files
  BY <1>1, InBuffers DEF FileMem
<1> DEFINE m == minix_block_map(file, filepos, mem)
<1>5. /\ got' = {<<file, filepos + i, m.map>> : i \in 0 .. 1 - 1}
      /\ filepos' = filepos + 1 /\ left' = left - 1
      /\ mem' = IF pc = "scan" THEN Scanned(m) ELSE m
  BY DEF minix_read, Deliver, Scanned
<1>6. DOMAIN m = MemFields /\ m.map = Content(file, filepos) /\ MapOK(m, file)
  <2>1. filepos \in 0 .. NDir + Addr + Addr * Addr - 1
    BY <1>3, FsysAssumption
  <2> DEFINE pos == filepos
  <2>2. m = minix_block_map(file, pos, mem) /\ pos \in 0 .. NDir + Addr + Addr * Addr - 1
    BY <2>1
  <2> HIDE DEF m, pos
  <2>4. DOMAIN m = MemFields /\ MapOK(m, file) /\ m.map = OnDisk(file, pos)
    BY <1>4, <2>2, MinixMap
  <2>3. Content(file, filepos) = OnDisk(file, filepos)
    BY <1>1 DEF Content
  <2> QED BY <2>3, <2>4 DEF pos
<1> HIDE DEF m
<1>7. DOMAIN mem' = MemFields /\ FileMem(Driver, mem', file)
  <2>1. DOMAIN Scanned(m) = MemFields
    BY <1>6 DEF Scanned
  <2>2. MapOK(Scanned(m), file)
    BY <1>6, ScannedKeeps
  <2>3. MapOK(mem', file)
    BY <1>5, <1>6, <2>2
  <2>4. Driver \notin {"blocklist", "ext2fs", "ffs", "ufs2", "reiserfs"} \cup Fats
    BY <1>1 DEF Fats
  <2> QED BY <1>5, <1>6, <2>1, <2>3, <2>4 DEF FileMem
<1>8. Place'
  BY <1>1, NoPlace
<1> QED BY <1>1, <1>2, <1>5, <1>6, <1>7, <1>8, OneBlock, RoundKeeps

LEMMA UfsRound ==
  ASSUME FsysInv, ffs_read \/ ufs2_read
  PROVE  FsysInv'
<1>1. InCall /\ Same /\ Driver \in {"ffs", "ufs2"}
  BY DEF ffs_read, ufs2_read
<1>2. ~Exempt
  BY <1>1, NotExempt
<1>3. filepos \in Nat /\ filepos < Reach /\ Reach = NDir + Addr /\ Reach \in Nat
  BY <1>1, <1>2, InFile, Sizes DEF Reach, FsysInv
<1>4. UfsOK(Driver, mem) /\ DOMAIN mem = MemFields
  BY <1>1, InBuffers DEF FileMem
<1> DEFINE w == IF Driver = "ffs" THEN 4 ELSE 8
           len == MapLen[Driver]
           m == MapBuf(file, filepos, mem, w, len)
<1>a. w \in Nat \ {0} /\ len \in Nat \ {0} /\ Addr \in Nat
  BY <1>1, FsysAssumption
<1>5. /\ got' = {<<file, filepos + i, m.map>> : i \in 0 .. 1 - 1}
      /\ filepos' = filepos + 1 /\ left' = left - 1 /\ mem' = m
  <2>1. CASE ffs_read
    BY <2>1 DEF ffs_read, Deliver, ffs_block_map
  <2>2. CASE ufs2_read
    BY <2>2 DEF ufs2_read, Deliver, ufs2_block_map
  <2> QED BY <2>1, <2>2
<1>6. /\ DOMAIN m = MemFields
      /\ Lost(file, filepos) \/ m.map = Content(file, filepos)
      /\ UfsOK(Driver, m)
  <2> DEFINE pos == filepos
             buf == mem
  <2>1. m = MapBuf(file, pos, buf, w, len) /\ pos \in 0 .. NDir + Addr - 1
    BY <1>3, FsysAssumption
  <2>2. Content(file, filepos) = OnDisk(file, pos)
    BY <1>1 DEF Content
  <2>3. DOMAIN buf = MemFields /\ UfsOK(Driver, buf)
    BY <1>4
  <2>4. Lost(file, filepos) <=> pos >= NDir /\ Addr > len
    BY <1>1 DEF Lost
  <2>5. CASE Addr <= len
    <3>1. InMapBuf(buf)
      BY <2>3, <2>5 DEF UfsOK
    <3> HIDE DEF m, pos, buf, w, len
    <3>2. DOMAIN m = MemFields /\ InMapBuf(m) /\ m.map = OnDisk(file, pos)
      BY <1>a, <2>1, <2>3, <2>5, <3>1, MapBufOK
    <3> QED BY <2>2, <3>2 DEF UfsOK
  <2>6. CASE ~(Addr <= len)
    <3>1. UfsOK(Driver, m)
      BY <2>6 DEF UfsOK
    <3>2. pos \in Nat /\ NDir \in Nat /\ (pos >= NDir => Lost(file, filepos))
      BY <1>3, <1>a, <2>4, <2>6, FsysAssumption
    <3> HIDE DEF m, pos, buf, w, len
    <3>3. DOMAIN m = MemFields /\ (pos < NDir => m.map = <<file, pos>>)
      BY <2>1, <2>3, MapBufFields
    <3>4. pos < NDir => OnDisk(file, pos) = <<file, pos>>
      <4>1. Addr \in Nat \ {0, 1}
        BY FsysAssumption
      <4> QED BY <3>2, <4>1 DEF OnDisk
    <3>5. CASE pos < NDir
      <4>1. m.map = Content(file, filepos)
        BY <2>2, <3>3, <3>4, <3>5
      <4> QED BY <3>1, <3>3, <4>1
    <3>6. CASE ~(pos < NDir)
      <4>1. Lost(file, filepos)
        BY <3>2, <3>6
      <4> QED BY <3>1, <3>3, <4>1
    <3> QED BY <3>5, <3>6
  <2> QED BY <2>5, <2>6
<1> HIDE DEF m, w, len
<1>7. DOMAIN mem' = MemFields /\ FileMem(Driver, mem', file)
  <2>1. Driver \notin {"blocklist", "ext2fs", "minix", "reiserfs"} \cup Fats
    BY <1>1 DEF Fats
  <2> QED BY <1>5, <1>6, <2>1 DEF FileMem
<1>8. Place'
  BY <1>1, NoPlace
<1> QED BY <1>1, <1>2, <1>5, <1>6, <1>7, <1>8, OneBlock, RoundKeeps

LEMMA IsoRound ==
  ASSUME FsysInv, iso9660_read
  PROVE  FsysInv'
<1>1. InCall /\ Same /\ Driver = "iso9660" /\ mem' = mem
  BY DEF iso9660_read
<1>2. ~Exempt
  BY <1>1, NotExempt
<1> DEFINE v == <<file, filepos>>
<1>3. got' = {<<file, filepos + i, v>> : i \in 0 .. 1 - 1} /\ filepos' = filepos + 1
      /\ left' = left - 1
  BY DEF iso9660_read, Deliver
<1>4. v = Content(file, filepos)
  BY <1>1 DEF Content
<1>5. FileMem(Driver, mem', file) /\ DOMAIN mem' = MemFields
  BY <1>1, InBuffers
<1>6. Place'
  BY <1>1, NoPlace
<1> HIDE DEF v
<1> QED BY <1>1, <1>2, <1>3, <1>4, <1>5, <1>6, OneBlock, RoundKeeps

\* Nothing is delivered.
LEMMA NoBlock ==
  ASSUME FsysInv, InCall, ~Exempt, Silent
  PROVE  /\ \E k \in Nat : k <= left /\ filepos' = filepos + k /\ left' = left - k
         /\ \A g \in got' : Right(g)
<1>1. filepos \in Nat /\ left \in Nat /\ filepos' = filepos /\ left' = left /\ got' = {}
  BY InFile DEF Silent
<1>2. 0 \in Nat /\ 0 <= left /\ filepos' = filepos + 0 /\ left' = left - 0
  BY <1>1
<1> QED BY <1>1, <1>2

LEMMA FatRounds ==
  ASSUME FsysInv, fat_chain \/ fat_read
  PROVE  FsysInv'
<1>1. InCall /\ Driver \in Fats
  BY DEF fat_chain, fat_read
<1>2. ~Exempt /\ ~walk.block /\ Driver = fs
  BY <1>1, NotExempt, DriverIs DEF Fats
<1>3. filepos \in Nat /\ filepos < Size /\ Size = Blocks[file] /\ Size \in Nat
  BY <1>1, <1>2, InFile, Sizes DEF Size, FsysInv
<1>4. FatOK(mem, file) /\ DOMAIN mem = MemFields /\ file \in Files
  BY <1>1, InBuffers DEF FileMem
<1> DEFINE m == FatStart(mem)
<1>5. filepos \in 0 .. Blocks[file] - 1
  BY <1>3
<1>6. /\ DOMAIN m = MemFields /\ FatOK(m, file) /\ m.ccn \in Nat /\ m.ccn <= filepos
      /\ m.cc = Cluster(file, m.ccn)
  BY <1>4, <1>5, FatStartOK
<1>7. Driver \notin {"blocklist", "ext2fs", "minix", "ffs", "ufs2", "reiserfs", "xfs", "jfs"}
  BY <1>1 DEF Fats
<1>8. m.win = m.buf
  BY <1>6 DEF FatOK
<1>9. ASSUME fat_chain PROVE FsysInv'
  <2> DEFINE w == m.cc \div Window
             next == FatEntry(m.buf * Window + (m.cc % Window))
  <2>1. filepos > m.ccn
    BY <1>9 DEF fat_chain
  <2>2. CASE m.win # w
    <3> DEFINE r == [m EXCEPT !.win = w, !.buf = w]
    <3>1. mem' = r /\ Silent /\ Same
      BY <1>9, <2>2 DEF fat_chain
    <3> HIDE DEF m, w
    <3>2. /\ DOMAIN r = MemFields /\ r.win = w /\ r.buf = w /\ r.ccn = m.ccn /\ r.cc = m.cc
      BY <1>6 DEF MemFields
    <3> HIDE DEF r
    <3>3. FatOK(r, file)
      BY <1>6, <3>2 DEF FatOK
    <3>4. FileMem(Driver, mem', file) /\ DOMAIN mem' = MemFields
      BY <1>7, <3>1, <3>2, <3>3 DEF FileMem
    <3>5. Place'
      BY <1>7, <3>1, NoPlace
    <3> QED BY <1>1, <1>2, <3>1, <3>4, <3>5, NoBlock, RoundKeeps
  <2>3. CASE ~(m.win # w)
    <3>1. m.ccn + 1 < Blocks[file] /\ m.ccn + 1 \in Nat
      BY <1>3, <1>6, <2>1
    <3>2. next = Cluster(file, m.ccn + 1) /\ Cluster(file, m.ccn + 1) # EofMarker
      <4> DEFINE c == m.cc
                 n == m.ccn
                 buf == m.buf
      <4>1. c = Cluster(file, n) /\ buf = c \div Window /\ n \in Nat /\ n + 1 < Blocks[file]
        BY <1>6, <1>8, <2>3, <3>1
      <4> HIDE DEF c, n, buf
      <4>2. /\ FatEntry(buf * Window + (c % Window)) = Cluster(file, n + 1)
            /\ Cluster(file, n + 1) # EofMarker
        BY <1>4, <4>1, FatNext
      <4> QED BY <4>2 DEF c, n, buf
    <3> DEFINE r == [m EXCEPT !.cc = next, !.ccn = m.ccn + 1]
    <3>3. mem' = r /\ Silent /\ Same
      <4>1. next # EofMarker
        BY <3>2
      <4>2. IF m.win # w THEN mem' = [m EXCEPT !.win = w, !.buf = w] /\ Silent /\ Same
            ELSE IF next = EofMarker
              THEN /\ mem' = m /\ got' = {} /\ left' = 0
                   /\ UNCHANGED <<fs, pc, file, walk, filepos, goal, errnum>>
              ELSE mem' = r /\ Silent /\ Same
        BY <1>9 DEF fat_chain
      <4> HIDE DEF m, w, next, r
      <4> QED BY <2>3, <4>1, <4>2
    <3> HIDE DEF m, next
    <3>4. /\ DOMAIN r = MemFields /\ r.win = m.win /\ r.buf = m.buf /\ r.ccn = m.ccn + 1
          /\ r.cc = Cluster(file, m.ccn + 1)
      BY <1>6, <3>2 DEF MemFields
    <3> HIDE DEF r
    <3>5. FatOK(r, file)
      BY <1>8, <3>1, <3>4 DEF FatOK
    <3>6. FileMem(Driver, mem', file) /\ DOMAIN mem' = MemFields
      BY <1>7, <3>3, <3>4, <3>5 DEF FileMem
    <3>7. Place'
      BY <1>7, <3>3, NoPlace
    <3> QED BY <1>1, <1>2, <3>3, <3>6, <3>7, NoBlock, RoundKeeps
  <2> QED BY <2>2, <2>3
<1>10. ASSUME fat_read PROVE FsysInv'
  <2> DEFINE v == IF FixedRoot THEN <<file, filepos>> ELSE At(m.cc - 2)
  <2>1. /\ got' = {<<file, filepos + i, v>> : i \in 0 .. 1 - 1}
        /\ filepos' = filepos + 1 /\ left' = left - 1
        /\ mem' = (IF FixedRoot THEN mem ELSE m) /\ Same
    BY <1>10 DEF fat_read, Deliver
  <2>2. v = <<file, filepos>>
    <3>1. CASE FixedRoot
      BY <3>1
    <3>2. CASE ~FixedRoot
      <4>1. filepos <= m.ccn
        BY <1>10, <3>2 DEF fat_read
      <4> HIDE DEF m
      <4>2. m.ccn = filepos
        BY <1>3, <1>6, <4>1
      <4>3. At(Cluster(file, filepos) - 2) = <<file, filepos>>
        BY <1>4, <1>5, ClusterIs
      <4> QED BY <1>6, <3>2, <4>2, <4>3
    <3> QED BY <3>1, <3>2
  <2>3. Content(file, filepos) = <<file, filepos>>
    BY <1>7 DEF Content
  <2> HIDE DEF v, m
  <2>4. FatOK(mem', file) /\ DOMAIN mem' = MemFields
    BY <1>4, <1>6, <2>1
  <2>5. FileMem(Driver, mem', file)
    BY <1>7, <2>4 DEF FileMem
  <2>6. Place'
    BY <1>7, <2>1, NoPlace
  <2>7. v = Content(file, filepos)
    BY <2>2, <2>3
  <2> QED BY <1>1, <1>2, <2>1, <2>4, <2>5, <2>6, <2>7, OneBlock, RoundKeeps
<1> QED BY <1>9, <1>10

\* A round over an extent: the part that is wanted, or nothing.
LEMMA ExtentRound ==
  ASSUME FsysInv, InCall, Same,
         Driver = "xfs" \/ (Driver = "jfs" /\ pc # "scan"),
         ~AtEnd(mem), NEW next, ReadExtent(next),
         IF Driver = "xfs" THEN next = xfs_next_extent(mem) ELSE next = jfs_next_extent(mem)
  PROVE  FsysInv'
<1> DEFINE x == Xad(mem)
           want == IF pc = "scan" THEN 1 ELSE left
           rest == x.off + x.len - filepos
           k == IF rest > want THEN want ELSE rest
           r == [next EXCEPT !.prev = x.off + x.len]
<1>1. Driver \in {"xfs", "jfs"} /\ Driver' = Driver /\ Exempt' = Exempt /\ pc' = pc /\ file' = file
  <2>1. fs' = fs /\ pc' = pc /\ file' = file /\ walk' = walk
    BY DEF Same
  <2>2. Driver' = Driver
    BY <2>1 DEF Driver
  <2> QED BY <2>1, <2>2 DEF Exempt, Leaves
<1>2. DOMAIN mem = MemFields /\ file \in Files
  BY InBuffers
<1>3. mem' = r
  BY DEF ReadExtent
<1>4. IF isinxt(filepos, x.off, x.len)
        THEN /\ got' = {<<file, filepos + i, At(x.start + (filepos - x.off) + i)>> : i \in 0 .. k - 1}
             /\ filepos' = filepos + k /\ left' = left - k
        ELSE Silent
  BY DEF ReadExtent, Deliver
<1>5. DOMAIN next = MemFields
  <2>1. DOMAIN xfs_next_extent(mem) = MemFields
    BY <1>2 DEF xfs_next_extent, MemFields
  <2>2. DOMAIN jfs_next_extent(mem) = MemFields
    BY <1>2 DEF jfs_next_extent, MemFields
  <2> QED BY <2>1, <2>2
<1>6. DOMAIN mem' = MemFields
  <2> HIDE DEF x
  <2> QED BY <1>3, <1>5 DEF MemFields
<1>7. FileMem(Driver, mem', file)
  BY <1>1 DEF FileMem, Fats
<1>8. ASSUME ~Exempt
      PROVE  /\ \E h \in Nat : h <= left /\ filepos' = filepos + h /\ left' = left - h
             /\ \A g \in got' : Right(g)
             /\ InCall' => CursorOK(mem', file, filepos')
  <2>1. /\ filepos \in Nat /\ left \in Nat /\ left >= 1 /\ filepos + left <= Blocks[file]
        /\ Blocks[file] \in Nat
    <3>1. Size = Blocks[file]
      BY <1>1, DriverIs DEF Size
    <3>2. /\ filepos \in Nat /\ left \in Nat /\ left >= 1 /\ goal \in Nat /\ filepos + left = goal
          /\ goal <= Size
      BY <1>8, InFile
    <3>3. Size \in Nat
      BY Sizes DEF FsysInv
    <3> QED BY <3>1, <3>2, <3>3
  <2>2. CursorOK(mem, file, filepos)
    BY <1>8 DEF FsysInv, Place
  <2> DEFINE e == Before(mem.page) + mem.ix
             pos == filepos
  <2>3. e \in 1 .. Count(file) /\ x = Ext[file][e] /\ Ext[file][e].off <= pos
    <3> HIDE DEF x
    <3>1. /\ e \in 1 .. Count(file) /\ Xad(mem) = Ext[file][e] /\ Ext[file][e].off <= filepos
      BY <1>2, <2>1, <2>2, CursorExtent
    <3> QED BY <3>1 DEF x
  <2>4. x.off \in Nat /\ x.len \in Nat \ {0} /\ x.start \in Nat /\ EndOf(file, e) = x.off + x.len
    BY <1>2, <2>3, Extents DEF EndOf
  <2> DEFINE q == filepos'
  <2>5. ASSUME q \in Nat, EndOf(file, e) <= q, q < Blocks[file] PROVE CursorOK(mem', file, q)
    <3>1. \/ r = [xfs_next_extent(mem) EXCEPT !.prev = x.off + x.len]
          \/ r = [jfs_next_extent(mem) EXCEPT !.prev = x.off + x.len] /\ ~(Leaves(file) > 1)
      BY <1>1, <1>8 DEF Exempt
    <3> HIDE DEF r, x, q
    <3>2. CursorOK(r, file, q)
      BY <1>2, <2>1, <2>2, <2>5, <3>1, CursorNext
    <3> QED BY <1>3, <3>2
  <2>6. \A f, n : Content(f, n) = <<f, n>>
    BY <1>1 DEF Content
  <2>7. CASE isinxt(filepos, x.off, x.len)
    <3>1. filepos < x.off + x.len
      BY <2>7 DEF isinxt
    <3> HIDE DEF x
    <3>2. k \in Nat /\ k >= 1 /\ k <= left /\ k <= rest /\ (k = rest \/ k = want) /\ rest \in Nat
      BY <2>1, <2>3, <2>4, <3>1
    <3>3. filepos' = filepos + k /\ left' = left - k
          /\ got' = {<<file, filepos + i, At(x.start + (filepos - x.off) + i)>> : i \in 0 .. k - 1}
      BY <1>4, <2>7
    <3> HIDE DEF k
    <3>4. ASSUME NEW i \in 0 .. k - 1
          PROVE  At(x.start + (filepos - x.off) + i) = <<file, filepos + i>>
      <4> DEFINE n == filepos + i
      <4>1. n \in Int /\ x.off <= n /\ n < x.off + x.len
        BY <2>1, <2>3, <2>4, <3>2
      <4>2. x.start + (filepos - x.off) + i = x.start + n - x.off
        BY <2>1, <2>4
      <4> HIDE DEF n
      <4>3. Holds(file, e, n)
        BY <2>3, <2>4, <4>1 DEF Holds
      <4> HIDE DEF e
      <4>4. At(Ext[file][e].start + n - Ext[file][e].off) = <<file, n>>
        BY <1>2, <4>1, <4>3, AtExtent
      <4> QED BY <2>3, <4>2, <4>4 DEF n
    <3>5. \A g \in got' : Right(g)
      <4>1. ASSUME NEW i \in 0 .. k - 1, NEW g,
                   g = <<file, filepos + i, At(x.start + (filepos - x.off) + i)>>
            PROVE  Right(g)
        <5>1. g[1] = file /\ g[2] = filepos + i /\ g[3] = <<file, filepos + i>>
          BY <3>4, <4>1
        <5> QED BY <2>6, <5>1 DEF Right
      <4> QED BY <3>3, <4>1
    <3>6. InCall' => CursorOK(mem', file, filepos')
      <4>1. SUFFICES ASSUME InCall' PROVE CursorOK(mem', file, q)
        OBVIOUS
      <4>2. left' > 0 /\ (pc = "scan" => got' = {})
        BY <1>1, <4>1 DEF InCall
      <4>3. pc # "scan"
        <5>1. <<file, filepos + 0, At(x.start + (filepos - x.off) + 0)>> \in got'
          <6>1. 0 \in 0 .. k - 1
            BY <3>2
          <6> QED BY <3>3, <6>1
        <5> QED BY <4>2, <5>1
      <4>4. k = rest /\ filepos' = x.off + x.len /\ filepos' \in Nat /\ filepos' < Blocks[file]
        <5>1. k # want
          BY <2>1, <3>2, <3>3, <4>2, <4>3
        <5> QED BY <2>1, <2>4, <3>2, <3>3, <4>2, <5>1
      <4> HIDE DEF e
      <4> QED BY <2>4, <2>5, <4>4
    <3> QED BY <3>2, <3>3, <3>5, <3>6
  <2>8. CASE ~isinxt(filepos, x.off, x.len)
    <3>1. Silent
      BY <1>4, <2>8
    <3>2. filepos' = filepos /\ got' = {} /\ left' = left
      BY <3>1 DEF Silent
    <3>3. x.off + x.len <= filepos
      <4>1. ~(filepos >= x.off /\ filepos < x.off + x.len)
        BY <2>8 DEF isinxt
      <4> HIDE DEF x
      <4> QED BY <2>1, <2>3, <2>4, <4>1
    <3>4. CursorOK(mem', file, q)
      <4>1. q \in Nat /\ EndOf(file, e) <= q /\ q < Blocks[file]
        <5> HIDE DEF x, e
        <5> QED BY <2>1, <2>4, <3>2, <3>3
      <4> QED BY <2>5, <4>1
    <3>5. /\ \E h \in Nat : h <= left /\ filepos' = filepos + h /\ left' = left - h
          /\ \A g \in got' : Right(g)
      BY <1>8, <3>1, NoBlock
    <3> QED BY <3>4, <3>5
  <2> QED BY <2>7, <2>8
<1>9. Place'
  BY <1>1, <1>8 DEF Place
<1> QED BY <1>6, <1>7, <1>8, <1>9, RoundKeeps

\* Only a driver that loses extents comes to the end of them.
LEMMA ExtentsEndRound ==
  ASSUME FsysInv, InCall, Driver = "xfs" \/ (Driver = "jfs" /\ pc # "scan"),
         AtEnd(mem), ExtentsEnd
  PROVE  FsysInv'
<1>1. Same /\ mem' = mem /\ left' = 0
  BY DEF ExtentsEnd, Same
<1>2. DOMAIN mem = MemFields /\ file \in Files /\ FileMem(Driver, mem, file)
  BY InBuffers
<1>3. Exempt
  <2>1. SUFFICES ASSUME ~Exempt PROVE FALSE
    OBVIOUS
  <2>2. CursorOK(mem, file, filepos)
    BY <2>1 DEF FsysInv, Place
  <2>3. filepos \in Nat
    BY <2>1, InFile
  <2> QED BY <1>2, <2>2, <2>3, CursorExtent
<1>4. Place'
  <2>1. fs' = fs /\ pc' = pc /\ file' = file /\ walk' = walk
    BY <1>1 DEF Same
  <2>2. Driver' = Driver
    BY <2>1 DEF Driver
  <2>3. Exempt'
    BY <1>3, <2>1, <2>2 DEF Exempt, Leaves
  <2> QED BY <2>2, <2>3 DEF Place
<1> QED BY <1>1, <1>2, <1>3, <1>4, RoundKeeps

LEMMA ExtentRounds ==
  ASSUME FsysInv, xfs_read \/ jfs_read
  PROVE  FsysInv'
<1>1. ASSUME xfs_read PROVE FsysInv'
  <2>1. InCall /\ Driver = "xfs"
    BY <1>1 DEF xfs_read
  <2>2. CASE AtEnd(mem)
    <3>1. ExtentsEnd
      BY <1>1, <2>2 DEF xfs_read
    <3> QED BY <2>1, <2>2, <3>1, ExtentsEndRound
  <2>3. CASE ~AtEnd(mem)
    <3>1. ReadExtent(xfs_next_extent(mem))
      BY <1>1, <2>3 DEF xfs_read
    <3> DEFINE next == xfs_next_extent(mem)
    <3>2. ReadExtent(next) /\ next = xfs_next_extent(mem)
      BY <3>1
    <3>3. Same
      BY <3>1 DEF ReadExtent
    <3> HIDE DEF next
    <3> QED BY <2>1, <2>3, <3>2, <3>3, ExtentRound
  <2> QED BY <2>2, <2>3
<1>2. ASSUME jfs_read PROVE FsysInv'
  <2>1. InCall /\ Driver = "jfs" /\ pc # "scan"
    BY <1>2 DEF jfs_read
  <2>2. CASE AtEnd(mem)
    <3>1. ExtentsEnd
      BY <1>2, <2>2 DEF jfs_read
    <3> QED BY <2>1, <2>2, <3>1, ExtentsEndRound
  <2>3. CASE ~AtEnd(mem)
    <3>1. ReadExtent(jfs_next_extent(mem))
      BY <1>2, <2>3 DEF jfs_read
    <3> DEFINE next == jfs_next_extent(mem)
    <3>2. ReadExtent(next) /\ next = jfs_next_extent(mem)
      BY <3>1
    <3>3. Same
      BY <3>1 DEF ReadExtent
    <3> HIDE DEF next
    <3> QED BY <2>1, <2>3, <3>2, <3>3, ExtentRound
  <2> QED BY <2>2, <2>3
<1> QED BY <1>1, <1>2

LEMMA Parity ==
  ASSUME NEW a \in Nat, NEW b \in Nat, a < b, b - 2 * (a \div 2) < 2
  PROVE  b \div 2 = a \div 2
OBVIOUS

LEMMA BlocklistRounds ==
  ASSUME FsysInv, blocklist_seek \/ blocklist_read
  PROVE  FsysInv'
<1>1. InCall /\ Same /\ Driver = "blocklist"
  BY DEF blocklist_seek, blocklist_read
<1>2. ~Exempt /\ walk.block /\ file \in Files
  <2>1. ~Exempt
    BY <1>1, NotExempt
  <2>2. walk.block
    <3>1. fs # "blocklist"
      BY DEF FsysInv, Shape, Formats
    <3> QED BY <1>1, <3>1, DriverIs
  <2> QED BY <1>1, <2>1, <2>2, InBuffers
<1>3. /\ filepos \in Nat /\ left \in Nat /\ left >= 1 /\ filepos + left <= 2 * Blocks[file]
      /\ Blocks[file] \in Nat
  <2>1. Size = 2 * Blocks[file] /\ Blocks[file] \in Nat
    BY <1>2, Sizes DEF Size, FsysInv
  <2>2. /\ filepos \in Nat /\ left \in Nat /\ left >= 1 /\ goal \in Nat /\ filepos + left = goal
        /\ goal <= Size
    BY <1>1, <1>2, InFile
  <2> QED BY <2>1, <2>2
<1> DEFINE m == BlkSeek(mem)
<1>4. DOMAIN m = MemFields /\ BlockOK(m, file) /\ m.cur <= filepos
  <2>1. BlockOK(mem, file) /\ DOMAIN mem = MemFields
    BY <1>1, InBuffers DEF FileMem
  <2> HIDE DEF m
  <2> QED BY <1>2, <1>3, <2>1, BlkSeekOK DEF m
<1>5. m.cur \in Nat
  BY <1>4 DEF BlockOK
<1>6. Place'
  BY <1>1, NoPlace
<1>7. \A r : BlockOK(r, file) => FileMem(Driver, r, file)
  BY <1>1 DEF FileMem, Fats
<1>8. ASSUME blocklist_seek PROVE FsysInv'
  <2>1. filepos > m.cur /\ Silent
    BY <1>8 DEF blocklist_seek
  <2> DEFINE c == m.cur
             r == IF m.num + 1 >= Ext[file][m.blk].len
                    THEN [m EXCEPT !.cur = @ + 2, !.num = 0, !.blk = @ + 1]
                    ELSE [m EXCEPT !.cur = @ + 2, !.num = @ + 1]
             s == [m EXCEPT !.cur = filepos]
  <2>2. mem' = IF filepos - 2 * (c \div 2) >= 2 THEN r ELSE s
    BY <1>8 DEF blocklist_seek
  <2> HIDE DEF m
  <2>3. ASSUME filepos - 2 * (c \div 2) >= 2 PROVE DOMAIN r = MemFields /\ BlockOK(r, file)
    <3>1. filepos < 2 * Blocks[file]
      BY <1>3
    <3> DEFINE rr == r
    <3>2. rr = IF m.num + 1 >= Ext[file][m.blk].len
                 THEN [m EXCEPT !.cur = @ + 2, !.num = 0, !.blk = @ + 1]
                 ELSE [m EXCEPT !.cur = @ + 2, !.num = @ + 1]
      OBVIOUS
    <3>3. filepos - 2 * (m.cur \div 2) >= 2
      BY <2>3
    <3> HIDE DEF rr, r, c
    <3>4. DOMAIN rr = MemFields /\ BlockOK(rr, file)
      BY <1>2, <1>3, <1>4, <3>1, <3>2, <3>3, BlockNext
    <3> QED BY <3>4 DEF rr
  <2>4. ASSUME ~(filepos - 2 * (c \div 2) >= 2) PROVE DOMAIN s = MemFields /\ BlockOK(s, file)
    <3>1. c \in Nat
      BY <1>5
    <3>2. filepos - 2 * (c \div 2) < 2 /\ c < filepos
      <4> HIDE DEF c
      <4>1. c \div 2 \in Int
        BY <3>1
      <4>2. c < filepos
        BY <2>1 DEF c
      <4> QED BY <1>3, <2>4, <4>1, <4>2
    <3> HIDE DEF c
    <3>3. filepos \div 2 = c \div 2
      BY <1>3, <3>1, <3>2, Parity
    <3>4. DOMAIN s = MemFields /\ s.cur = filepos /\ s.num = m.num /\ s.blk = m.blk
      BY <1>4 DEF MemFields
    <3> HIDE DEF s
    <3> QED BY <1>3, <1>4, <3>3, <3>4 DEF BlockOK, c
  <2> HIDE DEF r, s, c
  <2>5. DOMAIN mem' = MemFields /\ BlockOK(mem', file)
    BY <2>2, <2>3, <2>4
  <2> QED BY <1>1, <1>2, <1>6, <1>7, <2>1, <2>5, NoBlock, RoundKeeps
<1>9. ASSUME blocklist_read PROVE FsysInv'
  <2> DEFINE off == filepos % 2
             size == 2 * (Ext[file][m.blk].len - m.num) - off
             k == IF size > left THEN left ELSE size
             v(i) == At(Ext[file][m.blk].start + m.num + ((off + i) \div 2))
  <2>1. /\ got' = {<<file, filepos + i, v(i)>> : i \in 0 .. k - 1}
        /\ filepos' = filepos + k /\ left' = left - k /\ mem' = m /\ filepos <= m.cur
    BY <1>9 DEF blocklist_read, Deliver
  <2> HIDE DEF m
  <2>2. m.cur = filepos
    BY <1>3, <1>4, <1>5, <2>1
  <2>3. k \in Nat /\ k <= left /\ k <= size /\ size \in Nat
    <3>1. off \in {0, 1}
      BY <1>3, Halved
    <3>2. m.num \in Nat /\ m.num < Ext[file][m.blk].len /\ Ext[file][m.blk].len \in Nat
      <4>1. m.num \in Nat /\ m.num < Ext[file][m.blk].len /\ m.blk \in 1 .. Count(file)
        BY <1>4 DEF BlockOK
      <4> QED BY <1>2, <4>1, Extents
    <3> HIDE DEF off
    <3> QED BY <1>3, <3>1, <3>2
  <2> HIDE DEF k
  <2>4. ASSUME NEW i \in 0 .. k - 1 PROVE v(i) = <<file, (filepos + i) \div 2>>
    <3>1. i \in Nat /\ i < 2 * (Ext[file][m.blk].len - m.num) - (filepos % 2)
      <4> HIDE DEF size
      <4>1. i \in Nat /\ i < size
        BY <2>3
      <4> QED BY <4>1 DEF size
    <3>2. At(Ext[file][m.blk].start + m.num + (((filepos % 2) + i) \div 2))
            = <<file, (filepos + i) \div 2>>
      BY <1>2, <1>3, <1>4, <2>2, <3>1, BlockRead
    <3> QED BY <3>2
  <2>5. \A f, n : Content(f, n) = <<f, n \div 2>>
    BY <1>1 DEF Content
  <2> HIDE DEF v
  <2>6. \A g \in got' : Right(g)
    <3>1. ASSUME NEW i \in 0 .. k - 1, NEW g, g = <<file, filepos + i, v(i)>>
          PROVE  Right(g)
      <4>1. g[1] = file /\ g[2] = filepos + i /\ g[3] = <<file, (filepos + i) \div 2>>
        BY <2>4, <3>1
      <4> QED BY <2>5, <4>1 DEF Right
    <3> QED BY <2>1, <3>1
  <2>7. DOMAIN mem' = MemFields /\ BlockOK(mem', file)
    BY <1>4, <2>1
  <2> QED BY <1>1, <1>2, <1>6, <1>7, <2>1, <2>3, <2>6, <2>7, RoundKeeps
<1> QED BY <1>8, <1>9

LEMMA DentryRound ==
  ASSUME FsysInv, jfs_next_dentry
  PROVE  FsysInv'
<1>1. InCall /\ Same /\ Driver = "jfs" /\ pc = "scan" /\ mem' = mem
  BY DEF jfs_next_dentry
<1> DEFINE v == <<file, filepos>>
<1>2. got' = {<<file, filepos + i, v>> : i \in 0 .. 1 - 1} /\ filepos' = filepos + 1
      /\ left' = left - 1
  BY DEF jfs_next_dentry, Deliver
<1>3. v = Content(file, filepos)
  BY <1>1 DEF Content
<1>4. FileMem(Driver, mem', file) /\ DOMAIN mem' = MemFields
  BY <1>1, InBuffers
<1>5. Place'
  <2>1. Driver' = Driver /\ pc' = pc
    BY <1>1 DEF Same, Driver
  <2> QED BY <1>1, <2>1 DEF Place
<1> HIDE DEF v
<1> QED BY <1>1, <1>2, <1>3, <1>4, <1>5, OneBlock, RoundKeeps

\* The item at which a driver of ReiserFS stands.
LEMMA StandsAt ==
  ASSUME NEW m, PosOK(m), NEW f \in Files, Item(m).obj = f
  PROVE  /\ Item(m).off \in Nat /\ Item(m).n \in Nat /\ ItemEnd(Item(m)) \in Nat
         /\ Item(m).kind \in {"stat", "direct", "indirect"}
         /\ ItemEnd(Item(m)) <= Blocks[f]
         /\ IF Item(m).kind = "stat" THEN Item(m).off = 0 /\ ItemEnd(Item(m)) = 0
            ELSE Item(m).off >= 1 /\ Item(m).n >= 1
                 /\ ItemEnd(Item(m)) = Item(m).off + Item(m).n - 1
<1> DEFINE p == m.key
<1>1. Item(m) = ItemAt(p) /\ p \in Positions
  BY ItemIs DEF PosOK
<1> HIDE DEF p
<1>2. /\ ItemAt(p).off \in Nat /\ ItemAt(p).n \in Nat
      /\ ItemAt(p).kind \in {"stat", "direct", "indirect"}
  BY <1>1, Items
<1>3. /\ IF ItemAt(p).kind = "stat" THEN ItemAt(p).off = 0 ELSE ItemAt(p).off >= 1 /\ ItemAt(p).n >= 1
      /\ ItemEnd(ItemAt(p)) \in Nat /\ ItemEnd(ItemAt(p)) <= Blocks[f]
  BY <1>1, ItemOf
<1> QED BY <1>1, <1>2, <1>3 DEF ItemEnd

LEMMA ReiserRound ==
  ASSUME FsysInv, reiserfs_read
  PROVE  FsysInv'
<1>1. InCall /\ Driver = "reiserfs" /\ pc \in {"link", "read"} /\ left > 0
  BY DEF reiserfs_read, InCall
<1>2. ~Exempt /\ ~walk.block
  BY <1>1, NotExempt, DriverIs
<1>3. /\ filepos \in Nat /\ left \in Nat /\ left >= 1 /\ filepos < Blocks[file]
      /\ Blocks[file] \in Nat
  <2>1. Size = Blocks[file] /\ Blocks[file] \in Nat
    BY <1>2, Sizes DEF Size, FsysInv
  <2> QED BY <1>1, <1>2, <2>1, InFile
<1>4. DOMAIN mem = MemFields /\ JournalOK(mem) /\ PosOK(mem) /\ file \in Files
  BY <1>1, InBuffers DEF FileMem
<1> DEFINE it == Item(mem)
           offset == filepos - it.off + 1
           v == IF mem.old THEN <<"old">> ELSE <<file, it.off - 1 + offset>>
<1>5. it.obj = file /\ it.off <= filepos + 1
  BY <1>1 DEF FsysInv, Place
<1>6. /\ it.off \in Nat /\ it.n \in Nat /\ it.kind \in {"stat", "direct", "indirect"}
      /\ ItemEnd(it) \in Nat /\ ItemEnd(it) <= Blocks[file]
      /\ IF it.kind = "stat" THEN it.off = 0 /\ ItemEnd(it) = 0
         ELSE it.off >= 1 /\ it.n >= 1 /\ ItemEnd(it) = it.off + it.n - 1
  BY <1>4, <1>5, StandsAt
<1>7. \A r : JournalOK(r) /\ PosOK(r) => FileMem(Driver, r, file)
  BY <1>1 DEF FileMem, Fats
<1>8. CASE it.kind \in {"direct", "indirect"} /\ offset < it.n
  <2>1. /\ got' = {<<file, filepos + i, v>> : i \in 0 .. 1 - 1}
        /\ filepos' = filepos + 1 /\ left' = left - 1 /\ mem' = mem /\ Same
    BY <1>5, <1>8 DEF reiserfs_read, Deliver
  <2>2. v = <<file, filepos>>
    <3>1. mem.old = FALSE
      BY <1>4 DEF PosOK
    <3> HIDE DEF it
    <3>2. it.off - 1 + offset = filepos
      BY <1>3, <1>6
    <3> QED BY <3>1, <3>2
  <2>3. v = Content(file, filepos)
    BY <1>1, <2>2 DEF Content
  <2>4. Place'
    <3>1. Driver' = Driver /\ pc' = pc /\ file' = file
      BY <2>1 DEF Same, Driver
    <3>2. Item(mem').obj = file /\ Item(mem').off <= filepos' + 1
      <4>1. Item(mem').obj = file /\ Item(mem').off = it.off
        BY <1>5, <2>1
      <4> HIDE DEF it
      <4> QED BY <1>3, <1>5, <1>6, <2>1, <4>1
    <3> QED BY <1>1, <3>1, <3>2 DEF Place
  <2> HIDE DEF v
  <2> QED BY <1>1, <1>2, <1>4, <1>7, <2>1, <2>3, <2>4, OneBlock, RoundKeeps
<1>9. CASE ~(it.kind \in {"direct", "indirect"} /\ offset < it.n)
  <2> DEFINE s == next_key(mem)
  <2>1. mem' = s /\ Silent /\ Same
    BY <1>5, <1>9 DEF reiserfs_read
  <2>2. ItemEnd(it) <= filepos
    <3> HIDE DEF it
    <3> QED BY <1>3, <1>6, <1>9
  <2>3. DOMAIN s = MemFields /\ JournalOK(s) /\ PosOK(s)
        /\ Item(s).obj = file /\ Item(s).off = ItemEnd(it) + 1
    <3>1. Item(mem).obj = file /\ ItemEnd(Item(mem)) < Blocks[file]
      <4>1. ItemEnd(it) < Blocks[file]
        <5> HIDE DEF it
        <5> QED BY <1>3, <1>6, <2>2
      <4> QED BY <1>5, <4>1
    <3> HIDE DEF s, it
    <3> QED BY <1>4, <3>1, NextOfFile DEF s, it
  <2> HIDE DEF s
  <2>4. Item(mem').obj = file /\ Item(mem').off <= filepos' + 1
    <3>1. filepos' = filepos
      BY <2>1 DEF Silent
    <3> HIDE DEF it
    <3> QED BY <1>3, <1>6, <2>1, <2>2, <2>3, <3>1
  <2>5. Place'
    <3>1. Driver' = Driver /\ pc' = pc /\ file' = file
      BY <2>1 DEF Same, Driver
    <3> QED BY <1>1, <2>4, <3>1 DEF Place
  <2>6. FileMem(Driver, mem', file)
    BY <1>7, <2>1, <2>3
  <2> QED BY <1>1, <1>2, <2>1, <2>3, <2>5, <2>6, NoBlock, RoundKeeps
<1> QED BY <1>8, <1>9

LEMMA DirItemRound ==
  ASSUME FsysInv, reiserfs_dir_item
  PROVE  FsysInv'
<1>1. InCall /\ Driver = "reiserfs" /\ pc = "scan" /\ left > 0 /\ Same
  BY DEF reiserfs_dir_item, InCall
<1>2. ~Exempt /\ ~walk.block
  BY <1>1, NotExempt, DriverIs
<1>3. DOMAIN mem = MemFields /\ JournalOK(mem) /\ PosOK(mem) /\ file \in Files
  BY <1>1, InBuffers DEF FileMem
<1>4. Item(mem).obj = file /\ ItemEnd(Item(mem)) = filepos /\ goal = Blocks[file]
  BY <1>1 DEF FsysInv, Place
<1>5. /\ filepos \in Nat /\ left \in Nat /\ left >= 1 /\ filepos + left = Blocks[file]
      /\ Blocks[file] \in Nat /\ filepos < Blocks[file]
  <2>1. Blocks[file] \in Nat
    BY Sizes DEF FsysInv
  <2>2. filepos \in Nat /\ left \in Nat /\ left >= 1 /\ filepos + left = goal
    BY <1>1, <1>2, InFile
  <2> QED BY <1>4, <2>1, <2>2
<1> DEFINE m == next_key(mem)
           k == Item(m).n
           v(i) == IF m.old THEN <<"old">> ELSE <<file, filepos + i>>
<1>6. /\ DOMAIN m = MemFields /\ JournalOK(m) /\ PosOK(m)
      /\ Item(m).obj = file /\ Item(m).off = filepos + 1
  <2>1. Item(mem).obj = file /\ ItemEnd(Item(mem)) < Blocks[file]
    BY <1>4, <1>5
  <2> HIDE DEF m
  <2> QED BY <1>3, <1>4, <2>1, NextOfFile DEF m
<1>7. mem' = m /\ got' = {<<file, filepos + i, v(i)>> : i \in 0 .. k - 1}
      /\ filepos' = filepos + k /\ left' = left - k
  BY <1>6 DEF reiserfs_dir_item, Deliver
<1> HIDE DEF m
<1>8. k \in Nat /\ ItemEnd(Item(m)) = filepos + k /\ k <= left
  <2>1. /\ Item(m).off \in Nat /\ Item(m).n \in Nat /\ ItemEnd(Item(m)) \in Nat
        /\ ItemEnd(Item(m)) <= Blocks[file]
        /\ IF Item(m).kind = "stat" THEN Item(m).off = 0 /\ ItemEnd(Item(m)) = 0
           ELSE Item(m).off >= 1 /\ Item(m).n >= 1
                /\ ItemEnd(Item(m)) = Item(m).off + Item(m).n - 1
    BY <1>3, <1>6, StandsAt
  <2>2. Item(m).kind # "stat"
    BY <1>5, <1>6, <2>1
  <2> QED BY <1>5, <1>6, <2>1, <2>2
<1>9. \A g \in got' : Right(g)
  <2>1. \A i : v(i) = <<file, filepos + i>>
    BY <1>6 DEF PosOK
  <2>2. \A f, n : Content(f, n) = <<f, n>>
    BY <1>1 DEF Content
  <2> HIDE DEF v, k
  <2>3. ASSUME NEW i \in 0 .. k - 1, NEW g, g = <<file, filepos + i, v(i)>>
        PROVE  Right(g)
    <3>1. g[1] = file /\ g[2] = filepos + i /\ g[3] = <<file, filepos + i>>
      BY <2>1, <2>3
    <3> QED BY <2>2, <3>1 DEF Right
  <2> QED BY <1>7, <2>3
<1>10. FileMem(Driver, mem', file) /\ DOMAIN mem' = MemFields
  BY <1>1, <1>6, <1>7 DEF FileMem, Fats
<1>11. Place'
  <2>1. Driver' = Driver /\ pc' = pc /\ file' = file /\ goal' = goal
    BY <1>1 DEF Same, Driver
  <2>2. Item(mem').obj = file /\ ItemEnd(Item(mem')) = filepos'
    <3> HIDE DEF k
    <3> QED BY <1>6, <1>7, <1>8
  <2> QED BY <1>1, <1>4, <2>1, <2>2 DEF Place
<1> HIDE DEF k, v
<1> QED BY <1>1, <1>2, <1>7, <1>8, <1>9, <1>10, <1>11, RoundKeeps

\* A step that leaves the driver, the file and what the call is about.
LEMMA SameFile ==
  ASSUME fs' = fs, file' = file, walk'.block = walk.block
  PROVE  /\ Driver' = Driver /\ Exempt' = Exempt /\ Size' = Size /\ Reach' = Reach
         /\ Fitting' = Fitting
<1>1. Driver' = Driver
  BY DEF Driver
<1> QED BY <1>1 DEF Exempt, Size, Reach, Leaves, Fitting

LEMMA NothingRead ==
  ASSUME got' = {}
  PROVE  ReadIsFile'
BY DEF ReadIsFile

LEMMA ReadFailsKeeps ==
  ASSUME FsysInv, ReadFails
  PROVE  FsysInv'
<1> DEFINE r == [mem EXCEPT !.d1 = <<"junk">>, !.d2 = <<"junk">>, !.buf = 0 - 1]
<1>1. /\ errnum' = "read" /\ pc' = "idle" /\ got' = {} /\ left' = 0 /\ mem' = r
      /\ fs' = fs /\ file' = file /\ walk' = walk /\ filepos' = filepos /\ goal' = goal
  BY DEF ReadFails
<1>2. Active
  BY DEF ReadFails, InCall, Active
<1>3. DOMAIN mem' = MemFields
  BY <1>1 DEF FsysInv, Shape, MemFields
<1>4. Driver' = Driver /\ Exempt' = Exempt /\ Fitting' = Fitting /\ ~Active'
  BY <1>1, SameFile DEF Active
<1> HIDE DEF r
<1>5. Shape'
  BY <1>1, <1>3, <1>4 DEF FsysInv, Shape
<1>6. Numbers'
  BY <1>1, <1>2, <1>4 DEF FsysInv, Numbers
<1>7. Buffered'
  BY <1>1 DEF Buffered
<1>8. Place'
  BY <1>1 DEF Place, InCall
<1> QED BY <1>1, <1>5, <1>6, <1>7, <1>8, NothingRead DEF FsysInv

LEMMA CallEndsKeeps ==
  ASSUME FsysInv, CallEnds
  PROVE  FsysInv'
<1>1. /\ pc = "read" /\ pc' = "idle" /\ got' = {} /\ fs' = fs /\ file' = file /\ walk' = walk
      /\ filepos' = filepos /\ left' = left /\ mem' = mem /\ errnum' = errnum
  BY DEF CallEnds
<1>2. Active /\ ~Active'
  BY <1>1 DEF Active
<1>3. Driver' = Driver /\ Exempt' = Exempt /\ Fitting' = Fitting
  BY <1>1, SameFile
<1>4. Shape'
  BY <1>1, <1>3 DEF FsysInv, Shape
<1>5. Numbers'
  BY <1>1, <1>2, <1>3 DEF FsysInv, Numbers
<1>6. Buffered'
  BY <1>1, <1>3 DEF FsysInv, Buffered
<1>7. Place'
  BY <1>1 DEF Place, InCall
<1> QED BY <1>1, <1>4, <1>5, <1>6, <1>7, NothingRead DEF FsysInv

LEMMA SeekKeeps ==
  ASSUME FsysInv, grub_seek
  PROVE  FsysInv'
<1>1. /\ pc = "idle" /\ pc' = "idle" /\ got' = {} /\ fs' = fs /\ file' = file /\ walk' = walk
      /\ filepos' \in 0 .. Units(file) - 1 /\ mem' = mem /\ errnum' = errnum
  BY DEF grub_seek, Open
<1>2. ~Active' /\ filepos' \in Nat
  BY <1>1 DEF Active
<1>3. Driver' = Driver /\ Exempt' = Exempt /\ Fitting' = Fitting
  BY <1>1, SameFile
<1>4. Shape'
  BY <1>1, <1>3 DEF FsysInv, Shape
<1>5. Numbers'
  BY <1>2 DEF Numbers
<1>6. Buffered'
  BY <1>1, <1>3 DEF FsysInv, Buffered
<1>7. Place'
  BY <1>1 DEF Place, InCall
<1> QED BY <1>1, <1>4, <1>5, <1>6, <1>7, NothingRead DEF FsysInv

\* The cursor of ReiserFS at the start of a call: on an item of the file, not behind it.
LEMMA ReiserStartOK ==
  ASSUME FsysInv, Driver = "reiserfs", errnum = "none", filepos \in Nat
  PROVE  LET s == ReiserStart(mem)
         IN /\ DOMAIN s = MemFields /\ JournalOK(s) /\ PosOK(s)
            /\ Item(s).obj = file /\ Item(s).off <= filepos + 1
<1>1. DOMAIN mem = MemFields /\ JournalOK(mem) /\ PosOK(mem) /\ file \in Files
  BY DEF FsysInv, Shape, Buffered, FileMem
<1> DEFINE m == search_stat(mem, file)
           s == next_key(m)
<1>2. CASE Item(mem).obj # file \/ Item(mem).off > filepos + 1
  <2>1. ReiserStart(mem) = s
    BY <1>2 DEF ReiserStart
  <2> HIDE DEF m
  <2>2. DOMAIN m = MemFields /\ JournalOK(m) /\ PosOK(m) /\ Item(m) = Stat(file)
    BY <1>1, SearchStat DEF m
  <2>3. Item(m).obj = file /\ ItemEnd(Item(m)) = 0
    BY <2>2 DEF Stat, ItemEnd
  <2>4. Blocks[file] \in Nat \ {0}
    BY Sizes DEF FsysInv
  <2>5. ItemEnd(Item(m)) < Blocks[file]
    BY <2>3, <2>4
  <2> HIDE DEF s
  <2>6. DOMAIN s = MemFields /\ JournalOK(s) /\ PosOK(s)
        /\ Item(s).obj = file /\ Item(s).off = ItemEnd(Item(m)) + 1
    BY <1>1, <2>2, <2>3, <2>5, NextOfFile DEF s
  <2>7. Item(s).off <= filepos + 1
    BY <2>3, <2>6
  <2> QED BY <2>1, <2>6, <2>7
<1>3. CASE ~(Item(mem).obj # file \/ Item(mem).off > filepos + 1)
  <2>1. ReiserStart(mem) = mem /\ Item(mem).obj = file
    BY <1>3 DEF ReiserStart
  <2>2. Item(mem).off \in Nat
    BY <1>1, <2>1, StandsAt
  <2>3. Item(mem).off <= filepos + 1
    BY <1>3, <2>2
  <2> QED BY <1>1, <2>1, <2>3
<1> QED BY <1>2, <1>3

\* Looking through the extents anew disturbs nothing else.
LEMMA InitExtents ==
  ASSUME NEW m, DOMAIN m = MemFields
  PROVE  LET r == init_extents(m)
         IN /\ DOMAIN r = MemFields /\ Item(r) = Item(m)
            /\ \A d, f : FileMem(d, m, f) => FileMem(d, r, f)
<1> DEFINE r == init_extents(m)
<1>1. DOMAIN r = MemFields /\ \A a \in MemFields \ {"page", "ix", "prev"} : r[a] = m[a]
  BY DEF init_extents, MemFields
<1>2. /\ r.map1 = m.map1 /\ r.map2 = m.map2 /\ r.d1 = m.d1 /\ r.d2 = m.d2 /\ r.ccn = m.ccn
      /\ r.moff = m.moff
      /\ r.cc = m.cc /\ r.win = m.win /\ r.buf = m.buf /\ r.trans = m.trans /\ r.table = m.table
      /\ r.key = m.key /\ r.end = m.end /\ r.nk = m.nk /\ r.node = m.node /\ r.old = m.old
      /\ r.cur = m.cur /\ r.num = m.num /\ r.blk = m.blk
  BY DEF init_extents, MemFields
<1> HIDE DEF r
<1>3. Item(r) = Item(m)
  BY <1>2 DEF Item
<1>4. \A f : /\ BlockOK(m, f) => BlockOK(r, f)
             /\ MapOK(m, f) => MapOK(r, f)
             /\ TopOK(m, f) => TopOK(r, f)
             /\ FatOK(m, f) => FatOK(r, f)
  BY <1>2 DEF BlockOK, MapOK, TopOK, Second, FatOK
<1>5. \A d : UfsOK(d, m) => UfsOK(d, r)
  BY <1>2 DEF UfsOK, InMapBuf, Second
<1>6. JournalOK(m) => JournalOK(r)
  BY <1>2 DEF JournalOK
<1>7. PosOK(m) => PosOK(r)
  BY <1>2 DEF PosOK
<1>8. \A d, f : FileMem(d, m, f) => FileMem(d, r, f)
  BY <1>4, <1>5, <1>6, <1>7 DEF FileMem
<1> QED BY <1>1, <1>3, <1>8 DEF r

LEMMA ReadKeeps ==
  ASSUME FsysInv, grub_read
  PROVE  FsysInv'
<1>1. /\ pc = "idle" /\ errnum = "none" /\ walk.open /\ filepos < Units(file)
      /\ fs' = fs /\ file' = file /\ walk' = walk /\ filepos' = filepos /\ got' = {}
  BY DEF grub_read, Open
<1>2. PICK len \in 1 .. Units(file) - filepos :
        IF filepos + len > Reach
          THEN errnum' = "length" /\ UNCHANGED <<left, goal, pc>>
          ELSE /\ left' = len /\ goal' = filepos + len /\ pc' = "read" /\ UNCHANGED errnum
  BY DEF grub_read
<1>3. /\ Driver' = Driver /\ Exempt' = Exempt /\ Size' = Size /\ Reach' = Reach
      /\ Fitting' = Fitting
  BY <1>1, SameFile
<1>4. DOMAIN mem = MemFields /\ file \in Files /\ FileMem(Driver, mem, file)
  BY <1>1 DEF FsysInv, Shape, Buffered
<1>5. ~Exempt => filepos \in Nat
  BY <1>1 DEF FsysInv, Numbers
<1>6. mem' = CASE Driver = "reiserfs" -> ReiserStart(mem)
               [] Driver \in {"xfs", "jfs"} -> init_extents(mem)
               [] OTHER -> mem
  BY DEF grub_read
<1>7. /\ DOMAIN mem' = MemFields /\ FileMem(Driver, mem', file)
      /\ Driver \in {"xfs", "jfs"} /\ ~Exempt => CursorOK(mem', file, filepos)
      /\ Driver = "reiserfs" => Item(mem').obj = file /\ Item(mem').off <= filepos + 1
  <2>1. CASE Driver = "reiserfs"
    <3>1. mem' = ReiserStart(mem)
      BY <1>6, <2>1
    <3>2. filepos \in Nat
      BY <1>5, <2>1, NotExempt
    <3>3. DOMAIN mem' = MemFields /\ JournalOK(mem') /\ PosOK(mem')
          /\ Item(mem').obj = file /\ Item(mem').off <= filepos + 1
      BY <1>1, <2>1, <3>1, <3>2, ReiserStartOK
    <3> QED BY <2>1, <3>3 DEF FileMem, Fats
  <2>2. CASE Driver \in {"xfs", "jfs"}
    <3>1. mem' = init_extents(mem)
      BY <1>6, <2>2
    <3>2. DOMAIN mem' = MemFields /\ FileMem(Driver, mem', file)
      BY <1>4, <3>1, InitExtents
    <3>3. ~Exempt => CursorOK(mem', file, filepos)
      BY <1>4, <1>5, <3>1, CursorStart
    <3> QED BY <2>2, <3>2, <3>3
  <2>3. CASE Driver \notin {"xfs", "jfs", "reiserfs"}
    BY <1>4, <1>6, <2>3
  <2> QED BY <2>1, <2>2, <2>3
<1>8. Shape'
  BY <1>1, <1>2, <1>3, <1>7 DEF FsysInv, Shape
<1>9. Numbers'
  <2>1. SUFFICES ASSUME ~Exempt
                 PROVE  /\ filepos' \in Nat
                        /\ Active' => /\ left' \in Nat /\ goal' \in Nat /\ filepos' + left' = goal'
                                      /\ goal' <= Size /\ goal' <= Reach
    BY <1>3 DEF Numbers
  <2>2. filepos \in Nat
    BY <1>5, <2>1
  <2>3. CASE filepos + len > Reach
    <3>1. ~Active'
      BY <1>1, <1>2, <2>3 DEF Active
    <3> QED BY <1>1, <2>2, <3>1
  <2>4. CASE ~(filepos + len > Reach)
    <3>1. left' = len /\ goal' = filepos + len
      BY <1>2, <2>4
    <3>2. Units(file) \in Nat /\ Units(file) <= Size /\ Reach \in Nat /\ Size \in Nat
      BY Sizes DEF FsysInv, Units, Size, AtMost
    <3> QED BY <1>1, <2>2, <2>4, <3>1, <3>2
  <2> QED BY <2>3, <2>4
<1>10. Buffered'
  BY <1>1, <1>3, <1>7 DEF Buffered
<1>11. Place'
  BY <1>1, <1>2, <1>3, <1>7 DEF Place, InCall
<1> QED BY <1>1, <1>8, <1>9, <1>10, <1>11, NothingRead DEF FsysInv

\* What the buffers of a driver must be to load another inode.
KeptMem(m) == /\ DOMAIN m = MemFields
              /\ fs \in {"ffs", "ufs2"} => UfsOK(fs, m)
              /\ fs \in Fats => m.win = m.buf
              /\ fs = "reiserfs" => JournalOK(m)
Loaded(m, f) == IF fs = "reiserfs" THEN search_stat(m, f) ELSE Inode(m)

LEMMA InodeIs ==
  ASSUME NEW m, KeptMem(m), fs \in Formats, NEW f \in Files
  PROVE  /\ DOMAIN Loaded(m, f) = MemFields /\ FileMem(fs, Loaded(m, f), f)
         /\ fs = "reiserfs" => Item(Loaded(m, f)) = Stat(f)
<1> DEFINE r == Inode(m)
<1>1. CASE fs = "reiserfs"
  <2> DEFINE s == search_stat(m, f)
  <2>1. DOMAIN s = MemFields /\ JournalOK(s) /\ PosOK(s) /\ Item(s) = Stat(f)
    <3> HIDE DEF s
    <3> QED BY <1>1, SearchStat DEF KeptMem, s
  <2>2. Loaded(m, f) = s
    BY <1>1 DEF Loaded
  <2> HIDE DEF s
  <2> QED BY <1>1, <2>1, <2>2 DEF FileMem, Fats
<1>2. CASE fs # "reiserfs"
  <2> DEFINE map2 == IF fs \in {"ffs", "ufs2"} THEN m.map2 ELSE None
  <2>1. r = [m EXCEPT !.map1 = 0, !.map2 = map2, !.ccn = MAXINT]
    BY DEF Inode
  <2> HIDE DEF map2, r
  <2>2. /\ DOMAIN r = MemFields /\ r.map1 = 0 /\ r.map2 = map2 /\ r.ccn = MAXINT /\ r.d2 = m.d2
        /\ r.win = m.win /\ r.buf = m.buf /\ r.moff = m.moff
    BY <2>1 DEF KeptMem, MemFields
  <2>3. fs \in {"ffs", "ufs2"} => UfsOK(fs, r)
    BY <2>2 DEF KeptMem, UfsOK, InMapBuf, Second, map2
  <2>4. fs \in {"ext2fs", "minix"} => MapOK(r, f) /\ TopOK(r, f)
    <3>1. SUFFICES ASSUME fs \in {"ext2fs", "minix"} PROVE MapOK(r, f) /\ TopOK(r, f)
      OBVIOUS
    <3>2. map2 = None
      BY <3>1 DEF map2
    <3> QED BY <2>2, <3>2 DEF MapOK, TopOK, Second
  <2>5. fs \in Fats => FatOK(r, f)
    BY <2>2, MaxInt DEF KeptMem, FatOK
  <2>6. fs # "blocklist"
    BY DEF Formats
  <2>7. Loaded(m, f) = r
    BY <1>2 DEF Loaded, r
  <2> QED BY <1>2, <2>2, <2>3, <2>4, <2>5, <2>6, <2>7 DEF FileMem
<1> QED BY <1>1, <1>2

\* What is kept is enough.
LEMMA Kept ==
  ASSUME FsysInv, errnum = "none", ~walk.block
  PROVE  KeptMem(mem)
<1>1. FileMem(fs, mem, file) /\ DOMAIN mem = MemFields
  BY DriverIs DEF FsysInv, Buffered, Shape
<1> QED BY <1>1 DEF KeptMem, FileMem, FatOK

LEMMA KeptMount ==
  ASSUME fs \in Formats
  PROVE  KeptMem(AfterMount(fs))
<1>1. DOMAIN Mounted = MemFields /\ Mounted.map2 = None /\ Mounted.win = Mounted.buf
  BY DEF Mounted, MemFields
<1>2. CASE fs = "reiserfs"
  <2> DEFINE J == journal_init(Mounted)
  <2>1. PICK N, first : Transactions(N, first)
    BY Journal
  <2>2. /\ DOMAIN J = MemFields /\ J.trans = N /\ Len(J.table) \in Nat
        /\ \A t \in 1 .. Len(J.table) : t <= N /\ J.table[t] = List(first, t)
    <3> HIDE DEF J
    <3> QED BY <2>1, JournalInit DEF J
  <2> HIDE DEF J
  <2>3. JournalOK(J)
    BY <2>1, <2>2 DEF JournalOK
  <2>4. AfterMount(fs) = J
    BY <1>2 DEF AfterMount, J
  <2> QED BY <1>2, <2>2, <2>3, <2>4 DEF KeptMem, Fats
<1>3. CASE fs # "reiserfs"
  BY <1>1, <1>3 DEF KeptMem, AfterMount, UfsOK, InMapBuf, Second
<1> QED BY <1>2, <1>3

\* A driver goes to another inode.
LEMMA GoesTo ==
  ASSUME Shape, fs' = fs, file' \in Files, DOMAIN walk' = WalkFields, walk'.up \in Files,
         walk'.block = FALSE, walk'.open = FALSE, pc' = "walk", errnum' = "none", got' = {},
         NEW m, KeptMem(m), mem' = Loaded(m, file')
  PROVE  FsysInv'
<1>1. fs \in Formats /\ Fitting
  BY DEF Shape
<1>2. /\ DOMAIN mem' = MemFields /\ FileMem(fs, mem', file')
      /\ fs = "reiserfs" => Item(mem') = Stat(file')
  <2> DEFINE f == file'
  <2>1. f \in Files /\ mem' = Loaded(m, f)
    OBVIOUS
  <2> HIDE DEF f
  <2>2. DOMAIN Loaded(m, f) = MemFields /\ FileMem(fs, Loaded(m, f), f)
        /\ (fs = "reiserfs" => Item(Loaded(m, f)) = Stat(f))
    BY <1>1, <2>1, InodeIs
  <2> QED BY <2>1, <2>2 DEF f
<1>3. Driver' = fs
  BY DEF Driver
<1>4. Shape'
  BY <1>1, <1>2 DEF Shape, Fitting
<1>5. Numbers'
  BY DEF Numbers, Active
<1>6. Buffered'
  BY <1>2, <1>3 DEF Buffered
<1>7. Place'
  BY <1>2, <1>3 DEF Place, InCall
<1> QED BY <1>4, <1>5, <1>6, <1>7, NothingRead DEF FsysInv

LEMMA StartIs ==
  \A p, list : /\ DOMAIN Start(p, list) = WalkFields /\ Start(p, list).up = Dir
               /\ Start(p, list).block = FALSE /\ Start(p, list).open = FALSE
BY DEF Start, WalkFields

LEMMA BeginKeeps ==
  ASSUME FsysInv, NEW p, NEW list, BeginWalk(p, list)
  PROVE  FsysInv'
<1>1. PICK m \in Buffers : mem' = Loaded(m, Dir)
  BY DEF BeginWalk, Loaded
<1>2. /\ walk' = Start(p, list) /\ file' = Dir /\ pc' = "walk" /\ errnum' = "none" /\ got' = {}
      /\ fs' = fs
  BY DEF BeginWalk
<1>3. KeptMem(m)
  <2>1. KeptMem(AfterMount(fs))
    BY KeptMount DEF FsysInv, Shape
  <2>2. CASE errnum # "none" \/ walk.block
    BY <2>1, <2>2 DEF Buffers
  <2>3. CASE ~(errnum # "none" \/ walk.block)
    BY <2>1, <2>3, Kept DEF Buffers
  <2> QED BY <2>2, <2>3
<1>4. Dir \in Files
  BY FsysAssumption
<1>5. /\ DOMAIN walk' = WalkFields /\ walk'.up \in Files /\ walk'.block = FALSE
      /\ walk'.open = FALSE
  BY <1>2, <1>4, StartIs
<1>6. mem' = Loaded(m, file')
  BY <1>1, <1>2
<1> QED BY <1>2, <1>3, <1>4, <1>5, <1>6, GoesTo DEF FsysInv

LEMMA OpenBlocksKeeps ==
  ASSUME FsysInv, grub_open_blocks
  PROVE  FsysInv'
<1> DEFINE s == Start(<<>>, FALSE)
           w == [s EXCEPT !.open = TRUE, !.block = TRUE]
<1>1. /\ pc' = "idle" /\ file' \in Files /\ walk' = w /\ mem' = Mounted /\ errnum' = "none"
      /\ filepos' = 0 /\ got' = {} /\ fs' = fs
  BY DEF grub_open_blocks
<1>2. DOMAIN s = WalkFields /\ s.up = Dir
  BY StartIs
<1> HIDE DEF s
<1>3. DOMAIN w = WalkFields /\ w.up = Dir /\ w.open = TRUE /\ w.block = TRUE
  BY <1>2 DEF WalkFields
<1> HIDE DEF w
<1>4. Driver' = "blocklist" /\ Fitting'
  BY <1>1, <1>3 DEF Driver, Fitting, FsysInv, Shape
<1>5. DOMAIN Mounted = MemFields /\ Mounted.cur = 0 /\ Mounted.num = 0 /\ Mounted.blk = 1
  BY DEF Mounted, MemFields
<1>6. BlockOK(mem', file')
  <2> DEFINE f == file'
  <2>1. f \in Files
    BY <1>1
  <2> HIDE DEF f
  <2>2. BlockOK(Mounted, f)
    BY <1>5, <2>1, BlockStart
  <2> QED BY <1>1, <2>2 DEF f
<1>7. Shape'
  BY <1>1, <1>3, <1>4, <1>5, FsysAssumption DEF FsysInv, Shape
<1>8. Numbers'
  BY <1>1 DEF Numbers, Active
<1>9. Buffered'
  BY <1>4, <1>6 DEF Buffered, FileMem, Fats
<1>10. Place'
  BY <1>4 DEF Place
<1> QED BY <1>1, <1>7, <1>8, <1>9, <1>10, NothingRead DEF FsysInv

\* While a path is followed no file is open.
LEMMA WalkIs ==
  ASSUME FsysInv, pc \in {"walk", "scan", "link"}
  PROVE  /\ walk.block = FALSE /\ walk.open = FALSE /\ errnum = "none" /\ Driver = fs
         /\ DOMAIN walk = WalkFields /\ walk.up \in Files /\ fs \in Formats /\ file \in Files
         /\ DOMAIN mem = MemFields /\ KeptMem(mem) /\ FileMem(fs, mem, file) /\ Shape
<1>1. /\ walk.block \in BOOLEAN /\ walk.open \in BOOLEAN /\ errnum = "none"
      /\ ~walk.block /\ ~walk.open
      /\ DOMAIN walk = WalkFields /\ walk.up \in Files /\ fs \in Formats /\ file \in Files
      /\ DOMAIN mem = MemFields /\ Shape
  BY DEF FsysInv, Shape
<1>2. Driver = fs
  BY <1>1, DriverIs
<1>3. KeptMem(mem)
  BY <1>1, Kept
<1>4. FileMem(fs, mem, file)
  BY <1>1, <1>2 DEF FsysInv, Buffered
<1> QED BY <1>1, <1>2, <1>3, <1>4

\* The search ends where it is.
LEMMA Stops ==
  ASSUME FsysInv, pc \in {"walk", "scan"}, pc' = "idle", fs' = fs, file' = file, walk' = walk,
         mem' = mem, got' = {}
  PROVE  FsysInv'
<1>1. walk.open = FALSE /\ errnum = "none"
  BY WalkIs
<1>2. Driver' = Driver /\ Exempt' = Exempt /\ Fitting' = Fitting
  BY SameFile
<1>3. Shape'
  BY <1>2 DEF FsysInv, Shape
<1>4. Numbers'
  BY <1>1 DEF Numbers, Active
<1>5. Buffered'
  BY <1>1, <1>2 DEF FsysInv, Buffered
<1>6. Place'
  BY DEF Place, InCall
<1> QED BY <1>3, <1>4, <1>5, <1>6, NothingRead DEF FsysInv

LEMMA DirFailsKeeps ==
  ASSUME FsysInv, pc \in {"walk", "scan"}, NEW e, DirFails(e)
  PROVE  FsysInv'
BY Stops DEF DirFails, Rest

\* The item behind the stat item of the inode that is loaded.
LEMMA FirstItem ==
  ASSUME FsysInv, pc = "walk", fs = "reiserfs"
  PROVE  LET s == next_key(mem)
         IN /\ DOMAIN s = MemFields /\ FileMem(fs, s, file)
            /\ Item(s).obj = file /\ Item(s).off = 1
<1>1. Driver = fs /\ file \in Files /\ DOMAIN mem = MemFields /\ FileMem(fs, mem, file) /\ Shape
  BY WalkIs
<1>2. JournalOK(mem) /\ PosOK(mem)
  BY <1>1 DEF FileMem
<1>3. Item(mem) = Stat(file)
  BY <1>1 DEF FsysInv, Place
<1>4. Item(mem).obj = file /\ ItemEnd(Item(mem)) = 0
  BY <1>3 DEF Stat, ItemEnd
<1>5. Blocks[file] \in Nat \ {0}
  BY <1>1, Sizes
<1>6. ItemEnd(Item(mem)) < Blocks[file]
  BY <1>4, <1>5
<1> DEFINE s == next_key(mem)
<1> HIDE DEF s
<1>7. DOMAIN s = MemFields /\ JournalOK(s) /\ PosOK(s)
      /\ Item(s).obj = file /\ Item(s).off = ItemEnd(Item(mem)) + 1
  BY <1>1, <1>2, <1>4, <1>6, NextOfFile DEF s
<1>8. Item(s).off = 1 /\ FileMem(fs, s, file)
  BY <1>4, <1>7 DEF FileMem, Fats
<1> QED BY <1>7, <1>8 DEF s

LEMMA Opens ==
  ASSUME FsysInv, pc = "walk", walk' = [walk EXCEPT !.open = TRUE], pc' = "idle",
         filepos' = 0, got' = {}, fs' = fs, file' = file, errnum' = errnum,
         mem' = IF fs = "reiserfs" THEN next_key(mem) ELSE mem
  PROVE  FsysInv'
<1>1. /\ walk.block = FALSE /\ errnum = "none" /\ Driver = fs
      /\ DOMAIN walk = WalkFields /\ walk.up \in Files
      /\ DOMAIN mem = MemFields /\ FileMem(fs, mem, file)
  BY WalkIs
<1>2. /\ DOMAIN walk' = WalkFields /\ walk'.up = walk.up /\ walk'.block = FALSE
      /\ walk'.open = TRUE
  BY <1>1 DEF WalkFields
<1>3. Driver' = Driver /\ Exempt' = Exempt /\ Fitting' = Fitting
  BY <1>1, <1>2, SameFile
<1>4. DOMAIN mem' = MemFields /\ FileMem(fs, mem', file)
  <2>1. CASE fs = "reiserfs"
    BY <2>1, FirstItem
  <2>2. CASE fs # "reiserfs"
    BY <1>1, <2>2
  <2> QED BY <2>1, <2>2
<1>5. Shape'
  BY <1>1, <1>2, <1>3, <1>4 DEF FsysInv, Shape
<1>6. Numbers'
  BY DEF Numbers, Active
<1>7. Buffered'
  BY <1>1, <1>3, <1>4 DEF Buffered
<1>8. Place'
  BY DEF Place, InCall
<1> QED BY <1>5, <1>6, <1>7, <1>8, NothingRead DEF FsysInv

LEMMA InReach ==
  ASSUME Shape, Driver = fs,
         Kind[file] = "dir" \/ (Kind[file] = "link" /\ fs \in Linked)
  PROVE  Blocks[file] <= Reach
<1>1. file \in Files /\ Fitting
  BY DEF Shape
<1>2. Blocks[file] \in Nat /\ Blocks[file] <= MAXINT - 1
  BY Sizes
<1>3. CASE fs = "minix"
  <2>1. Blocks[file] <= NDir + Addr + Addr * Addr
    BY <1>1, <1>3 DEF Fitting
  <2> QED BY <1>3, <2>1 DEF Reach
<1>4. CASE fs \in {"ffs", "ufs2"}
  <2>1. Kind[file] = "dir"
    BY <1>4 DEF Linked
  <2>2. Blocks[file] <= NDir + Addr
    BY <1>1, <1>4, <2>1 DEF Fitting
  <2> QED BY <1>4, <2>2 DEF Reach
<1>5. CASE fs \notin {"minix", "ffs", "ufs2"}
  <2>1. Reach = MAXINT
    BY <1>5 DEF Reach
  <2> QED BY <1>2, <2>1, MaxInt
<1> QED BY <1>3, <1>4, <1>5

\* A call over the whole of the inode that is loaded: a directory, the text of a link.
LEMMA Begins ==
  ASSUME FsysInv, pc = "walk", fs' = fs, file' = file, DOMAIN walk' = WalkFields,
         walk'.up \in Files, walk'.block = FALSE, walk'.open = FALSE,
         filepos' = 0, left' = Blocks[file], goal' = Blocks[file],
         got' = {}, errnum' = errnum, DOMAIN mem' = MemFields, FileMem(fs, mem', file),
         \/ pc' = "scan" /\ Kind[file] = "dir"
         \/ pc' = "link" /\ Kind[file] = "link" /\ fs \in Linked,
         IF fs = "reiserfs"
           THEN /\ Item(mem').obj = file
                /\ IF pc' = "scan" THEN ItemEnd(Item(mem')) = 0 ELSE Item(mem').off = 1
           ELSE CursorOK(mem', file, 0)
  PROVE  FsysInv'
<1>1. walk.block = FALSE /\ errnum = "none" /\ Driver = fs /\ Shape /\ fs \in Formats
  BY WalkIs
<1>2. /\ Driver' = fs /\ Exempt' = Exempt /\ Size' = Size /\ Reach' = Reach /\ Fitting' = Fitting
  BY <1>1, SameFile
<1>3. Shape'
  BY <1>1, <1>2 DEF Shape
<1>4. Numbers'
  <2>1. Blocks[file] <= Reach
    BY <1>1, InReach
  <2>2. Blocks[file] \in Nat /\ Size = Blocks[file]
    BY <1>1, Sizes DEF Size
  <2> QED BY <1>2, <2>1, <2>2 DEF Numbers
<1>5. Buffered'
  BY <1>2 DEF Buffered
<1>6. Place'
  <2>1. CASE fs = "reiserfs"
    BY <1>2, <2>1 DEF Place
  <2>2. CASE fs # "reiserfs"
    BY <1>2, <2>2 DEF Place
  <2> QED BY <2>1, <2>2
<1> QED BY <1>3, <1>4, <1>5, <1>6, NothingRead DEF FsysInv

LEMMA NameEndsKeeps ==
  ASSUME FsysInv, pc = "walk", NameEnds
  PROVE  FsysInv'
<1>1. CASE Kind[file] # "reg"
  BY <1>1, DirFailsKeeps DEF NameEnds
<1>2. CASE Kind[file] = "reg"
  BY <1>2, Opens DEF NameEnds
<1> QED BY <1>1, <1>2

LEMMA SearchKeeps ==
  ASSUME FsysInv, pc = "walk", Search
  PROVE  FsysInv'
<1>1. CASE Kind[file] # "dir"
  BY <1>1, DirFailsKeeps DEF Search
<1>2. CASE Kind[file] = "dir"
  <2>1. /\ pc' = "scan" /\ filepos' = 0 /\ left' = Blocks[file] /\ goal' = Blocks[file]
        /\ walk' = [walk EXCEPT !.up = file] /\ mem' = init_extents(mem) /\ got' = {}
        /\ fs' = fs /\ file' = file /\ errnum' = errnum
    BY <1>2 DEF Search
  <2>2. /\ walk.block = FALSE /\ walk.open = FALSE /\ DOMAIN walk = WalkFields /\ file \in Files
        /\ DOMAIN mem = MemFields /\ FileMem(fs, mem, file) /\ Driver = fs
    BY WalkIs
  <2>3. /\ DOMAIN walk' = WalkFields /\ walk'.up \in Files /\ walk'.block = FALSE
        /\ walk'.open = FALSE
    BY <2>1, <2>2 DEF WalkFields
  <2>4. DOMAIN mem' = MemFields /\ FileMem(fs, mem', file) /\ Item(mem') = Item(mem)
    BY <2>1, <2>2, InitExtents
  <2>5. CursorOK(mem', file, 0)
    BY <2>1, <2>2, CursorStart
  <2>6. fs = "reiserfs" => Item(mem').obj = file /\ ItemEnd(Item(mem')) = 0
    <3>1. SUFFICES ASSUME fs = "reiserfs" PROVE Item(mem).obj = file /\ ItemEnd(Item(mem)) = 0
      BY <2>4
    <3>2. Item(mem) = Stat(file)
      BY <2>2, <3>1 DEF FsysInv, Place
    <3> QED BY <3>2 DEF Stat, ItemEnd
  <2> QED BY <1>2, <2>1, <2>3, <2>4, <2>5, <2>6, Begins
<1> QED BY <1>1, <1>2

LEMMA ReadLinkKeeps ==
  ASSUME FsysInv, pc = "walk", Kind[file] = "link", fs \in Linked, ReadLink
  PROVE  FsysInv'
<1>1. /\ pc' = "link" /\ filepos' = 0 /\ left' = Blocks[file] /\ goal' = Blocks[file]
      /\ walk' = walk /\ got' = {} /\ fs' = fs /\ file' = file /\ errnum' = errnum
      /\ mem' = IF fs = "reiserfs" THEN next_key(mem) ELSE init_extents(mem)
  BY DEF ReadLink
<1>2. /\ walk.block = FALSE /\ walk.open = FALSE /\ DOMAIN walk = WalkFields /\ file \in Files
      /\ DOMAIN mem = MemFields /\ FileMem(fs, mem, file) /\ walk.up \in Files
  BY WalkIs
<1>3. DOMAIN mem' = MemFields /\ FileMem(fs, mem', file)
      /\ IF fs = "reiserfs" THEN Item(mem').obj = file /\ Item(mem').off = 1
         ELSE CursorOK(mem', file, 0)
  <2>1. CASE fs = "reiserfs"
    BY <1>1, <2>1, FirstItem
  <2>2. CASE fs # "reiserfs"
    <3>1. mem' = init_extents(mem)
      BY <1>1, <2>2
    <3>2. DOMAIN mem' = MemFields /\ FileMem(fs, mem', file)
      BY <1>2, <3>1, InitExtents
    <3>3. CursorOK(mem', file, 0)
      BY <1>2, <3>1, CursorStart
    <3> QED BY <2>2, <3>2, <3>3
  <2> QED BY <2>1, <2>2
<1>4. pc' # "scan"
  BY <1>1
<1> QED BY <1>1, <1>2, <1>3, <1>4, Begins

LEMMA JumpKeeps ==
  ASSUME FsysInv, pc \in {"walk", "link"}, NEW path, Jump(path)
  PROVE  FsysInv'
<1>1. /\ walk' = [walk EXCEPT !.path = path, !.links = @ + 1, !.off = 0]
      /\ file' = (IF Text[file].abs THEN Dir ELSE walk.up) /\ mem' = Loaded(mem, file')
      /\ pc' = "walk" /\ errnum' = errnum /\ fs' = fs /\ got' = {}
  BY DEF Jump, Rest, Loaded
<1>2. /\ walk.block = FALSE /\ walk.open = FALSE /\ errnum = "none"
      /\ DOMAIN walk = WalkFields /\ walk.up \in Files /\ KeptMem(mem) /\ Shape
  BY WalkIs
<1>3. file' \in Files
  BY <1>1, <1>2, FsysAssumption
<1>4. /\ DOMAIN walk' = WalkFields /\ walk'.up = walk.up /\ walk'.block = walk.block
      /\ walk'.open = walk.open
  BY <1>1, <1>2 DEF WalkFields
<1>5. errnum' = "none" /\ walk'.up \in Files /\ walk'.block = FALSE /\ walk'.open = FALSE
  BY <1>1, <1>2, <1>4
<1> QED BY <1>1, <1>2, <1>3, <1>4, <1>5, GoesTo

LEMMA FollowLinkKeeps ==
  ASSUME FsysInv, pc = "walk", Kind[file] = "link", fs \in Linked, NEW limit, NEW path,
         FollowLink(limit, path)
  PROVE  FsysInv'
<1>1. \/ DirFails("loop") \/ DirFails("length") \/ Jump(path) \/ ReadLink
  BY DEF FollowLink
<1> QED BY <1>1, DirFailsKeeps, JumpKeeps, ReadLinkKeeps

\* One turn of a driver that follows links.
LEMMA LinkedTurn ==
  ASSUME FsysInv, pc = "walk", fs \in Linked, NEW limit, NEW path,
         IF Kind[file] = "link" THEN FollowLink(limit, path)
         ELSE IF walk.path = <<>> THEN NameEnds ELSE Search
  PROVE  FsysInv'
BY FollowLinkKeeps, NameEndsKeeps, SearchKeeps

LEMMA TurnKeeps ==
  ASSUME FsysInv,
         \/ ext2fs_dir \/ minix_dir \/ reiserfs_dir \/ xfs_dir \/ jfs_dir
         \/ ffs_dir \/ ufs2_dir \/ fat_dir \/ iso9660_dir
  PROVE  FsysInv'
<1>0. pc = "walk"
  BY DEF ext2fs_dir, minix_dir, reiserfs_dir, xfs_dir, jfs_dir, ffs_dir, ufs2_dir, fat_dir,
         iso9660_dir, Turn
<1> DEFINE moved == Len(Text[file].names) + Tail1
<1>1. CASE ext2fs_dir \/ minix_dir \/ reiserfs_dir
  <2>1. /\ fs \in Linked
        /\ IF Kind[file] = "link" THEN FollowLink(moved, Whole(file))
           ELSE IF walk.path = <<>> THEN NameEnds ELSE Search
    BY <1>1 DEF ext2fs_dir, minix_dir, reiserfs_dir, Linked
  <2> HIDE DEF moved
  <2> QED BY <1>0, <2>1, LinkedTurn
<1>2. CASE xfs_dir \/ jfs_dir
  <2>1. /\ fs \in Linked
        /\ IF Kind[file] = "link" THEN FollowLink(Len(Text[file].names), Overlaid(file))
           ELSE IF walk.path = <<>> THEN NameEnds ELSE Search
    BY <1>2 DEF xfs_dir, jfs_dir, Linked
  <2> QED BY <1>0, <2>1, LinkedTurn
<1>3. CASE ffs_dir \/ ufs2_dir \/ iso9660_dir
  <2>1. NameEnds \/ Search
    BY <1>3 DEF ffs_dir, ufs2_dir, iso9660_dir
  <2> QED BY <1>0, <2>1, NameEndsKeeps, SearchKeeps
<1>4. CASE fat_dir
  <2>1. CASE Search
    BY <1>0, <2>1, SearchKeeps
  <2>2. CASE DirFails("type")
    BY <1>0, <2>2, DirFailsKeeps
  <2>3. CASE ~Search /\ ~DirFails("type")
    <3>1. /\ walk' = [walk EXCEPT !.open = TRUE] /\ pc' = "idle" /\ filepos' = 0 /\ got' = {}
          /\ fs' = fs /\ file' = file /\ mem' = mem /\ errnum' = errnum /\ fs \in Fats
      BY <1>4, <2>3 DEF fat_dir
    <3>2. fs # "reiserfs"
      BY <3>1 DEF Fats
    <3> QED BY <1>0, <3>1, <3>2, Opens
  <2> QED BY <2>1, <2>2, <2>3
<1> QED BY <1>1, <1>2, <1>3, <1>4

LEMMA LinkReadKeeps ==
  ASSUME FsysInv, LinkRead
  PROVE  FsysInv'
<1> DEFINE path == IF fs \in {"xfs", "jfs"} THEN Overlaid(file) ELSE Whole(file)
<1>1. pc = "link" /\ Jump(path)
  BY DEF LinkRead
<1> HIDE DEF path
<1> QED BY <1>1, JumpKeeps

LEMMA DirEndsKeeps ==
  ASSUME FsysInv, DirEnds
  PROVE  FsysInv'
<1>1. /\ pc = "scan" /\ pc' = "idle" /\ file' = file /\ walk' = walk /\ mem' = mem
      /\ fs' = fs /\ got' = {}
  BY DEF DirEnds, Rest
<1> QED BY <1>1, Stops

\* A block of a directory has the name, or the search goes on.
LEMMA DirBlockKeeps ==
  ASSUME FsysInv, NEW drivers, DirBlock(drivers)
  PROVE  FsysInv'
<1> DEFINE here  == Found(file, {g[2] : g \in {h \in got : h[3] = Content(file, h[2])}})
           name  == Head(walk.path)
           list  == walk.list /\ Len(walk.path) = 1
           match == {n \in here : <<name, n>> \in Prefix}
<1>1. pc = "scan" /\ fs' = fs /\ filepos' = filepos /\ left' = left /\ goal' = goal /\ got' = {}
  BY DEF DirBlock, Rest
<1>2. /\ walk.block = FALSE /\ walk.open = FALSE /\ errnum = "none" /\ Driver = fs
      /\ DOMAIN walk = WalkFields /\ walk.up \in Files /\ KeptMem(mem) /\ Shape /\ file \in Files
      /\ DOMAIN mem = MemFields /\ FileMem(fs, mem, file)
  BY <1>1, WalkIs
<1>3. CASE ~list /\ name \in here
  <2>1. /\ file' = Entry[file][name].to /\ pc' = "walk"
        /\ walk' = [walk EXCEPT !.path = Tail(@), !.off = IF @ < 0 THEN @ ELSE @ + 1]
        /\ mem' = Loaded(mem, file') /\ errnum' = errnum
    BY <1>3 DEF DirBlock, Loaded
  <2>2. file' \in Files
    <3>1. Kind[file] = "dir"
      BY <1>1, <1>2 DEF Shape
    <3>2. name \in Names(file)
      BY <1>3 DEF Found
    <3> HIDE DEF name
    <3> QED BY <1>2, <2>1, <3>1, <3>2, EntryAssumption
  <2>3. /\ DOMAIN walk' = WalkFields /\ walk'.up = walk.up /\ walk'.block = walk.block
        /\ walk'.open = walk.open
    BY <1>2, <2>1 DEF WalkFields
  <2>4. errnum' = "none" /\ walk'.up \in Files /\ walk'.block = FALSE /\ walk'.open = FALSE
    BY <1>2, <2>1, <2>3
  <2> QED BY <1>1, <1>2, <2>1, <2>2, <2>3, <2>4, GoesTo
<1>4. CASE ~(~list /\ name \in here)
  <2> DEFINE shown == walk.shown \cup (IF list THEN match ELSE {})
  <2>1. /\ walk' = [walk EXCEPT !.shown = shown]
        /\ mem' = init_extents(mem) /\ file' = file /\ pc' = pc /\ errnum' = errnum
    BY <1>4 DEF DirBlock
  <2> HIDE DEF shown
  <2>2. /\ DOMAIN walk' = WalkFields /\ walk'.up = walk.up /\ walk'.block = walk.block
        /\ walk'.open = walk.open
    BY <1>2, <2>1 DEF WalkFields
  <2>3. /\ Driver' = Driver /\ Exempt' = Exempt /\ Size' = Size /\ Reach' = Reach
        /\ Fitting' = Fitting
    BY <1>1, <2>1, <2>2, SameFile
  <2>4. DOMAIN mem' = MemFields /\ FileMem(fs, mem', file) /\ Item(mem') = Item(mem)
    BY <1>2, <2>1, InitExtents
  <2>5. Shape'
    BY <1>1, <1>2, <2>1, <2>2, <2>3, <2>4 DEF Shape
  <2>6. Numbers'
    BY <1>1, <1>2, <2>1, <2>2, <2>3 DEF FsysInv, Numbers, Active
  <2>7. Buffered'
    BY <1>2, <2>1, <2>3, <2>4 DEF Buffered
  <2>8. Place'
    <3>1. fs = "reiserfs" => Item(mem').obj = file /\ ItemEnd(Item(mem')) = filepos'
                             /\ goal' = Blocks[file]
      BY <1>1, <1>2, <2>4 DEF FsysInv, Place
    <3>2. ~Exempt => CursorOK(mem', file, filepos')
      <4>1. SUFFICES ASSUME ~Exempt PROVE CursorOK(mem', file, filepos')
        OBVIOUS
      <4>2. filepos \in Nat
        BY <1>1, <4>1 DEF FsysInv, Numbers, Active
      <4> QED BY <1>1, <1>2, <2>1, <4>2, CursorStart
    <3> QED BY <1>1, <1>2, <2>1, <2>3, <3>1, <3>2 DEF Place
  <2> QED BY <1>1, <2>5, <2>6, <2>7, <2>8, NothingRead DEF FsysInv
<1> QED BY <1>3, <1>4

LEMMA RoundsKeep ==
  ASSUME FsysInv, Rounds
  PROVE  FsysInv'
BY Ext2Round, MinixRound, UfsRound, FatRounds, ExtentRounds, ReiserRound, IsoRound,
   BlocklistRounds DEF Rounds

LEMMA DirsKeep ==
  ASSUME FsysInv, Dirs
  PROVE  FsysInv'
<1>1. CASE \/ ext2fs_entries \/ minix_entries \/ reiserfs_entries \/ xfs_entries \/ jfs_entries
           \/ ffs_entries \/ ufs2_entries \/ fat_entries \/ iso9660_entries
  <2>1. \E drivers : DirBlock(drivers)
    BY <1>1 DEF ext2fs_entries, minix_entries, reiserfs_entries, xfs_entries, jfs_entries,
                ffs_entries, ufs2_entries, fat_entries, iso9660_entries
  <2> QED BY <2>1, DirBlockKeeps
<1>2. CASE ~(\/ ext2fs_entries \/ minix_entries \/ reiserfs_entries \/ xfs_entries \/ jfs_entries
             \/ ffs_entries \/ ufs2_entries \/ fat_entries \/ iso9660_entries)
  BY <1>2, TurnKeeps, LinkReadKeeps, DirEndsKeeps, DentryRound, DirItemRound DEF Dirs
<1> QED BY <1>1, <1>2

LEMMA FsysInit ==
  ASSUME fsInit
  PROVE  FsysInv
<1>1. PICK p \in Parts : fs = Format(attempt_mount(p), p)
  BY DEF fsInit
<1>2. /\ pc = "idle" /\ file = Dir /\ walk = Start(<<>>, FALSE) /\ filepos = 0 /\ left = 0
      /\ mem = AfterMount(fs) /\ got = {} /\ errnum = "unmounted"
  BY DEF fsInit
<1>3. attempt_mount(p) \in {"fat", "ext2fs", "minix", "reiserfs", "jfs", "xfs", "ufs2",
                            "iso9660", "ffs", "none"}
  BY DEF attempt_mount
<1> DEFINE d == attempt_mount(p)
<1> HIDE DEF d
<1>4. /\ fs \in Formats /\ (fs = "minix" => d = "minix")
      /\ (fs \in {"ffs", "ufs2"} => d \in {"ffs", "ufs2"})
  <2>1. fs = Format(d, p) /\ d \in {"fat", "ext2fs", "minix", "reiserfs", "jfs", "xfs", "ufs2",
                                    "iso9660", "ffs", "none"}
    BY <1>1, <1>3 DEF d
  <2> QED BY <2>1 DEF Format, Formats
<1>5. Fitting
  BY <1>4, MapAssumption DEF Fitting, d
<1>6. DOMAIN mem = MemFields
  BY <1>2, <1>4, KeptMount DEF KeptMem
<1>7. Shape
  BY <1>2, <1>4, <1>5, <1>6, StartIs, FsysAssumption DEF Shape
<1>8. Numbers /\ Buffered /\ ReadIsFile
  BY <1>2 DEF Numbers, Active, Buffered, ReadIsFile
<1>9. Place
  BY <1>2 DEF Place, InCall
<1> QED BY <1>7, <1>8, <1>9 DEF FsysInv

LEMMA FsysUnchanged ==
  ASSUME FsysInv, UNCHANGED fsVars
  PROVE  FsysInv'
<1>1. /\ fs' = fs /\ pc' = pc /\ file' = file /\ walk' = walk /\ filepos' = filepos
      /\ left' = left /\ goal' = goal /\ mem' = mem /\ got' = got /\ errnum' = errnum
  BY DEF fsVars
<1>2. /\ Driver' = Driver /\ Exempt' = Exempt /\ Size' = Size /\ Reach' = Reach
      /\ Fitting' = Fitting /\ Active' = Active /\ InCall' = InCall
  BY <1>1, SameFile DEF Active, InCall
<1>3. Shape'
  BY <1>1, <1>2 DEF FsysInv, Shape
<1>4. Numbers'
  BY <1>1, <1>2 DEF FsysInv, Numbers
<1>5. Buffered'
  BY <1>1, <1>2 DEF FsysInv, Buffered
<1>6. Place'
  BY <1>1, <1>2 DEF FsysInv, Place
<1>7. ReadIsFile'
  <2>1. \A f, n : Content(f, n)' = Content(f, n) /\ Lost(f, n)' = Lost(f, n)
    BY <1>2 DEF Content, Lost
  <2>2. \A g : Right(g)' = Right(g)
    BY <2>1 DEF Right
  <2> QED BY <1>1, <1>2, <2>2 DEF FsysInv, ReadIsFile
<1> QED BY <1>3, <1>4, <1>5, <1>6, <1>7 DEF FsysInv

LEMMA FsysNext ==
  ASSUME FsysInv, [filesNext]_<<fsVars, gz>>
  PROVE  FsysInv'
<1>1. CASE UNCHANGED fsVars
  BY <1>1, FsysUnchanged
<1>2. CASE Next
  <2>1. CASE grub_open \/ dir
    BY <2>1, BeginKeeps DEF grub_open, dir
  <2>2. CASE grub_open_blocks \/ grub_seek \/ grub_read \/ CallEnds \/ ReadFails
    BY <2>2, OpenBlocksKeeps, SeekKeeps, ReadKeeps, CallEndsKeeps, ReadFailsKeeps
  <2>3. CASE Rounds
    BY <2>3, RoundsKeep
  <2>4. CASE Dirs
    BY <2>4, DirsKeep
  <2> QED BY <1>2, <2>1, <2>2, <2>3, <2>4 DEF Next
<1> QED BY <1>1, <1>2 DEF filesNext

\* The buffers that a driver keeps in FSYS_BUF and in its statics (mapblock1 and
\* mapblock2, cached_fat and current_cluster, the extent cursor, the ReiserFS path and
\* its journal table, BLK_CUR_FILEPOS) always are of the inode that is loaded and at
\* the position of the call, through every open, seek, read, link and failure.
THEOREM BuffersFollowFile == filesSpec => []FsysInv
<1>1. filesInit => FsysInv
  BY FsysInit DEF filesInit
<1>2. FsysInv /\ [filesNext]_<<fsVars, gz>> => FsysInv'
  BY FsysNext
<1> QED BY <1>1, <1>2, PTL DEF filesSpec

\* X_read and X_block_map: every block that a driver delivers is the block of the file
\* that was asked for, at that position.
THEOREM FilesReadTrue == filesSpec => []ReadIsFile
<1>1. FsysInv => ReadIsFile
  BY DEF FsysInv
<1> QED BY <1>1, BuffersFollowFile, PTL

\* grub_read and X_dir: a call that meets no error delivers as much as was asked for,
\* and the search of a directory sees all of its blocks.
THEOREM ReadsAreWhole == filesSpec => []ReadComplete
<1>1. FsysInv => ReadComplete
  <2>1. SUFFICES ASSUME FsysInv, Active, left = 0, ~Exempt PROVE filepos = goal
    BY DEF ReadComplete, Active
  <2>2. filepos \in Nat /\ left \in Nat /\ goal \in Nat /\ filepos + left = goal
    BY <2>1 DEF FsysInv, Numbers
  <2> QED BY <2>1, <2>2
<1> QED BY <1>1, BuffersFollowFile, PTL

=============================================================================
