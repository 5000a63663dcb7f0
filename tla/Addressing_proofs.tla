------------------------- MODULE Addressing_proofs --------------------------
(***************************************************************************)
(* Proofs about Addressing, for every network, range and address width:    *)
(* its types; that no two subnets are ever given a common address; and     *)
(* what Network.configure does with the blocks.  Each subnet is addressed  *)
(* once, and all of them are; hosts have addresses of their own inside     *)
(* their subnets; a system announces the addresses of its inner subnets    *)
(* only; BGP sessions have two ends; and a subnet is refused only when its *)
(* range has too few free addresses left.                                  *)
(***************************************************************************)
EXTENDS Addressing, TLAPS, FiniteSetTheorems, SequenceTheorems, WellFoundedInduction

-----------------------------------------------------------------------------
\* Sizes of blocks.

\* Induction over the naturals for a set that is closed under successor.
LEMMA NatClosed ==
  \A T \in SUBSET Nat : 0 \in T /\ (\A n \in T : n + 1 \in T) => T = Nat
<1>1. SUFFICES ASSUME NEW T \in SUBSET Nat, 0 \in T, \A n \in T : n + 1 \in T,
                      Nat \ T # {}
               PROVE  FALSE
  OBVIOUS
<1>2. PICK x \in Nat \ T : \A y \in Nat \ T : ~(y < x)
  <2>1. \E x \in Nat \ T : \A y \in Nat \ T : ~(<<y, x>> \in OpToRel(<, Nat))
    <3>1. Nat \ T \subseteq Nat
      OBVIOUS
    <3>2. QED
      BY <1>1, <3>1, WFMin, NatLessThanWellFounded, Zenon
  <2>2. QED
    BY <2>1 DEF OpToRel
<1>3. x # 0 /\ x - 1 \in Nat /\ x - 1 < x
  BY <1>1, <1>2
<1>4. x - 1 \in T
  BY <1>2, <1>3
<1>5. QED
  BY <1>1, <1>2, <1>3, <1>4

\* Every block has at least one address.
LEMMA SizePositive == \A k \in Lengths : Size[k] \in Nat /\ Size[k] >= 1
<1> DEFINE T == {n \in Nat : n <= Width => Size[Width - n] >= 1}
<1>1. 0 \in T
  BY SizeAssumption
<1>2. ASSUME NEW n \in T PROVE n + 1 \in T
  <2>1. SUFFICES ASSUME n + 1 <= Width PROVE Size[Width - (n + 1)] >= 1
    OBVIOUS
  <2>2. Width - (n + 1) \in 0..(Width - 1) /\ (Width - (n + 1)) + 1 = Width - n
    BY <2>1, SizeAssumption
  <2>3. Size[Width - (n + 1)] = 2 * Size[Width - n]
    BY <2>2, SizeAssumption
  <2>4. Size[Width - n] >= 1 /\ Size[Width - n] \in Nat
    BY <2>1, SizeAssumption DEF Lengths
  <2>5. QED
    BY <2>3, <2>4
<1>3. \A n \in Nat : n <= Width => Size[Width - n] >= 1
  <2>1. T \in SUBSET Nat
    OBVIOUS
  <2>2. QED
    <3>1. T = Nat
      BY <1>1, <1>2, <2>1, NatClosed
    <3>2. QED
      BY <3>1
<1>4. ASSUME NEW k \in Lengths PROVE Size[k] \in Nat /\ Size[k] >= 1
  <2>1. Width - k \in Nat /\ Width - (Width - k) = k /\ Width - k <= Width
    BY SizeAssumption DEF Lengths
  <2>2. QED
    BY <1>3, <2>1, SizeAssumption DEF Lengths
<1>5. QED
  BY <1>4

\* A longer prefix is at most half the size of a shorter one.
LEMMA SizeHalves ==
  \A j, k \in Lengths : j < k => 2 * Size[k] <= Size[j]
<1> DEFINE T == {n \in Nat : \A j \in Lengths :
                   j + n + 1 <= Width => 2 * Size[j + n + 1] <= Size[j]}
<1>1. 0 \in T
  BY SizeAssumption DEF Lengths
<1>2. ASSUME NEW n \in T PROVE n + 1 \in T
  <2>1. SUFFICES ASSUME NEW j \in Lengths, j + (n + 1) + 1 <= Width
                 PROVE  2 * Size[j + (n + 1) + 1] <= Size[j]
    OBVIOUS
  <2>2. 2 * Size[j + n + 1] <= Size[j]
    BY <2>1, SizeAssumption DEF Lengths
  <2>3. j + n + 1 \in 0..(Width - 1) /\ j + (n + 1) + 1 = (j + n + 1) + 1
    BY <2>1, SizeAssumption DEF Lengths
  <2>4. Size[j + n + 1] = 2 * Size[j + (n + 1) + 1]
    BY <2>3, SizeAssumption
  <2>5. Size[j + (n + 1) + 1] \in Nat /\ Size[j] \in Nat
    BY <2>1, SizePositive, SizeAssumption DEF Lengths
  <2>6. QED
    BY <2>2, <2>4, <2>5
<1>3. \A n \in Nat : \A j \in Lengths :
        j + n + 1 <= Width => 2 * Size[j + n + 1] <= Size[j]
  <2>1. T \in SUBSET Nat
    OBVIOUS
  <2>2. QED
    <3>1. T = Nat
      BY <1>1, <1>2, <2>1, NatClosed
    <3>2. QED
      BY <3>1
<1>4. ASSUME NEW j \in Lengths, NEW k \in Lengths, j < k
      PROVE  2 * Size[k] <= Size[j]
  <2>1. (k - j) - 1 \in Nat /\ j + ((k - j) - 1) + 1 = k /\ k <= Width
    BY <1>4, SizeAssumption DEF Lengths
  <2>2. QED
    BY <1>3, <2>1
<1>5. QED
  BY <1>4

\* The parts main_net.subnets() cuts the range into fill it exactly.
LEMMA PartsFill ==
  \A len, m \in Lengths : m <= len => Size[len] * Size[m + (Width - len)] = Size[m]
<1> DEFINE T == {n \in Nat : \A m \in Lengths :
                   m + n <= Width => Size[Width - n] * Size[m + n] = Size[m]}
<1>1. 0 \in T
  BY SizeAssumption, SizePositive DEF Lengths
<1>2. ASSUME NEW n \in T PROVE n + 1 \in T
  <2>1. SUFFICES ASSUME NEW m \in Lengths, m + (n + 1) <= Width
                 PROVE  Size[Width - (n + 1)] * Size[m + (n + 1)] = Size[m]
    OBVIOUS
  <2>2. Size[Width - n] * Size[m + n] = Size[m]
    BY <2>1, SizeAssumption DEF Lengths
  <2>3. Size[Width - (n + 1)] = 2 * Size[Width - n]
    <3>1. Width - (n + 1) \in 0..(Width - 1) /\ (Width - (n + 1)) + 1 = Width - n
      BY <2>1, SizeAssumption DEF Lengths
    <3>2. QED
      BY <3>1, SizeAssumption
  <2>4. Size[m + n] = 2 * Size[m + (n + 1)]
    <3>1. m + n \in 0..(Width - 1) /\ (m + n) + 1 = m + (n + 1)
      BY <2>1, SizeAssumption DEF Lengths
    <3>2. QED
      BY <3>1, SizeAssumption
  <2>5. Size[Width - n] \in Nat /\ Size[m + (n + 1)] \in Nat
    BY <2>1, SizePositive, SizeAssumption DEF Lengths
  <2>6. \A a, b \in Nat : (2 * a) * b = a * (2 * b)
    OBVIOUS
  <2>7. QED
    BY <2>2, <2>3, <2>4, <2>5, <2>6
<1>3. \A n \in Nat : \A m \in Lengths :
        m + n <= Width => Size[Width - n] * Size[m + n] = Size[m]
  <2>1. T \in SUBSET Nat
    OBVIOUS
  <2>2. QED
    <3>1. T = Nat
      BY <1>1, <1>2, <2>1, NatClosed
    <3>2. QED
      BY <3>1
<1>4. ASSUME NEW len \in Lengths, NEW m \in Lengths, m <= len
      PROVE  Size[len] * Size[m + (Width - len)] = Size[m]
  <2>1. Width - len \in Nat /\ Width - (Width - len) = len /\ m + (Width - len) <= Width
    BY <1>4, SizeAssumption DEF Lengths
  <2>2. QED
    BY <1>3, <2>1
<1>5. QED
  BY <1>4

-----------------------------------------------------------------------------
\* Blocks.

\* What lies in a block shares nothing with what the block shares nothing with.
LEMMA WithinDisjoint ==
  \A a, b, c \in Block : Within(a, b) /\ Disjoint(b, c) => Disjoint(a, c) /\ Disjoint(c, a)
BY SizePositive DEF Block, Within, Disjoint

LEMMA WithinTransitive ==
  \A a, b, c \in Block : Within(a, b) /\ Within(b, c) => Within(a, c)
BY SizePositive DEF Block, Within

\* What a subnet takes of a free block and what goes back to the pool are blocks
\* inside it that share no address.
LEMMA SplitBlock ==
  ASSUME NEW b \in Block, NEW len \in Lengths, b.len <= len
  PROVE  LET taken == [base |-> b.base, len |-> len]
         IN  /\ taken \in Block /\ Within(taken, b)
             /\ Remainder(b, len) \subseteq Block
             /\ \A r \in Remainder(b, len) : Within(r, b) /\ Disjoint(taken, r)
             /\ \A r, q \in Remainder(b, len) : r # q => Disjoint(r, q)
<1> DEFINE taken == [base |-> b.base, len |-> len]
           rest(k) == [base |-> b.base + Size[k], len |-> k]
<1>1. /\ b.base \in Nat /\ b.len \in Lengths
      /\ \A k \in (b.len + 1)..len : k \in Lengths /\ b.len < k
  BY SizeAssumption DEF Block, Lengths
<1>2. taken \in Block /\ Within(taken, b)
  <2>1. Size[len] <= Size[b.len]
    BY <1>1, SizeHalves, SizePositive DEF Lengths
  <2>2. QED
    BY <1>1, <2>1, SizePositive DEF Block, Within
<1>3. ASSUME NEW k \in (b.len + 1)..len
      PROVE  rest(k) \in Block /\ Within(rest(k), b) /\ Disjoint(taken, rest(k))
  <2>1. k \in Lengths /\ 2 * Size[k] <= Size[b.len]
    BY <1>1, SizeHalves
  <2>2. Size[len] <= Size[k]
    BY <1>1, SizeHalves, SizePositive DEF Lengths
  <2>3. rest(k) \in Block /\ rest(k).base = b.base + Size[k] /\ rest(k).len = k
    BY <1>1, <2>1, SizePositive DEF Block
  <2>4. /\ Size[k] \in Nat /\ Size[k] >= 1 /\ Size[len] \in Nat
        /\ Size[b.len] \in Nat
    BY <1>1, <2>1, SizePositive
  <2>5. Within(rest(k), b)
    BY <1>1, <2>1, <2>3, <2>4 DEF Within
  <2>6. Disjoint(taken, rest(k))
    BY <1>1, <2>2, <2>3, <2>4 DEF Disjoint
  <2>7. QED
    BY <2>3, <2>5, <2>6
<1>4. ASSUME NEW k \in (b.len + 1)..len, NEW l \in (b.len + 1)..len, k < l
      PROVE  Disjoint(rest(k), rest(l)) /\ Disjoint(rest(l), rest(k))
  <2>1. k \in Lengths /\ l \in Lengths /\ 2 * Size[l] <= Size[k]
    BY <1>1, <1>4, SizeHalves
  <2>2. QED
    BY <1>1, <2>1, SizePositive DEF Disjoint
<1>5. \A k, l \in (b.len + 1)..len : rest(k) # rest(l) => k < l \/ l < k
  BY <1>1 DEF Lengths
<1>6. QED
  BY <1>2, <1>3, <1>4, <1>5 DEF Remainder

\* The ranges of the systems are blocks of the network that share no address.
LEMMA PartsDisjoint ==
  ASSUME NEW len \in Lengths, Main.len + (Width - len) <= Width
  PROVE  /\ EqualParts(len) \in Seq(Block)
         /\ Len(EqualParts(len)) = Size[len]
         /\ \A i \in 1..Size[len] : Within(EqualParts(len)[i], Main)
         /\ \A i, j \in 1..Size[len] :
              i # j => Disjoint(EqualParts(len)[i], EqualParts(len)[j])
<1> DEFINE l == Main.len + (Width - len)
           part(i) == [base |-> Main.base + (i - 1) * Size[l], len |-> l]
<1>1. /\ l \in Lengths /\ Main.base \in Nat /\ Main.len \in Lengths
      /\ Size[l] \in Nat /\ Size[len] \in Nat /\ Main.len <= len
  BY MainAssumption, SizeAssumption, SizePositive DEF Block, Lengths
<1>2. Size[len] * Size[l] = Size[Main.len]
  BY <1>1, PartsFill
<1>3. \A i, j, z \in Nat : i < j => i * z + z <= j * z
  <2>1. ASSUME NEW i \in Nat, NEW j \in Nat, NEW z \in Nat, i < j
        PROVE  i * z + z <= j * z
    <3>1. j - i - 1 \in Nat
      BY <2>1
    <3>2. (j - i - 1) * z \in Nat
      BY <3>1
    <3>3. j * z = (i * z + z) + (j - i - 1) * z
      OBVIOUS
    <3>4. i * z \in Nat /\ j * z \in Nat
      OBVIOUS
    <3>5. QED
      BY <3>2, <3>3, <3>4
  <2>2. QED
    BY <2>1
<1>4. ASSUME NEW i \in 1..Size[len]
      PROVE  part(i) \in Block /\ Within(part(i), Main)
  <2>1. i - 1 \in Nat /\ i - 1 < Size[len]
    BY <1>1
  <2>2. (i - 1) * Size[l] + Size[l] <= Size[Main.len] /\ (i - 1) * Size[l] \in Nat
    BY <1>1, <1>2, <1>3, <2>1
  <2>3. QED
    BY <1>1, <2>2, SizePositive DEF Block, Within
<1>5. ASSUME NEW i \in 1..Size[len], NEW j \in 1..Size[len], i < j
      PROVE  Disjoint(part(i), part(j)) /\ Disjoint(part(j), part(i))
  <2>1. i - 1 \in Nat /\ j - 1 \in Nat /\ i - 1 < j - 1
    BY <1>1, <1>5
  <2>2. (i - 1) * Size[l] + Size[l] <= (j - 1) * Size[l]
    BY <1>1, <1>3, <2>1
  <2>3. (i - 1) * Size[l] \in Nat /\ (j - 1) * Size[l] \in Nat
    BY <1>1, <2>1
  <2>4. QED
    BY <1>1, <2>2, <2>3 DEF Disjoint
<1>6. EqualParts(len) = [i \in 1..Size[len] |-> part(i)]
  BY DEF EqualParts
<1>7. EqualParts(len) \in Seq(Block) /\ Len(EqualParts(len)) = Size[len]
  <2>1. EqualParts(len) \in [1..Size[len] -> Block]
    BY <1>4, <1>6
  <2>2. QED
    BY <1>1, <2>1
<1>8. \A i \in 1..Size[len] : Within(EqualParts(len)[i], Main)
  BY <1>4, <1>6
<1>9. \A i, j \in 1..Size[len] : i # j => Disjoint(EqualParts(len)[i], EqualParts(len)[j])
  <2>1. \A i, j \in 1..Size[len] : i # j => i < j \/ j < i
    BY <1>1
  <2>2. QED
    BY <1>5, <1>6, <2>1
<1>10. QED
  BY <1>7, <1>8, <1>9

-----------------------------------------------------------------------------
\* Types.

LEMMA InitTyped == Init => TypeOK /\ RangesLeft
<1>1. ASSUME Init PROVE TypeOK /\ RangesLeft
  <2> DEFINE Ifc == [subnet : Subnets, ip : Nat]
  <2>1. DOMAIN lab = {}
    BY <1>1 DEF Init, NoLab
  <2>2. TypeOK
    <3>1. /\ subnets \in Seq(Subnets) /\ members \in [Subnets -> Seq(Nodes)]
          /\ systems \in Seq(System) /\ ranges \in Seq(Block)
          /\ nextAS \in Nat \ {0} /\ <<>> \in Seq(Ifc)
      BY <1>1 DEF Init
    <3>2. ifaces \in [Nodes -> Seq(Ifc)]
      <4> HIDE DEF Ifc
      <4> QED
        BY <1>1, <3>1 DEF Init
    <3>3. QED
      BY <1>1, <2>1, <3>1, <3>2 DEF Init, TypeOK
  <2>3. RangesLeft
    BY <1>1 DEF Init, RangesLeft
  <2>4. QED
    BY <2>2, <2>3
<1>2. QED
  BY <1>1

LEMMA CreateSubnetTyped ==
  ASSUME TypeOK, RangesLeft, NEW s \in Subnets, NEW ns \in NodeLists, CreateSubnet(s, ns)
  PROVE  TypeOK' /\ RangesLeft'
<1>1. ns \in Seq(Nodes)
  BY ListsAssumption
<1>2. subnets' \in Seq(Subnets) /\ members' \in [Subnets -> Seq(Nodes)]
  BY <1>1 DEF CreateSubnet, TypeOK
<1>3. TypeOK'
  BY <1>2 DEF output, CreateSubnet, TypeOK
<1>4. RangesLeft'
  BY DEF CreateSubnet, RangesLeft, Editable
<1>5. QED
  BY <1>3, <1>4

LEMMA CreateBGPTyped ==
  ASSUME TypeOK, RangesLeft, NEW p \in Partitions, CreateBGP(p)
  PROVE  TypeOK' /\ RangesLeft'
<1> USE DEF CreateBGP
<1>1. p \in Seq(SUBSET Nodes)
  BY PartitionsAssumption
<1>2. ASSUME NEW i \in DOMAIN p
      PROVE  /\ Inner(p[i]) \in SUBSET Subnets
             /\ Border(p[i]) \in SUBSET Subnets
             /\ Gateways(p[i]) \in SUBSET Nodes
  <2>1. p[i] \in SUBSET Nodes
    BY <1>1
  <2>2. ToSet(subnets) \subseteq Subnets
    BY DEF TypeOK, ToSet
  <2>3. QED
    BY <2>1, <2>2 DEF Inner, Border, Gateways
<1>3. systems' \in Seq(System)
  <2>1. DOMAIN p = 1..Len(p) /\ Len(p) \in Nat
    BY <1>1
  <2>2. systems' \in [1..Len(p) -> System]
    BY <1>2, <2>1 DEF System
  <2>3. QED
    BY <2>1, <2>2
<1>4. TypeOK'
  BY <1>3 DEF output, TypeOK
<1>5. RangesLeft'
  BY DEF RangesLeft, Editable
<1>6. QED
  BY <1>4, <1>5

LEMMA StartConfigureTyped ==
  ASSUME TypeOK, RangesLeft, StartConfigure
  PROVE  TypeOK' /\ RangesLeft'
<1> USE DEF StartConfigure, editVars, placeVars, output
<1>1. CASE bgp
  <2>1. PICK len \in Lengths :
          /\ Fits(len, Len(systems) + 1)
          /\ IF Main.len + (Width - len) <= Width
             THEN configured' = "running" /\ ranges' = EqualParts(len)
             ELSE configured' = "raised" /\ ranges' = ranges
    BY <1>1
  <2>2. ranges' \in Seq(Block)
    BY <2>1, PartsDisjoint DEF TypeOK
  <2>3. TypeOK'
    BY <2>1, <2>2 DEF TypeOK
  <2>4. CASE Main.len + (Width - len) <= Width
    <3>1. Len(ranges') = Size[len] /\ Size[len] >= Len(systems) + 1
      BY <2>1, <2>4, PartsDisjoint DEF Fits
    <3>2. /\ nextAS' = 1 /\ configured' = "running" /\ systems' = systems
          /\ Len(systems) \in Nat /\ Size[len] \in Nat
      BY <2>1, <2>4, SizePositive DEF RangesLeft, TypeOK
    <3>3. RangesLeft'
      BY <3>1, <3>2 DEF RangesLeft
    <3>4. QED
      BY <2>3, <3>3
  <2>5. CASE ~(Main.len + (Width - len) <= Width)
    BY <2>1, <2>3, <2>5 DEF RangesLeft
  <2>6. QED
    BY <2>4, <2>5
<1>2. CASE ~bgp
  <2>1. configured' = "running" /\ ranges' = <<Main>>
    BY <1>2
  <2>2. ranges' \in Seq(Block) /\ Len(ranges') = 1
    BY <2>1, MainAssumption
  <2>3. TypeOK'
    BY <2>1, <2>2 DEF TypeOK
  <2>4. RangesLeft'
    BY <1>2, <2>1, <2>2 DEF RangesLeft, TypeOK
  <2>5. QED
    BY <2>3, <2>4
<1>3. QED
  BY <1>1, <1>2

\* Taking the last range of a list that has one.
LEMMA TakeRangeTyped ==
  ASSUME TypeOK, Len(ranges) >= 1, TakeRange
  PROVE  /\ ranges' \in Seq(Block) /\ Len(ranges') = Len(ranges) - 1
         /\ \A i \in DOMAIN ranges' : i \in DOMAIN ranges /\ ranges'[i] = ranges[i]
         /\ area' \in Block /\ area' = ranges[Len(ranges)]
         /\ pool' \in SUBSET Block /\ pool' = {area'}
<1> DEFINE n == Len(ranges)
           rest == [i \in 1..(n - 1) |-> ranges[i]]
<1>1. ranges \in Seq(Block) /\ n \in Nat /\ n >= 1
  BY DEF TypeOK
<1>2. SubSeq(ranges, 1, n - 1) = rest
  BY <1>1
<1>3. rest \in Seq(Block) /\ Len(rest) = n - 1
  <2>1. rest \in [1..(n - 1) -> Block] /\ n - 1 \in Nat
    BY <1>1
  <2>2. QED
    BY <2>1
<1>4. ranges[n] \in Block
  BY <1>1, ElementOfSeq
<1>5. ranges' = rest /\ area' = ranges[n] /\ pool' = {ranges[n]}
  BY <1>2 DEF TakeRange
<1>6. QED
  BY <1>3, <1>4, <1>5

LEMMA NextSystemTyped ==
  ASSUME TypeOK, RangesLeft, NextSystem
  PROVE  TypeOK' /\ RangesLeft'
<1> USE DEF NextSystem, editVars, placeVars, output
<1>1. /\ nextAS \in Nat \ {0} /\ Len(ranges) \in Nat /\ Len(systems) \in Nat
      /\ nextAS <= Len(systems) /\ Len(ranges) + nextAS >= Len(systems) + 2
  BY DEF TypeOK, RangesLeft
<1>2. /\ ranges' \in Seq(Block) /\ Len(ranges') = Len(ranges) - 1
      /\ area' \in Block /\ pool' \in SUBSET Block
  BY <1>1, TakeRangeTyped
<1>3. nextAS \in 1..Len(systems) /\ systems \in Seq(System)
  BY <1>1 DEF TypeOK
<1>4. systems[nextAS] \in System
  BY <1>3
<1>5. systems' \in Seq(System) /\ Len(systems') = Len(systems)
  <2> DEFINE entry == [systems[nextAS] EXCEPT !.subnet = area']
  <2>1. entry \in System
    BY <1>2, <1>4 DEF System
  <2>2. systems' = [systems EXCEPT ![nextAS] = entry]
    OBVIOUS
  <2>3. QED
    BY <1>3, <2>1, <2>2, ExceptSeq
<1>6. transit' \in SUBSET Subnets /\ work' \in SUBSET Subnets
  BY <1>4 DEF TypeOK, System, Collected
<1>7. TypeOK'
  <2>1. nextAS' \in Nat \ {0}
    BY <1>1
  <2>2. QED
    BY <1>2, <1>5, <1>6, <2>1 DEF TypeOK
<1>8. RangesLeft'
  BY <1>1, <1>2, <1>5 DEF RangesLeft
<1>9. QED
  BY <1>7, <1>8

LEMMA StartTransitTyped ==
  ASSUME TypeOK, RangesLeft, StartTransit
  PROVE  TypeOK' /\ RangesLeft'
<1> USE DEF StartTransit, editVars, placeVars, output
<1>1. Len(ranges) \in Nat /\ Len(ranges) >= 1
  BY DEF TypeOK, RangesLeft
<1>2. /\ ranges' \in Seq(Block) /\ Len(ranges') = Len(ranges) - 1
      /\ area' \in Block /\ pool' \in SUBSET Block
  BY <1>1, TakeRangeTyped
<1>3. work' \in SUBSET Subnets
  BY DEF TypeOK, ToSet
<1>4. TypeOK'
  BY <1>2, <1>3 DEF TypeOK
<1>5. RangesLeft'
  BY DEF RangesLeft
<1>6. QED
  BY <1>4, <1>5

LEMMA AllocateTyped ==
  ASSUME TypeOK, RangesLeft, NEW s \in Subnets, Allocate(s)
  PROVE  TypeOK' /\ RangesLeft'
<1> USE DEF Allocate, editVars
<1>1. PICK len \in Lengths, b \in pool :
        LET taken == [base |-> b.base, len |-> len]
        IN  /\ BestFit(b, len)
            /\ addr' = [addr EXCEPT ![s] = taken]
            /\ pool' = (pool \ {b}) \cup Remainder(b, len)
            /\ AddInterfaces(s, taken)
  OBVIOUS
<1> DEFINE taken == [base |-> b.base, len |-> len]
<1>2. b \in Block /\ b.len <= len
  BY <1>1 DEF TypeOK, BestFit
<1>3. taken \in Block /\ Remainder(b, len) \subseteq Block
  BY <1>2, SplitBlock
<1>4. addr' \in [Subnets -> Block \cup {NoBlock}] /\ pool' \in SUBSET Block
  BY <1>1, <1>3 DEF TypeOK
<1>5. ifaces' \in [Nodes -> Seq([subnet : Subnets, ip : Nat])]
  <2> DEFINE ns == members[s]
             at(n) == CHOOSE i \in DOMAIN ns : ns[i] = n
             ifc(n) == [subnet |-> s, ip |-> HostAddress(taken, at(n))]
  <2>1. ns \in Seq(Nodes)
    BY DEF TypeOK
  <2>2. ASSUME NEW n \in Nodes, n \in ToSet(ns)
        PROVE  ifc(n) \in [subnet : Subnets, ip : Nat]
    <3>1. at(n) \in DOMAIN ns
      BY <2>2 DEF ToSet
    <3>2. at(n) \in Nat
      BY <2>1, <3>1
    <3>3. HostAddress(taken, at(n)) \in Nat
      BY <1>3, <3>2 DEF HostAddress, Block
    <3>4. QED
      BY <3>3
  <2>3. ifaces' = [n \in Nodes |-> IF n \in ToSet(ns) THEN Append(ifaces[n], ifc(n))
                                                     ELSE ifaces[n]]
    BY <1>1 DEF AddInterfaces
  <2>4. ASSUME NEW n \in Nodes
        PROVE  ifaces'[n] \in Seq([subnet : Subnets, ip : Nat])
    <3>1. ifaces[n] \in Seq([subnet : Subnets, ip : Nat])
      BY DEF TypeOK
    <3>2. CASE n \in ToSet(ns)
      <4>1. ifaces'[n] = Append(ifaces[n], ifc(n))
        BY <2>3, <3>2
      <4>2. QED
        BY <2>2, <3>1, <3>2, <4>1, AppendProperties
    <3>3. CASE n \notin ToSet(ns)
      BY <2>3, <3>1, <3>3
    <3>4. QED
      BY <3>2, <3>3
  <2>5. QED
    BY <2>3, <2>4
<1>6. TypeOK'
  BY <1>4, <1>5 DEF output, TypeOK
<1>7. RangesLeft'
  BY DEF RangesLeft
<1>8. QED
  BY <1>6, <1>7

LEMMA FinishConfigureTyped ==
  ASSUME TypeOK, RangesLeft, FinishConfigure
  PROVE  TypeOK' /\ RangesLeft'
<1> USE DEF FinishConfigure, editVars, placeVars, output
<1>1. Routers \subseteq Nodes
  <2>1. ASSUME NEW i \in DOMAIN systems PROVE systems[i].gateways \subseteq Nodes
    <3>1. systems[i] \in System
      BY DEF TypeOK
    <3>2. QED
      BY <3>1 DEF System
  <2>2. QED
    BY <2>1 DEF Routers
<1>2. ASSUME NEW n \in Nodes PROVE Peers(n) \subseteq Nat
  <2>1. ASSUME NEW m \in Foreign(n), NEW i \in FirstShared(m, n)
        PROVE  ifaces[m][i].ip \in Nat
    <3>1. ifaces[m] \in Seq([subnet : Subnets, ip : Nat]) /\ i \in DOMAIN ifaces[m]
      BY <1>1 DEF TypeOK, Foreign, FirstShared
    <3>2. ifaces[m][i] \in [subnet : Subnets, ip : Nat]
      BY <3>1, ElementOfSeq, LenProperties
    <3>3. QED
      BY <3>2
  <2>2. QED
    BY <2>1 DEF Peers
<1>3. sessions' \in [Nodes -> SUBSET Nat]
  BY <1>2
<1>4. TypeOK'
  BY <1>3 DEF TypeOK
<1>5. RangesLeft'
  BY DEF RangesLeft
<1>6. QED
  BY <1>4, <1>5

LEMMA RenderTyped ==
  ASSUME TypeOK, RangesLeft, Render
  PROVE  TypeOK' /\ RangesLeft'
<1> USE DEF Render, editVars, placeVars, output
<1>1. DOMAIN lab' \subseteq Subnets /\ \A s \in DOMAIN lab' : lab'[s] \in Block \cup {NoBlock}
  <2>1. CASE RenderRaises
    BY <2>1 DEF NoLab
  <2>2. CASE ~RenderRaises
    BY <2>2 DEF TypeOK, ToSet
  <2>3. QED
    BY <2>1, <2>2
<1>2. TypeOK'
  BY <1>1 DEF TypeOK
<1>3. RangesLeft'
  BY DEF RangesLeft
<1>4. QED
  BY <1>2, <1>3

\* Every variable of configure() keeps the type the code gives it, and configure()
\* never pops from an exhausted list of ranges.
THEOREM Typed == Spec => [](TypeOK /\ RangesLeft)
<1>1. Init => TypeOK /\ RangesLeft
  BY InitTyped
<1>2. TypeOK /\ RangesLeft /\ [Next]_vars => TypeOK' /\ RangesLeft'
  <2>1. SUFFICES ASSUME TypeOK, RangesLeft, [Next]_vars PROVE TypeOK' /\ RangesLeft'
    OBVIOUS
  <2>2. ASSUME NEW s \in Subnets, NEW ns \in NodeLists, CreateSubnet(s, ns)
        PROVE  TypeOK' /\ RangesLeft'
    BY <2>1, <2>2, CreateSubnetTyped
  <2>3. ASSUME NEW p \in Partitions, CreateBGP(p) PROVE TypeOK' /\ RangesLeft'
    BY <2>1, <2>3, CreateBGPTyped
  <2>4. CASE StartConfigure
    BY <2>1, <2>4, StartConfigureTyped
  <2>5. CASE NextSystem
    BY <2>1, <2>5, NextSystemTyped
  <2>6. CASE StartTransit
    BY <2>1, <2>6, StartTransitTyped
  <2>7. ASSUME NEW s \in Subnets, Allocate(s) PROVE TypeOK' /\ RangesLeft'
    BY <2>1, <2>7, AllocateTyped
  <2>8. ASSUME NEW s \in Subnets, NoFreeBlock(s) PROVE TypeOK' /\ RangesLeft'
    BY <2>1, <2>8 DEF NoFreeBlock, editVars, placeVars, output, TypeOK, RangesLeft
  <2>9. CASE FinishConfigure
    BY <2>1, <2>9, FinishConfigureTyped
  <2>10. CASE Render
    BY <2>1, <2>10, RenderTyped
  <2>11. CASE UNCHANGED vars
    BY <2>1, <2>11 DEF vars, TypeOK, RangesLeft
  <2>12. QED
    BY <2>1, <2>2, <2>3, <2>4, <2>5, <2>6, <2>7, <2>8, <2>9, <2>10, <2>11 DEF Next
<1>3. QED
  BY <1>1, <1>2, PTL DEF Spec

-----------------------------------------------------------------------------
\* Disjointness.

\* Steps that move no block.
LEMMA UnmovedDisjoint ==
  ASSUME SpaceDisjoint, UNCHANGED <<addr, pool, ranges>>, configured' = "no" => configured = "no"
  PROVE  SpaceDisjoint'
BY DEF SpaceDisjoint, SubnetsDisjoint, Placed

LEMMA StartConfigureDisjoint ==
  ASSUME TypeOK, SpaceDisjoint, StartConfigure
  PROVE  SpaceDisjoint'
<1>1. /\ pool' = {} /\ addr' = addr /\ \A s \in Subnets : ~Placed(s)
  BY DEF SpaceDisjoint, StartConfigure, placeVars
<1>2. CASE ranges' = ranges
  BY <1>1, <1>2, UnmovedDisjoint DEF StartConfigure, SpaceDisjoint
<1>3. ASSUME NEW len \in Lengths, Main.len + (Width - len) <= Width,
             ranges' = EqualParts(len), configured' = "running"
      PROVE  SpaceDisjoint'
  <2>1. DOMAIN ranges' = 1..Size[len]
    <3>1. Size[len] \in Nat
      BY SizePositive
    <3>2. ranges' \in Seq(Block) /\ Len(ranges') = Size[len]
      BY <1>3, PartsDisjoint
    <3>3. QED
      BY <3>2
  <2>2. \A i \in DOMAIN ranges' :
           /\ Within(ranges'[i], Main)
           /\ \A j \in DOMAIN ranges' : i # j => Disjoint(ranges'[i], ranges'[j])
    BY <1>3, <2>1, PartsDisjoint
  <2>3. QED
    BY <1>1, <1>3, <2>2 DEF SpaceDisjoint, SubnetsDisjoint, Placed
<1>4. ASSUME ranges' = <<Main>>, configured' = "running"
      PROVE  SpaceDisjoint'
  <2>1. DOMAIN ranges' = {1} /\ ranges'[1] = Main
    BY <1>4
  <2>2. Within(Main, Main)
    BY MainAssumption, SizePositive DEF Block, Within
  <2>3. QED
    BY <1>1, <1>4, <2>1, <2>2 DEF SpaceDisjoint, SubnetsDisjoint, Placed
<1>5. QED
  BY <1>2, <1>3, <1>4 DEF StartConfigure

\* The pool of the next loop is a range: it was apart from every block in use.
LEMMA TakeRangeDisjoint ==
  ASSUME TypeOK, SpaceDisjoint, Len(ranges) >= 1, TakeRange, addr' = addr,
         configured' # "no"
  PROVE  SpaceDisjoint'
<1> DEFINE n == Len(ranges)
<1>1. n \in DOMAIN ranges /\ n \in Nat
  BY DEF TypeOK
<1>2. pool' = {ranges[n]}
  BY TakeRangeTyped
<1>3. \A i \in DOMAIN ranges' : i \in DOMAIN ranges /\ i # n /\ ranges'[i] = ranges[i]
  <2>1. ranges' \in Seq(Block) /\ Len(ranges') = n - 1
    BY TakeRangeTyped
  <2>2. DOMAIN ranges' = 1..(n - 1)
    BY <1>1, <2>1
  <2>3. QED
    BY <1>1, <2>2, TakeRangeTyped
<1>4. SubnetsDisjoint'
  BY DEF SpaceDisjoint, SubnetsDisjoint, Placed
<1>5. \A b \in pool' : /\ Within(b, Main)
                       /\ \A c \in pool' : b # c => Disjoint(b, c)
                       /\ \A s \in Subnets : Placed(s)' => Disjoint(addr'[s], b)
  BY <1>1, <1>2 DEF SpaceDisjoint, Placed
<1>6. \A i \in DOMAIN ranges' :
        /\ Within(ranges'[i], Main)
        /\ \A j \in DOMAIN ranges' : i # j => Disjoint(ranges'[i], ranges'[j])
        /\ \A b \in pool' : Disjoint(b, ranges'[i])
        /\ \A s \in Subnets : Placed(s)' => Disjoint(addr'[s], ranges'[i])
  BY <1>1, <1>2, <1>3 DEF SpaceDisjoint, Placed
<1>7. QED
  BY <1>4, <1>5, <1>6 DEF SpaceDisjoint

\* A subnet takes a part of a free block; the rest of it returns to the pool.
LEMMA AllocateDisjoint ==
  ASSUME TypeOK, SpaceDisjoint, NEW s \in Subnets, Allocate(s)
  PROVE  SpaceDisjoint'
<1>1. PICK len \in Lengths, b \in pool :
        LET taken == [base |-> b.base, len |-> len]
        IN  /\ BestFit(b, len)
            /\ addr' = [addr EXCEPT ![s] = taken]
            /\ pool' = (pool \ {b}) \cup Remainder(b, len)
  BY DEF Allocate
<1> DEFINE taken == [base |-> b.base, len |-> len]
           rest == Remainder(b, len)
<1>2. b \in Block /\ b.len <= len
  BY <1>1 DEF TypeOK, BestFit
<1>3. /\ taken \in Block /\ Within(taken, b)
      /\ rest \subseteq Block
      /\ \A r \in rest : Within(r, b) /\ Disjoint(taken, r)
      /\ \A r, q \in rest : r # q => Disjoint(r, q)
  BY <1>2, SplitBlock
<1>4. Main \in Block /\ Within(b, Main)
  BY MainAssumption DEF SpaceDisjoint
<1>5. ranges' = ranges /\ configured' = configured /\ configured = "running"
  BY DEF Allocate
\* What was apart from b is apart from its parts.
<1>6. ASSUME NEW c \in Block, Disjoint(b, c)
      PROVE  /\ Disjoint(taken, c) /\ Disjoint(c, taken)
             /\ \A r \in rest : Disjoint(r, c) /\ Disjoint(c, r)
  BY <1>2, <1>3, <1>6, WithinDisjoint
<1>7. \A c, d \in Block : Disjoint(c, d) => Disjoint(d, c)
  BY DEF Disjoint
<1>8. \A t \in Subnets : Placed(t) => addr[t] \in Block /\ Disjoint(b, addr[t])
  <2>1. \A t \in Subnets : Placed(t) => addr[t] \in Block
    BY DEF TypeOK, Placed
  <2>2. \A t \in Subnets : Placed(t) => Disjoint(addr[t], b)
    <3>1. b \in pool
      OBVIOUS
    <3>2. QED
      BY <3>1 DEF SpaceDisjoint
  <2>3. QED
    BY <1>2, <1>7, <2>1, <2>2
<1>9. \A c \in pool \ {b} : c \in Block /\ Disjoint(b, c)
  BY <1>1 DEF TypeOK, SpaceDisjoint
<1>10. \A i \in DOMAIN ranges : ranges[i] \in Block /\ Disjoint(b, ranges[i])
  <2>1. \A i \in DOMAIN ranges : ranges[i] \in Block
    BY ElementOfSeq, LenProperties DEF TypeOK
  <2>2. QED
    BY <1>1, <2>1 DEF SpaceDisjoint
<1>11. \A t \in Subnets : addr'[t] = IF t = s THEN taken ELSE addr[t]
  BY <1>1 DEF TypeOK
<1>12. Within(taken, Main) /\ \A r \in rest : Within(r, Main)
  BY <1>2, <1>3, <1>4, WithinTransitive
<1>13. SubnetsDisjoint'
  <2>1. \A t \in Subnets : Placed(t)' => Within(addr'[t], Main)
    BY <1>11, <1>12 DEF Placed, SpaceDisjoint, SubnetsDisjoint
  <2>2. ASSUME NEW t \in Subnets, NEW u \in Subnets, t # u, Placed(t)', Placed(u)'
        PROVE  Disjoint(addr'[t], addr'[u])
    <3>1. CASE t = s
      BY <1>6, <1>8, <1>11, <2>2, <3>1 DEF Placed
    <3>2. CASE u = s
      BY <1>6, <1>8, <1>11, <2>2, <3>2 DEF Placed
    <3>3. CASE t # s /\ u # s
      BY <1>11, <2>2, <3>3 DEF Placed, SpaceDisjoint, SubnetsDisjoint
    <3>4. QED
      BY <3>1, <3>2, <3>3
  <2>3. QED
    BY <2>1, <2>2 DEF SubnetsDisjoint
<1>14. ASSUME NEW c \in pool'
       PROVE  /\ Within(c, Main)
              /\ \A d \in pool' : c # d => Disjoint(c, d)
              /\ \A t \in Subnets : Placed(t)' => Disjoint(addr'[t], c)
  <2>1. Within(c, Main)
    BY <1>1, <1>12 DEF SpaceDisjoint
  <2>2. ASSUME NEW d \in pool', c # d PROVE Disjoint(c, d)
    <3>1. CASE c \in rest /\ d \in rest
      BY <1>3, <2>2, <3>1
    <3>2. CASE c \in rest /\ d \in pool \ {b}
      BY <1>6, <1>9, <3>2
    <3>3. CASE c \in pool \ {b} /\ d \in rest
      BY <1>6, <1>9, <3>3
    <3>4. CASE c \in pool \ {b} /\ d \in pool \ {b}
      BY <2>2, <3>4 DEF SpaceDisjoint
    <3>5. QED
      BY <1>1, <3>1, <3>2, <3>3, <3>4
  <2>3. ASSUME NEW t \in Subnets, Placed(t)' PROVE Disjoint(addr'[t], c)
    <3>1. CASE t = s /\ c \in rest
      BY <1>3, <1>11, <3>1
    <3>2. CASE t = s /\ c \in pool \ {b}
      BY <1>6, <1>9, <1>11, <3>2
    <3>3. CASE t # s /\ c \in rest
      BY <1>6, <1>8, <1>11, <2>3, <3>3 DEF Placed
    <3>4. CASE t # s /\ c \in pool \ {b}
      BY <1>11, <2>3, <3>4 DEF Placed, SpaceDisjoint
    <3>5. QED
      BY <1>1, <3>1, <3>2, <3>3, <3>4
  <2>4. QED
    BY <2>1, <2>2, <2>3
<1>15. ASSUME NEW i \in DOMAIN ranges
       PROVE  /\ Within(ranges[i], Main)
              /\ \A j \in DOMAIN ranges : i # j => Disjoint(ranges[i], ranges[j])
              /\ \A c \in pool' : Disjoint(c, ranges[i])
              /\ \A t \in Subnets : Placed(t)' => Disjoint(addr'[t], ranges[i])
  <2>1. /\ Within(ranges[i], Main)
        /\ \A j \in DOMAIN ranges : i # j => Disjoint(ranges[i], ranges[j])
    BY DEF SpaceDisjoint
  <2>2. \A r \in rest : Disjoint(r, ranges[i])
    BY <1>6, <1>10
  <2>3. Disjoint(taken, ranges[i])
    BY <1>6, <1>10
  <2>4. \A c \in pool' : Disjoint(c, ranges[i])
    BY <1>1, <2>2 DEF SpaceDisjoint
  <2>5. \A t \in Subnets : Placed(t)' => Disjoint(addr'[t], ranges[i])
    BY <1>11, <2>3 DEF SpaceDisjoint, Placed
  <2>6. QED
    BY <2>1, <2>4, <2>5
<1>16. QED
  <2>1. /\ DOMAIN ranges' = DOMAIN ranges
        /\ \A i \in DOMAIN ranges : ranges'[i] = ranges[i]
        /\ configured' # "no"
    BY <1>5
  <2>2. \A i \in DOMAIN ranges' :
          /\ Within(ranges'[i], Main)
          /\ \A j \in DOMAIN ranges' : i # j => Disjoint(ranges'[i], ranges'[j])
          /\ \A c \in pool' : Disjoint(c, ranges'[i])
          /\ \A t \in Subnets : Placed(t)' => Disjoint(addr'[t], ranges'[i])
    BY <1>15, <2>1
  <2>3. QED
    BY <1>13, <1>14, <2>1, <2>2 DEF SpaceDisjoint

\* No address is ever given to two subnets, and none outside the network's range:
\* the blocks in use, the free blocks and the ranges not handed out stay disjoint.
THEOREM SpaceStaysDisjoint == Spec => []SpaceDisjoint
<1>1. Init => SpaceDisjoint
  BY DEF Init, SpaceDisjoint, SubnetsDisjoint, Placed
<1>2. TypeOK /\ RangesLeft /\ SpaceDisjoint /\ [Next]_vars => SpaceDisjoint'
  <2>1. SUFFICES ASSUME TypeOK, RangesLeft, SpaceDisjoint, [Next]_vars
                 PROVE  SpaceDisjoint'
    OBVIOUS
  <2>2. ASSUME NEW s \in Subnets, NEW ns \in NodeLists, CreateSubnet(s, ns)
        PROVE  SpaceDisjoint'
    BY <2>1, <2>2, UnmovedDisjoint DEF CreateSubnet
  <2>3. ASSUME NEW p \in Partitions, CreateBGP(p) PROVE SpaceDisjoint'
    BY <2>1, <2>3, UnmovedDisjoint DEF CreateBGP
  <2>4. CASE StartConfigure
    BY <2>1, <2>4, StartConfigureDisjoint
  <2>5. CASE NextSystem
    <3>1. Len(ranges) >= 1
      BY <2>1, <2>5 DEF NextSystem, RangesLeft, TypeOK
    <3>2. QED
      BY <2>1, <2>5, <3>1, TakeRangeDisjoint DEF NextSystem, placeVars
  <2>6. CASE StartTransit
    <3>1. Len(ranges) >= 1
      BY <2>1, <2>6 DEF StartTransit, RangesLeft, TypeOK
    <3>2. QED
      BY <2>1, <2>6, <3>1, TakeRangeDisjoint DEF StartTransit, placeVars
  <2>7. ASSUME NEW s \in Subnets, Allocate(s) PROVE SpaceDisjoint'
    BY <2>1, <2>7, AllocateDisjoint
  <2>8. ASSUME NEW s \in Subnets, NoFreeBlock(s) PROVE SpaceDisjoint'
    BY <2>1, <2>8, UnmovedDisjoint DEF NoFreeBlock, placeVars
  <2>9. CASE FinishConfigure
    BY <2>1, <2>9, UnmovedDisjoint DEF FinishConfigure, placeVars
  <2>10. CASE Render
    BY <2>1, <2>10, UnmovedDisjoint DEF Render, placeVars
  <2>11. CASE UNCHANGED vars
    BY <2>1, <2>11, UnmovedDisjoint DEF vars
  <2>12. QED
    BY <2>1, <2>2, <2>3, <2>4, <2>5, <2>6, <2>7, <2>8, <2>9, <2>10, <2>11 DEF Next
<1>3. QED
  BY <1>1, <1>2, Typed, PTL DEF Spec

\* Two subnets of a network never share an address.
THEOREM AddressesDisjoint == Spec => []SubnetsDisjoint
<1>1. SpaceDisjoint => SubnetsDisjoint
  BY DEF SpaceDisjoint
<1>2. QED
  BY <1>1, SpaceStaysDisjoint, PTL

-----------------------------------------------------------------------------
\* The inductive invariant of configure().

\* What configure() works on are subnets of the network, with nodes.
Created ==
  /\ \A s \in ToSet(subnets) : members[s] \in NodeLists
  /\ \A i \in DOMAIN systems : systems[i].inner \cup systems[i].border \subseteq ToSet(subnets)
  /\ work \cup transit \subseteq ToSet(subnets)
  /\ \A s \in Subnets : Placed(s) => s \in ToSet(subnets)

\* No subnet is inside two systems, or inside one and on the border of another.
SystemsApart ==
  \A i, j \in DOMAIN systems :
    /\ i # j => systems[i].inner \cap systems[j].inner = {}
    /\ systems[i].inner \cap systems[j].border = {}

\* The loop over the systems has come to system i.
Taken(i) == i \in DOMAIN systems /\ i < nextAS

\* Where configure() stands: a subnet is addressed or waits in work, never both,
\* once its system has had its turn; the border subnets are collected on the way.
Turns ==
  /\ bgp \/ systems = <<>>
  /\ configured = "no" => work = {} /\ transit = {}
  /\ configured = "running" =>
       /\ \A s \in work : ~Placed(s)
       /\ \A i \in DOMAIN systems : Taken(i) =>
            /\ \A s \in systems[i].inner : Placed(s) \/ s \in work
            /\ systems[i].border \subseteq transit
       /\ \A s \in transit : \E i \in DOMAIN systems : s \in systems[i].border
  /\ configured = "running" /\ ~inTransit =>
       /\ \A s \in Subnets : Placed(s) => \E i \in DOMAIN systems : Taken(i) /\ s \in systems[i].inner
       /\ \A s \in work : Taken(nextAS - 1) /\ s \in systems[nextAS - 1].inner
  /\ configured = "running" /\ inTransit =>
       /\ \A i \in DOMAIN systems : Taken(i)
       /\ bgp => work \subseteq transit
       /\ \A s \in IF bgp THEN transit ELSE ToSet(subnets) : Placed(s) \/ s \in work

\* An interface has the address its place in the list of nodes gives it, in a block
\* that has room for the list, the bridge, the network and the broadcast address.
WellPlaced(n, f) ==
  /\ Placed(f.subnet)
  /\ \E k \in DOMAIN members[f.subnet] :
       members[f.subnet][k] = n /\ f.ip = HostAddress(addr[f.subnet], k)

Connected ==
  /\ \A s \in Subnets : Placed(s) => Size[addr[s].len] >= Demand(s)
  /\ \A n \in Nodes : \A i \in DOMAIN ifaces[n] : WellPlaced(n, ifaces[n][i])

\* Two nodes come to the subnets they share in the same order, so that each has
\* one interface in a subnet and the same subnet is the first one of both.
InOrder ==
  \A n, m \in Nodes : \A i, j \in DOMAIN ifaces[n], k, l \in DOMAIN ifaces[m] :
    /\ ifaces[n][i].subnet = ifaces[m][k].subnet
    /\ ifaces[n][j].subnet = ifaces[m][l].subnet
    => /\ i < j => k < l

\* The range of a system shares no address with what is still to be handed out,
\* but with the free blocks left of it.
RangesApart ==
  /\ AnnouncedRangeIsInner
  /\ configured = "no" => \A i \in DOMAIN systems : systems[i].subnet = NoBlock
  /\ configured = "running" =>
      \A i \in DOMAIN systems : systems[i].subnet # NoBlock =>
       /\ \A j \in DOMAIN systems : j # i /\ systems[j].subnet # NoBlock =>
            Disjoint(systems[i].subnet, systems[j].subnet)
       /\ \A r \in DOMAIN ranges : Disjoint(systems[i].subnet, ranges[r])
       /\ \A b \in pool : IF ~inTransit /\ i = nextAS - 1 THEN Within(b, systems[i].subnet)
                          ELSE Disjoint(b, systems[i].subnet)

Configured == Created /\ SystemsApart /\ Turns /\ Connected /\ InOrder /\ RangesApart

\* What Addressing_proofs shows of every state.
Known == TypeOK /\ RangesLeft /\ SpaceDisjoint

-----------------------------------------------------------------------------
\* Lemmas about lists and blocks.

LEMMA ToSetAppend ==
  ASSUME NEW S, NEW q \in Seq(S), NEW e \in S
  PROVE  ToSet(Append(q, e)) = ToSet(q) \cup {e}
<1>1. /\ DOMAIN q = 1..Len(q) /\ Len(q) \in Nat
      /\ DOMAIN Append(q, e) = 1..(Len(q) + 1)
      /\ \A i \in 1..Len(q) : Append(q, e)[i] = q[i]
      /\ Append(q, e)[Len(q) + 1] = e
  BY AppendProperties
<1>2. \A i \in 1..(Len(q) + 1) : i \in 1..Len(q) \/ i = Len(q) + 1
  BY <1>1
<1>3. \A i \in 1..Len(q) : i \in 1..(Len(q) + 1)
  BY <1>1
<1>4. Len(q) + 1 \in 1..(Len(q) + 1)
  BY <1>1
<1>5. QED
  BY <1>1, <1>2, <1>3, <1>4 DEF ToSet

Interface == [subnet : Subnets, ip : Nat]

LEMMA InterfacesTyped ==
  ASSUME TypeOK, NEW n \in Nodes
  PROVE  /\ ifaces[n] \in Seq(Interface)
         /\ \A i \in DOMAIN ifaces[n] : ifaces[n][i] \in Interface
BY ElementOfSeq, LenProperties DEF TypeOK, Interface

LEMMA DisjointBothWays == \A b, c : Disjoint(b, c) => Disjoint(c, b)
BY DEF Disjoint

\* A block is not apart from itself.
LEMMA NotOwnDisjoint == \A b \in Block : ~Disjoint(b, b) /\ Within(b, b)
BY SizePositive DEF Block, Disjoint, Within

\* The last range, which the next loop takes, and those that stay.
LEMMA RangeTaken ==
  ASSUME TypeOK, RangesLeft, Len(ranges) >= 1, TakeRange
  PROVE  /\ Len(ranges) \in DOMAIN ranges /\ ranges[Len(ranges)] \in Block
         /\ area' = ranges[Len(ranges)] /\ pool' = {ranges[Len(ranges)]}
         /\ \A i \in DOMAIN ranges' : /\ i \in DOMAIN ranges /\ i # Len(ranges)
                                      /\ ranges'[i] = ranges[i]
<1>1. /\ ranges' \in Seq(Block) /\ Len(ranges') = Len(ranges) - 1
      /\ \A i \in DOMAIN ranges' : i \in DOMAIN ranges /\ ranges'[i] = ranges[i]
      /\ area' \in Block /\ area' = ranges[Len(ranges)] /\ pool' = {area'}
  BY TakeRangeTyped
<1>2. DOMAIN ranges = 1..Len(ranges) /\ Len(ranges) \in Nat
  BY DEF TypeOK
<1>3. DOMAIN ranges' = 1..(Len(ranges) - 1)
  BY <1>1
<1>4. QED
  BY <1>1, <1>2, <1>3

-----------------------------------------------------------------------------
\* Each step.

LEMMA CreateSubnetKeeps ==
  ASSUME Known, Configured, NEW s \in Subnets, NEW ns \in NodeLists, CreateSubnet(s, ns)
  PROVE  Configured'
<1>1. /\ s \notin ToSet(subnets)
      /\ configured # "running" /\ configured' = configured
      /\ UNCHANGED <<bgp, systems, work, transit, inTransit, nextAS, addr, ifaces, pool, ranges>>
  BY DEF CreateSubnet, Editable
<1>2. ToSet(subnets') = ToSet(subnets) \cup {s}
  BY ToSetAppend DEF CreateSubnet, Known, TypeOK
<1>3. \A t \in Subnets : members'[t] = IF t = s THEN ns ELSE members[t]
  BY DEF CreateSubnet, Known, TypeOK
<1>4. ToSet(subnets) \subseteq Subnets
  BY DEF Known, TypeOK, ToSet
<1>5. Created'
  BY <1>1, <1>2, <1>3, <1>4 DEF Configured, Created, Placed
<1>6. SystemsApart' /\ InOrder'
  BY <1>1 DEF Configured, SystemsApart, InOrder
<1>7. Turns'
  BY <1>1 DEF Configured, Turns
<1>8. \A t \in Subnets : Placed(t) => members'[t] = members[t]
  BY <1>1, <1>3 DEF Configured, Created
<1>9. Connected'
  <2>1. \A t \in Subnets : Placed(t)' => Size[addr'[t].len] >= Demand(t)'
    BY <1>1, <1>8 DEF Configured, Connected, Placed, Demand
  <2>2. ASSUME NEW n \in Nodes, NEW i \in DOMAIN ifaces[n]
        PROVE  WellPlaced(n, ifaces[n][i])'
    <3>1. PICK f \in Interface : f = ifaces[n][i]
      BY InterfacesTyped DEF Known
    <3>2. WellPlaced(n, f)
      BY <3>1 DEF Configured, Connected
    <3>3. /\ members'[f.subnet] = members[f.subnet]
          /\ addr'[f.subnet] = addr[f.subnet] /\ ifaces'[n][i] = f
      BY <1>1, <1>8, <3>1, <3>2 DEF WellPlaced, Interface
    <3>4. QED
      BY <3>2, <3>3 DEF WellPlaced, Placed
  <2>3. QED
    BY <1>1, <2>1, <2>2 DEF Connected
<1>10. RangesApart'
  BY <1>1 DEF Configured, RangesApart, AnnouncedRangeIsInner, Placed
<1>11. QED
  BY <1>5, <1>6, <1>7, <1>9, <1>10 DEF Configured

\* A subnet with nodes lies inside one of several disjoint systems at most.
LEMMA PartitionApart ==
  ASSUME Created, NEW p \in Partitions, NEW i \in DOMAIN p, NEW j \in DOMAIN p
  PROVE  /\ i # j => Inner(p[i]) \cap Inner(p[j]) = {}
         /\ Inner(p[i]) \cap Border(p[j]) = {}
<1>1. i # j => p[i] \cap p[j] = {}
  BY PartitionsAssumption
<1>2. ASSUME NEW s \in ToSet(subnets) PROVE ToSet(members[s]) # {}
  <2>1. members[s] \in Seq(Nodes) /\ members[s] # <<>>
    BY ListsAssumption DEF Created
  <2>2. 1 \in DOMAIN members[s]
    BY <2>1
  <2>3. QED
    BY <2>2 DEF ToSet
<1>3. QED
  BY <1>1, <1>2 DEF Inner, Border

LEMMA CreateBGPKeeps ==
  ASSUME Known, Configured, NEW p \in Partitions, CreateBGP(p)
  PROVE  Configured'
<1>1. /\ bgp' = TRUE /\ configured # "running" /\ configured' = configured
      /\ UNCHANGED <<subnets, members, work, transit, inTransit, nextAS, addr, ifaces, pool, ranges>>
  BY DEF CreateBGP, Editable
<1>2. /\ DOMAIN systems' = DOMAIN p
      /\ \A i \in DOMAIN p : /\ systems'[i].inner = Inner(p[i])
                              /\ systems'[i].border = Border(p[i])
                              /\ systems'[i].subnet = NoBlock
  BY DEF CreateBGP
<1>3. Created'
  BY <1>1, <1>2 DEF Configured, Created, Placed, Inner, Border
<1>4. SystemsApart'
  BY <1>2, PartitionApart DEF Configured, SystemsApart
<1>5. Turns'
  BY <1>1 DEF Configured, Turns
<1>6. Connected' /\ InOrder'
  BY <1>1 DEF Configured, Connected, WellPlaced, InOrder, Placed, Demand
<1>7. RangesApart'
  BY <1>1, <1>2 DEF Configured, RangesApart, AnnouncedRangeIsInner
<1>8. QED
  BY <1>3, <1>4, <1>5, <1>6, <1>7 DEF Configured

LEMMA StartConfigureKeeps ==
  ASSUME Known, Configured, StartConfigure
  PROVE  Configured'
<1>1. /\ configured = "no" /\ configured' \in {"running", "raised"}
      /\ UNCHANGED <<subnets, members, bgp, systems, nextAS, work, transit, inTransit, area, pool,
                     addr, ifaces>>
  BY DEF StartConfigure, editVars, placeVars
<1>2. /\ nextAS = 1 /\ ~inTransit /\ work = {} /\ transit = {}
      /\ \A s \in Subnets : ~Placed(s)
      /\ \A i \in DOMAIN systems : systems[i].subnet = NoBlock
  BY <1>1 DEF Known, RangesLeft, SpaceDisjoint, Configured, Turns, RangesApart
<1>3. \A i \in DOMAIN systems : ~(i < 1)
  BY DEF Known, TypeOK
<1>4. Created' /\ SystemsApart'
  BY <1>1 DEF Configured, Created, SystemsApart, Placed
<1>5. Turns'
  BY <1>1, <1>2, <1>3 DEF Configured, Turns, Taken, Placed
<1>6. Connected' /\ InOrder'
  BY <1>1 DEF Configured, Connected, WellPlaced, InOrder, Placed, Demand
<1>7. RangesApart'
  BY <1>1, <1>2 DEF RangesApart, AnnouncedRangeIsInner
<1>8. QED
  BY <1>4, <1>5, <1>6, <1>7 DEF Configured

\* The next system has none of the subnets already addressed, and takes a range
\* that nothing has been addressed from.
LEMMA NextSystemKeeps ==
  ASSUME Known, Configured, NextSystem
  PROVE  Configured'
<1> DEFINE top == ranges[Len(ranges)]
<1>0. PICK a : a = nextAS
  OBVIOUS
<1>1. /\ configured = "running" /\ ~inTransit /\ work = {} /\ configured' = configured
      /\ nextAS' = a + 1 /\ a \in DOMAIN systems /\ a \in Nat
      /\ UNCHANGED <<subnets, members, bgp, inTransit, addr, ifaces>>
  BY <1>0 DEF NextSystem, editVars, placeVars, Known, TypeOK
<1>2. /\ Len(ranges) \in DOMAIN ranges /\ top \in Block
      /\ area' = top /\ pool' = {top}
      /\ \A i \in DOMAIN ranges' : i \in DOMAIN ranges /\ i # Len(ranges) /\ ranges'[i] = ranges[i]
  <2>1. Len(ranges) >= 1
    BY DEF Known, RangesLeft, TypeOK, NextSystem
  <2>2. QED
    BY <2>1, RangeTaken DEF Known, NextSystem
<1>3. /\ DOMAIN systems' = DOMAIN systems
      /\ \A i \in DOMAIN systems :
           /\ systems'[i].inner = systems[i].inner /\ systems'[i].border = systems[i].border
           /\ systems'[i].subnet = IF i = a THEN top ELSE systems[i].subnet
  <2>1. systems' = [systems EXCEPT ![a].subnet = top]
    BY <1>0, <1>2 DEF NextSystem
  <2>2. \A i \in DOMAIN systems : systems[i] \in System
    BY DEF Known, TypeOK
  <2>3. QED
    BY <1>1, <2>1, <2>2 DEF System
<1>4. transit' = transit \cup systems[a].border /\ work' = systems[a].inner
  BY <1>0 DEF NextSystem, Collected
<1>5. \A s \in systems[a].inner : s \in Subnets /\ ~Placed(s)
  <2>1. \A s \in systems[a].inner : s \in Subnets
    <3>1. systems[a] \in System
      BY <1>1 DEF Known, TypeOK
    <3>2. QED
      BY <3>1 DEF System
  <2>2. \A i \in DOMAIN systems : Taken(i) => i # a
    BY <1>0, <1>1 DEF Taken, Known, TypeOK
  <2>3. QED
    BY <1>1, <2>1, <2>2 DEF Configured, Turns, SystemsApart
<1>6. \A i \in DOMAIN systems : Taken(i)' <=> Taken(i) \/ i = a
  BY <1>0, <1>1, <1>3 DEF Taken, Known, TypeOK
<1>7. Created'
  BY <1>1, <1>3, <1>4 DEF Configured, Created, Placed
<1>8. SystemsApart'
  BY <1>3 DEF Configured, SystemsApart
<1>9. Turns'
  <2>1. bgp' \/ systems' = <<>>
    BY <1>1 DEF Configured, Turns
  <2>2. \A s \in work' : ~Placed(s)'
    BY <1>1, <1>4, <1>5 DEF Placed
  <2>3. ASSUME NEW i \in DOMAIN systems', Taken(i)'
        PROVE  /\ \A s \in systems'[i].inner : Placed(s)' \/ s \in work'
               /\ systems'[i].border \subseteq transit'
    <3>1. CASE i = a
      BY <1>3, <1>4, <2>3, <3>1
    <3>2. CASE Taken(i)
      BY <1>1, <1>3, <1>4, <2>3, <3>2 DEF Configured, Turns, Placed
    <3>3. QED
      BY <1>3, <1>6, <2>3, <3>1, <3>2
  <2>4. \A s \in transit' : \E i \in DOMAIN systems' : s \in systems'[i].border
    BY <1>1, <1>3, <1>4 DEF Configured, Turns
  <2>5. \A s \in Subnets : Placed(s)' =>
          \E i \in DOMAIN systems' : Taken(i)' /\ s \in systems'[i].inner
    BY <1>1, <1>3, <1>6 DEF Configured, Turns, Placed
  <2>6. \A s \in work' : Taken(nextAS - 1)' /\ s \in systems'[nextAS' - 1].inner
    <3>1. nextAS' - 1 = a
      BY <1>1
    <3>2. Taken(a)'
      BY <1>1, <1>6
    <3>3. QED
      BY <1>1, <1>3, <1>4, <3>1, <3>2 DEF Taken
  <2>7. QED
    BY <1>1, <2>1, <2>2, <2>3, <2>4, <2>5, <2>6 DEF Turns
<1>10. Connected' /\ InOrder'
  BY <1>1 DEF Configured, Connected, WellPlaced, InOrder, Placed, Demand
\* What is known of the range taken.
<1>11. /\ \A s \in Subnets : Placed(s) => Disjoint(addr[s], top)
       /\ \A i \in DOMAIN ranges' : Disjoint(top, ranges'[i])
       /\ \A i \in DOMAIN systems : systems[i].subnet # NoBlock =>
            Disjoint(systems[i].subnet, top) /\ Disjoint(top, systems[i].subnet)
  BY <1>1, <1>2, DisjointBothWays DEF Known, SpaceDisjoint, Configured, RangesApart
<1>12. RangesApart'
  <2>1. AnnouncedRangeIsInner'
    BY <1>1, <1>3, <1>5, <1>11 DEF Configured, RangesApart, AnnouncedRangeIsInner, Placed
  <2>2. ASSUME NEW i \in DOMAIN systems', systems'[i].subnet # NoBlock
        PROVE  /\ \A j \in DOMAIN systems' : j # i /\ systems'[j].subnet # NoBlock =>
                    Disjoint(systems'[i].subnet, systems'[j].subnet)
               /\ \A r \in DOMAIN ranges' : Disjoint(systems'[i].subnet, ranges'[r])
               /\ \A b \in pool' : IF i = a THEN Within(b, systems'[i].subnet)
                                   ELSE Disjoint(b, systems'[i].subnet)
    <3>1. CASE i = a
      BY <1>2, <1>3, <1>11, <2>2, <3>1, NotOwnDisjoint
    <3>2. CASE i # a
      BY <1>1, <1>2, <1>3, <1>11, <2>2, <3>2 DEF Configured, RangesApart
    <3>3. QED
      BY <3>1, <3>2
  <2>3. nextAS' - 1 = a
    BY <1>1
  <2>4. QED
    BY <1>1, <2>1, <2>2, <2>3 DEF RangesApart
<1>13. QED
  BY <1>7, <1>8, <1>9, <1>10, <1>12 DEF Configured

\* The transit subnets are inside no system: none is addressed yet.
LEMMA StartTransitKeeps ==
  ASSUME Known, Configured, StartTransit
  PROVE  Configured'
<1> DEFINE top == ranges[Len(ranges)]
<1>1. /\ configured = "running" /\ ~inTransit /\ work = {} /\ configured' = configured
      /\ inTransit' /\ nextAS > Len(systems)
      /\ work' = IF bgp THEN transit ELSE ToSet(subnets)
      /\ UNCHANGED <<subnets, members, bgp, systems, nextAS, transit, addr, ifaces>>
  BY DEF StartTransit, editVars, placeVars
<1>2. /\ Len(ranges) \in DOMAIN ranges /\ top \in Block /\ pool' = {top}
      /\ \A i \in DOMAIN ranges' : i \in DOMAIN ranges /\ i # Len(ranges) /\ ranges'[i] = ranges[i]
  <2>1. Len(ranges) >= 1
    BY DEF Known, RangesLeft, TypeOK, StartTransit
  <2>2. QED
    BY <2>1, RangeTaken DEF Known, StartTransit
<1>3. \A i \in DOMAIN systems : Taken(i)'
  BY <1>1 DEF Taken, Known, TypeOK
<1>4. ~bgp => \A s \in Subnets : ~Placed(s)
  BY <1>1 DEF Configured, Turns
<1>5. \A s \in transit : s \in Subnets /\ ~Placed(s)
  BY <1>1 DEF Configured, Turns, SystemsApart, Known, TypeOK
<1>6. Created' /\ SystemsApart'
  BY <1>1 DEF Configured, Created, SystemsApart, Placed
<1>7. Turns'
  <2>1. \A s \in work' : ~Placed(s)'
    BY <1>1, <1>4, <1>5 DEF Placed, Known, TypeOK, ToSet
  <2>2. \A i \in DOMAIN systems : /\ \A s \in systems[i].inner : Placed(s)
                                 /\ systems[i].border \subseteq transit
    BY <1>1, <1>3 DEF Configured, Turns, Taken
  <2>3. QED
    BY <1>1, <1>3, <2>1, <2>2 DEF Configured, Turns, Placed
<1>8. Connected' /\ InOrder'
  BY <1>1 DEF Configured, Connected, WellPlaced, InOrder, Placed, Demand
<1>9. RangesApart'
  <2>1. AnnouncedRangeIsInner'
    BY <1>1 DEF Configured, RangesApart, AnnouncedRangeIsInner, Placed
  <2>2. ASSUME NEW i \in DOMAIN systems, systems[i].subnet # NoBlock
        PROVE  /\ \A j \in DOMAIN systems : j # i /\ systems[j].subnet # NoBlock =>
                    Disjoint(systems[i].subnet, systems[j].subnet)
               /\ \A r \in DOMAIN ranges' : Disjoint(systems[i].subnet, ranges'[r])
               /\ \A b \in pool' : Disjoint(b, systems[i].subnet)
    BY <1>1, <1>2, <2>2, DisjointBothWays DEF Configured, RangesApart
  <2>3. QED
    BY <1>1, <2>1, <2>2 DEF RangesApart
<1>10. QED
  BY <1>6, <1>7, <1>8, <1>9 DEF Configured

\* set_address adds at most one interface to a node, after those it has.
LEMMA InterfacesAdded ==
  ASSUME TypeOK, NEW s \in Subnets, NEW b \in Block, AddInterfaces(s, b), NEW n \in Nodes
  PROVE  /\ \A i \in DOMAIN ifaces[n] : /\ i \in DOMAIN ifaces'[n] /\ ifaces'[n][i] = ifaces[n][i]
                                       /\ i \in Nat /\ i < Len(ifaces[n]) + 1
         /\ \A i \in DOMAIN ifaces'[n] \ DOMAIN ifaces[n] :
              /\ i = Len(ifaces[n]) + 1 /\ ifaces'[n][i].subnet = s
              /\ \E k \in DOMAIN members[s] :
                   members[s][k] = n /\ ifaces'[n][i].ip = HostAddress(b, k)
<1>1. PICK ns : ns = members[s]
  OBVIOUS
<1>2. ns \in Seq(Nodes)
  BY <1>1 DEF TypeOK
<1>3. ifaces[n] \in Seq(Interface)
  BY InterfacesTyped
<1>4. CASE n \notin ToSet(ns)
  <2>1. ifaces'[n] = ifaces[n]
    BY <1>1, <1>4 DEF AddInterfaces
  <2>2. QED
    BY <1>3, <2>1
<1>5. CASE n \in ToSet(ns)
  <2>1. PICK at : at = CHOOSE i \in DOMAIN ns : ns[i] = n
    OBVIOUS
  <2>2. at \in DOMAIN ns /\ ns[at] = n
    BY <1>5, <2>1 DEF ToSet
  <2>3. PICK f : f = [subnet |-> s, ip |-> HostAddress(b, at)]
    OBVIOUS
  <2>4. ifaces'[n] = Append(ifaces[n], f)
    BY <1>1, <1>5, <2>1, <2>3 DEF AddInterfaces
  <2>5. f \in Interface
    BY <1>2, <2>2, <2>3 DEF Interface, HostAddress, Block
  <2>6. /\ DOMAIN ifaces[n] = 1..Len(ifaces[n]) /\ Len(ifaces[n]) \in Nat
        /\ DOMAIN ifaces'[n] = 1..(Len(ifaces[n]) + 1)
        /\ \A i \in 1..Len(ifaces[n]) : ifaces'[n][i] = ifaces[n][i]
        /\ ifaces'[n][Len(ifaces[n]) + 1] = f
    BY <1>3, <2>4, <2>5, AppendProperties
  <2>7. \A i \in DOMAIN ifaces'[n] \ DOMAIN ifaces[n] : i = Len(ifaces[n]) + 1
    BY <2>6
  <2>8. \A i \in DOMAIN ifaces[n] : i \in DOMAIN ifaces'[n] /\ i \in Nat /\ i < Len(ifaces[n]) + 1
    BY <2>6
  <2>9. QED
    BY <1>1, <2>2, <2>3, <2>6, <2>7, <2>8
<1>6. QED
  BY <1>4, <1>5

LEMMA AllocateInterfaces ==
  ASSUME Known, Configured, NEW s \in Subnets, ~Placed(s), NEW b \in Block, AddInterfaces(s, b),
         Size[b.len] >= Demand(s), addr' = [addr EXCEPT ![s] = b], members' = members
  PROVE  Connected' /\ InOrder'
<1>1. b # NoBlock /\ \A t \in Subnets : addr'[t] = IF t = s THEN b ELSE addr[t]
  BY MainAssumption DEF Known, TypeOK
<1>2. \A n \in Nodes : \A i \in DOMAIN ifaces[n] :
        ifaces[n][i] \in Interface /\ WellPlaced(n, ifaces[n][i]) /\ ifaces[n][i].subnet # s
  BY InterfacesTyped DEF Known, Configured, Connected, WellPlaced
<1>3. Connected'
  <2>1. \A t \in Subnets : Placed(t)' => Size[addr'[t].len] >= Demand(t)'
    BY <1>1 DEF Configured, Connected, Placed, Demand
  <2>2. ASSUME NEW n \in Nodes, NEW i \in DOMAIN ifaces'[n]
        PROVE  WellPlaced(n, ifaces[n][i])'
    <3>1. PICK f : f = ifaces'[n][i]
      OBVIOUS
    <3>2. CASE i \in DOMAIN ifaces[n]
      <4>1. f = ifaces[n][i] /\ f \in Interface /\ WellPlaced(n, f) /\ f.subnet # s
        BY <1>2, <3>1, <3>2, InterfacesAdded DEF Known
      <4>2. f.subnet \in Subnets /\ addr'[f.subnet] = addr[f.subnet]
        BY <1>1, <4>1 DEF Interface
      <4>3. WellPlaced(n, f)'
        BY <4>1, <4>2 DEF WellPlaced, Placed
      <4>4. QED
        BY <3>1, <4>3 DEF WellPlaced, Placed
    <3>3. CASE i \notin DOMAIN ifaces[n]
      <4>1. /\ f.subnet = s
            /\ \E k \in DOMAIN members[s] : members[s][k] = n /\ f.ip = HostAddress(b, k)
        BY <3>1, <3>3, InterfacesAdded DEF Known
      <4>2. addr'[s] = b
        BY <1>1
      <4>3. WellPlaced(n, f)'
        BY <1>1, <4>1, <4>2 DEF WellPlaced, Placed
      <4>4. QED
        BY <3>1, <4>3 DEF WellPlaced, Placed
    <3>4. QED
      BY <3>2, <3>3
  <2>3. QED
    BY <2>1, <2>2 DEF Connected
<1>4. ASSUME NEW n \in Nodes, NEW m \in Nodes,
             NEW i \in DOMAIN ifaces'[n], NEW j \in DOMAIN ifaces'[n],
             NEW k \in DOMAIN ifaces'[m], NEW l \in DOMAIN ifaces'[m],
             ifaces'[n][i].subnet = ifaces'[m][k].subnet,
             ifaces'[n][j].subnet = ifaces'[m][l].subnet, i < j
      PROVE  k < l
  \* Old interfaces are those of other subnets than s.
  <2>1. ASSUME NEW h \in Nodes, NEW g \in DOMAIN ifaces'[h]
        PROVE  /\ g \in Nat
               /\ IF g \in DOMAIN ifaces[h]
                  THEN /\ ifaces'[h][g].subnet = ifaces[h][g].subnet /\ ifaces[h][g].subnet # s
                       /\ g < Len(ifaces[h]) + 1
                  ELSE ifaces'[h][g].subnet = s /\ g = Len(ifaces[h]) + 1
    <3>1. Len(ifaces[h]) \in Nat
      BY InterfacesTyped, LenProperties DEF Known
    <3>2. QED
      BY <1>2, <3>1, InterfacesAdded DEF Known
  <2>2. i \in DOMAIN ifaces[n]
    <3>1. i \notin DOMAIN ifaces[n] => i = Len(ifaces[n]) + 1
      BY <2>1
    <3>2. j < Len(ifaces[n]) + 1 \/ j = Len(ifaces[n]) + 1
      BY <2>1
    <3>3. Len(ifaces[n]) \in Nat /\ i \in Nat /\ j \in Nat
      BY <2>1, InterfacesTyped, LenProperties DEF Known
    <3>4. QED
      BY <1>4, <3>1, <3>2, <3>3
  <2>3. k \in DOMAIN ifaces[m]
    BY <1>4, <2>1, <2>2
  <2>4. CASE j \in DOMAIN ifaces[n]
    <3>1. l \in DOMAIN ifaces[m]
      BY <1>4, <2>1, <2>4
    <3>2. /\ ifaces[n][i].subnet = ifaces[m][k].subnet
          /\ ifaces[n][j].subnet = ifaces[m][l].subnet
      BY <1>4, <2>1, <2>2, <2>3, <2>4, <3>1
    <3>3. QED
      BY <1>4, <2>2, <2>3, <2>4, <3>1, <3>2 DEF Configured, InOrder
  <2>5. CASE j \notin DOMAIN ifaces[n]
    <3>1. l \notin DOMAIN ifaces[m]
      BY <1>4, <2>1, <2>5
    <3>2. QED
      BY <2>1, <2>3, <3>1
  <2>6. QED
    BY <2>4, <2>5
<1>5. QED
  BY <1>3, <1>4 DEF InOrder

\* The block a subnet takes lies in the range of its system if it is inside one,
\* and in no other system's range.
LEMMA AllocateKeeps ==
  ASSUME Known, Configured, NEW s \in Subnets, Allocate(s)
  PROVE  Configured'
<1>1. /\ configured = "running" /\ s \in work /\ work' = work \ {s}
      /\ UNCHANGED <<subnets, members, bgp, systems, configured, ranges, nextAS, transit, inTransit>>
  BY DEF Allocate, Turn, editVars
<1>2. PICK len \in Lengths, b \in pool :
        LET taken == [base |-> b.base, len |-> len]
        IN  /\ Fits(len, Demand(s))
            /\ BestFit(b, len)
            /\ addr' = [addr EXCEPT ![s] = taken]
            /\ pool' = (pool \ {b}) \cup Remainder(b, len)
            /\ AddInterfaces(s, taken)
  BY DEF Allocate
<1>3. PICK taken : taken = [base |-> b.base, len |-> len]
  OBVIOUS
<1>4. b \in Block /\ b.len <= len
  BY <1>2 DEF Known, TypeOK, BestFit
<1>5. /\ taken \in Block /\ taken.len = len /\ Within(taken, b)
      /\ Remainder(b, len) \subseteq Block
      /\ \A r \in Remainder(b, len) : Within(r, b)
  BY <1>3, <1>4, SplitBlock
<1>6. /\ ~Placed(s) /\ taken # NoBlock
      /\ \A t \in Subnets : addr'[t] = IF t = s THEN taken ELSE addr[t]
      /\ \A t \in Subnets : Placed(t)' <=> Placed(t) \/ t = s
  BY <1>1, <1>2, <1>3, <1>5, MainAssumption DEF Configured, Turns, Placed, Known, TypeOK
<1>7. Created'
  BY <1>1, <1>6 DEF Configured, Created
<1>8. SystemsApart'
  BY <1>1 DEF Configured, SystemsApart
<1>9. Turns'
  <2>1. \A t \in work' : ~Placed(t)'
    BY <1>1, <1>6 DEF Configured, Turns, Known, TypeOK
  <2>2. \A t \in Subnets : Placed(t) \/ t \in work => Placed(t)' \/ t \in work'
    BY <1>1, <1>6
  <2>3. \A i \in DOMAIN systems : Taken(i)' <=> Taken(i)
    BY <1>1 DEF Taken
  <2>4. \A i \in DOMAIN systems : systems[i].inner \subseteq Subnets
    <3>1. \A i \in DOMAIN systems : systems[i] \in System
      BY DEF Known, TypeOK
    <3>2. QED
      BY <3>1 DEF System
  <2>5. \A i \in DOMAIN systems : Taken(i) =>
          /\ \A t \in systems[i].inner : Placed(t)' \/ t \in work'
          /\ systems[i].border \subseteq transit
    BY <1>1, <2>2, <2>4 DEF Configured, Turns
  <2>6. ~inTransit => /\ Taken(nextAS - 1) /\ s \in systems[nextAS - 1].inner
                      /\ nextAS - 1 \in DOMAIN systems
    BY <1>1 DEF Configured, Turns, Taken
  <2>7. ~inTransit =>
          /\ \A t \in Subnets : Placed(t)' =>
               \E i \in DOMAIN systems : Taken(i) /\ t \in systems[i].inner
          /\ \A t \in work' : Taken(nextAS - 1) /\ t \in systems[nextAS - 1].inner
    BY <1>1, <1>6, <2>6 DEF Configured, Turns
  <2>8. inTransit =>
          /\ \A i \in DOMAIN systems : Taken(i)
          /\ bgp => work' \subseteq transit
          /\ \A t \in IF bgp THEN transit ELSE ToSet(subnets) : Placed(t)' \/ t \in work'
    <3>1. transit \subseteq Subnets /\ ToSet(subnets) \subseteq Subnets
      BY DEF Known, TypeOK, ToSet
    <3>2. QED
      BY <1>1, <2>2, <3>1 DEF Configured, Turns
  <2>9. \A t \in transit : \E i \in DOMAIN systems : t \in systems[i].border
    BY <1>1 DEF Configured, Turns
  <2>10. bgp \/ systems = <<>>
    BY DEF Configured, Turns
  <2>11. (Taken(nextAS - 1))' <=> Taken(nextAS - 1)
    BY <1>1 DEF Taken
  <2>12. QED
    BY <1>1, <2>1, <2>3, <2>5, <2>7, <2>8, <2>9, <2>10, <2>11 DEF Turns
<1>10. Connected' /\ InOrder'
  BY <1>1, <1>2, <1>3, <1>5, <1>6, AllocateInterfaces DEF Fits
\* Where b lies, its parts lie.
<1>11. ASSUME NEW i \in DOMAIN systems, systems[i].subnet # NoBlock
       PROVE  LET own == ~inTransit /\ i = nextAS - 1
                  sub == systems[i].subnet
              IN  /\ IF own THEN Within(taken, sub) ELSE Disjoint(taken, sub)
                  /\ \A r \in Remainder(b, len) : IF own THEN Within(r, sub) ELSE Disjoint(r, sub)
                  /\ s \in systems[i].inner <=> own
  <2>1. PICK sub : sub = systems[i].subnet
    OBVIOUS
  <2>2. sub \in Block
    <3>1. systems[i] \in System
      BY DEF Known, TypeOK
    <3>2. QED
      BY <1>11, <2>1, <3>1 DEF System
  <2>3. IF ~inTransit /\ i = nextAS - 1 THEN Within(b, sub) ELSE Disjoint(b, sub)
    BY <1>1, <1>11, <2>1 DEF Configured, RangesApart
  <2>4. Within(b, sub) => Within(taken, sub) /\ \A r \in Remainder(b, len) : Within(r, sub)
    BY <1>4, <1>5, <2>2, WithinTransitive
  <2>5. Disjoint(b, sub) => Disjoint(taken, sub) /\ \A r \in Remainder(b, len) : Disjoint(r, sub)
    BY <1>4, <1>5, <2>2, WithinDisjoint
  <2>6. CASE ~inTransit
    <3>1. nextAS - 1 \in DOMAIN systems /\ s \in systems[nextAS - 1].inner
      BY <1>1, <2>6 DEF Configured, Turns, Taken
    <3>2. s \in systems[i].inner <=> i = nextAS - 1
      BY <3>1 DEF Configured, SystemsApart
    <3>3. QED
      BY <2>1, <2>3, <2>4, <2>5, <2>6, <3>2
  <2>7. CASE inTransit
    <3>1. bgp
      BY <1>11 DEF Configured, Turns
    <3>2. s \notin systems[i].inner
      BY <1>1, <2>7, <3>1 DEF Configured, Turns, SystemsApart
    <3>3. QED
      BY <2>1, <2>3, <2>5, <2>7, <3>2
  <2>8. QED
    BY <2>6, <2>7
<1>12. RangesApart'
  <2>1. ASSUME NEW i \in DOMAIN systems, systems[i].subnet # NoBlock,
               NEW t \in Subnets, Placed(t)'
        PROVE  IF t \in systems[i].inner THEN Within(addr'[t], systems[i].subnet)
                                         ELSE Disjoint(addr'[t], systems[i].subnet)
    <3>1. CASE t = s
      BY <1>6, <1>11, <2>1, <3>1
    <3>2. CASE t # s
      BY <1>6, <2>1, <3>2 DEF Configured, RangesApart, AnnouncedRangeIsInner
    <3>3. QED
      BY <3>1, <3>2
  <2>2. AnnouncedRangeIsInner'
    BY <1>1, <2>1 DEF AnnouncedRangeIsInner
  <2>3. ASSUME NEW i \in DOMAIN systems, systems[i].subnet # NoBlock
        PROVE  \A c \in pool' : IF ~inTransit /\ i = nextAS - 1
                               THEN Within(c, systems[i].subnet)
                               ELSE Disjoint(c, systems[i].subnet)
    <3>1. \A c \in pool : IF ~inTransit /\ i = nextAS - 1 THEN Within(c, systems[i].subnet)
                          ELSE Disjoint(c, systems[i].subnet)
      BY <1>1, <2>3 DEF Configured, RangesApart
    <3>2. QED
      BY <1>2, <1>11, <2>3, <3>1
  <2>4. QED
    BY <1>1, <2>2, <2>3 DEF Configured, RangesApart
<1>13. QED
  BY <1>7, <1>8, <1>9, <1>10, <1>12 DEF Configured

\* configure() ends, or lab.json is written.
LEMMA OthersKeep ==
  ASSUME Known, Configured,
         UNCHANGED <<subnets, members, bgp, systems, nextAS, work, transit, inTransit, ranges,
                     pool, addr, ifaces>>,
         configured' = configured \/ configured' \in {"yes", "raised"}
  PROVE  Configured'
<1>1. Created' /\ SystemsApart'
  BY DEF Configured, Created, SystemsApart, Placed
<1>2. Turns'
  BY DEF Configured, Turns, Taken, Placed
<1>3. Connected' /\ InOrder'
  BY DEF Configured, Connected, WellPlaced, InOrder, Placed, Demand
<1>4. RangesApart'
  BY DEF Configured, RangesApart, AnnouncedRangeIsInner, Placed
<1>5. QED
  BY <1>1, <1>2, <1>3, <1>4 DEF Configured

LEMMA InitConfigured == Init => Configured
<1>1. SUFFICES ASSUME Init PROVE Configured
  OBVIOUS
<1>2. /\ ToSet(subnets) = {} /\ DOMAIN systems = {} /\ work = {} /\ transit = {}
      /\ \A s \in Subnets : ~Placed(s)
      /\ \A n \in Nodes : DOMAIN ifaces[n] = {}
      /\ configured = "no" /\ systems = <<>>
  BY <1>1 DEF Init, ToSet, Placed
<1>3. QED
  BY <1>2 DEF Configured, Created, SystemsApart, Turns, Connected, InOrder, RangesApart,
              AnnouncedRangeIsInner

THEOREM AlwaysConfigured == Spec => []Configured
<1>1. Known /\ Configured /\ [Next]_vars => Configured'
  <2>1. SUFFICES ASSUME Known, Configured, [Next]_vars PROVE Configured'
    OBVIOUS
  <2>2. ASSUME NEW s \in Subnets, NoFreeBlock(s) PROVE Configured'
    BY <2>1, <2>2, OthersKeep DEF NoFreeBlock, editVars, placeVars
  <2>3. CASE FinishConfigure
    BY <2>1, <2>3, OthersKeep DEF FinishConfigure, editVars, placeVars
  <2>4. CASE Render
    BY <2>1, <2>4, OthersKeep DEF Render, editVars, placeVars
  <2>5. CASE UNCHANGED vars
    BY <2>1, <2>5, OthersKeep DEF vars
  <2>6. QED
    BY <2>1, <2>2, <2>3, <2>4, <2>5, CreateSubnetKeeps, CreateBGPKeeps, StartConfigureKeeps,
       NextSystemKeeps, StartTransitKeeps, AllocateKeeps DEF Next
<1>2. TypeOK /\ RangesLeft /\ SpaceDisjoint <=> Known
  BY DEF Known
<1>3. QED
  BY <1>1, <1>2, InitConfigured, Typed, SpaceStaysDisjoint, PTL DEF Spec

LEMMA AlwaysKnown == Spec => [](Known /\ Configured)
<1>1. TypeOK /\ RangesLeft /\ SpaceDisjoint /\ Configured <=> Known /\ Configured
  BY DEF Known
<1>2. QED
  BY <1>1, Typed, SpaceStaysDisjoint, AlwaysConfigured, PTL

-----------------------------------------------------------------------------
\* The properties.

\* Only a subnet without an address is given one, by configure(): for every
\* division into systems and every order of creation, none is in work twice.
THEOREM AddressesKept == Spec => AddressedOnce
<1>1. Known /\ Configured /\ [Next]_vars => [\A s \in Subnets : Placed(s) => addr'[s] = addr[s]]_vars
  <2>1. SUFFICES ASSUME Known, Configured, [Next]_vars, NEW s \in Subnets, Placed(s)
                 PROVE  addr'[s] = addr[s]
    OBVIOUS
  <2>2. ASSUME NEW t \in Subnets, Allocate(t) PROVE addr'[s] = addr[s]
    <3>1. t # s
      BY <2>1, <2>2 DEF Allocate, Turn, Configured, Turns
    <3>2. QED
      BY <2>2, <3>1 DEF Allocate, Known, TypeOK
  <2>3. ASSUME UNCHANGED addr PROVE addr'[s] = addr[s]
    BY <2>3
  <2>4. QED
    BY <2>1, <2>2, <2>3 DEF Next, CreateSubnet, CreateBGP, StartConfigure, NextSystem,
       StartTransit, NoFreeBlock, FinishConfigure, Render, placeVars, vars
<1>2. QED
  BY <1>1, AlwaysKnown, PTL DEF Spec, AddressedOnce

\* When configure() returns, no subnet was left out that it had to address.
THEOREM AllAddressed == Spec => ConfigureComplete
<1> DEFINE Complete == configured = "running" /\ configured' = "yes" =>
             \A s \in ToSet(subnets) :
               \/ Placed(s)
               \/ bgp /\ \A i \in DOMAIN systems : s \notin systems[i].inner \cup systems[i].border
<1>1. Known /\ Configured /\ [Next]_vars => [Complete]_vars
  <2>1. SUFFICES ASSUME Known, Configured, [Next]_vars,
                        configured = "running", configured' = "yes",
                        NEW s \in ToSet(subnets), ~Placed(s)
                 PROVE  bgp /\ \A i \in DOMAIN systems :
                                s \notin systems[i].inner \cup systems[i].border
    OBVIOUS
  <2>2. FinishConfigure
    BY <2>1 DEF Next, CreateSubnet, CreateBGP, StartConfigure, NextSystem, StartTransit,
       Allocate, NoFreeBlock, Render, Editable, vars
  <2>3. inTransit /\ work = {}
    BY <2>2 DEF FinishConfigure
  <2>4. bgp /\ s \notin transit
    BY <2>1, <2>3 DEF Configured, Turns
  <2>5. \A i \in DOMAIN systems :
          s \notin systems[i].inner /\ systems[i].border \subseteq transit
    BY <2>1, <2>3 DEF Configured, Turns
  <2>6. QED
    BY <2>4, <2>5
<1>2. QED
  BY <1>1, AlwaysKnown, PTL DEF Spec, ConfigureComplete

\* Every interface has an address that is its own, inside the block of its subnet
\* and none of the addresses the network or the bridge needs.
THEOREM HostsApart == Spec => []HostAddressesUnique
<1>1. ASSUME Known, Configured, NEW n \in Nodes, NEW i \in DOMAIN ifaces[n]
      PROVE  LET f == ifaces[n][i]
                 b == addr[f.subnet]
             IN  /\ f \in Interface /\ Placed(f.subnet) /\ b \in Block
                 /\ Bridge(b) < f.ip /\ f.ip < b.base + Size[b.len] - 1
                 /\ \E k \in DOMAIN members[f.subnet] :
                      members[f.subnet][k] = n /\ f.ip = HostAddress(b, k)
  <2>1. PICK f \in Interface : f = ifaces[n][i]
    BY <1>1, InterfacesTyped DEF Known
  <2>2. PICK b : b = addr[f.subnet]
    OBVIOUS
  <2>3. WellPlaced(n, f)
    BY <1>1, <2>1 DEF Configured, Connected
  <2>4. f.subnet \in Subnets /\ b \in Block /\ Size[b.len] >= Demand(f.subnet)
    BY <1>1, <2>2, <2>3 DEF Interface, WellPlaced, Placed, Known, TypeOK, Configured, Connected
  <2>5. PICK k \in DOMAIN members[f.subnet] :
          members[f.subnet][k] = n /\ f.ip = HostAddress(b, k)
    BY <2>2, <2>3 DEF WellPlaced
  <2>6. /\ Len(members[f.subnet]) \in Nat /\ k \in Nat /\ k >= 1 /\ k <= Len(members[f.subnet])
        /\ b.base \in Nat /\ Size[b.len] \in Nat
    <3>1. members[f.subnet] \in Seq(Nodes)
      BY <1>1, <2>4 DEF Known, TypeOK
    <3>2. QED
      BY <2>4, <3>1, SizePositive DEF Block
  <2>7. Bridge(b) < f.ip /\ f.ip < b.base + Size[b.len] - 1
    <3>1. f.ip = b.base + 1 + k /\ Bridge(b) = b.base + 1
      BY <2>5 DEF Bridge, HostAddress
    <3>2. Size[b.len] >= Len(members[f.subnet]) + 3
      BY <2>4 DEF Demand
    <3>3. PICK x, y, z : x = b.base /\ y = Size[b.len] /\ z = Len(members[f.subnet])
      OBVIOUS
    <3>4. /\ x \in Nat /\ y \in Nat /\ z \in Nat /\ k \in Nat /\ k >= 1 /\ k <= z
          /\ y >= z + 3 /\ f.ip = x + 1 + k /\ Bridge(b) = x + 1
      BY <2>6, <3>1, <3>2, <3>3
    <3>5. Bridge(b) < f.ip /\ f.ip < x + y - 1
      BY <3>4
    <3>6. QED
      BY <3>3, <3>5
  <2>8. QED
    BY <2>1, <2>2, <2>3, <2>4, <2>5, <2>7 DEF WellPlaced
<1>2. ASSUME Known, Configured, NEW n \in Nodes, NEW m \in Nodes,
             NEW i \in DOMAIN ifaces[n], NEW j \in DOMAIN ifaces[m], <<n, i>> # <<m, j>>
      PROVE  ifaces[n][i].ip # ifaces[m][j].ip
  <2>1. PICK f, g : f = ifaces[n][i] /\ g = ifaces[m][j]
    OBVIOUS
  <2>2. PICK b, c : b = addr[f.subnet] /\ c = addr[g.subnet]
    OBVIOUS
  <2>3. /\ f \in Interface /\ Placed(f.subnet) /\ b \in Block
        /\ Bridge(b) < f.ip /\ f.ip < b.base + Size[b.len] - 1
        /\ \E k \in DOMAIN members[f.subnet] : members[f.subnet][k] = n /\ f.ip = HostAddress(b, k)
    BY <1>1, <1>2, <2>1, <2>2
  <2>4. /\ g \in Interface /\ Placed(g.subnet) /\ c \in Block
        /\ Bridge(c) < g.ip /\ g.ip < c.base + Size[c.len] - 1
        /\ \E k \in DOMAIN members[g.subnet] : members[g.subnet][k] = m /\ g.ip = HostAddress(c, k)
    BY <1>1, <1>2, <2>1, <2>2
  <2>5. CASE f.subnet # g.subnet
    <3>1. Disjoint(b, c)
      BY <1>2, <2>2, <2>3, <2>4, <2>5 DEF Interface, Known, SpaceDisjoint, SubnetsDisjoint
    <3>2. /\ b.base \in Nat /\ c.base \in Nat /\ Size[b.len] \in Nat /\ Size[c.len] \in Nat
          /\ f.ip \in Nat /\ g.ip \in Nat
      BY <2>3, <2>4, SizePositive DEF Block, Interface
    <3>3. f.ip # g.ip
      BY <2>3, <2>4, <3>1, <3>2 DEF Disjoint, Bridge
    <3>4. QED
      BY <2>1, <3>3
  <2>6. CASE f.subnet = g.subnet
    <3>1. PICK s \in Subnets : s = f.subnet
      BY <2>3 DEF Interface
    <3>2. PICK k, l \in DOMAIN members[s] :
            /\ members[s][k] = n /\ f.ip = HostAddress(b, k)
            /\ members[s][l] = m /\ g.ip = HostAddress(b, l)
      BY <2>2, <2>3, <2>4, <2>6, <3>1
    <3>3. k \in Nat /\ l \in Nat /\ b.base \in Nat
      <4>1. members[s] \in Seq(Nodes)
        BY <1>2 DEF Known, TypeOK
      <4>2. QED
        BY <2>3, <4>1 DEF Block
    <3>4. f.ip = g.ip => n = m
      BY <3>2, <3>3 DEF HostAddress
    <3>5. n = m => i = j
      <4>1. ASSUME n = m PROVE ~(i < j) /\ ~(j < i)
        <5>1. j \in DOMAIN ifaces[n] /\ ifaces[n][i].subnet = ifaces[n][j].subnet
          BY <1>2, <2>1, <2>6, <4>1
        <5>2. /\ i < j => j < i
              /\ j < i => i < j
          BY <1>2, <5>1 DEF Configured, InOrder
        <5>3. i \in Nat /\ j \in Nat
          BY <1>2, <5>1, InterfacesTyped, LenProperties DEF Known
        <5>4. QED
          BY <5>2, <5>3
      <4>2. n = m => i \in Nat /\ j \in Nat
        BY <1>2, InterfacesTyped, LenProperties DEF Known
      <4>3. QED
        BY <4>1, <4>2
    <3>6. QED
      BY <1>2, <2>1, <3>4, <3>5
  <2>7. QED
    BY <2>5, <2>6
<1>3. Known /\ Configured => HostAddressesUnique
  <2>1. SUFFICES ASSUME Known, Configured PROVE HostAddressesUnique
    OBVIOUS
  <2>2. \A n \in Nodes : \A i \in DOMAIN ifaces[n] :
          /\ addr[ifaces[n][i].subnet] # NoBlock
          /\ Bridge(addr[ifaces[n][i].subnet]) < ifaces[n][i].ip
          /\ ifaces[n][i].ip < addr[ifaces[n][i].subnet].base
                                + Size[addr[ifaces[n][i].subnet].len] - 1
    BY <1>1, <2>1 DEF Placed
  <2>3. QED
    BY <1>2, <2>1, <2>2 DEF HostAddressesUnique
<1>4. QED
  BY <1>3, AlwaysKnown, PTL

\* What a system announces over BGP is where its own inner subnets are, whichever
\* subnets were created after the overlay and however the ranges are filled.
THEOREM RangesAnnounced == Spec => []AnnouncedRangeIsInner
<1>1. Known /\ Configured => AnnouncedRangeIsInner
  BY DEF Configured, RangesApart
<1>2. QED
  BY <1>1, AlwaysKnown, PTL

\* The first subnet a router shares with a peer is the first of the peer too.
LEMMA FirstSharedAlike ==
  ASSUME Known, Configured, NEW n \in Nodes, NEW m \in Nodes, NEW i \in FirstShared(m, n)
  PROVE  \E j \in FirstShared(n, m) : ifaces[n][j].subnet = ifaces[m][i].subnet
<1>1. i \in DOMAIN ifaces[m] /\ ifaces[m][i].subnet \in SubnetsOf(n)
  BY DEF FirstShared
<1>2. PICK j \in DOMAIN ifaces[n] : ifaces[n][j].subnet = ifaces[m][i].subnet
  BY <1>1 DEF SubnetsOf
<1>3. ifaces[n][j].subnet \in SubnetsOf(m)
  BY <1>1, <1>2 DEF SubnetsOf
<1>4. /\ DOMAIN ifaces[n] = 1..Len(ifaces[n]) /\ Len(ifaces[n]) \in Nat
      /\ DOMAIN ifaces[m] = 1..Len(ifaces[m]) /\ Len(ifaces[m]) \in Nat
  BY InterfacesTyped, LenProperties DEF Known
<1>5. ASSUME NEW h \in 1..(j - 1), ifaces[n][h].subnet \in SubnetsOf(m)
      PROVE  FALSE
  <2>1. h \in DOMAIN ifaces[n] /\ h < j
    BY <1>4
  <2>2. PICK g \in DOMAIN ifaces[m] : ifaces[m][g].subnet = ifaces[n][h].subnet
    BY <1>5 DEF SubnetsOf
  <2>3. g < i
    BY <1>1, <1>2, <2>1, <2>2 DEF Configured, InOrder
  <2>4. g \in 1..(i - 1)
    BY <1>1, <1>4, <2>3
  <2>5. ifaces[m][g].subnet \in SubnetsOf(n)
    BY <2>1, <2>2 DEF SubnetsOf
  <2>6. QED
    BY <2>4, <2>5 DEF FirstShared
<1>6. QED
  BY <1>2, <1>3, <1>5 DEF FirstShared

\* For any routers and any subnets they share, however often and in whatever order:
\* the two ends of a BGP session are configured on the same subnet.
THEOREM SessionsAtBothEnds == Spec => []SessionsReciprocal
<1>1. Init => SessionsReciprocal
  BY DEF Init, SessionsReciprocal
<1>2. Known /\ Configured /\ SessionsReciprocal /\ [Next]_vars => SessionsReciprocal'
  <2>1. SUFFICES ASSUME Known, Configured, SessionsReciprocal, [Next]_vars
                 PROVE  SessionsReciprocal'
    OBVIOUS
  <2>2. ASSUME UNCHANGED <<sessions, ifaces>>, configured' = "yes" => configured = "yes"
        PROVE  SessionsReciprocal'
    BY <2>1, <2>2 DEF SessionsReciprocal
  <2>3. ASSUME FinishConfigure PROVE SessionsReciprocal'
    <3>1. /\ ifaces' = ifaces
          /\ sessions' = [n \in Nodes |-> IF n \in Routers THEN Peers(n) ELSE {}]
      BY <2>3 DEF FinishConfigure, placeVars
    <3>2. Routers \subseteq Nodes
      <4>1. \A i \in DOMAIN systems : systems[i] \in System
        BY <2>1 DEF Known, TypeOK
      <4>2. QED
        BY <4>1 DEF System, Routers
    <3>3. ASSUME NEW n \in Nodes, NEW ip \in sessions'[n]
          PROVE  \E m \in Nodes \ {n} : \E i \in DOMAIN ifaces[m], j \in DOMAIN ifaces[n] :
                   /\ ifaces[m][i].ip = ip
                   /\ ifaces[n][j].subnet = ifaces[m][i].subnet
                   /\ ifaces[n][j].ip \in sessions'[m]
      <4>1. n \in Routers /\ ip \in Peers(n)
        BY <3>1, <3>3
      <4>2. PICK m \in Foreign(n) : ip \in {ifaces[m][i].ip : i \in FirstShared(m, n)}
        BY <4>1 DEF Peers
      <4>3. PICK i \in FirstShared(m, n) : ip = ifaces[m][i].ip
        BY <4>2
      <4>4. m \in Nodes /\ m # n /\ m \in Routers /\ n \in Foreign(m)
        BY <3>2, <4>1 DEF Foreign
      <4>5. PICK j \in FirstShared(n, m) : ifaces[n][j].subnet = ifaces[m][i].subnet
        BY <2>1, <4>4, FirstSharedAlike
      <4>6. ifaces[n][j].ip \in sessions'[m]
        BY <3>1, <4>4 DEF Peers
      <4>7. i \in DOMAIN ifaces[m] /\ j \in DOMAIN ifaces[n]
        BY DEF FirstShared
      <4>8. QED
        BY <4>3, <4>4, <4>5, <4>6, <4>7
    <3>4. QED
      BY <3>1, <3>3 DEF SessionsReciprocal
  <2>4. ASSUME NEW s \in Subnets, Allocate(s) PROVE SessionsReciprocal'
    BY <2>4 DEF Allocate, SessionsReciprocal
  <2>5. CASE StartConfigure
    BY <2>5 DEF StartConfigure, SessionsReciprocal
  <2>6. CASE NextSystem \/ StartTransit \/ Render \/ UNCHANGED vars
    BY <2>2, <2>6 DEF NextSystem, StartTransit, Render, placeVars, vars
  <2>7. ASSUME NEW s \in Subnets, NoFreeBlock(s) PROVE SessionsReciprocal'
    BY <2>7 DEF NoFreeBlock, SessionsReciprocal
  <2>8. ASSUME NEW s \in Subnets, NEW ns \in NodeLists, CreateSubnet(s, ns)
        PROVE  SessionsReciprocal'
    BY <2>2, <2>8 DEF CreateSubnet
  <2>9. ASSUME NEW p \in Partitions, CreateBGP(p) PROVE SessionsReciprocal'
    BY <2>2, <2>9 DEF CreateBGP
  <2>10. QED
    BY <2>1, <2>3, <2>4, <2>5, <2>6, <2>7, <2>8, <2>9 DEF Next
<1>3. QED
  BY <1>1, <1>2, AlwaysKnown, PTL DEF Spec
-----------------------------------------------------------------------------
\* configure() wastes no address: the free blocks of the pool are all that is free
\* of the range it was made of, and since the smallest sufficient block is the one
\* that is cut, no two of them are equally long.

Packed ==
  /\ \A b, c \in pool : b.len = c.len => b = c
  /\ area # NoBlock => /\ area \in Block
                       /\ \A a \in FreeIn(area) : \E b \in pool : a \in Addresses(b)

\* What address_exclude leaves of a block covers all but the part taken.
LEMMA RemainderCovers ==
  ASSUME NEW b \in Block, NEW len \in Lengths, b.len <= len,
         NEW a \in Addresses(b), a \notin Addresses([base |-> b.base, len |-> len])
  PROVE  \E c \in Remainder(b, len) : a \in Addresses(c)
<1> DEFINE T == {n \in Nat : b.len + n <= Width /\ a >= b.base + Size[b.len + n] =>
                   \E k \in (b.len + 1)..(b.len + n) :
                     b.base + Size[k] <= a /\ a < b.base + 2 * Size[k]}
<1>1. /\ b.base \in Nat /\ b.len \in Nat /\ b.len <= Width /\ Width \in Nat /\ a \in Int
      /\ a >= b.base /\ a < b.base + Size[b.len] /\ Size[b.len] \in Nat
  BY SizePositive, SizeAssumption DEF Block, Lengths, Addresses
<1>2. 0 \in T
  BY <1>1
<1>3. ASSUME NEW n \in T PROVE n + 1 \in T
  <2>1. SUFFICES ASSUME b.len + (n + 1) <= Width, a >= b.base + Size[b.len + (n + 1)]
                 PROVE  \E k \in (b.len + 1)..(b.len + (n + 1)) :
                          b.base + Size[k] <= a /\ a < b.base + 2 * Size[k]
    OBVIOUS
  <2>2. PICK m : m = b.len + n
    OBVIOUS
  <2>3. m \in 0..(Width - 1) /\ m + 1 = b.len + (n + 1) /\ m \in Lengths /\ m + 1 \in Lengths
    BY <1>1, <2>1, <2>2 DEF Lengths
  <2>4. Size[m] = 2 * Size[m + 1] /\ Size[m] \in Nat /\ Size[m + 1] \in Nat
    BY <2>3, SizeAssumption
  <2>5. CASE a >= b.base + Size[m]
    <3>1. PICK k \in (b.len + 1)..m : b.base + Size[k] <= a /\ a < b.base + 2 * Size[k]
      BY <1>1, <2>1, <2>2, <2>5
    <3>2. k \in (b.len + 1)..(b.len + (n + 1))
      BY <1>1, <2>2, <2>3
    <3>3. QED
      BY <3>1, <3>2
  <2>6. CASE ~(a >= b.base + Size[m])
    <3>1. b.base + Size[m + 1] <= a /\ a < b.base + 2 * Size[m + 1]
      BY <1>1, <2>1, <2>3, <2>4, <2>6
    <3>2. m + 1 \in (b.len + 1)..(b.len + (n + 1))
      BY <1>1, <2>2, <2>3
    <3>3. QED
      BY <3>1, <3>2
  <2>7. QED
    BY <2>5, <2>6
<1>4. T = Nat
  <2>1. T \in SUBSET Nat
    OBVIOUS
  <2>2. QED
    BY <1>2, <1>3, <2>1, NatClosed
<1>5. PICK n \in Nat : b.len + n = len
  <2>1. len - b.len \in Nat /\ b.len + (len - b.len) = len
    BY <1>1 DEF Lengths
  <2>2. QED
    BY <2>1
<1>6. Size[len] \in Nat /\ a >= b.base + Size[len]
  BY <1>1, SizePositive DEF Addresses
<1>7. n \in T
  BY <1>4
<1>8. PICK k \in (b.len + 1)..len : b.base + Size[k] <= a /\ a < b.base + 2 * Size[k]
  BY <1>5, <1>6, <1>7 DEF Lengths
<1>9. PICK c : c = [base |-> b.base + Size[k], len |-> k]
  OBVIOUS
<1>10. k \in Lengths
  BY <1>1 DEF Lengths
<1>11. a \in Addresses(c)
  BY <1>1, <1>8, <1>9, <1>10, SizePositive DEF Addresses
<1>12. QED
  BY <1>9, <1>11 DEF Remainder

\* The addresses of the blocks of P longer than k.
SmallBlocks(P, k) == UNION {Addresses(b) : b \in {c \in P : c.len > k}}

\* Blocks of different lengths, all longer than len, have fewer addresses together
\* than one block of length len.
LEMMA FewAddresses ==
  ASSUME NEW P \in SUBSET Block, \A b, c \in P : b.len = c.len => b = c,
         NEW len \in Lengths
  PROVE  /\ IsFiniteSet(SmallBlocks(P, len))
         /\ Cardinality(SmallBlocks(P, len)) < Size[len]
<1> DEFINE T == {n \in Nat : \A k \in Lengths : k + n = Width =>
                   /\ IsFiniteSet(SmallBlocks(P, k))
                   /\ Cardinality(SmallBlocks(P, k)) < Size[k]}
<1>1. 0 \in T
  <2>1. \A c \in P : c.len \in Nat /\ c.len <= Width
    BY SizeAssumption DEF Block, Lengths
  <2>2. {c \in P : c.len > Width} = {}
    BY <2>1, SizeAssumption
  <2>3. SmallBlocks(P, Width) = {}
    BY <2>2 DEF SmallBlocks
  <2>4. \A k \in Lengths : k + 0 = Width => k = Width
    BY SizeAssumption DEF Lengths
  <2>5. IsFiniteSet({}) /\ Cardinality({}) = 0 /\ Size[Width] = 1
    BY FS_EmptySet, SizeAssumption
  <2>6. IsFiniteSet(SmallBlocks(P, Width)) /\ Cardinality(SmallBlocks(P, Width)) < Size[Width]
    BY <2>3, <2>5
  <2>7. QED
    BY <2>4, <2>6
<1>2. ASSUME NEW n \in T PROVE n + 1 \in T
  <2>1. SUFFICES ASSUME NEW k \in Lengths, k + (n + 1) = Width
                 PROVE  /\ IsFiniteSet(SmallBlocks(P, k))
                        /\ Cardinality(SmallBlocks(P, k)) < Size[k]
    OBVIOUS
  <2>2. PICK m : m = k + 1
    OBVIOUS
  <2>3. k \in 0..(Width - 1) /\ m \in Lengths /\ m + n = Width
    BY <2>1, <2>2, SizeAssumption DEF Lengths
  <2>4. Size[k] = 2 * Size[m] /\ Size[m] \in Nat /\ Size[m] >= 1
    BY <2>2, <2>3, SizeAssumption, SizePositive
  <2>5. PICK A : A = SmallBlocks(P, m)
    OBVIOUS
  <2>6. IsFiniteSet(A) /\ Cardinality(A) < Size[m]
    BY <2>3, <2>5
  <2>7. Cardinality(A) \in Nat
    BY <2>6, FS_CardinalityType
  <2>8. \A c \in P : c.len > k <=> c.len > m \/ c.len = m
    BY <2>2, <2>3 DEF Block, Lengths
  <2>9. CASE \A c \in P : c.len # m
    <3>1. SmallBlocks(P, k) = A
      BY <2>5, <2>8, <2>9 DEF SmallBlocks
    <3>2. Cardinality(A) < Size[k]
      BY <2>4, <2>6, <2>7
    <3>3. QED
      BY <2>6, <3>1, <3>2
  <2>10. CASE \E c \in P : c.len = m
    <3>1. PICK c \in P : c.len = m
      BY <2>10
    <3>2. PICK B : B = Addresses(c)
      OBVIOUS
    <3>3. SmallBlocks(P, k) = A \cup B
      <4>1. {d \in P : d.len > k} = {d \in P : d.len > m} \cup {c}
        BY <2>8, <3>1
      <4>2. QED
        BY <2>5, <3>2, <4>1 DEF SmallBlocks
    <3>4. IsFiniteSet(B) /\ Cardinality(B) = Size[m]
      <4>1. PICK x, y : x = c.base /\ y = c.base + Size[m] - 1
        OBVIOUS
      <4>2. x \in Int /\ y \in Int /\ x <= y /\ y - x + 1 = Size[m] /\ B = x..y
        BY <2>4, <3>1, <3>2, <4>1 DEF Block, Addresses
      <4>3. IsFiniteSet(x..y) /\ Cardinality(x..y) = IF x > y THEN 0 ELSE y - x + 1
        BY <4>2, FS_Interval
      <4>4. QED
        BY <4>2, <4>3
    <3>5. /\ IsFiniteSet(A \cup B)
          /\ Cardinality(A \cup B) = Cardinality(A) + Cardinality(B) - Cardinality(A \cap B)
      BY <2>6, <3>4, FS_Union
    <3>6. Cardinality(A \cap B) \in Nat
      BY <2>6, FS_Subset, FS_CardinalityType
    <3>7. Cardinality(A \cup B) < Size[k]
      BY <2>4, <2>6, <2>7, <3>4, <3>5, <3>6
    <3>8. QED
      BY <3>3, <3>5, <3>7
  <2>11. QED
    BY <2>9, <2>10
<1>3. T = Nat
  <2>1. T \in SUBSET Nat
    OBVIOUS
  <2>2. QED
    BY <1>1, <1>2, <2>1, NatClosed
<1>4. PICK n \in Nat : len + n = Width
  <2>1. Width - len \in Nat /\ len + (Width - len) = Width
    BY SizeAssumption DEF Lengths
  <2>2. QED
    BY <2>1
<1>5. n \in T
  BY <1>3
<1>6. QED
  BY <1>4, <1>5

\* The smallest free block that holds len is cut: none of its parts is as long as
\* another free block.
LEMMA AllocatePacks ==
  ASSUME Known, Configured, Packed, NEW s \in Subnets, Allocate(s)
  PROVE  Packed'
<1>1. configured = "running" /\ s \in work /\ area' = area
  BY DEF Allocate, Turn
<1>2. PICK len \in Lengths, b \in pool :
        /\ BestFit(b, len)
        /\ addr' = [addr EXCEPT ![s] = [base |-> b.base, len |-> len]]
        /\ pool' = (pool \ {b}) \cup Remainder(b, len)
  BY DEF Allocate
<1>3. PICK taken : taken = [base |-> b.base, len |-> len]
  OBVIOUS
<1>4. pool \in SUBSET Block /\ b \in Block /\ b.len <= len
  BY <1>2 DEF Known, TypeOK, BestFit
<1>5. ~Placed(s) /\ taken # NoBlock /\ taken \in Block
  <2>1. taken \in Block
    BY <1>3, <1>4 DEF Block
  <2>2. QED
    BY <1>1, <2>1, MainAssumption DEF Configured, Turns
<1>6. \A t \in Subnets : addr'[t] = IF t = s THEN taken ELSE addr[t]
  BY <1>2, <1>3 DEF Known, TypeOK
<1>7. \A c \in Remainder(b, len) : c.len > b.len /\ c.len <= len
  <2>1. b.len \in Int /\ len \in Int
    BY <1>4 DEF Block, Lengths
  <2>2. QED
    BY <2>1 DEF Remainder
<1>8. \A c \in pool : c.len \in Int
  BY <1>4 DEF Block, Lengths
<1>9. ASSUME NEW c \in pool', NEW d \in pool', c.len = d.len PROVE c = d
  <2>1. CASE c \in pool /\ d \in pool
    BY <1>9, <2>1 DEF Packed
  <2>2. CASE c \in Remainder(b, len) /\ d \in Remainder(b, len)
    BY <1>9, <2>2 DEF Remainder
  <2>3. \A x \in pool, y \in Remainder(b, len) : x.len # y.len
    <3>1. \A x \in pool : x.len <= len => x.len <= b.len
      BY <1>2 DEF BestFit
    <3>2. \A y \in Remainder(b, len) : y.len <= len /\ y.len > b.len /\ y.len \in Int
      <4>1. b.len \in Int /\ len \in Int
        BY <1>4 DEF Block, Lengths
      <4>2. QED
        BY <4>1 DEF Remainder
    <3>3. QED
      BY <1>4, <1>8, <3>1, <3>2
  <2>4. QED
    BY <1>2, <1>9, <2>1, <2>2, <2>3
<1>10. ASSUME area # NoBlock, NEW a \in FreeIn(area)'
       PROVE  \E c \in pool' : a \in Addresses(c)
  <2>1. /\ a \in Addresses(area)
        /\ \A t \in Subnets : addr'[t] # NoBlock => a \notin Addresses(addr'[t])
    BY <1>1, <1>10 DEF FreeIn, Addresses, Placed
  <2>2. a \notin Addresses(taken)
    BY <1>5, <1>6, <2>1
  <2>3. a \in FreeIn(area)
    BY <1>5, <1>6, <2>1 DEF FreeIn, Placed
  <2>4. PICK c \in pool : a \in Addresses(c)
    BY <1>10, <2>3 DEF Packed
  <2>5. CASE c = b
    BY <1>2, <1>3, <1>4, <2>2, <2>4, <2>5, RemainderCovers
  <2>6. CASE c # b
    BY <1>2, <2>4, <2>6
  <2>7. QED
    BY <2>5, <2>6
<1>11. QED
  BY <1>1, <1>9, <1>10 DEF Packed, Addresses

LEMMA TakeRangePacks ==
  ASSUME TypeOK, RangesLeft, Len(ranges) >= 1, TakeRange
  PROVE  Packed'
<1>1. area' \in Block /\ pool' = {area'}
  BY RangeTaken
<1>2. \A a \in FreeIn(area)' : a \in Addresses(area)'
  BY DEF FreeIn
<1>3. QED
  BY <1>1, <1>2 DEF Packed, Addresses

\* For every range, width and order of allocation, configure() gives up on a subnet
\* only when the range has not that many free addresses left: none is lost to
\* fragmentation.
THEOREM RunsOutOnlyWhenFull == Spec => []RaisesOnlyWhenFull
<1>1. Init => Packed
  BY DEF Init, Packed
<1>2. Known /\ Configured /\ Packed /\ [Next]_vars => Packed'
  <2>1. SUFFICES ASSUME Known, Configured, Packed, [Next]_vars PROVE Packed'
    OBVIOUS
  <2>2. ASSUME UNCHANGED <<area, pool, addr>> PROVE Packed'
    BY <2>1, <2>2 DEF Packed, FreeIn, Placed, Addresses
  <2>3. CASE NextSystem
    <3>1. Len(ranges) >= 1
      BY <2>1, <2>3 DEF Known, RangesLeft, TypeOK, NextSystem
    <3>2. QED
      BY <2>1, <2>3, <3>1, TakeRangePacks DEF NextSystem, Known
  <2>4. CASE StartTransit
    <3>1. Len(ranges) >= 1
      BY <2>1, <2>4 DEF Known, RangesLeft, TypeOK, StartTransit
    <3>2. QED
      BY <2>1, <2>4, <3>1, TakeRangePacks DEF StartTransit, Known
  <2>5. QED
    BY <2>1, <2>2, <2>3, <2>4, AllocatePacks DEF Next, CreateSubnet, CreateBGP, StartConfigure,
       NoFreeBlock, FinishConfigure, Render, placeVars, vars
<1>3. Known /\ Packed => RaisesOnlyWhenFull
  <2>1. SUFFICES ASSUME Known, Packed, area # NoBlock, NEW s \in work, NEW len \in Lengths,
                        NoBlockFits(s), Fits(len, Demand(s))
                 PROVE  Cardinality(FreeIn(area)) < Size[len]
    BY DEF RaisesOnlyWhenFull
  <2>2. PICK C : C = SmallBlocks(pool, len)
    OBVIOUS
  <2>3. IsFiniteSet(C) /\ Cardinality(C) < Size[len]
    BY <2>1, <2>2, FewAddresses DEF Known, TypeOK, Packed
  <2>4. FreeIn(area) \in SUBSET C
    BY <2>1, <2>2 DEF NoBlockFits, Packed, SmallBlocks
  <2>5. Cardinality(FreeIn(area)) <= Cardinality(C) /\ IsFiniteSet(FreeIn(area))
    BY <2>3, <2>4, FS_Subset
  <2>6. Cardinality(FreeIn(area)) \in Nat /\ Cardinality(C) \in Nat
    BY <2>3, <2>5, FS_CardinalityType
  <2>7. QED
    BY <2>1, <2>3, <2>5, <2>6, SizePositive
<1>4. QED
  BY <1>1, <1>2, <1>3, AlwaysKnown, PTL DEF Spec
=============================================================================
