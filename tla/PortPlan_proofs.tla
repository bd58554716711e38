--------------------------- MODULE PortPlan_proofs ---------------------------
(***************************************************************************)
(* Proofs about PortPlan, for any largest port, common ports and blocks.   *)
(***************************************************************************)
EXTENDS PortPlan, FiniteSetTheorems, TLAPS

-----------------------------------------------------------------------------
(* Division.                                                               *)

\* x is the t-th number of the q-th block of n.
InBlock(x, n, q, t) == q \in Nat /\ t \in 0 .. n - 1 /\ x = n * q + t

LEMMA Quotient ==
    ASSUME NEW a \in Nat, NEW n \in Nat \ {0}
    PROVE  InBlock(a, n, a \div n, a % n)
BY DEF InBlock

\* A block ends before the next one begins.
LEMMA NextBlock ==
    ASSUME NEW n \in Nat \ {0}, NEW q \in Nat, NEW r \in Nat, q < r
    PROVE  n * q + n <= n * r
<1>1. PICK d \in Nat : r = q + 1 + d
  <2>1. r - q - 1 \in Nat /\ r = q + 1 + (r - q - 1)
    OBVIOUS
  <2> QED BY <2>1
<1>2. n * r = n * q + n + n * d
  BY <1>1
<1>3. n * d >= 0
  OBVIOUS
<1> QED BY <1>2, <1>3

LEMMA BlockUnique ==
    ASSUME NEW n \in Nat \ {0}, NEW x, NEW q, NEW r, NEW s, NEW t,
           InBlock(x, n, q, s), InBlock(x, n, r, t)
    PROVE  q = r /\ s = t
<1>1. /\ q \in Nat /\ r \in Nat /\ s \in 0 .. n - 1 /\ t \in 0 .. n - 1
      /\ n * q + s = n * r + t
  BY DEF InBlock
<1>2. n * q \in Int /\ n * r \in Int
  BY <1>1
<1>3. ~(q < r)
  BY <1>1, <1>2, NextBlock
<1>4. ~(r < q)
  BY <1>1, <1>2, NextBlock
<1>5. q = r
  BY <1>1, <1>3, <1>4
<1> QED BY <1>1, <1>2, <1>5

-----------------------------------------------------------------------------
(* The shuffle.                                                            *)

\* Where Get finds an index: in the same block, at the place that the order of
\* the block says, whether the block is complete or the last one.
LEMMA GetInBlock ==
    ASSUME NEW size \in Nat \ {0},
           NEW rl \in Orders(Precision(size)), NEW rl2 \in Orders(size % Precision(size)),
           NEW i \in 0 .. size - 1
    PROVE  LET n == Precision(size)
               q == i \div n
               t == i % n
               last == n * q + n > size
               order == IF last THEN rl2 ELSE rl
           IN  /\ n \in 1 .. size /\ q \in Nat /\ t \in 0 .. n - 1
               /\ i = n * q + t
               /\ Get(size, rl, rl2, i) = n * q + order[t]
               /\ order[t] \in 0 .. n - 1 /\ n * q + order[t] \in 0 .. size - 1
               /\ last => t \in 0 .. (size % n) - 1
<1> DEFINE n == Precision(size)
           q == i \div n
           t == i % n
           last == n * q + n > size
           order == IF last THEN rl2 ELSE rl
<1>1. n \in 1 .. size
  BY PlanAssumption DEF Precision
<1> HIDE DEF n, q, t
<1>2. q \in Nat /\ t \in 0 .. n - 1 /\ i = n * q + t
  <2>1. InBlock(i, n, q, t)
    BY <1>1, Quotient DEF q, t
  <2> QED BY <2>1 DEF InBlock
<1>3. n * q \in Nat
  BY <1>1, <1>2
<1>4. i - t = n * q
  BY <1>2, <1>3
<1>5. Get(size, rl, rl2, i) = n * q + order[t]
  BY <1>4 DEF Get, n, t
<1>6. last => size % n = size - n * q
  <2> SUFFICES ASSUME last PROVE size % n = size - n * q
    OBVIOUS
  <2>1. InBlock(size, n, size \div n, size % n)
    BY <1>1, Quotient
  <2>2. InBlock(size, n, q, size - n * q)
    BY <1>1, <1>2, <1>3 DEF InBlock
  <2> QED BY <1>1, <1>2, <2>1, <2>2, BlockUnique
<1>7. last => t \in 0 .. (size % n) - 1
  BY <1>2, <1>3, <1>6
<1>8. rl \in [0 .. n - 1 -> 0 .. n - 1] /\ rl2 \in [0 .. (size % n) - 1 -> 0 .. (size % n) - 1]
  BY DEF Orders, n
<1>9. order[t] \in 0 .. n - 1 /\ n * q + order[t] \in 0 .. size - 1
  <2>1. CASE last
    <3>1. rl2[t] \in 0 .. (size % n) - 1
      BY <1>7, <1>8, <2>1
    <3>2. size % n = size - n * q
      BY <1>6, <2>1
    <3> QED BY <1>1, <1>2, <1>3, <2>1, <3>1, <3>2
  <2>2. CASE ~last
    <3>1. rl[t] \in 0 .. n - 1
      BY <1>2, <1>8
    <3> QED BY <1>1, <1>2, <1>3, <2>2, <3>1
  <2> QED BY <2>1, <2>2
<1> QED BY <1>1, <1>2, <1>5, <1>7, <1>9 DEF n, q, t

LEMMA GetInjective ==
    ASSUME NEW size \in Nat \ {0},
           NEW rl \in Orders(Precision(size)), NEW rl2 \in Orders(size % Precision(size)),
           NEW i \in 0 .. size - 1, NEW j \in 0 .. size - 1,
           Get(size, rl, rl2, i) = Get(size, rl, rl2, j)
    PROVE  i = j
<1> DEFINE n == Precision(size)
           q(k) == k \div n
           t(k) == k % n
           last(k) == n * q(k) + n > size
           order(k) == IF last(k) THEN rl2 ELSE rl
<1> HIDE DEF n, q, t
<1>1. ASSUME NEW k \in 0 .. size - 1
      PROVE  /\ n \in 1 .. size /\ q(k) \in Nat /\ t(k) \in 0 .. n - 1
             /\ k = n * q(k) + t(k)
             /\ Get(size, rl, rl2, k) = n * q(k) + order(k)[t(k)]
             /\ order(k)[t(k)] \in 0 .. n - 1
             /\ last(k) => t(k) \in 0 .. (size % n) - 1
  BY <1>1, GetInBlock DEF n, q, t
<1>2. q(i) = q(j) /\ order(i)[t(i)] = order(j)[t(j)]
  <2> HIDE DEF order
  <2> DEFINE x == Get(size, rl, rl2, i)
  <2>1. InBlock(x, n, q(i), order(i)[t(i)]) /\ InBlock(x, n, q(j), order(j)[t(j)])
    BY <1>1 DEF InBlock
  <2>2. n \in Nat \ {0}
    BY <1>1
  <2> HIDE DEF x
  <2> QED BY <2>1, <2>2, BlockUnique
<1>3. order(i) = order(j) /\ (last(i) <=> last(j))
  BY <1>2
<1>4. /\ \A a, b \in 0 .. n - 1 : rl[a] = rl[b] => a = b
      /\ \A a, b \in 0 .. (size % n) - 1 : rl2[a] = rl2[b] => a = b
  BY DEF Orders, n
<1>5. t(i) = t(j)
  <2>1. CASE last(i)
    BY <1>1, <1>2, <1>3, <1>4, <2>1
  <2>2. CASE ~last(i)
    BY <1>1, <1>2, <1>3, <1>4, <2>2
  <2> QED BY <2>1, <2>2
<1> QED BY <1>1, <1>2, <1>5

\* An injective function from a finite set to itself reaches every element.
LEMMA Permutation ==
    ASSUME NEW D, IsFiniteSet(D), NEW p \in [D -> D],
           \A a, b \in D : p[a] = p[b] => a = b, NEW y \in D
    PROVE  \E x \in D : p[x] = y
<1> DEFINE image == {p[x] : x \in D}
<1>1. p \in Injection(D, image)
  BY DEF Injection, IsInjective
<1>2. p \in Surjection(D, image)
  BY DEF Surjection
<1>3. IsFiniteSet(image) /\ Cardinality(image) = Cardinality(D)
  BY <1>1, <1>2, FS_Surjection
<1>4. image \subseteq D
  OBVIOUS
<1>5. image = D
  BY <1>3, <1>4, FS_Subset
<1> QED BY <1>5

LEMMA GetReachesAll ==
    ASSUME NEW size \in Nat \ {0},
           NEW rl \in Orders(Precision(size)), NEW rl2 \in Orders(size % Precision(size)),
           NEW y \in 0 .. size - 1
    PROVE  \E i \in 0 .. size - 1 : Get(size, rl, rl2, i) = y
<1> DEFINE S == 0 .. size - 1
           f == [i \in S |-> Get(size, rl, rl2, i)]
<1>1. f \in [S -> S]
  BY GetInBlock
<1>2. \A a, b \in S : f[a] = f[b] => a = b
  BY GetInjective
<1>3. IsFiniteSet(S)
  BY FS_Interval
<1>4. ASSUME NEW D, D = S, NEW p, p = f PROVE \E i \in D : p[i] = y
  <2>1. p \in [D -> D]
    BY <1>1, <1>4
  <2>2. \A a, b \in D : p[a] = p[b] => a = b
    BY <1>2, <1>4
  <2>3. IsFiniteSet(D) /\ y \in D
    BY <1>3, <1>4
  <2> HIDE <1>4
  <2> QED BY <2>1, <2>2, <2>3, Permutation
<1>5. \E i \in S : f[i] = y
  BY <1>4
<1> QED BY <1>5
-----------------------------------------------------------------------------
(* The inductive invariant.                                                *)

\* The plan has the common ports looked at so far that are picked, no others.
TopInv == phase = "top" =>
    /\ item <= Len(TopTcpPorts) + 1 /\ skip = Len(ports)
    /\ ToSet(ports) = {TopTcpPorts[i] : i \in 1 .. item - 1} \cap Selected(text)

\* They stay in front.
CommonInv == phase # "top" =>
    {ports[i] : i \in 1 .. skip} = ToSet(TopTcpPorts) \cap Selected(text)

InRange(p, j) == text.ranges[j][1] <= p /\ p <= text.ranges[j][2]

\* Of a range whose loop is over every port is in the plan, and of the ranges
\* that end at the last port there is one at most.
FirstRangesDone(n) ==
    /\ ToSet(ports) \subseteq Selected(text)
    /\ \A j \in 1 .. n, p \in PortNums \ {0} : InRange(p, j) => p \in ToSet(ports)
    /\ \A i, j \in 1 .. n :
        text.ranges[i][2] = LastPort /\ text.ranges[j][2] = LastPort => i = j

\* The loop will never end: it goes up to the last port, which is not new.
Endless == text.ranges[item][2] = LastPort /\ LastPort \in ToSet(ports)

RangeInv == phase = "loop" =>
    /\ item <= Len(text.ranges)
    /\ \/ Endless
       \/ /\ FirstRangesDone(item - 1)
          /\ text.ranges[item][1] <= port
          /\ \A p \in PortNums \ {0} : InRange(p, item) /\ p < port => p \in ToSet(ports)

OrderInv ==
    /\ phase \in {"order", "done", "error"} => FirstRangesDone(Len(text.ranges))
    /\ phase = "error" => ports = <<>>

PlanInv == TypeOK /\ IsInjective(ports) /\ TopInv /\ CommonInv /\ RangeInv /\ OrderInv

-----------------------------------------------------------------------------
(* Texts and sequences.                                                    *)

LEMMA RangesOfText ==
    ASSUME NEW t \in Texts
    PROVE  /\ t.ranges \in Seq(PortNums \X PortNums) /\ t.top \in BOOLEAN
           /\ DOMAIN t.ranges = 1 .. Len(t.ranges) /\ Len(t.ranges) \in Nat
           /\ \A j \in 1 .. Len(t.ranges) : t.ranges[j][1] \in PortNums /\ t.ranges[j][2] \in PortNums
<1>1. PICK n \in 0 .. MaxRanges : t.ranges \in [1 .. n -> PortNums \X PortNums]
  BY DEF Texts
<1>2. n \in Nat /\ t.top \in BOOLEAN
  BY PlanAssumption DEF Texts
<1>3. t.ranges \in Seq(PortNums \X PortNums) /\ Len(t.ranges) = n
  BY <1>1, <1>2
<1> QED BY <1>1, <1>2, <1>3

LEMMA AppendFacts ==
    ASSUME NEW S, NEW s \in Seq(S), NEW x \in S
    PROVE  /\ Append(s, x) \in Seq(S) /\ Len(Append(s, x)) = Len(s) + 1
           /\ ToSet(Append(s, x)) = ToSet(s) \cup {x}
           /\ \A i \in 1 .. Len(s) : Append(s, x)[i] = s[i]
           /\ IsInjective(s) /\ x \notin ToSet(s) => IsInjective(Append(s, x))
<1>1. /\ Append(s, x) \in Seq(S) /\ Len(Append(s, x)) = Len(s) + 1
      /\ \A i \in 1 .. Len(s) : Append(s, x)[i] = s[i]
      /\ Append(s, x)[Len(s) + 1] = x
      /\ DOMAIN s = 1 .. Len(s) /\ DOMAIN Append(s, x) = 1 .. Len(s) + 1 /\ Len(s) \in Nat
  OBVIOUS
<1>2. ToSet(Append(s, x)) = ToSet(s) \cup {x}
  <2>1. \A i \in 1 .. Len(s) + 1 : i \in 1 .. Len(s) \/ i = Len(s) + 1
    BY <1>1
  <2>2. \A i \in 1 .. Len(s) : i \in 1 .. Len(s) + 1
    BY <1>1
  <2>3. Len(s) + 1 \in 1 .. Len(s) + 1
    BY <1>1
  <2> QED BY <1>1, <2>1, <2>2, <2>3 DEF ToSet
<1>3. ASSUME IsInjective(s), x \notin ToSet(s) PROVE IsInjective(Append(s, x))
  BY <1>1, <1>3 DEF ToSet, IsInjective
<1> QED BY <1>1, <1>2, <1>3

LEMMA TopFacts ==
    /\ Len(TopTcpPorts) \in Nat /\ DOMAIN TopTcpPorts = 1 .. Len(TopTcpPorts)
    /\ \A i \in 1 .. Len(TopTcpPorts) : TopTcpPorts[i] \in 1 .. LastPort - 1
    /\ 1 .. LastPort - 1 \subseteq PortNums \ {0}
BY PlanAssumption, TopAssumption DEF PortNums

\* A common port is picked by the text exactly when the text selects it.
LEMMA PickedIsSelected ==
    ASSUME NEW i \in 1 .. Len(TopTcpPorts)
    PROVE  Picked(TopTcpPorts[i]) <=> TopTcpPorts[i] \in Selected(text)
BY TopFacts DEF Picked, Selected, ToSet

LEMMA PlanFacts ==
    ASSUME TypeOK
    PROVE  /\ Len(ports) \in Nat /\ DOMAIN ports = 1 .. Len(ports)
           /\ \A i \in 1 .. Len(ports) : ports[i] \in PortNums /\ ports[i] \in ToSet(ports)
           /\ \A p \in ToSet(ports) : \E i \in 1 .. Len(ports) : ports[i] = p
           /\ skip \in Nat /\ skip <= Len(ports) /\ item \in Nat /\ item >= 1
           /\ LastPort \in Nat /\ LastPort >= 1 /\ PortNums = 0 .. LastPort
<1>1. Len(ports) \in Nat /\ DOMAIN ports = 1 .. Len(ports) /\ \A i \in 1 .. Len(ports) : ports[i] \in PortNums
  BY DEF TypeOK
<1>2. skip \in Nat /\ skip <= Len(ports) /\ item \in Nat /\ item >= 1
  BY <1>1 DEF TypeOK
<1> QED BY <1>1, <1>2, PlanAssumption DEF ToSet, PortNums

LEMMA InitPlan == Init => PlanInv
<1> SUFFICES ASSUME Init PROVE PlanInv
  OBVIOUS
<1>1. ToSet(ports) = {} /\ IsInjective(ports)
  BY DEF Init, ToSet, IsInjective
<1>2. TypeOK
  <2>1. Len(ports) = 0 /\ ports \in Seq(PortNums) /\ 0 \in PortNums
    BY PlanAssumption DEF Init, PortNums
  <2> QED BY <2>1 DEF Init, TypeOK
<1>3. TopInv
  BY <1>1, TopFacts DEF Init, TopInv
<1> QED BY <1>1, <1>2, <1>3 DEF Init, PlanInv, CommonInv, RangeInv, OrderInv

LEMMA MergeTopStep ==
    ASSUME PlanInv, MergeTop
    PROVE  PlanInv'
<1> DEFINE p == TopTcpPorts[item]
<1>1. /\ phase = "top" /\ phase' = "top" /\ item' = item + 1 /\ text' = text /\ port' = port
      /\ item \in 1 .. Len(TopTcpPorts) /\ skip' = Len(ports')
      /\ ports' = IF Picked(p) /\ p \notin ToSet(ports) THEN Append(ports, p) ELSE ports
  BY PlanFacts DEF PlanInv, MergeTop, AppendTop
<1>2. p \in PortNums /\ ports \in Seq(PortNums)
  BY <1>1, TopFacts DEF PlanInv, TypeOK
<1>3. /\ ports' \in Seq(PortNums) /\ IsInjective(ports')
      /\ ToSet(ports') = ToSet(ports) \cup ({p} \cap Selected(text))
  <2>1. Picked(p) <=> p \in Selected(text)
    BY <1>1, PickedIsSelected
  <2>2. CASE Picked(p) /\ p \notin ToSet(ports)
    BY <1>1, <1>2, <2>1, <2>2, AppendFacts DEF PlanInv
  <2>3. CASE ~(Picked(p) /\ p \notin ToSet(ports))
    BY <1>1, <1>2, <2>1, <2>3 DEF PlanInv
  <2> QED BY <2>2, <2>3
<1>4. TypeOK'
  BY <1>1, <1>3 DEF PlanInv, TypeOK
<1>5. ToSet(ports') = {TopTcpPorts[i] : i \in 1 .. item' - 1} \cap Selected(text')
  <2>1. 1 .. item' - 1 = (1 .. item - 1) \cup {item}
    BY <1>1
  <2>2. {TopTcpPorts[i] : i \in 1 .. item' - 1} = {TopTcpPorts[i] : i \in 1 .. item - 1} \cup {p}
    BY <2>1
  <2>3. ToSet(ports) = {TopTcpPorts[i] : i \in 1 .. item - 1} \cap Selected(text)
    BY <1>1 DEF PlanInv, TopInv
  <2> QED BY <1>1, <1>3, <2>2, <2>3
<1>6. TopInv'
  <2>1. item' <= Len(TopTcpPorts) + 1
    BY <1>1, TopFacts
  <2> QED BY <1>1, <1>5, <2>1 DEF TopInv
<1> QED BY <1>1, <1>3, <1>4, <1>6 DEF PlanInv, CommonInv, RangeInv, OrderInv

\* A new range begins, or the loop over the ranges is over.
LEMMA RangeStart ==
    ASSUME TypeOK, NEW n \in 0 .. Len(text.ranges), StartRange(n + 1), FirstRangesDone(n)',
           ports' \in Seq(PortNums), skip' \in 0 .. Len(ports')
    PROVE  TypeOK' /\ phase' # "top" /\ RangeInv' /\ OrderInv'
<1>1. text \in Texts
  BY DEF TypeOK
<1>2. /\ text' = text /\ item' = n + 1 /\ n \in Nat
      /\ phase' = IF n + 1 > Len(text.ranges) THEN "order" ELSE "loop"
      /\ port' = IF n + 1 > Len(text.ranges) THEN 0 ELSE text.ranges[n + 1][1]
  BY <1>1, RangesOfText DEF StartRange
<1>3. port' \in PortNums
  BY <1>1, <1>2, RangesOfText, PlanAssumption DEF PortNums
<1>4. TypeOK'
  BY <1>2, <1>3 DEF TypeOK
<1>5. RangeInv'
  <2> SUFFICES ASSUME phase' = "loop" PROVE RangeInv'
    BY DEF RangeInv
  <2>1. n + 1 <= Len(text.ranges) /\ port' = text.ranges[n + 1][1] /\ Len(text.ranges) \in Nat
    BY <1>1, <1>2, RangesOfText
  <2>2. text.ranges[n + 1][1] \in Nat
    BY <1>1, <1>2, <2>1, RangesOfText DEF PortNums
  <2>3. FirstRangesDone(item - 1)'
    BY <1>2
  <2>4. \A p \in PortNums \ {0} : ~((InRange(p, item) /\ p < port)')
    BY <1>2, <2>1, <2>2, PlanAssumption DEF InRange, PortNums
  <2> QED BY <1>2, <2>1, <2>2, <2>3, <2>4 DEF RangeInv
<1>6. OrderInv'
  <2> SUFFICES ASSUME n + 1 > Len(text.ranges) PROVE OrderInv'
    BY <1>2 DEF OrderInv
  <2>1. n = Len(text.ranges)
    BY <1>1, RangesOfText
  <2> QED BY <1>2, <2>1 DEF OrderInv
<1> QED BY <1>2, <1>4, <1>5, <1>6

LEMMA NextPort ==
    ASSUME NEW p \in PortNums
    PROVE  (p + 1) % (LastPort + 1) = IF p = LastPort THEN 0 ELSE p + 1
<1>1. LastPort + 1 \in Nat \ {0} /\ LastPort \in Nat /\ p \in 0 .. LastPort
  BY PlanAssumption DEF PortNums
<1>2. InBlock(p + 1, LastPort + 1, (p + 1) \div (LastPort + 1), (p + 1) % (LastPort + 1))
  BY <1>1, Quotient
<1>3. CASE p = LastPort
  <2>1. InBlock(p + 1, LastPort + 1, 1, 0)
    BY <1>1, <1>3 DEF InBlock
  <2> QED BY <1>1, <1>2, <1>3, <2>1, BlockUnique
<1>4. CASE p # LastPort
  <2> DEFINE n == LastPort + 1
  <2>1. p + 1 \in 0 .. n - 1 /\ n \in Nat
    BY <1>1, <1>4
  <2> HIDE DEF n
  <2>2. InBlock(p + 1, n, 0, p + 1)
    BY <2>1 DEF InBlock
  <2> QED BY <1>1, <1>2, <1>4, <2>2, BlockUnique DEF n
<1> QED BY <1>3, <1>4

\* What the loop knows of the range it is in.
LEMMA InLoopFacts ==
    ASSUME PlanInv, phase = "loop"
    PROVE  /\ item \in 1 .. Len(text.ranges) /\ Len(text.ranges) \in Nat
           /\ text.ranges[item][1] \in 0 .. LastPort /\ text.ranges[item][2] \in 0 .. LastPort
           /\ port \in 0 .. LastPort /\ LastPort \in Nat /\ LastPort >= 1
           /\ text.ranges \in Seq(PortNums \X PortNums) /\ DOMAIN text.ranges = 1 .. Len(text.ranges)
<1>1. text \in Texts /\ port \in PortNums
  BY DEF PlanInv, TypeOK
<1>2. item \in 1 .. Len(text.ranges)
  BY <1>1, RangesOfText, PlanFacts DEF PlanInv, RangeInv
<1> QED BY <1>1, <1>2, RangesOfText, PlanAssumption DEF PortNums

LEMMA SkipPortStep ==
    ASSUME PlanInv, SkipPort
    PROVE  PlanInv'
<1>1. /\ phase = "loop" /\ port <= text.ranges[item][2]
      /\ port = 0 \/ port \in ToSet(ports)
      /\ port' = (port + 1) % (LastPort + 1)
      /\ UNCHANGED <<text, phase, item, ports, skip>>
  BY DEF SkipPort, InLoop, Increment
<1>0. /\ item \in 1 .. Len(text.ranges) /\ Len(text.ranges) \in Nat
      /\ text.ranges[item][1] \in 0 .. LastPort /\ text.ranges[item][2] \in 0 .. LastPort
      /\ port \in 0 .. LastPort /\ LastPort \in Nat /\ LastPort >= 1
  BY <1>1, InLoopFacts
<1>2. port' = (IF port = LastPort THEN 0 ELSE port + 1) /\ port' \in PortNums
  BY <1>0, <1>1, NextPort DEF PortNums
<1>3. TypeOK'
  BY <1>1, <1>2 DEF PlanInv, TypeOK
<1>4. RangeInv'
  <2>1. item' <= Len(text'.ranges)
    BY <1>1, InLoopFacts
  <2>2. CASE Endless
    BY <1>1, <2>1, <2>2 DEF RangeInv, Endless
  <2>3. CASE port = LastPort
    <3>1. Endless
      BY <1>1, <2>3, InLoopFacts DEF Endless
    <3> QED BY <2>2, <3>1
  <2>4. CASE ~Endless /\ port # LastPort
    <3>1. /\ FirstRangesDone(item - 1)
          /\ text.ranges[item][1] <= port
          /\ \A p \in PortNums \ {0} : InRange(p, item) /\ p < port => p \in ToSet(ports)
      BY <1>1, <2>4 DEF PlanInv, RangeInv
    <3>2. FirstRangesDone(item - 1)'
      BY <1>1, <3>1 DEF FirstRangesDone, InRange
    <3>3. port' = port + 1 /\ text.ranges[item][1] <= port'
      BY <1>0, <1>2, <2>4, <3>1
    <3>4. \A p \in PortNums \ {0} : p < port + 1 => p < port \/ p = port
      BY InLoopFacts, <1>1 DEF PortNums
    <3>5. \A p \in PortNums \ {0} : (InRange(p, item) /\ p < port => p \in ToSet(ports))'
      BY <1>1, <3>1, <3>3, <3>4 DEF InRange
    <3> QED BY <1>1, <2>1, <3>2, <3>3, <3>5 DEF RangeInv
  <2> QED BY <2>2, <2>3, <2>4
<1> QED BY <1>1, <1>3, <1>4 DEF PlanInv, TopInv, CommonInv, OrderInv

LEMMA RangeDoneStep ==
    ASSUME PlanInv, RangeDone
    PROVE  PlanInv'
<1>1. /\ phase = "loop" /\ port > text.ranges[item][2]
      /\ StartRange(item + 1)
      /\ UNCHANGED <<text, ports, skip>>
  BY DEF RangeDone, StartRange
<1>2. /\ FirstRangesDone(item - 1)
      /\ \A p \in PortNums \ {0} : InRange(p, item) /\ p < port => p \in ToSet(ports)
      /\ text.ranges[item][2] # LastPort
  BY <1>1, InLoopFacts DEF PlanInv, RangeInv, Endless
<1>0. /\ item \in 1 .. Len(text.ranges) /\ Len(text.ranges) \in Nat
      /\ text.ranges[item][1] \in 0 .. LastPort /\ text.ranges[item][2] \in 0 .. LastPort
      /\ port \in 0 .. LastPort /\ LastPort \in Nat /\ LastPort >= 1
  BY <1>1, InLoopFacts
<1>3. \A p \in PortNums \ {0} : InRange(p, item) => p \in ToSet(ports)
  <2>1. \A p \in PortNums \ {0} : InRange(p, item) => p < port
    BY <1>0, <1>1 DEF InRange, PortNums
  <2> QED BY <1>2, <2>1
<1>4. \A j \in 1 .. item : j \in 1 .. item - 1 \/ j = item
  BY <1>1, InLoopFacts
<1>5. FirstRangesDone(item)
  BY <1>2, <1>3, <1>4 DEF FirstRangesDone
<1>6. ASSUME NEW n, n = item PROVE FirstRangesDone(n)'
  BY <1>1, <1>5, <1>6 DEF FirstRangesDone, InRange
<1>7. TypeOK' /\ phase' # "top" /\ RangeInv' /\ OrderInv'
  <2>1. ports' \in Seq(PortNums) /\ skip' \in 0 .. Len(ports')
    BY <1>1 DEF PlanInv, TypeOK
  <2>2. ASSUME NEW n, n = item PROVE TypeOK' /\ phase' # "top" /\ RangeInv' /\ OrderInv'
    <3>1. n \in 0 .. Len(text.ranges) /\ StartRange(n + 1) /\ FirstRangesDone(n)'
      BY <1>1, <1>6, <2>2, InLoopFacts
    <3> QED BY <2>1, <3>1, RangeStart DEF PlanInv
  <2> QED BY <2>2
<1> QED BY <1>1, <1>7 DEF PlanInv, TopInv, CommonInv

\* A port that is taken is new and, as long as the loop can end, selected.
LEMMA Taken ==
    ASSUME PlanInv, TakePort
    PROVE  /\ phase = "loop" /\ port # 0 /\ port \notin ToSet(ports) /\ port <= text.ranges[item][2]
           /\ text' = text /\ skip' = skip /\ skip' \in 0 .. Len(ports')
           /\ ports' \in Seq(PortNums) /\ IsInjective(ports') /\ ToSet(ports') = ToSet(ports) \cup {port}
           /\ {ports'[i] : i \in 1 .. skip'} = ToSet(TopTcpPorts) \cap Selected(text)
           /\ ~Endless => /\ FirstRangesDone(item - 1)
                          /\ text.ranges[item][1] <= port /\ port \in Selected(text)
                          /\ \A p \in PortNums \ {0} :
                                 InRange(p, item) /\ p < port => p \in ToSet(ports)
<1>1. /\ phase = "loop" /\ port # 0 /\ port \notin ToSet(ports) /\ port <= text.ranges[item][2]
      /\ text' = text /\ skip' = skip /\ ports' = Append(ports, port)
  BY DEF TakePort, InLoop, StartRange, Increment
<1>2. ports \in Seq(PortNums) /\ port \in PortNums
  BY DEF PlanInv, TypeOK
<1>3. /\ ports' \in Seq(PortNums) /\ IsInjective(ports') /\ ToSet(ports') = ToSet(ports) \cup {port}
      /\ Len(ports') = Len(ports) + 1 /\ \A i \in 1 .. Len(ports) : ports'[i] = ports[i]
  BY <1>1, <1>2, AppendFacts DEF PlanInv
<1>4. skip \in Nat /\ skip <= Len(ports) /\ Len(ports) \in Nat
  BY PlanFacts DEF PlanInv
<1>5. {ports'[i] : i \in 1 .. skip'} = ToSet(TopTcpPorts) \cap Selected(text)
  <2>1. \A i \in 1 .. skip : ports'[i] = ports[i]
    BY <1>3, <1>4
  <2>2. {ports[i] : i \in 1 .. skip} = ToSet(TopTcpPorts) \cap Selected(text)
    BY <1>1 DEF PlanInv, CommonInv
  <2> QED BY <1>1, <2>1, <2>2
<1>6. ASSUME ~Endless
      PROVE  /\ FirstRangesDone(item - 1)
             /\ text.ranges[item][1] <= port /\ port \in Selected(text)
             /\ \A p \in PortNums \ {0} : InRange(p, item) /\ p < port => p \in ToSet(ports)
  <2>1. /\ FirstRangesDone(item - 1)
        /\ text.ranges[item][1] <= port
        /\ \A p \in PortNums \ {0} : InRange(p, item) /\ p < port => p \in ToSet(ports)
    BY <1>1, <1>6 DEF PlanInv, RangeInv
  <2>2. IsInPortRange(port, text.ranges)
    BY <1>1, <2>1, InLoopFacts DEF IsInPortRange
  <2> QED BY <1>1, <1>2, <2>1, <2>2 DEF Selected
<1>7. skip' \in 0 .. Len(ports')
  BY <1>1, <1>3, <1>4
<1> QED BY <1>1, <1>3, <1>5, <1>6, <1>7

LEMMA TakeLastStep ==
    ASSUME PlanInv, TakePort, port = LastPort
    PROVE  PlanInv'
<1>0. /\ item \in 1 .. Len(text.ranges) /\ Len(text.ranges) \in Nat
      /\ text.ranges[item][1] \in 0 .. LastPort /\ text.ranges[item][2] \in 0 .. LastPort
      /\ LastPort \in Nat /\ LastPort >= 1
      /\ \A j \in 1 .. Len(text.ranges) : text.ranges[j][1] \in PortNums
  BY Taken, InLoopFacts, RangesOfText DEF PlanInv, TypeOK
<1>1. StartRange(item + 1)
  BY DEF TakePort
<1>2. text.ranges[item][2] = LastPort /\ ~Endless
  BY <1>0, Taken DEF Endless
<1>3. FirstRangesDone(item - 1)
  BY <1>2, Taken
<1>4. \A j \in 1 .. item : j \in 1 .. item - 1 \/ j = item
  BY <1>0
<1>5. \A j \in 1 .. item - 1 : text.ranges[j][2] # LastPort
  <2> SUFFICES ASSUME NEW j \in 1 .. item - 1, text.ranges[j][2] = LastPort PROVE FALSE
    OBVIOUS
  <2>1. InRange(LastPort, j) /\ LastPort \in PortNums \ {0}
    BY <1>0 DEF InRange, PortNums
  <2>2. LastPort \in ToSet(ports)
    BY <1>3, <2>1 DEF FirstRangesDone
  <2> QED BY <2>2, Taken
<1>6. ASSUME NEW p \in PortNums \ {0}, InRange(p, item) PROVE p \in ToSet(ports')
  <2>1. p < port \/ p = port
    BY <1>0, <1>6 DEF PortNums
  <2> QED BY <1>2, <1>6, <2>1, Taken
<1>7. ASSUME NEW n, n = item PROVE FirstRangesDone(n)'
  <2>1. ToSet(ports') \subseteq Selected(text)
    BY <1>2, <1>3, Taken DEF FirstRangesDone
  <2>2. \A j \in 1 .. item, p \in PortNums \ {0} : InRange(p, j) => p \in ToSet(ports')
    BY <1>3, <1>4, <1>6, Taken DEF FirstRangesDone
  <2>3. \A i, j \in 1 .. item : text.ranges[i][2] = LastPort /\ text.ranges[j][2] = LastPort => i = j
    BY <1>4, <1>5
  <2> QED BY <1>7, <2>1, <2>2, <2>3, Taken DEF FirstRangesDone, InRange
<1>8. ASSUME NEW n, n = item PROVE TypeOK' /\ phase' # "top" /\ RangeInv' /\ OrderInv'
  <2>1. n \in 0 .. Len(text.ranges) /\ StartRange(n + 1) /\ FirstRangesDone(n)'
    BY <1>0, <1>1, <1>7, <1>8
  <2>2. ports' \in Seq(PortNums) /\ skip' \in 0 .. Len(ports')
    BY Taken
  <2> QED BY <2>1, <2>2, RangeStart DEF PlanInv
<1> QED BY <1>8, Taken DEF PlanInv, TopInv, CommonInv

LEMMA TakeStep ==
    ASSUME PlanInv, TakePort, port # LastPort
    PROVE  PlanInv'
<1>0. /\ item \in 1 .. Len(text.ranges) /\ Len(text.ranges) \in Nat
      /\ text.ranges[item][1] \in 0 .. LastPort /\ port \in 0 .. LastPort /\ LastPort \in Nat
  BY Taken, InLoopFacts
<1>1. item' = item /\ phase' = phase /\ port' = port + 1 /\ port' \in PortNums
  <2>1. item' = item /\ phase' = phase /\ port' = (port + 1) % (LastPort + 1)
    BY DEF TakePort, Increment
  <2> QED BY <1>0, <2>1, NextPort DEF PortNums
<1>2. TypeOK'
  BY <1>1, Taken DEF PlanInv, TypeOK
<1>3. RangeInv'
  <2>1. item' <= Len(text'.ranges)
    BY <1>0, <1>1, Taken
  <2>2. CASE Endless
    BY <1>1, <2>1, <2>2, Taken DEF RangeInv, Endless
  <2>3. CASE ~Endless
    <3>1. /\ FirstRangesDone(item - 1)
          /\ text.ranges[item][1] <= port /\ port \in Selected(text)
          /\ \A p \in PortNums \ {0} : InRange(p, item) /\ p < port => p \in ToSet(ports)
      BY <2>3, Taken
    <3>2. FirstRangesDone(item - 1)'
      BY <1>1, <3>1, Taken DEF FirstRangesDone, InRange
    <3>3. text.ranges[item][1] <= port'
      BY <1>0, <1>1, <3>1
    <3>4. \A p \in PortNums \ {0} : p < port + 1 => p < port \/ p = port
      BY <1>0 DEF PortNums
    <3>5. \A p \in PortNums \ {0} : (InRange(p, item) /\ p < port => p \in ToSet(ports))'
      BY <1>1, <3>1, <3>4, Taken DEF InRange
    <3> QED BY <1>1, <2>1, <3>2, <3>3, <3>5, Taken DEF RangeInv
  <2> QED BY <2>2, <2>3
<1> QED BY <1>1, <1>2, <1>3, Taken DEF PlanInv, TopInv, CommonInv, OrderInv

LEMMA TopMergedStep ==
    ASSUME PlanInv, TopMerged
    PROVE  PlanInv'
<1>1. phase = "top" /\ item > Len(TopTcpPorts) /\ StartRange(0 + 1) /\ ports' = ports /\ skip' = skip
      /\ text' = text
  BY DEF TopMerged, StartRange
<1>2. item = Len(TopTcpPorts) + 1 /\ skip = Len(ports)
      /\ ToSet(ports) = {TopTcpPorts[i] : i \in 1 .. item - 1} \cap Selected(text)
  BY <1>1, TopFacts, PlanFacts DEF PlanInv, TopInv
<1>3. item - 1 = Len(TopTcpPorts)
  BY <1>2, TopFacts
<1>4. ToSet(ports) = ToSet(TopTcpPorts) \cap Selected(text)
  BY <1>2, <1>3, TopFacts DEF ToSet
<1>5. {ports[i] : i \in 1 .. skip} = ToSet(ports)
  BY <1>2, PlanFacts DEF PlanInv, ToSet
<1>6. FirstRangesDone(0)'
  BY <1>1, <1>4 DEF FirstRangesDone
<1>7. TypeOK' /\ phase' # "top" /\ RangeInv' /\ OrderInv'
  <2>1. ports' \in Seq(PortNums) /\ skip' \in 0 .. Len(ports') /\ 0 \in 0 .. Len(text.ranges)
    BY <1>1, RangesOfText DEF PlanInv, TypeOK
  <2> QED BY <1>1, <1>6, <2>1, RangeStart DEF PlanInv
<1> QED BY <1>1, <1>4, <1>5, <1>7 DEF PlanInv, TopInv, CommonInv

\* Reordering the ports after the common ones changes nothing else.
LEMMA Reordered ==
    ASSUME TypeOK, IsInjective(ports), NEW new \in [1 .. Len(ports) -> PortNums],
           NEW m \in [1 .. Len(ports) -> 1 .. Len(ports)],
           \A i, j \in 1 .. Len(ports) : m[i] = m[j] => i = j,
           \A i \in 1 .. skip : m[i] = i,
           \A i \in 1 .. Len(ports) : new[i] = ports[m[i]]
    PROVE  /\ new \in Seq(PortNums) /\ Len(new) = Len(ports)
           /\ IsInjective(new) /\ ToSet(new) = ToSet(ports)
           /\ {new[i] : i \in 1 .. skip} = {ports[i] : i \in 1 .. skip}
<1>1. Len(ports) \in Nat /\ DOMAIN ports = 1 .. Len(ports) /\ skip \in Nat /\ skip <= Len(ports)
      /\ \A i \in 1 .. Len(ports) : ports[i] \in PortNums
  BY PlanFacts
<1>3. new \in Seq(PortNums) /\ Len(new) = Len(ports) /\ DOMAIN new = 1 .. Len(ports)
  BY <1>1
<1>4. IsInjective(new)
  BY <1>1, <1>3 DEF IsInjective
<1>5. IsFiniteSet(1 .. Len(ports))
  BY <1>1, FS_Interval
<1>6. PICK D, p : D = 1 .. Len(ports) /\ p = m
  OBVIOUS
<1>7. ToSet(new) = ToSet(ports)
  <2>1. \A y \in D : \E i \in D : p[i] = y
    <3>1. p \in [D -> D] /\ IsFiniteSet(D)
      BY <1>5, <1>6
    <3>2. \A i, j \in D : p[i] = p[j] => i = j
      BY <1>6
    <3> QED BY <3>1, <3>2, Permutation
  <2>2. ASSUME NEW i \in 1 .. Len(ports) PROVE new[i] \in ToSet(ports)
    BY <1>1, <2>2 DEF ToSet
  <2>3. ASSUME NEW i \in 1 .. Len(ports) PROVE ports[i] \in ToSet(new)
    <3>1. PICK j \in 1 .. Len(ports) : m[j] = i
      BY <1>6, <2>1, <2>3
    <3> QED BY <1>3, <3>1 DEF ToSet
  <2> QED BY <1>1, <1>3, <2>2, <2>3 DEF ToSet
<1>8. \A i \in 1 .. skip : new[i] = ports[i]
  BY <1>1
<1> QED BY <1>3, <1>4, <1>7, <1>8

LEMMA ShuffleStep ==
    ASSUME PlanInv, ShuffleRest
    PROVE  PlanInv'
<1> DEFINE size == Len(ports) - skip
<1>1. /\ phase = "order" /\ phase' = "done" /\ UNCHANGED <<text, item, port, skip>>
      /\ skip \in Nat /\ skip <= Len(ports) /\ Len(ports) \in Nat /\ ports \in Seq(PortNums)
  BY PlanFacts DEF PlanInv, ShuffleRest, TypeOK
<1>2. /\ ports' \in Seq(PortNums) /\ Len(ports') = Len(ports)
      /\ IsInjective(ports') /\ ToSet(ports') = ToSet(ports)
      /\ {ports'[i] : i \in 1 .. skip} = {ports[i] : i \in 1 .. skip}
  <2>1. CASE size = 0
    BY <1>1, <2>1 DEF ShuffleRest, PlanInv
  <2>2. CASE size # 0
    <3>1. PICK rl \in Orders(Precision(size)), rl2 \in Orders(size % Precision(size)) :
            ports' = [i \in 1 .. Len(ports) |->
                IF i <= skip THEN ports[i] ELSE ports[skip + 1 + Get(size, rl, rl2, i - skip - 1)]]
      BY <2>2 DEF ShuffleRest
    <3> DEFINE get(i) == Get(size, rl, rl2, i)
               perm == [i \in 1 .. Len(ports) |->
                           IF i <= skip THEN i ELSE skip + 1 + get(i - skip - 1)]
    <3>2. size \in Nat \ {0}
      BY <1>1, <2>2
    <3>3. /\ \A i \in 0 .. size - 1 : get(i) \in 0 .. size - 1
          /\ \A i, j \in 0 .. size - 1 : get(i) = get(j) => i = j
      <4> HIDE DEF size
      <4>1. ASSUME NEW i \in 0 .. size - 1 PROVE get(i) \in 0 .. size - 1
        BY <3>2, <4>1, GetInBlock
      <4>2. ASSUME NEW i \in 0 .. size - 1, NEW j \in 0 .. size - 1, get(i) = get(j) PROVE i = j
        BY <3>2, <4>2, GetInjective
      <4> QED BY <4>1, <4>2
    <3> HIDE DEF get
    <3>4. \A i \in 1 .. Len(ports) : i > skip => i - skip - 1 \in 0 .. size - 1
      BY <1>1
    <3>5. \A i \in 1 .. Len(ports) : i > skip => perm[i] \in skip + 1 .. Len(ports)
      BY <1>1, <3>3, <3>4
    <3>6. perm \in [1 .. Len(ports) -> 1 .. Len(ports)] /\ \A i \in 1 .. skip : perm[i] = i
      BY <1>1, <3>5
    <3>7. ASSUME NEW i \in 1 .. Len(ports), NEW j \in 1 .. Len(ports), perm[i] = perm[j] PROVE i = j
      <4>1. (i <= skip => perm[i] = i) /\ (j <= skip => perm[j] = j)
        OBVIOUS
      <4>2. i <= skip <=> j <= skip
        BY <1>1, <3>5, <3>7, <4>1
      <4>3. CASE i > skip /\ j > skip
        <5>1. get(i - skip - 1) = get(j - skip - 1)
          BY <1>1, <3>3, <3>4, <3>7, <4>3
        <5>2. i - skip - 1 = j - skip - 1
          BY <3>3, <3>4, <4>3, <5>1
        <5> QED BY <1>1, <5>2
      <4> QED BY <1>1, <3>7, <4>1, <4>2, <4>3
    <3>8. ports' = [i \in 1 .. Len(ports) |-> ports[perm[i]]]
      BY <1>1, <3>1 DEF get
    <3>9. TypeOK /\ IsInjective(ports)
      BY DEF PlanInv
    <3>10. \A i, j \in 1 .. Len(ports) : perm[i] = perm[j] => i = j
      BY <3>7
    <3>11. /\ ports' \in [1 .. Len(ports) -> PortNums]
           /\ \A i \in 1 .. Len(ports) : ports'[i] = ports[perm[i]]
      BY <1>1, <3>6, <3>8
    <3> HIDE DEF perm
    <3>12. ASSUME NEW new, new = ports', NEW f, f = perm
           PROVE  /\ new \in Seq(PortNums) /\ Len(new) = Len(ports)
                  /\ IsInjective(new) /\ ToSet(new) = ToSet(ports)
                  /\ {new[i] : i \in 1 .. skip} = {ports[i] : i \in 1 .. skip}
      <4>1. f \in [1 .. Len(ports) -> 1 .. Len(ports)] /\ \A i \in 1 .. skip : f[i] = i
        BY <3>6, <3>12
      <4>2. new \in [1 .. Len(ports) -> PortNums] /\ \A i \in 1 .. Len(ports) : new[i] = ports[f[i]]
        BY <3>11, <3>12
      <4>3. \A i, j \in 1 .. Len(ports) : f[i] = f[j] => i = j
        BY <3>10, <3>12
      <4> HIDE <3>12
      <4> QED BY <3>9, <4>1, <4>2, <4>3, Reordered
    <3> QED BY <3>12
  <2> QED BY <2>1, <2>2
<1>3. TypeOK'
  BY <1>1, <1>2 DEF PlanInv, TypeOK
<1>4. CommonInv'
  BY <1>1, <1>2 DEF PlanInv, CommonInv
<1>5. OrderInv'
  BY <1>1, <1>2 DEF PlanInv, OrderInv, FirstRangesDone, InRange
<1> QED BY <1>1, <1>2, <1>3, <1>4, <1>5 DEF PlanInv, TopInv, RangeInv

\* Every step of the planning keeps the invariant.
LEMMA PlanStep ==
    ASSUME PlanInv,
           MergeTop \/ TopMerged \/ SkipPort \/ TakePort \/ RangeDone \/ NoPorts \/ ShuffleRest
    PROVE  PlanInv'
<1>1. CASE NoPorts
  BY <1>1 DEF NoPorts, PlanInv, TypeOK, TopInv, CommonInv, RangeInv, OrderInv, FirstRangesDone, InRange
<1> QED BY <1>1, MergeTopStep, TopMergedStep, SkipPortStep, TakeStep, TakeLastStep, RangeDoneStep,
           ShuffleStep

LEMMA PlanStutter ==
    ASSUME PlanInv, UNCHANGED vars
    PROVE  PlanInv'
BY DEF vars, PlanInv, TypeOK, TopInv, CommonInv, RangeInv, OrderInv, FirstRangesDone, InRange, Endless

LEMMA PlanInvariance == Spec => []PlanInv
<1>1. PlanInv /\ [Next]_vars => PlanInv'
  BY PlanStep, PlanStutter DEF Next, Terminated
<1> QED BY <1>1, InitPlan, PTL DEF Spec

-----------------------------------------------------------------------------
\* Once all ranges are done, the plan has exactly the ports the text selects.
LEMMA AllSelected ==
    ASSUME PlanInv, phase \in {"order", "done", "error"}
    PROVE  ToSet(ports) = Selected(text)
<1>1. FirstRangesDone(Len(text.ranges)) /\ DOMAIN text.ranges = 1 .. Len(text.ranges)
  BY RangesOfText DEF PlanInv, OrderInv, TypeOK
<1>2. ToSet(ports) \subseteq Selected(text)
  BY <1>1 DEF FirstRangesDone
<1>3. ASSUME NEW p \in PortNums \ {0}, IsInPortRange(p, text.ranges) PROVE p \in ToSet(ports)
  BY <1>1, <1>3 DEF IsInPortRange, FirstRangesDone, InRange
<1>4. ToSet(TopTcpPorts) \cap Selected(text) \subseteq ToSet(ports)
  BY PlanFacts DEF PlanInv, CommonInv
<1> QED BY <1>2, <1>3, <1>4 DEF Selected

LEMMA CompletePlan == PlanInv => PlanComplete
<1> SUFFICES ASSUME PlanInv PROVE PlanComplete
  OBVIOUS
<1>1. CASE phase = "done"
  <2>1. ToSet(ports) = Selected(text) /\ IsInjective(ports)
    BY <1>1, AllSelected DEF PlanInv
  <2>2. /\ skip \in Nat /\ skip <= Len(ports) /\ Len(ports) \in Nat /\ ports \in Seq(PortNums)
    BY PlanFacts DEF PlanInv, TypeOK
  <2>3. /\ DOMAIN SubSeq(ports, 1, skip) = 1 .. skip
        /\ \A i \in 1 .. skip : SubSeq(ports, 1, skip)[i] = ports[i]
    BY <2>2
  <2>4. ToSet(SubSeq(ports, 1, skip)) = {ports[i] : i \in 1 .. skip}
    BY <2>3 DEF ToSet
  <2> QED BY <1>1, <2>1, <2>4 DEF PlanInv, CommonInv, PlanComplete
<1>2. CASE phase = "error"
  <2>1. ToSet(ports) = {}
    BY <1>2 DEF PlanInv, OrderInv, ToSet
  <2> QED BY <1>2, <2>1, AllSelected DEF PlanComplete
<1> QED BY <1>1, <1>2 DEF PlanComplete

\* For every text, every table of common ports, every largest port and every
\* block: the finished plan has each selected port exactly once, no other, and
\* the common ones first.
THEOREM PlanIsComplete == Spec => []PlanComplete
BY PlanInvariance, CompletePlan, PTL

\* A text with two ranges that end at the last port is never finished: the
\* second one finds that port in the plan, and the counter wraps (port.go:435).
THEOREM LastTwiceNeverEnds == Spec => (CoversLast > 1 => []~Ended)
<1>1. PlanInv /\ Ended => CoversLast <= 1
  <2> SUFFICES ASSUME PlanInv, Ended PROVE CoversLast <= 1
    OBVIOUS
  <2> DEFINE last == {i \in DOMAIN text.ranges : text.ranges[i][2] = LastPort}
  <2>1. DOMAIN text.ranges = 1 .. Len(text.ranges)
    BY RangesOfText DEF PlanInv, TypeOK
  <2>2. \A i, j \in last : i = j
    BY <2>1 DEF PlanInv, OrderInv, Ended, FirstRangesDone
  <2>3. Cardinality(last) <= 1
    <3> HIDE DEF last
    <3>1. CASE last = {}
      BY <3>1, FS_EmptySet
    <3>2. CASE last # {}
      <4>1. PICK i : last = {i}
        BY <2>2, <3>2
      <4> QED BY <4>1, FS_Singleton
    <3> QED BY <3>1, <3>2
  <2> QED BY <2>3 DEF CoversLast
<1>2. CoversLast > 1 /\ [Next]_vars => (CoversLast > 1)'
  BY DEF CoversLast, Next, vars, MergeTop, TopMerged, SkipPort, TakePort, RangeDone, NoPorts, ShuffleRest,
     Terminated, StartRange, Increment
<1>3. PlanInv /\ CoversLast > 1 => ~Ended
  <2> SUFFICES ASSUME PlanInv, CoversLast > 1, CoversLast <= 1 PROVE FALSE
    BY <1>1
  <2>1. CoversLast \in Nat
    <3>1. IsFiniteSet(DOMAIN text.ranges)
      BY RangesOfText, FS_Interval DEF PlanInv, TypeOK
    <3> QED BY <3>1, FS_Subset, FS_CardinalityType DEF CoversLast
  <2> QED BY <2>1
<1> QED BY <1>2, <1>3, PlanInvariance, PTL DEF Spec
=============================================================================
