------------------------- MODULE CycleSearchProofs -------------------------
(***************************************************************************)
(* The cycle detector misses nothing and invents nothing, for every graph, *)
(* every depth and every order of the rows the query returns.              *)
(*                                                                         *)
(* The inductive invariant says where a cycle that is still to be found    *)
(* is: its start node has not been searched from, or one of its prefixes   *)
(* lies on the stack.                                                      *)
(*                                                                         *)
(* About SymbolScope, the other search whose answer is taken as "there is  *)
(* nothing to see": the attribution of changed lines loses no symbol.      *)
(*                                                                         *)
(* And about ArchLint, in which the detector runs: what a lint reports of  *)
(* dependencies comes from the code or from the graph files, and a green   *)
(* one has overlooked nothing that the rules file asks for.                *)
(***************************************************************************)
EXTENDS ArchLint, SymbolScope, SequenceTheorems, FiniteSetTheorems, WellFoundedInduction, TLAPS

FramesSimple == \A p \in frames : SimplePath(p)

Covered ==
  \A c \in Seq(Nodes) :
    SimpleCycle(c) /\ Len(c) <= MaxDepth /\ c[1] \notin todo
      => \/ Normalize(c) \in Seen
         \/ \E k \in 1..Len(c) : SubSeq(c, 1, k) \in frames

SearchInv == SearchTypeOK /\ FramesSimple /\ CyclesAreReal /\ Covered

-----------------------------------------------------------------------------
(***************************************************************************)
(* Paths and rotations.                                                    *)
(***************************************************************************)

\* Sets of numbers have a least one, and bounded ones a greatest.
LEMMA LeastOne ==
  ASSUME NEW T \in SUBSET Nat, T # {}
  PROVE  \E i \in T : \A j \in T : i <= j
<1> DEFINE R == {ss \in Nat \X Nat : ss[1] < ss[2]}
<1>1. IsWellFoundedOn(R, Nat)
  BY NatLessThanWellFounded DEF OpToRel
<1> HIDE DEF R
<1>2. PICK x \in T : \A y \in T : ~(<<y, x>> \in R)
  BY <1>1, WFMin
<1>3. \A y \in T : ~(y < x)
  BY <1>2 DEF R
<1> QED
  BY <1>3

LEMMA GreatestOne ==
  ASSUME NEW N \in Nat, NEW T \in SUBSET (0..N), T # {}
  PROVE  \E i \in T : \A j \in T : i >= j
<1> DEFINE U == {k \in Nat : N - k \in T}
<1>1. U # {}
  <2>1. PICK i \in T : TRUE
    OBVIOUS
  <2>2. N - i \in Nat /\ N - (N - i) = i
    OBVIOUS
  <2> QED
    BY <2>2
<1>2. PICK k \in U : \A j \in U : k <= j
  <2>1. U \in SUBSET Nat
    OBVIOUS
  <2> HIDE DEF U
  <2> QED
    BY <1>1, <2>1, LeastOne
<1>3. ASSUME NEW j \in T PROVE N - k >= j
  <2>1. N - j \in Nat /\ N - (N - j) = j
    OBVIOUS
  <2>2. k <= N - j
    BY <1>2, <2>1
  <2> QED
    BY <2>2
<1> QED
  BY <1>2, <1>3

\* A nonempty sequence of nodes has a least one.
LEMMA LeastPlace ==
  ASSUME NEW c \in Seq(Nodes), Len(c) >= 1
  PROVE  \E i \in 1..Len(c) : \A j \in 1..Len(c) : c[i] <= c[j]
<1>1. NodesOn(c) \in SUBSET Nat /\ c[1] \in NodesOn(c)
  <2>1. \A i \in 1..Len(c) : c[i] \in Nat
    BY ElementOfSeq, NodesAreOrdered
  <2> QED
    BY <2>1 DEF NodesOn
<1>2. PICK x \in NodesOn(c) : \A y \in NodesOn(c) : x <= y
  BY <1>1, LeastOne
<1> QED
  BY <1>2 DEF NodesOn

LEMMA LeastExists ==
  ASSUME NEW c \in Seq(Nodes), Len(c) >= 1
  PROVE  LeastAt(c) \in 1..Len(c)
BY LeastPlace DEF LeastAt

\* The normal form of a cycle is the cycle from its least node on.
LEMMA NormalizeTurns ==
  ASSUME NEW c \in Seq(Nodes), Len(c) >= 1
  PROVE  /\ LeastAt(c) \in 1..Len(c) /\ Normalize(c) \in Seq(Nodes) /\ Len(Normalize(c)) = Len(c)
         /\ \A i \in 1..Len(c) : Normalize(c)[i] =
              IF i <= Len(c) - LeastAt(c) + 1 THEN c[LeastAt(c) + i - 1]
              ELSE c[i - (Len(c) - LeastAt(c) + 1)]
<1> DEFINE L == Len(c)  m == LeastAt(c)
           a == SubSeq(c, m, L)  b == SubSeq(c, 1, m - 1)
           n == a \o b
<1>1. L \in Nat /\ m \in 1..L
  BY LeastExists
<1>2. /\ a \in Seq(Nodes) /\ Len(a) = L - m + 1
      /\ \A i \in 1..(L - m + 1) : a[i] = c[m + i - 1]
  <2>1. \A i \in m..L : c[i] \in Nodes
    BY <1>1
  <2>2. m \in Int /\ L \in Int /\ m <= L
    BY <1>1
  <2> HIDE DEF L, m
  <2> QED BY <2>1, <2>2, SubSeqProperties
<1>3. /\ b \in Seq(Nodes) /\ Len(b) = m - 1
      /\ \A i \in 1..(m - 1) : b[i] = c[i]
  <2>1. \A i \in 1..(m - 1) : c[i] \in Nodes
    BY <1>1
  <2>2. m \in Int /\ m - 1 \in Int /\ m >= 1
    BY <1>1
  <2> HIDE DEF m
  <2>3. /\ SubSeq(c, 1, m - 1) \in Seq(Nodes)
        /\ Len(SubSeq(c, 1, m - 1)) = IF 1 <= m - 1 THEN (m - 1) - 1 + 1 ELSE 0
        /\ \A i \in 1..((m - 1) - 1 + 1) : SubSeq(c, 1, m - 1)[i] = c[1 + i - 1]
    BY <2>1, <2>2, SubSeqProperties
  <2>4. \A i \in 1..(m - 1) : i \in 1..((m - 1) - 1 + 1) /\ 1 + i - 1 = i
    BY <2>2
  <2>5. Len(b) = m - 1
    BY <2>2, <2>3
  <2>6. \A i \in 1..(m - 1) : b[i] = c[i]
    BY <2>3, <2>4
  <2> QED BY <2>3, <2>5, <2>6
<1>L. L = Len(c)
  OBVIOUS
<1> HIDE DEF a, b, m, L
<1>4. /\ Len(n) = L
      /\ \A i \in 1..L : n[i] = IF i <= L - m + 1 THEN c[m + i - 1] ELSE c[i - (L - m + 1)]
  <2>1. /\ Len(n) = Len(a) + Len(b)
        /\ \A i \in 1..(Len(a) + Len(b)) : n[i] = IF i <= Len(a) THEN a[i] ELSE b[i - Len(a)]
    BY <1>2, <1>3, ConcatProperties
  <2>2. Len(a) + Len(b) = L
    BY <1>1, <1>2, <1>3
  <2>3. ASSUME NEW i \in 1..L
        PROVE  n[i] = IF i <= L - m + 1 THEN c[m + i - 1] ELSE c[i - (L - m + 1)]
    <3> i \in 1..(Len(a) + Len(b)) /\ L - m + 1 \in Nat /\ Len(a) = L - m + 1
      BY <1>1, <1>2, <2>2
    <3>1. CASE i <= L - m + 1
      <4>1. i \in 1..(L - m + 1) /\ n[i] = a[i]
        BY <2>1, <3>1
      <4>2. a[i] = c[m + i - 1]
        BY <1>2, <4>1
      <4> QED BY <3>1, <4>1, <4>2
    <3>2. CASE i > L - m + 1
      <4>1. i - (L - m + 1) \in 1..(m - 1)
        BY <1>1, <3>2
      <4>2. n[i] = b[i - (L - m + 1)] /\ ~ (i <= L - m + 1)
        BY <2>1, <3>2
      <4>3. b[i - (L - m + 1)] = c[i - (L - m + 1)]
        BY <1>3, <4>1
      <4> QED BY <4>2, <4>3
    <3>3. i <= L - m + 1 \/ i > L - m + 1
      OBVIOUS
    <3> QED BY <3>1, <3>2, <3>3
  <2> QED BY <2>1, <2>2, <2>3
<1>5. n \in Seq(Nodes)
  BY <1>2, <1>3, ConcatProperties
<1>6. Normalize(c) = n
  BY DEF Normalize, a, b, m, L
<1> HIDE DEF n
<1> QED BY <1>1, <1>4, <1>5, <1>6 DEF m, L

\* The normal form of a cycle has the edges of the cycle.
LEMMA NormalizeKeepsLinks ==
  ASSUME NEW c \in Seq(Nodes), Len(c) >= 1
  PROVE  Links(Normalize(c)) = Links(c)
<1> DEFINE L == Len(c)  m == LeastAt(c)  n == Normalize(c)
<1>1. L \in Nat /\ m \in 1..L
  BY LeastExists
<1>L. L = Len(c)
  OBVIOUS
<1>4. /\ Len(n) = L
      /\ \A i \in 1..L : n[i] = IF i <= L - m + 1 THEN c[m + i - 1] ELSE c[i - (L - m + 1)]
  BY NormalizeTurns
<1> HIDE DEF m, L
<1> HIDE DEF n
<1> DEFINE Succ(s, i) == IF i = Len(s) THEN s[1] ELSE s[i + 1]
           At(i) == IF i <= L - m + 1 THEN m + i - 1 ELSE i - (L - m + 1)
           From(j) == IF j >= m THEN j - m + 1 ELSE j + (L - m + 1)
<1>5. ASSUME NEW i \in 1..L
      PROVE  At(i) \in 1..L /\ n[i] = c[At(i)] /\ Succ(n, i) = Succ(c, At(i))
  <2>1. At(i) \in 1..L /\ n[i] = c[At(i)]
    <3>1. n[i] = c[At(i)]
      BY <1>4
    <3>2. At(i) \in 1..L
      BY <1>1
    <3> QED
      BY <3>1, <3>2
  <2>2. CASE i = L
    <3>1. n[1] = c[m] /\ Succ(n, i) = n[1]
      <4>1. Succ(n, i) = n[1]
        BY <1>4, <2>2
      <4>2. 1 \in 1..L /\ 1 <= L - m + 1 /\ m + 1 - 1 = m
        BY <1>1
      <4> QED BY <1>4, <4>1, <4>2
    <3>2. CASE m = 1
      BY <1>1, <1>4, <1>L, <2>1, <2>2, <3>1, <3>2
    <3>3. CASE m > 1
      <4>1. At(i) = m - 1
        BY <1>1, <2>2, <3>3
      <4> QED BY <1>1, <1>L, <2>1, <3>1, <3>3, <4>1
    <3> QED BY <1>1, <2>1, <3>2, <3>3
  <2>3. CASE i < L
    <3>1. i + 1 \in 1..L /\ Succ(n, i) = n[i + 1]
      BY <1>1, <1>4, <2>3
    <3>2. n[i + 1] = c[At(i + 1)]
      BY <1>1, <1>4, <3>1
    <3>3. CASE i = L - m + 1
      BY <1>1, <1>L, <2>1, <2>3, <3>1, <3>2, <3>3
    <3>4. CASE i # L - m + 1
      <4>1. At(i + 1) = At(i) + 1 /\ At(i) # L
        BY <1>1, <2>3, <3>4
      <4> QED BY <1>1, <1>L, <2>1, <3>1, <3>2, <4>1
    <3> QED BY <2>1, <3>3, <3>4
  <2> QED BY <1>1, <2>2, <2>3
<1>6. ASSUME NEW j \in 1..L
      PROVE  From(j) \in 1..L /\ At(From(j)) = j
  BY <1>1
<1>7. Links(n) = {<<n[i], Succ(n, i)>> : i \in 1..L}
  BY <1>4 DEF Links
<1>8. Links(c) = {<<c[i], Succ(c, i)>> : i \in 1..L}
  BY DEF Links, L
<1> HIDE DEF Succ, At, From
<1>9. Links(n) \subseteq Links(c)
  BY <1>5, <1>7, <1>8
<1>10. Links(c) \subseteq Links(n)
  <2>1. ASSUME NEW j \in 1..L PROVE <<c[j], Succ(c, j)>> \in Links(n)
    BY <1>5, <1>6, <1>7
  <2> QED BY <1>8, <2>1
<1> QED BY <1>9, <1>10 DEF n

\* What a frame's tip closes is a cycle.
LEMMA ClosingIsCycle ==
  ASSUME NEW p \in Seq(Nodes), SimplePath(p),
         NEW i \in 1..Len(p), <<Tip(p), p[i]>> \in adj
  PROVE  Closing(p, i) \in Seq(Nodes) /\ SimpleCycle(Closing(p, i))
<1> DEFINE c == Closing(p, i)  L == Len(p)
<1>1. L \in Nat /\ i \in 1..L /\ \A j \in 1..L : p[j] \in Nodes
  OBVIOUS
<1>2. /\ c \in Seq(Nodes) /\ Len(c) = L - i + 1
      /\ \A j \in 1..(L - i + 1) : c[j] = p[i + j - 1]
  <2>1. i \in Int /\ L \in Int /\ i <= L /\ \A j \in i..L : p[j] \in Nodes
    BY <1>1
  <2> HIDE DEF L
  <2> QED BY <2>1, SubSeqProperties DEF Closing, L
<1> HIDE DEF c, L
<1>8. L \in Nat /\ i \in Nat /\ 1 <= i /\ i <= L /\ Len(c) = L - i + 1
  BY <1>1, <1>2
<1>3. Len(c) >= 1
  BY <1>1, <1>2
<1>4. \A j, k \in 1..Len(c) : c[j] = c[k] => j = k
  <2> TAKE j, k \in 1..Len(c)
  <2>1. /\ j \in 1..(L - i + 1) /\ k \in 1..(L - i + 1)
        /\ i + j - 1 \in 1..L /\ i + k - 1 \in 1..L
    BY <1>8
  <2>2. p[i + j - 1] = p[i + k - 1] => i + j - 1 = i + k - 1
    BY <2>1 DEF SimplePath, L
  <2>3. c[j] = p[i + j - 1] /\ c[k] = p[i + k - 1]
    BY <1>2, <2>1
  <2> QED BY <1>1, <2>1, <2>2, <2>3
<1>5. \A j \in 1..(Len(c) - 1) : <<c[j], c[j + 1]>> \in adj
  <2> TAKE j \in 1..(Len(c) - 1)
  <2>1. /\ j \in 1..(L - i + 1) /\ j + 1 \in 1..(L - i + 1)
        /\ i + j - 1 \in 1..(L - 1) /\ i + (j + 1) - 1 = (i + j - 1) + 1
    BY <1>8
  <2>2. <<p[i + j - 1], p[(i + j - 1) + 1]>> \in adj
    BY <2>1 DEF SimplePath, L
  <2> QED BY <1>2, <2>1, <2>2
<1>6. <<Tip(c), c[1]>> \in adj
  <2>1. c[1] = p[i] /\ c[Len(c)] = p[L]
    BY <1>1, <1>2
  <2> QED BY <2>1 DEF Tip, L
<1> QED BY <1>2, <1>3, <1>4, <1>5, <1>6 DEF SimpleCycle, SimplePath, c

\* A simple path may go on to a node it has not been to.
LEMMA PathExtends ==
  ASSUME NEW p \in Seq(Nodes), SimplePath(p), NEW n \in Nodes, <<Tip(p), n>> \in adj, n \notin NodesOn(p)
  PROVE  Append(p, n) \in Seq(Nodes) /\ SimplePath(Append(p, n)) /\ Tip(Append(p, n)) = n
         /\ Len(Append(p, n)) = Len(p) + 1
<1> DEFINE q == Append(p, n)
<1>1. Len(p) \in Nat /\ Len(p) >= 1
  BY DEF SimplePath
<1>2. /\ q \in Seq(Nodes) /\ Len(q) = Len(p) + 1
      /\ \A j \in 1..Len(p) : q[j] = p[j]
      /\ q[Len(p) + 1] = n
  BY AppendProperties
<1> HIDE DEF q
<1>3. \A j \in 1..Len(p) : p[j] # n
  BY DEF NodesOn
<1>4. \A j, k \in 1..Len(q) : q[j] = q[k] => j = k
  <2> TAKE j, k \in 1..Len(q)
  <2>1. CASE j \in 1..Len(p) /\ k \in 1..Len(p)
    BY <1>2, <2>1 DEF SimplePath
  <2>2. CASE j = Len(p) + 1 \/ k = Len(p) + 1
    BY <1>1, <1>2, <1>3, <2>2
  <2> QED
    BY <1>1, <1>2, <2>1, <2>2
<1>5. \A j \in 1..(Len(q) - 1) : <<q[j], q[j + 1]>> \in adj
  <2> TAKE j \in 1..(Len(q) - 1)
  <2>1. CASE j = Len(p)
    BY <1>1, <1>2, <2>1 DEF Tip
  <2>2. CASE j # Len(p)
    <3>1. j \in 1..(Len(p) - 1) /\ j \in 1..Len(p) /\ j + 1 \in 1..Len(p)
      BY <1>1, <1>2, <2>2
    <3> QED
      BY <1>2, <3>1 DEF SimplePath
  <2> QED
    BY <2>1, <2>2
<1>6. SimplePath(q) /\ Tip(q) = n
  BY <1>1, <1>2, <1>4, <1>5 DEF SimplePath, Tip
<1> QED
  BY <1>2, <1>6 DEF q

\* What is pushed is a simple path again.
LEMMA PushedIsSimple ==
  ASSUME NEW p \in Seq(Nodes), SimplePath(p), NEW q \in Pushed(p)
  PROVE  q \in Seq(Nodes) /\ SimplePath(q)
BY PathExtends DEF Pushed

\* A proper prefix of a cycle that is popped is replaced by the next one.
LEMMA NextPrefixPushed ==
  ASSUME NEW c \in Seq(Nodes), SimpleCycle(c), Len(c) <= MaxDepth,
         NEW k \in 1..(Len(c) - 1)
  PROVE  SubSeq(c, 1, k + 1) \in Pushed(SubSeq(c, 1, k))
<1> DEFINE p == SubSeq(c, 1, k)
<1>1. Len(c) \in Nat /\ k \in Nat /\ k + 1 \in 1..Len(c) /\ k \in 1..Len(c)
  OBVIOUS
<1>2. c[k + 1] \in Nodes
  BY <1>1, ElementOfSeq
<1>3. /\ p \in Seq(Nodes) /\ Len(p) = k
      /\ \A j \in 1..k : p[j] = c[j]
  <2>1. \A j \in 1..k : c[j] \in Nodes
    BY <1>1, ElementOfSeq
  <2>2. /\ p \in Seq(Nodes) /\ Len(p) = IF 1 <= k THEN k - 1 + 1 ELSE 0
        /\ \A j \in 1..(k - 1 + 1) : p[j] = c[1 + j - 1]
    BY <1>1, <2>1, SubSeqProperties
  <2>3. k - 1 + 1 = k /\ \A j \in 1..k : 1 + j - 1 = j
    BY <1>1
  <2> QED BY <1>1, <2>2, <2>3
<1>4. SubSeq(c, 1, k + 1) = Append(p, c[k + 1])
  <2>1. SubSeq(c, 1, k + 1) = SubSeq(c, 1, (k + 1) - 1) \o <<c[k + 1]>>
    BY <1>1, SubSeqRecursiveSecond
  <2>2. (k + 1) - 1 = k
    BY <1>1
  <2> HIDE DEF p
  <2>3. Append(p, c[k + 1]) = p \o <<c[k + 1]>>
    BY <1>2, <1>3, AppendIsConcat
  <2> QED BY <2>1, <2>2, <2>3 DEF p
<1> HIDE DEF p
<1>5. c[k + 1] \notin NodesOn(p)
  <2>1. \A j \in 1..k : c[j] # c[k + 1]
    BY <1>1 DEF SimpleCycle, SimplePath
  <2> QED BY <1>3, <2>1 DEF NodesOn
<1>6. <<Tip(p), c[k + 1]>> \in adj
  <2>1. Tip(p) = c[k]
    BY <1>1, <1>3 DEF Tip
  <2>2. <<c[k], c[k + 1]>> \in adj
    BY DEF SimpleCycle, SimplePath
  <2> QED BY <2>1, <2>2
<1>7. Deeper(p)
  BY <1>1, <1>3, MaxDepthAssumption DEF Deeper
<1> QED BY <1>2, <1>4, <1>5, <1>6, <1>7 DEF Pushed, p

\* A whole cycle that is popped closes on its first node.
LEMMA WholeCycleCloses ==
  ASSUME NEW c \in Seq(Nodes), SimpleCycle(c)
  PROVE  SubSeq(c, 1, Len(c)) = c /\ c \in ClosedBy(c)
<1>1. SubSeq(c, 1, Len(c)) = c
  BY SubSeqFull
<1>2. 1 \in 1..Len(c) /\ <<Tip(c), c[1]>> \in adj
  BY DEF SimpleCycle, SimplePath
<1> QED BY <1>1, <1>2 DEF ClosedBy, Closing

-----------------------------------------------------------------------------
(***************************************************************************)
(* The inductive invariant.                                                *)
(***************************************************************************)
LEMMA SearchInitInv == SearchInit => SearchInv
<1> SUFFICES ASSUME SearchInit PROVE SearchInv
  OBVIOUS
<1> USE DEF SearchInit
<1>1. SearchTypeOK
  BY DEF SearchTypeOK, Participants
<1>2. FramesSimple /\ CyclesAreReal
  BY DEF FramesSimple, CyclesAreReal
<1>3. Covered
  <2> SUFFICES ASSUME NEW c \in Seq(Nodes), SimpleCycle(c) PROVE c[1] \in todo
    BY DEF Covered
  <2>1. \E n : <<c[1], n>> \in adj
    <3>1. CASE Len(c) = 1
      BY <3>1 DEF SimpleCycle, SimplePath, Tip
    <3>2. CASE Len(c) # 1
      <4>1. 1 \in 1..(Len(c) - 1)
        <5>1. Len(c) \in Nat /\ Len(c) >= 1
          BY DEF SimpleCycle, SimplePath
        <5>2. \A n \in Nat : n >= 1 /\ n # 1 => 1 \in 1..(n - 1)
          OBVIOUS
        <5> HIDE DEF SearchInit
        <5> QED BY <3>2, <5>1, <5>2
      <4> QED BY <4>1 DEF SimpleCycle, SimplePath
    <3> QED BY <3>1, <3>2
  <2> QED BY <2>1 DEF Participants
<1> QED BY <1>1, <1>2, <1>3 DEF SearchInv

LEMMA NextStartInv == SearchInv /\ NextStart => SearchInv'
<1> SUFFICES ASSUME SearchInv, NextStart PROVE SearchInv'
  OBVIOUS
<1> USE DEF SearchInv
<1>1. PICK s \in todo : frames' = {<<s>>} /\ todo' = todo \ {s}
  BY DEF NextStart
<1>2. adj' = adj /\ reported' = reported /\ frames = {}
  BY DEF NextStart
<1>3. s \in Nodes
  BY DEF SearchTypeOK
<1>4. SearchTypeOK'
  BY <1>1, <1>2, <1>3 DEF SearchTypeOK
<1>5. FramesSimple'
  <2>1. Len(<<s>>) = 1 /\ \A i, j \in 1..1 : i = j
    OBVIOUS
  <2>2. 1..(1 - 1) = {}
    OBVIOUS
  <2>3. SimplePath(<<s>>)'
    BY <2>1, <2>2 DEF SimplePath
  <2> QED BY <1>1, <2>3 DEF FramesSimple
<1>6. CyclesAreReal'
  BY <1>2 DEF CyclesAreReal, SimpleCycle, SimplePath, Tip
<1>7. Covered'
  <2> SUFFICES ASSUME NEW c \in Seq(Nodes), SimpleCycle(c)', Len(c) <= MaxDepth, c[1] \notin todo'
               PROVE  (Normalize(c) \in Seen \/ \E k \in 1..Len(c) : SubSeq(c, 1, k) \in frames)'
    BY DEF Covered
  <2>1. SimpleCycle(c)
    BY <1>2 DEF SimpleCycle, SimplePath, Tip
  <2>2. CASE c[1] = s
    <3>1. 1 \in 1..Len(c) /\ Len(c) \in Nat
      BY <2>1 DEF SimpleCycle, SimplePath
    <3>2. SubSeq(c, 1, 1) = <<c[1]>> \o SubSeq(c, 1 + 1, 1)
      BY <3>1, SubSeqRecursiveFirst
    <3>3. SubSeq(c, 1 + 1, 1) = << >>
      BY SubSeqEmpty
    <3>4. <<c[1]>> \o << >> = <<c[1]>>
      <4>1. <<c[1]>> \in Seq(Nodes)
        BY <1>3, <2>2
      <4> QED BY <4>1, ConcatEmptySeq
    <3>5. SubSeq(c, 1, 1) \in frames'
      BY <1>1, <2>2, <3>2, <3>3, <3>4
    <3> QED BY <3>1, <3>5
  <2>3. CASE c[1] # s
    <3>1. c[1] \notin todo
      BY <1>1, <2>3
    <3>2. Normalize(c) \in Seen
      BY <1>2, <2>1, <3>1 DEF Covered
    <3> QED BY <1>2, <3>2 DEF Seen
  <2> QED BY <2>2, <2>3
<1> QED BY <1>4, <1>5, <1>6, <1>7

LEMMA PopFrameInv == SearchInv /\ PopFrame => SearchInv'
<1> SUFFICES ASSUME SearchInv, PopFrame PROVE SearchInv'
  OBVIOUS
<1> USE DEF SearchInv
<1>1. PICK path \in frames :
        /\ reported' = reported \cup {c \in ClosedBy(path) : Normalize(c) \notin Seen}
        /\ frames' = (frames \ {path}) \cup Pushed(path)
  BY DEF PopFrame
<1>2. adj' = adj /\ todo' = todo
  BY DEF PopFrame
<1>3. path \in Seq(Nodes) /\ SimplePath(path)
  BY DEF SearchTypeOK, FramesSimple
<1>4. \A q \in Pushed(path) : q \in Seq(Nodes) /\ SimplePath(q)
  BY <1>3, PushedIsSimple
<1>5. \A c \in ClosedBy(path) : c \in Seq(Nodes) /\ SimpleCycle(c)
  BY <1>3, ClosingIsCycle DEF ClosedBy
<1>6. SearchTypeOK'
  BY <1>1, <1>2, <1>4, <1>5 DEF SearchTypeOK
<1>7. \A p : SimplePath(p)' <=> SimplePath(p)
  BY <1>2 DEF SimplePath
<1>8. \A p : SimpleCycle(p)' <=> SimpleCycle(p)
  BY <1>2, <1>7 DEF SimpleCycle, Tip
<1>9. FramesSimple'
  BY <1>1, <1>4, <1>7 DEF FramesSimple
<1>10. CyclesAreReal'
  BY <1>1, <1>5, <1>8 DEF CyclesAreReal
<1>11. Seen \subseteq Seen' /\ \A c \in ClosedBy(path) : Normalize(c) \in Seen'
  BY <1>1 DEF Seen
<1>12. Covered'
  <2> SUFFICES ASSUME NEW c \in Seq(Nodes), SimpleCycle(c)', Len(c) <= MaxDepth, c[1] \notin todo'
               PROVE  (Normalize(c) \in Seen \/ \E k \in 1..Len(c) : SubSeq(c, 1, k) \in frames)'
    BY DEF Covered
  <2>1. SimpleCycle(c) /\ c[1] \notin todo
    BY <1>2, <1>8
  <2>2. CASE Normalize(c) \in Seen
    BY <1>11, <2>2
  <2>3. CASE \E k \in 1..Len(c) : SubSeq(c, 1, k) \in frames
    <3>1. PICK k \in 1..Len(c) : SubSeq(c, 1, k) \in frames
      BY <2>3
    <3>2. CASE SubSeq(c, 1, k) # path
      BY <1>1, <3>1, <3>2
    <3>3. CASE SubSeq(c, 1, k) = path /\ k = Len(c)
      BY <1>11, <2>1, <3>3, WholeCycleCloses
    <3>4. CASE SubSeq(c, 1, k) = path /\ k # Len(c)
      <4>1. k \in 1..(Len(c) - 1) /\ k + 1 \in 1..Len(c)
        BY <3>4
      <4>2. SubSeq(c, 1, k + 1) \in frames'
        BY <1>1, <2>1, <3>4, <4>1, NextPrefixPushed
      <4> QED BY <4>1, <4>2
    <3> QED BY <3>2, <3>3, <3>4
  <2> QED BY <2>1, <2>2, <2>3 DEF Covered
<1> QED BY <1>6, <1>9, <1>10, <1>12

LEMMA SearchInvInductive == SearchInv /\ [SearchNext]_search => SearchInv'
<1> SUFFICES ASSUME SearchInv, [SearchNext]_search PROVE SearchInv'
  OBVIOUS
<1>1. CASE NextStart
  BY <1>1, NextStartInv
<1>2. CASE PopFrame
  BY <1>2, PopFrameInv
<1>3. CASE UNCHANGED search
  <2>1. /\ SearchTypeOK' <=> SearchTypeOK
        /\ FramesSimple' <=> FramesSimple
        /\ CyclesAreReal' <=> CyclesAreReal
    BY <1>3 DEF search, SearchTypeOK, FramesSimple, CyclesAreReal, SimpleCycle, SimplePath, Tip
  <2>2. Covered' <=> Covered
    BY <1>3 DEF search, Covered, Seen, SimpleCycle, SimplePath, Tip
  <2> QED BY <2>1, <2>2 DEF SearchInv
<1> QED BY <1>1, <1>2, <1>3 DEF SearchNext

\* With nothing left to do, nothing is left to find.
LEMMA InvGivesEveryCycle == SearchInv => EveryCycleFound
<1> SUFFICES ASSUME SearchInv, SearchDone, NEW c \in Cycles
             PROVE  \E r \in reported : Links(r) = Links(c)
  BY DEF EveryCycleFound
<1>1. c \in Seq(Nodes) /\ SimpleCycle(c) /\ Len(c) <= MaxDepth
  BY MaxDepthAssumption DEF Cycles
<1>2. c[1] \notin todo /\ frames = {}
  BY DEF SearchDone
<1>3. Normalize(c) \in Seen
  BY <1>1, <1>2 DEF SearchInv, Covered
<1>4. PICK r \in reported : Normalize(r) = Normalize(c)
  BY <1>3 DEF Seen
<1>5. r \in Seq(Nodes) /\ Len(r) >= 1 /\ Len(c) >= 1
  BY <1>1 DEF SearchInv, SearchTypeOK, CyclesAreReal, SimpleCycle, SimplePath
<1>6. Links(r) = Links(Normalize(r)) /\ Links(c) = Links(Normalize(c))
  BY <1>1, <1>5, NormalizeKeepsLinks
<1> QED BY <1>4, <1>6

-----------------------------------------------------------------------------
\* The states of the search have their types.
THEOREM SearchTyped == SearchSpec => []SearchTypeOK
<1>1. SearchInv => SearchTypeOK
  BY DEF SearchInv
<1> QED BY <1>1, SearchInitInv, SearchInvInductive, PTL DEF SearchSpec

\* Everything the rule reports is a cycle of live edges, at any time.
THEOREM CyclesReal == SearchSpec => []CyclesAreReal
<1>1. SearchInv => CyclesAreReal
  BY DEF SearchInv
<1> QED BY <1>1, SearchInitInv, SearchInvInductive, PTL DEF SearchSpec

\* Every simple cycle of at most MaxDepth nodes is reported, in some rotation.
THEOREM EveryCycle == SearchSpec => []EveryCycleFound
<1> QED BY InvGivesEveryCycle, SearchInitInv, SearchInvInductive, PTL DEF SearchSpec

-----------------------------------------------------------------------------
(***************************************************************************)
(* A cycle has one normal form, whatever its rotation.                     *)
(***************************************************************************)

\* A normal form has no node twice, and the least one first.
LEMMA NormalizeOrders ==
  ASSUME NEW c \in Seq(Nodes), Len(c) >= 1, \A i, j \in 1..Len(c) : c[i] = c[j] => i = j,
         NEW n, n = Normalize(c)
  PROVE  /\ n \in Seq(Nodes) /\ Len(n) \in Nat /\ Len(n) >= 1
         /\ \A i, j \in 1..Len(n) : n[i] = n[j] => i = j
         /\ \A i \in 1..Len(n) : n[1] <= n[i]
<1> DEFINE L == Len(c)  m == LeastAt(c)
           At(i) == IF i <= L - m + 1 THEN m + i - 1 ELSE i - (L - m + 1)
<1>1. L \in Nat /\ m \in 1..L /\ n \in Seq(Nodes) /\ Len(n) = L
  BY NormalizeTurns
<1>2. \A i \in 1..L : n[i] = c[At(i)]
  BY NormalizeTurns
<1> HIDE DEF m, L
<1>3. \A i \in 1..L : At(i) \in 1..L
  BY <1>1
<1>4. \A i, j \in 1..L : At(i) = At(j) => i = j
  BY <1>1
<1>5. 1 \in 1..L /\ At(1) = m
  BY <1>1 DEF L
<1> HIDE DEF At
<1>6. \A i, j \in 1..L : n[i] = n[j] => i = j
  <2> TAKE i, j \in 1..L
  <2>1. c[At(i)] = c[At(j)] => At(i) = At(j)
    BY <1>3 DEF L
  <2> QED
    BY <1>2, <1>4, <2>1
<1>7. \A i \in 1..L : c[m] <= c[i]
  <2>1. \E i \in 1..Len(c) : \A j \in 1..Len(c) : c[i] <= c[j]
    BY LeastPlace
  <2> QED
    BY <2>1 DEF LeastAt, m, L
<1>8. \A i \in 1..L : n[1] <= n[i]
  <2> TAKE i \in 1..L
  <2>1. n[1] = c[m] /\ n[i] = c[At(i)] /\ c[m] <= c[At(i)]
    BY <1>2, <1>3, <1>5, <1>7
  <2> QED
    BY <2>1
<1> QED
  BY <1>1, <1>6, <1>8 DEF L

\* Where a link leads from the i-th node of a cycle.
After(x, i) == IF i = Len(x) THEN x[1] ELSE x[i + 1]

\* Every node of a cycle has a link, and every link starts at one.
LEMMA LinksFrom ==
  ASSUME NEW x, NEW n
  PROVE  (\E t : <<n, t>> \in Links(x)) <=> (\E i \in 1..Len(x) : n = x[i])
<1>1. Links(x) = {<<x[i], After(x, i)>> : i \in 1..Len(x)}
  BY DEF Links, After
<1>2. ASSUME NEW i \in 1..Len(x) PROVE <<x[i], After(x, i)>> \in Links(x)
  BY <1>1
<1>3. ASSUME NEW t, <<n, t>> \in Links(x) PROVE \E i \in 1..Len(x) : n = x[i]
  BY <1>1, <1>3
<1> QED
  BY <1>2, <1>3

LEMMA PrefixOfSameLinks ==
  ASSUME NEW x \in Seq(Nodes), NEW y \in Seq(Nodes), Len(x) >= 1, Len(y) >= 1,
         Links(x) = Links(y), x[1] = y[1],
         \A i, j \in 1..Len(x) : x[i] = x[j] => i = j,
         \A i, j \in 1..Len(y) : y[i] = y[j] => i = j
  PROVE  \A i \in 1..Len(x) : i \in 1..Len(y) /\ x[i] = y[i]
<1> DEFINE Off == {i \in 1..Len(x) : ~(i \in 1..Len(y) /\ x[i] = y[i])}
<1> SUFFICES ASSUME Off # {} PROVE FALSE
  OBVIOUS
<1>1. Len(x) \in Nat /\ Len(y) \in Nat
  OBVIOUS
<1>2. PICK i \in Off : \A j \in Off : i <= j
  <2>1. Off \in SUBSET Nat
    OBVIOUS
  <2> HIDE DEF Off
  <2> QED
    BY <2>1, LeastOne
<1>3. i \in 1..Len(x) /\ ~(i \in 1..Len(y) /\ x[i] = y[i])
  OBVIOUS
<1>4. i # 1
  BY <1>1, <1>3
<1>5. PICK k \in 1..Len(x) : i = k + 1 /\ k # Len(x)
  BY <1>1, <1>3, <1>4
<1>6. k \in 1..Len(y) /\ x[k] = y[k]
  BY <1>1, <1>2, <1>5
<1> HIDE DEF Off
<1>7. <<x[k], x[i]>> \in Links(y)
  BY <1>5 DEF Links
<1>8. PICK j \in 1..Len(y) : x[k] = y[j] /\ x[i] = After(y, j)
  BY <1>7 DEF Links, After
<1>9. j = k
  BY <1>6, <1>8
<1>10. CASE k = Len(y)
  <2>1. x[i] = x[1] /\ 1 \in 1..Len(x)
    BY <1>1, <1>8, <1>9, <1>10 DEF After
  <2> QED
    BY <1>3, <1>4, <2>1
<1>11. CASE k # Len(y)
  <2>1. i \in 1..Len(y) /\ x[i] = y[i]
    BY <1>1, <1>5, <1>6, <1>8, <1>9, <1>11 DEF After
  <2> QED
    BY <1>3, <2>1
<1> QED
  BY <1>10, <1>11

\* Cycles of the same edges have one normal form.
LEMMA SameLinksOneNormalForm ==
  ASSUME NEW r \in Seq(Nodes), NEW s \in Seq(Nodes), SimplePath(r), SimplePath(s), Links(r) = Links(s)
  PROVE  Normalize(r) = Normalize(s)
<1>1. PICK x : x = Normalize(r)
  OBVIOUS
<1>2. PICK y : y = Normalize(s)
  OBVIOUS
<1>3. /\ Len(r) >= 1 /\ \A i, j \in 1..Len(r) : r[i] = r[j] => i = j
      /\ Len(s) >= 1 /\ \A i, j \in 1..Len(s) : s[i] = s[j] => i = j
  BY DEF SimplePath
<1>4. /\ x \in Seq(Nodes) /\ Len(x) \in Nat /\ Len(x) >= 1
      /\ \A i, j \in 1..Len(x) : x[i] = x[j] => i = j
      /\ \A i \in 1..Len(x) : x[1] <= x[i]
  BY <1>1, <1>3, NormalizeOrders
<1>5. /\ y \in Seq(Nodes) /\ Len(y) \in Nat /\ Len(y) >= 1
      /\ \A i, j \in 1..Len(y) : y[i] = y[j] => i = j
      /\ \A i \in 1..Len(y) : y[1] <= y[i]
  BY <1>2, <1>3, NormalizeOrders
<1>6. Links(x) = Links(y)
  BY <1>1, <1>2, <1>3, NormalizeKeepsLinks
<1>7. x[1] = y[1]
  <2>1. PICK i \in 1..Len(y) : x[1] = y[i]
    <3>1. 1 \in 1..Len(x)
      BY <1>4
    <3>2. \E t : <<x[1], t>> \in Links(x)
      BY <3>1, LinksFrom
    <3> QED
      BY <1>6, <3>2, LinksFrom
  <2>2. PICK j \in 1..Len(x) : y[1] = x[j]
    <3>1. 1 \in 1..Len(y)
      BY <1>5
    <3>2. \E t : <<y[1], t>> \in Links(y)
      BY <3>1, LinksFrom
    <3> QED
      BY <1>6, <3>2, LinksFrom
  <2>3. x[1] <= y[1] /\ y[1] <= x[1]
    BY <1>4, <1>5, <2>1, <2>2
  <2>4. x[1] \in Nat /\ y[1] \in Nat
    <3>1. 1 \in 1..Len(x) /\ 1 \in 1..Len(y)
      BY <1>4, <1>5
    <3>2. x[1] \in Nodes /\ y[1] \in Nodes
      BY <1>4, <1>5, <3>1, ElementOfSeq
    <3> QED
      BY <3>2, NodesAreOrdered
  <2> QED
    BY <2>3, <2>4
<1>8. \A i \in 1..Len(x) : i \in 1..Len(y) /\ x[i] = y[i]
  BY <1>4, <1>5, <1>6, <1>7, PrefixOfSameLinks
<1>9. \A i \in 1..Len(y) : i \in 1..Len(x) /\ y[i] = x[i]
  BY <1>4, <1>5, <1>6, <1>7, PrefixOfSameLinks
<1>10. Len(x) = Len(y)
  BY <1>4, <1>5, <1>8, <1>9
<1>11. x = y
  BY <1>4, <1>5, <1>8, <1>10
<1> QED
  BY <1>1, <1>2, <1>11

-----------------------------------------------------------------------------
\* What the search keeps so that no cycle is reported twice.
OneEach == \A r, s \in reported : Normalize(r) = Normalize(s) => r = s

\* Two cycles that the tip of one frame closes start at different nodes of it.
LEMMA ClosedApart ==
  ASSUME NEW p \in Seq(Nodes), SimplePath(p), NEW c \in ClosedBy(p), NEW d \in ClosedBy(p),
         Links(c) = Links(d)
  PROVE  c = d
<1>1. PICK i \in 1..Len(p) : c = SubSeq(p, i, Len(p))
  BY DEF ClosedBy, Closing
<1>2. PICK j \in 1..Len(p) : d = SubSeq(p, j, Len(p))
  BY DEF ClosedBy, Closing
<1>3. ASSUME NEW k \in 1..Len(p), NEW e, e = SubSeq(p, k, Len(p))
      PROVE  /\ Len(e) = Len(p) - k + 1 /\ \A x \in 1..(Len(p) - k + 1) : e[x] = p[k + x - 1]
  <2>1. k \in Int /\ Len(p) \in Int /\ k <= Len(p) /\ \A x \in k..Len(p) : p[x] \in Nodes
    BY ElementOfSeq
  <2> QED
    BY <1>3, <2>1, SubSeqProperties
<1>4. ASSUME NEW k \in 1..Len(p), NEW l \in 1..Len(p), NEW e, NEW f, k < l,
             e = SubSeq(p, k, Len(p)), f = SubSeq(p, l, Len(p))
      PROVE  Links(e) # Links(f)
  <2>1. Len(e) = Len(p) - k + 1 /\ \A x \in 1..(Len(p) - k + 1) : e[x] = p[k + x - 1]
    BY <1>3, <1>4
  <2>2. Len(f) = Len(p) - l + 1 /\ \A x \in 1..(Len(p) - l + 1) : f[x] = p[l + x - 1]
    BY <1>3, <1>4
  <2>3. Len(p) \in Nat /\ 1 \in 1..Len(e) /\ e[1] = p[k]
    BY <2>1
  <2>4. \E t : <<p[k], t>> \in Links(e)
    BY <2>3, LinksFrom
  <2>5. ASSUME NEW x \in 1..Len(f) PROVE p[k] # f[x]
    <3>1. x \in 1..(Len(p) - l + 1) /\ l + x - 1 \in 1..Len(p) /\ l + x - 1 # k
      BY <1>4, <2>2, <2>3
    <3> QED
      BY <2>2, <3>1 DEF SimplePath
  <2> QED
    BY <2>4, <2>5, LinksFrom
<1>5. i = j
  <2>1. ~(i < j) /\ ~(j < i)
    BY <1>1, <1>2, <1>4
  <2> QED
    BY <2>1
<1> QED
  BY <1>1, <1>2, <1>5

LEMMA OneEachStep ==
  SearchInv /\ OneEach /\ [SearchNext]_search => OneEach'
<1> SUFFICES ASSUME SearchInv, OneEach, [SearchNext]_search PROVE OneEach'
  OBVIOUS
<1>1. CASE reported' = reported
  BY <1>1 DEF OneEach
<1>2. CASE PopFrame
  <2>1. PICK p \in frames :
          reported' = reported \cup {c \in ClosedBy(p) : Normalize(c) \notin Seen}
    BY <1>2 DEF PopFrame
  <2>2. p \in Seq(Nodes) /\ SimplePath(p)
    BY DEF SearchInv, SearchTypeOK, FramesSimple
  <2>3. \A c \in ClosedBy(p) : c \in Seq(Nodes) /\ Len(c) >= 1
    <3>1. \A c \in ClosedBy(p) : c \in Seq(Nodes) /\ SimpleCycle(c)
      BY <2>2, ClosingIsCycle DEF ClosedBy
    <3> QED
      BY <3>1 DEF SimpleCycle, SimplePath
  <2>4. ASSUME NEW c \in ClosedBy(p), NEW d \in ClosedBy(p), Normalize(c) = Normalize(d)
        PROVE  c = d
    <3>1. Links(Normalize(c)) = Links(c) /\ Links(Normalize(d)) = Links(d)
      BY <2>3, NormalizeKeepsLinks
    <3> QED
      BY <2>2, <2>4, <3>1, ClosedApart
  <2>5. \A r \in reported : Normalize(r) \in Seen
    BY DEF Seen
  <2> QED
    BY <2>1, <2>4, <2>5 DEF OneEach
<1>3. CASE NextStart \/ UNCHANGED search
  BY <1>1, <1>3 DEF NextStart, search
<1> QED
  BY <1>2, <1>3 DEF SearchNext

\* However many starts meet a cycle, in whatever rotations and order, it is
\* reported once.
THEOREM EveryCycleOnce == SearchSpec => []ReportedOnce
<1>1. SearchInit => OneEach
  BY DEF SearchInit, OneEach
<1>2. SearchInv /\ OneEach => ReportedOnce
  <2> SUFFICES ASSUME SearchInv, OneEach, NEW r \in reported, NEW s \in reported, Links(r) = Links(s)
               PROVE  r = s
    BY DEF ReportedOnce
  <2>1. r \in Seq(Nodes) /\ s \in Seq(Nodes) /\ SimplePath(r) /\ SimplePath(s)
    BY DEF SearchInv, SearchTypeOK, CyclesAreReal, SimpleCycle
  <2>2. Normalize(r) = Normalize(s)
    BY <2>1, SameLinksOneNormalForm
  <2> QED
    BY <2>2 DEF OneEach
<1> QED
  BY <1>1, <1>2, SearchInitInv, SearchInvInductive, OneEachStep, PTL DEF SearchSpec

-----------------------------------------------------------------------------
(***************************************************************************)
(* A graph without cycles can be layered: a node's layer is the length of  *)
(* the longest path to it.                                                 *)
(***************************************************************************)
LengthsTo(n) == {Len(p) : p \in {q \in Seq(Nodes) : SimplePath(q) /\ Tip(q) = n}}

LEMMA PathsAreShort ==
  ASSUME IsFiniteSet(Nodes), NEW p \in Seq(Nodes), SimplePath(p)
  PROVE  Len(p) \in 1..Cardinality(Nodes)
<1>1. Len(p) \in Nat /\ Len(p) >= 1 /\ p \in [1..Len(p) -> Nodes]
  BY DEF SimplePath
<1>2. p \in Injection(1..Len(p), Nodes)
  BY <1>1 DEF Injection, IsInjective, SimplePath
<1>3. Cardinality(1..Len(p)) <= Cardinality(Nodes)
  BY <1>2, FS_Injection
<1>4. Cardinality(1..Len(p)) = Len(p)
  BY <1>1, FS_Interval
<1>5. Cardinality(Nodes) \in Nat
  BY FS_CardinalityType
<1> QED
  BY <1>1, <1>3, <1>4, <1>5

LEMMA NoCycleGivesLayers ==
  ASSUME IsFiniteSet(Nodes), adj \subseteq Nodes \X Nodes, \A c \in Seq(Nodes) : ~SimpleCycle(c)
  PROVE  \E rank \in [Nodes -> 1..Cardinality(Nodes)] : \A d \in adj : rank[d[1]] < rank[d[2]]
<1>1. PICK N \in Nat : N = Cardinality(Nodes)
  BY FS_CardinalityType
<1>2. ASSUME NEW n \in Nodes
      PROVE  \E l \in LengthsTo(n) : \A k \in LengthsTo(n) : l >= k
  <2>1. LengthsTo(n) \in SUBSET (0..N)
    BY <1>1, PathsAreShort DEF LengthsTo
  <2>2. LengthsTo(n) # {}
    <3>1. <<n>> \in Seq(Nodes) /\ Len(<<n>>) = 1 /\ <<n>>[1] = n
      OBVIOUS
    <3>2. SimplePath(<<n>>) /\ Tip(<<n>>) = n
      BY <3>1 DEF SimplePath, Tip
    <3> QED
      BY <3>1, <3>2 DEF LengthsTo
  <2> QED
    BY <1>1, <2>1, <2>2, GreatestOne
<1> DEFINE rank == [n \in Nodes |-> CHOOSE l \in LengthsTo(n) : \A k \in LengthsTo(n) : l >= k]
<1>3. \A n \in Nodes : rank[n] \in LengthsTo(n) /\ \A k \in LengthsTo(n) : rank[n] >= k
  BY <1>2
<1>4. rank \in [Nodes -> 1..Cardinality(Nodes)]
  <2>1. \A n \in Nodes : LengthsTo(n) \subseteq 1..Cardinality(Nodes)
    BY PathsAreShort DEF LengthsTo
  <2>2. \A n \in Nodes : rank[n] \in 1..Cardinality(Nodes)
    BY <1>3, <2>1
  <2> QED
    BY <2>2
<1> HIDE DEF rank
<1>5. ASSUME NEW d \in adj PROVE rank[d[1]] < rank[d[2]]
  <2>1. PICK a \in Nodes, b \in Nodes : d = <<a, b>>
    OBVIOUS
  <2>2. PICK p \in Seq(Nodes) : SimplePath(p) /\ Tip(p) = a /\ Len(p) = rank[a]
    BY <1>3 DEF LengthsTo
  <2>3. b \notin NodesOn(p)
    <3> SUFFICES ASSUME b \in NodesOn(p) PROVE FALSE
      OBVIOUS
    <3>1. PICK i \in 1..Len(p) : p[i] = b
      BY DEF NodesOn
    <3>2. <<Tip(p), p[i]>> \in adj
      BY <2>1, <2>2, <3>1
    <3> QED
      BY <2>2, <3>2, ClosingIsCycle
  <2>4. Len(Append(p, b)) \in LengthsTo(b) /\ Len(Append(p, b)) = Len(p) + 1
    <3>1. <<Tip(p), b>> \in adj
      BY <2>1, <2>2
    <3> QED
      BY <2>2, <2>3, <3>1, PathExtends DEF LengthsTo
  <2>5. rank[a] + 1 <= rank[b] /\ rank[a] \in 1..N /\ rank[b] \in 1..N
    BY <1>1, <1>3, <1>4, <2>2, <2>4
  <2> QED
    BY <1>1, <2>1, <2>5
<1> QED
  BY <1>4, <1>5

\* A search that is over and has reported nothing shows that the nodes can be
\* put in layers such that every live edge leads to a later one - if its depth
\* is at least the number of nodes: a smaller one may have cut a cycle off.
SilenceMeansLayers ==
  SearchDone /\ reported = {} /\ Cardinality(Nodes) <= MaxDepth => Acyclic(adj)

LEMMA InvGivesLayers == ASSUME IsFiniteSet(Nodes), SearchInv PROVE SilenceMeansLayers
<1> SUFFICES ASSUME SearchDone, reported = {}, Cardinality(Nodes) <= MaxDepth
             PROVE  Acyclic(adj)
  BY DEF SilenceMeansLayers
<1>1. ASSUME NEW c \in Seq(Nodes), SimpleCycle(c) PROVE FALSE
  <2>1. Len(c) \in 1..Cardinality(Nodes) /\ Cardinality(Nodes) \in Nat
    BY <1>1, PathsAreShort, FS_CardinalityType DEF SimpleCycle
  <2>2. Len(c) \in 1..MaxDepth /\ c \in [1..Len(c) -> Nodes]
    BY <2>1, MaxDepthAssumption
  <2>3. c \in Cycles
    BY <1>1, <2>2 DEF Cycles
  <2> QED
    BY <2>3, InvGivesEveryCycle DEF EveryCycleFound
<1>2. adj \subseteq Nodes \X Nodes
  BY DEF SearchInv, SearchTypeOK
<1> QED
  BY <1>1, <1>2, NoCycleGivesLayers DEF Acyclic

\* What users read into a detector that finds nothing: no cyclic dependencies.
THEOREM SilenceIsProof == ASSUME IsFiniteSet(Nodes) PROVE SearchSpec => []SilenceMeansLayers
<1>1. SearchInv => SilenceMeansLayers
  BY InvGivesLayers
<1> QED
  BY <1>1, SearchInitInv, SearchInvInductive, PTL DEF SearchSpec

-----------------------------------------------------------------------------
(* Attribution.  Lines that neither side reports are kept side by side, so *)
(* that a definition none of whose lines is reported is the same on both   *)
(* sides, and ends where it ended.                                         *)

IsText(f) == f \in Seq({f[i] : i \in DOMAIN f})
Aligned(f, g, P) ==
  \A p, q \in P :
    /\ p[1] \in 1..Len(f) /\ p[2] \in 1..Len(g) /\ f[p[1]] = g[p[2]]
    /\ (p[1] < q[1] <=> p[2] < q[2]) /\ (p[1] = q[1] <=> p[2] = q[2])
Joins(P, s, t, k) == \A i \in 0..k : \E p \in P : p[1] = s + i /\ p[2] = t + i
SameLines(f, g, s, t, k) == \A i \in 0..k : f[s + i] = g[t + i] /\ s + i \in 1..Len(f)
\* Nothing is removed right after p, unless something is added there.
Quiet(f, g, P, p) ==
  Hunk(f, {x[1] : x \in P}, p[1]) = {} => Hunk(g, {x[2] : x \in P}, p[2]) = {}

LEMMA MaxIs ==
  ASSUME NEW N \in Nat, NEW T \in SUBSET (0..N), T # {}
  PROVE  Max(T) \in T /\ \A j \in T : Max(T) >= j
BY GreatestOne DEF Max

LEMMA MinIs ==
  ASSUME NEW T \in SUBSET Nat, T # {}
  PROVE  Min(T) \in T /\ \A j \in T : Min(T) <= j
BY LeastOne DEF Min

LEMMA TextIs ==
  ASSUME NEW f, IsText(f)
  PROVE  Len(f) \in Nat /\ DOMAIN f = 1..Len(f)
BY DEF IsText

LEMMA SwappedAligned ==
  ASSUME NEW f, NEW g, NEW P, Aligned(f, g, P)
  PROVE  Aligned(g, f, OtherSide(P))
<1>1. \A p \in OtherSide(P) : \E q \in P : p[1] = q[2] /\ p[2] = q[1]
  BY DEF OtherSide
<1> QED
  BY <1>1 DEF Aligned

LEMMA SwappedBack ==
  ASSUME NEW P, NEW p \in OtherSide(P)
  PROVE  \E q \in P : p[1] = q[2] /\ p[2] = q[1]
BY DEF OtherSide

LEMMA AlignmentsAligned ==
  ASSUME NEW f, NEW g, IsText(f), IsText(g), NEW P \in Alignments(f, g)
  PROVE  Aligned(f, g, P) /\ P = OtherSide(OtherSide(P))
<1>1. \A p \in P : p \in (1..Len(f)) \X (1..Len(g)) /\ f[p[1]] = g[p[2]]
  BY DEF Alignments
<1>2. \A p, q \in P : p = q \/ (p[1] < q[1] /\ p[2] < q[2]) \/ (q[1] < p[1] /\ q[2] < p[2])
  BY DEF Alignments
<1>3. \A p \in P : p[1] \in 1..Len(f) /\ p[2] \in 1..Len(g) /\ p = <<p[1], p[2]>>
  BY <1>1
<1>4. Aligned(f, g, P)
  BY <1>1, <1>2, <1>3, TextIs DEF Aligned
<1>5. \A p \in P : p \in OtherSide(OtherSide(P))
  <2>1. \A p \in P : <<p[2], p[1]>> \in OtherSide(P)
    BY DEF OtherSide
  <2>2. \A r \in OtherSide(P) : <<r[2], r[1]>> \in OtherSide(OtherSide(P))
    BY DEF OtherSide
  <2> QED
    BY <1>3, <2>1, <2>2
<1>6. \A r \in OtherSide(OtherSide(P)) : r \in P
  <2>1. \A r \in OtherSide(OtherSide(P)) : \E q \in OtherSide(P) : r = <<q[2], q[1]>>
    BY DEF OtherSide
  <2>2. \A q \in OtherSide(P) : \E p \in P : q = <<p[2], p[1]>>
    BY DEF OtherSide
  <2> QED
    BY <1>3, <2>1, <2>2
<1> QED
  BY <1>4, <1>5, <1>6

\* A line that is not reported is kept, and the hunks on both its sides show nowhere.
LEMMA UnreportedKept ==
  ASSUME NEW f, NEW g, IsText(f), NEW P, Aligned(f, g, P),
         NEW i \in 1..Len(f), i \notin ChangedLines(f, g, P)
  PROVE  \E p \in P : p[1] = i /\ Quiet(f, g, P, p)
<1> DEFINE K == {q[1] : q \in P}
           M == {q[2] : q \in P}
<1>1. Len(f) \in Nat
  BY TextIs
<1>2. \A p \in P \cup {<<0, 0>>} : i \notin Span(Hunk(f, K, p[1]), Hunk(g, M, p[2]), p[1])
  BY DEF ChangedLines
<1>3. i \in K
  <2> SUFFICES ASSUME i \notin K PROVE FALSE
    OBVIOUS
  <2> DEFINE T == {j \in 0..i : j \in K \cup {0}}
  <2>1. PICK a \in T : \A j \in T : a >= j
    <3>1. T \in SUBSET (0..i) /\ 0 \in T /\ i \in Nat
      BY <1>1
    <3> HIDE DEF T
    <3> QED
      BY <3>1, GreatestOne
  <2>2. PICK p \in P \cup {<<0, 0>>} : p[1] = a
    <3>1. <<0, 0>>[1] = 0 /\ a \in K \cup {0}
      BY <2>1
    <3> QED
      BY <3>1
  <2>3. a \in 0..i /\ a # i
    BY <1>1, <2>1
  <2>4. i \in Hunk(f, K, a)
    <3>1. i \in (a + 1)..Len(f)
      BY <1>1, <2>3
    <3>2. K \cap (a + 1)..i = {}
      BY <1>1, <2>1, <2>3
    <3> QED
      BY <3>1, <3>2 DEF Hunk
  <2>5. i \in Span(Hunk(f, K, p[1]), Hunk(g, M, p[2]), p[1])
    BY <2>2, <2>4 DEF Span
  <2> QED
    BY <1>2, <2>5
<1>4. PICK p \in P : p[1] = i
  BY <1>3
<1>5. Quiet(f, g, P, p)
  BY <1>2, <1>4 DEF Span, Quiet
<1> QED
  BY <1>4, <1>5

LEMMA NextKept ==
  ASSUME NEW f, NEW g, IsText(f), IsText(g), NEW P, Aligned(f, g, P),
         NEW p \in P, NEW q \in P, q[1] = p[1] + 1, Quiet(f, g, P, p)
  PROVE  q[2] = p[2] + 1
<1> DEFINE K == {x[1] : x \in P}
           M == {x[2] : x \in P}
<1>1. /\ p[1] \in 1..Len(f) /\ p[2] \in 1..Len(g) /\ q[1] \in 1..Len(f) /\ q[2] \in 1..Len(g)
      /\ p[2] < q[2] /\ Len(f) \in Nat /\ Len(g) \in Nat
  <2>1. Len(f) \in Nat /\ Len(g) \in Nat
    BY TextIs
  <2>2. p[1] \in 1..Len(f) /\ p[2] \in 1..Len(g) /\ q[1] \in 1..Len(f) /\ q[2] \in 1..Len(g)
    BY DEF Aligned
  <2>3. p[1] < q[1]
    BY <2>1, <2>2
  <2> QED
    BY <2>1, <2>2, <2>3 DEF Aligned
<1>2. Hunk(f, K, p[1]) = {}
  <2>1. p[1] + 1 \in K
    OBVIOUS
  <2>2. \A j \in (p[1] + 1)..Len(f) : p[1] + 1 \in K \cap (p[1] + 1)..j
    BY <1>1, <2>1
  <2> QED
    BY <2>2 DEF Hunk
<1>3. Hunk(g, M, p[2]) = {}
  BY <1>2 DEF Quiet
<1>4. p[2] + 1 \in (p[2] + 1)..Len(g)
  BY <1>1
<1>5. M \cap (p[2] + 1)..(p[2] + 1) # {}
  BY <1>3, <1>4 DEF Hunk
<1>6. PICK r \in P : r[2] = p[2] + 1
  <2>1. (p[2] + 1)..(p[2] + 1) = {p[2] + 1}
    BY <1>1
  <2> QED
    BY <1>5, <2>1
<1>7. r[1] \in 1..Len(f) /\ p[1] < r[1] /\ (r[1] < q[1] <=> r[2] < q[2])
  <2>1. p[2] < r[2]
    BY <1>1, <1>6
  <2> QED
    BY <2>1 DEF Aligned
<1> QED
  BY <1>1, <1>6, <1>7

\* Lines next to each other of which none is reported stand next to each other on both sides.
LEMMA RunKept ==
  ASSUME NEW f, NEW g, IsText(f), IsText(g), NEW P, Aligned(f, g, P),
         NEW s \in 1..Len(f), NEW n \in Nat, s + n <= Len(f),
         \A i \in 0..n : s + i \notin ChangedLines(f, g, P)
  PROVE  \E t \in 1..Len(g) : Joins(P, s, t, n)
<1>1. Len(f) \in Nat /\ Len(g) \in Nat
  BY TextIs
<1>2. \A i \in 0..n : s + i \in 1..Len(f)
  BY <1>1
<1>3. \A i \in 0..n : \E p \in P : p[1] = s + i /\ Quiet(f, g, P, p)
  <2>1. ASSUME NEW i \in 0..n PROVE \E p \in P : p[1] = s + i /\ Quiet(f, g, P, p)
    <3>1. PICK l \in 1..Len(f) : l = s + i /\ l \notin ChangedLines(f, g, P)
      BY <1>2
    <3>2. \E p \in P : p[1] = l /\ Quiet(f, g, P, p)
      BY <3>1, UnreportedKept
    <3> QED
      BY <3>1, <3>2
  <2> QED
    BY <2>1
<1>4. PICK first \in P : first[1] = s
  <2>1. 0 \in 0..n /\ s + 0 = s
    BY <1>1
  <2> QED
    BY <1>3, <2>1
<1>5. PICK t \in 1..Len(g) : first[2] = t
  BY DEF Aligned
<1> DEFINE Lost == {i \in 0..n : ~\E p \in P : p[1] = s + i /\ p[2] = t + i}
<1>6. CASE Lost = {}
  BY <1>6 DEF Joins
<1>7. CASE Lost # {}
  <2>1. PICK j \in Lost : \A i \in Lost : j <= i
    <3>1. Lost \in SUBSET Nat
      OBVIOUS
    <3> HIDE DEF Lost
    <3> QED
      BY <1>7, <3>1, LeastOne
  <2>2. j \in 0..n /\ ~\E p \in P : p[1] = s + j /\ p[2] = t + j
    OBVIOUS
  <2>3. j # 0
    <3>1. first[1] = s + 0 /\ first[2] = t + 0
      BY <1>1, <1>4, <1>5
    <3> QED
      BY <2>2, <3>1
  <2>4. j - 1 \in 0..n /\ j - 1 \notin Lost
    BY <2>1, <2>2, <2>3
  <2>5. PICK p \in P : p[1] = s + (j - 1) /\ p[2] = t + (j - 1)
    BY <2>4
  <2> HIDE DEF Lost
  <2>6. PICK o \in P : o[1] = s + (j - 1) /\ Quiet(f, g, P, o)
    BY <1>3, <2>4
  <2>7. o[2] = p[2]
    BY <2>5, <2>6 DEF Aligned
  <2>8. PICK q \in P : q[1] = s + j
    BY <1>3, <2>2
  <2>9. q[1] = o[1] + 1
    BY <1>1, <2>2, <2>6, <2>8
  <2>10. q[2] = o[2] + 1
    BY <2>6, <2>9, NextKept
  <2>11. q[2] = t + j
    BY <1>1, <2>2, <2>5, <2>7, <2>10
  <2> QED
    BY <2>2, <2>8, <2>11
<1> QED
  BY <1>6, <1>7

\* Where what starts at s ends: before the next line of these kinds, blank lines off.
Ends(f, s, b, stops) ==
  /\ b \in s..Len(f) /\ \A i \in (s + 1)..b : f[i].kind \notin stops
  /\ b = s \/ f[b].kind # "blank"
  /\ \A x \in (b + 1)..Len(f) : f[x].kind = "blank" \/ \E i \in (s + 1)..x : f[i].kind \in stops

LEMMA EndIs ==
  ASSUME NEW f, IsText(f), NEW s \in 1..Len(f), NEW stops,
         NEW S, S = {i \in 1..Len(f) : i > s /\ f[i].kind \in stops} \cup {Len(f) + 1},
         NEW next, next = Min(S),
         NEW E, E = {i \in s..(next - 1) : i = s \/ f[i].kind # "blank"}
  PROVE  Ends(f, s, Max(E), stops)
<1>1. Len(f) \in Nat /\ s \in Nat
  BY TextIs
<1>2. next \in S /\ \A j \in S : next <= j
  <2>1. S \subseteq Nat /\ S # {}
    BY <1>1
  <2>2. \A T \in SUBSET Nat : T # {} => Min(T) \in T /\ \A j \in T : Min(T) <= j
    BY MinIs
  <2> QED
    BY <2>1, <2>2
<1>3. next \in Nat /\ s < next /\ next <= Len(f) + 1
  BY <1>1, <1>2
<1>4. Max(E) \in E /\ \A j \in E : Max(E) >= j
  <2>1. E \subseteq 0..Len(f) /\ s \in E
    <3>1. s \in s..(next - 1)
      BY <1>1, <1>3
    <3>2. \A i \in s..(next - 1) : i \in 0..Len(f)
      BY <1>1, <1>3
    <3> QED
      BY <3>1, <3>2
  <2>2. \A N \in Nat : \A T \in SUBSET (0..N) : T # {} => Max(T) \in T /\ \A j \in T : Max(T) >= j
    BY MaxIs
  <2> QED
    BY <1>1, <2>1, <2>2
<1>5. PICK b : b = Max(E)
  OBVIOUS
<1>6. b \in s..(next - 1) /\ (b = s \/ f[b].kind # "blank") /\ \A j \in E : b >= j
  BY <1>4, <1>5
<1>7. \A i \in (s + 1)..b : f[i].kind \notin stops
  <2> SUFFICES ASSUME NEW i \in (s + 1)..b, f[i].kind \in stops PROVE FALSE
    OBVIOUS
  <2>1. i \in S
    BY <1>1, <1>3, <1>6
  <2> QED
    BY <1>1, <1>2, <1>3, <1>6, <2>1
<1>8. ASSUME NEW x \in (b + 1)..Len(f), f[x].kind # "blank"
      PROVE  \E i \in (s + 1)..x : f[i].kind \in stops
  <2>1. x \notin E
    BY <1>1, <1>3, <1>6
  <2>2. x >= next
    BY <1>1, <1>3, <1>6, <1>8, <2>1
  <2>3. next \in 1..Len(f) /\ f[next].kind \in stops
    BY <1>1, <1>2, <2>2
  <2> QED
    BY <1>1, <1>3, <2>2, <2>3
<1>9. b \in s..Len(f)
  BY <1>1, <1>3, <1>6
<1> QED
  BY <1>5, <1>6, <1>7, <1>8, <1>9 DEF Ends

LEMMA OneEnd ==
  ASSUME NEW f, IsText(f), NEW s \in 1..Len(f), NEW stops, NEW b, NEW c,
         Ends(f, s, b, stops), Ends(f, s, c, stops)
  PROVE  ~(b < c)
<1> SUFFICES ASSUME b < c PROVE FALSE
  OBVIOUS
<1>1. Len(f) \in Nat /\ s \in Nat /\ b \in s..Len(f) /\ c \in s..Len(f)
  BY TextIs DEF Ends
<1>2. c \in (b + 1)..Len(f) /\ c # s
  BY <1>1
<1> QED
  BY <1>2 DEF Ends

LEMMA EndMoves ==
  ASSUME NEW f, NEW g, IsText(f), IsText(g), NEW s \in 1..Len(f), NEW t \in 1..Len(g), NEW k \in Nat,
         Ends(f, s, s + k, {"def"}), Ends(g, t, t + k, {"def"}), \A i \in 0..k : f[s + i] = g[t + i],
         NEW b, Ends(f, s, b, {"def", "top"})
  PROVE  b \in s..(s + k) /\ Ends(g, t, t + (b - s), {"def", "top"})
<1>1. /\ Len(f) \in Nat /\ Len(g) \in Nat /\ s \in Nat /\ t \in Nat
      /\ b \in s..Len(f) /\ s + k <= Len(f) /\ t + k <= Len(g)
  BY TextIs DEF Ends
<1>2. b <= s + k
  <2> SUFFICES ASSUME b > s + k PROVE FALSE
    BY <1>1
  <2>1. b \in (s + k + 1)..Len(f) /\ b # s
    BY <1>1
  <2>2. f[b].kind # "blank" /\ \A i \in (s + 1)..b : f[i].kind # "def"
    BY <2>1 DEF Ends
  <2> QED
    BY <2>1, <2>2 DEF Ends
<1>3. b - s \in 0..k
  BY <1>1, <1>2
<1>4. \A i \in t..(t + k) : i - t \in 0..k /\ s + (i - t) \in s..(s + k) /\ f[s + (i - t)] = g[i]
  <2>1. ASSUME NEW i \in t..(t + k)
        PROVE  i - t \in 0..k /\ s + (i - t) \in s..(s + k) /\ t + (i - t) = i
    BY <1>1
  <2> QED
    BY <2>1
<1>5. t + (b - s) \in t..Len(g)
  BY <1>1, <1>3
<1>6. \A i \in (t + 1)..(t + (b - s)) : g[i].kind \notin {"def", "top"}
  <2>1. ASSUME NEW i \in (t + 1)..(t + (b - s)) PROVE g[i].kind \notin {"def", "top"}
    <3>1. i \in t..(t + k) /\ s + (i - t) \in (s + 1)..b
      BY <1>1, <1>3
    <3> QED
      BY <1>4, <3>1 DEF Ends
  <2> QED
    BY <2>1
<1>7. t + (b - s) = t \/ g[t + (b - s)].kind # "blank"
  <2>1. b = s \/ f[b].kind # "blank"
    BY DEF Ends
  <2>2. s + (b - s) = b /\ f[s + (b - s)] = g[t + (b - s)]
    <3>1. s + (b - s) = b
      BY <1>1
    <3>2. f[s + (b - s)] = g[t + (b - s)]
      BY <1>3
    <3> QED
      BY <3>1, <3>2
  <2>3. b = s => t + (b - s) = t
    BY <1>1
  <2> QED
    BY <2>1, <2>2, <2>3
<1>8. ASSUME NEW x \in (t + (b - s) + 1)..Len(g)
      PROVE  g[x].kind = "blank" \/ \E i \in (t + 1)..x : g[i].kind \in {"def", "top"}
  <2>1. CASE x <= t + k
    <3>1. x \in t..(t + k) /\ s + (x - t) \in (b + 1)..Len(f)
      BY <1>1, <1>3, <2>1
    <3>2. CASE f[s + (x - t)].kind = "blank"
      BY <1>4, <3>1, <3>2
    <3>3. CASE \E i \in (s + 1)..(s + (x - t)) : f[i].kind \in {"def", "top"}
      <4>1. PICK i \in (s + 1)..(s + (x - t)) : f[i].kind \in {"def", "top"}
        BY <3>3
      <4>2. t + (i - s) \in (t + 1)..x /\ i - s \in 0..k /\ s + (i - s) = i
        BY <1>1, <2>1, <3>1
      <4>3. g[t + (i - s)] = f[i]
        BY <4>2
      <4> QED
        BY <4>1, <4>2, <4>3
    <3> QED
      BY <3>1, <3>2, <3>3 DEF Ends
  <2>2. CASE x > t + k
    <3>1. x \in (t + k + 1)..Len(g)
      BY <1>1, <2>2
    <3> QED
      BY <3>1 DEF Ends
  <2> QED
    BY <1>1, <1>3, <2>1, <2>2
<1> QED
  BY <1>1, <1>2, <1>5, <1>6, <1>7, <1>8 DEF Ends

LEMMA BodyIs ==
  ASSUME NEW f, IsText(f), NEW n, NEW s \in Defs(f), f[s].name = n,
         \A i \in Defs(f) : f[i].name = n => i <= s
  PROVE  \E b : Ends(f, s, b, {"def", "top"}) /\ Body(f, n) = SubSeq(f, s, b)
<1>1. Len(f) \in Nat /\ s \in 1..Len(f)
  BY TextIs DEF Defs
<1>2. PICK T : T = {0} \cup {i \in Defs(f) : f[i].name = n}
  OBVIOUS
<1>3. Max(T) = s
  <2>1. T \subseteq 0..Len(f) /\ T # {} /\ s \in T /\ \A i \in T : i <= s
    <3>1. Defs(f) \subseteq 0..Len(f) /\ 0 \in 0..Len(f) /\ 0 <= s
      BY <1>1 DEF Defs
    <3> QED
      BY <1>2, <3>1
  <2>2. \A N \in Nat : \A U \in SUBSET (0..N) : U # {} => Max(U) \in U /\ \A j \in U : Max(U) >= j
    BY MaxIs
  <2>3. Max(T) \in T /\ Max(T) >= s
    BY <1>1, <2>1, <2>2
  <2>4. Max(T) \in 0..Len(f) /\ Max(T) <= s
    BY <2>1, <2>3
  <2> QED
    BY <1>1, <2>3, <2>4
<1>4. PICK S : S = {i \in 1..Len(f) : i > s /\ f[i].kind \in {"def", "top"}} \cup {Len(f) + 1}
  OBVIOUS
<1>5. PICK next : next = Min(S)
  OBVIOUS
<1>6. PICK E : E = {i \in s..(next - 1) : i = s \/ f[i].kind # "blank"}
  OBVIOUS
<1>7. Ends(f, s, Max(E), {"def", "top"})
  BY <1>1, <1>4, <1>5, <1>6, EndIs
<1>8. Body(f, n) = SubSeq(f, s, Max(E))
  <2>1. Max({0} \cup {i \in Defs(f) : f[i].name = n}) = s
    BY <1>2, <1>3
  <2>2. Min({i \in 1..Len(f) : i > s /\ f[i].kind \in {"def", "top"}} \cup {Len(f) + 1}) = next
    BY <1>4, <1>5
  <2>3. Max({i \in s..(next - 1) : i = s \/ f[i].kind # "blank"}) = Max(E)
    BY <1>6
  <2>4. s # 0
    BY <1>1
  <2> QED
    BY <2>1, <2>2, <2>3, <2>4 DEF Body
<1> QED
  BY <1>7, <1>8

\* A definition that is not reported is kept, line by line, to the end of its block.
LEMMA DefinitionKept ==
  ASSUME NEW f, NEW g, IsText(f), IsText(g), NEW P, Aligned(f, g, P),
         NEW n, n \notin ChangedSymbols(f, ChangedLines(f, g, P)),
         \E i \in Defs(f) : f[i].name = n
  PROVE  \E s \in Defs(f), t \in 1..Len(g), k \in Nat :
           /\ f[s].name = n /\ \A i \in Defs(f) : f[i].name = n => i <= s
           /\ Ends(f, s, s + k, {"def"}) /\ Joins(P, s, t, k)
<1>1. Len(f) \in Nat /\ Len(g) \in Nat
  BY TextIs
<1>2. PICK T : T = {i \in Defs(f) : f[i].name = n}
  OBVIOUS
<1>3. PICK s : s = Max(T)
  OBVIOUS
<1>4. s \in T /\ \A j \in T : s >= j
  <2>1. T \subseteq 0..Len(f) /\ T # {}
    <3>1. Defs(f) \subseteq 0..Len(f)
      BY <1>1 DEF Defs
    <3> QED
      BY <1>2, <3>1
  <2>2. \A N \in Nat : \A U \in SUBSET (0..N) : U # {} => Max(U) \in U /\ \A j \in U : Max(U) >= j
    BY MaxIs
  <2> QED
    BY <1>1, <1>3, <2>1, <2>2
<1>5. s \in Defs(f) /\ f[s].name = n /\ s \in 1..Len(f)
  BY <1>2, <1>4 DEF Defs
<1>6. \A i \in Defs(f) : f[i].name = n => i <= s
  <2>1. \A i \in Defs(f) : i \in Nat
    BY <1>1 DEF Defs
  <2> QED
    BY <1>1, <1>2, <1>4, <1>5, <2>1
<1>7. PICK S : S = {i \in 1..Len(f) : i > s /\ f[i].kind \in {"def"}} \cup {Len(f) + 1}
  OBVIOUS
<1>8. PICK next : next = Min(S)
  OBVIOUS
<1>9. PICK E : E = {i \in s..(next - 1) : i = s \/ f[i].kind # "blank"}
  OBVIOUS
<1>10. PICK e : e = Max(E)
  OBVIOUS
<1>11. Ends(f, s, e, {"def"})
  BY <1>5, <1>7, <1>8, <1>9, <1>10, EndIs
<1>12. SymbolRange(f, n) = s..e
  <2>1. S = {i \in Defs(f) : i > s} \cup {Len(f) + 1}
    BY <1>7 DEF Defs
  <2>2. BlockEnd(f, s) = e
    BY <1>8, <1>9, <1>10, <2>1 DEF BlockEnd
  <2> QED
    BY <1>2, <1>3, <2>2 DEF SymbolRange
<1>13. \A i \in s..e : i \notin ChangedLines(f, g, P)
  <2>1. n \in {f[i].name : i \in Defs(f)}
    OBVIOUS
  <2> QED
    BY <1>12, <2>1 DEF ChangedSymbols
<1>14. PICK k \in Nat : e = s + k /\ s + k <= Len(f)
  <2>1. e \in s..Len(f)
    BY <1>11 DEF Ends
  <2>2. e - s \in Nat /\ e = s + (e - s)
    BY <1>1, <1>5, <2>1
  <2> QED
    BY <1>1, <1>5, <2>1, <2>2
<1>15. \A i \in 0..k : s + i \notin ChangedLines(f, g, P)
  <2>1. \A i \in 0..k : s + i \in s..e
    BY <1>1, <1>5, <1>14
  <2> QED
    BY <1>13, <2>1
<1>16. PICK t \in 1..Len(g) : Joins(P, s, t, k)
  BY <1>5, <1>14, <1>15, RunKept
<1> QED
  BY <1>5, <1>6, <1>11, <1>14, <1>16

LEMMA JoinedSame ==
  ASSUME NEW f, NEW g, NEW P, Aligned(f, g, P), NEW s, NEW t, NEW k, Joins(P, s, t, k)
  PROVE  \A i \in 0..k : f[s + i] = g[t + i] /\ t + i \in 1..Len(g)
BY DEF Joins, Aligned

\* Of two kept blocks that start side by side, none is the longer one.
LEMMA NotLonger ==
  ASSUME NEW f, NEW g, IsText(f), IsText(g), NEW s \in 1..Len(f), NEW t \in 1..Len(g),
         NEW k \in Nat, NEW l \in Nat, Ends(f, s, s + k, {"def"}), Ends(g, t, t + l, {"def"}),
         SameLines(f, g, s, t, l)
  PROVE  ~(k < l)
<1> SUFFICES ASSUME k < l PROVE FALSE
  OBVIOUS
<1> USE DEF SameLines
<1>1. Len(f) \in Nat /\ Len(g) \in Nat
  BY TextIs
<1>2. s + l \in (s + k + 1)..Len(f) /\ l \in 0..l /\ t + l # t
  BY <1>1
<1>3. f[s + l].kind # "blank"
  <2>1. g[t + l].kind # "blank"
    BY <1>2 DEF Ends
  <2> QED
    BY <1>2, <2>1
<1>4. PICK i \in (s + 1)..(s + l) : f[i].kind = "def"
  BY <1>2, <1>3 DEF Ends
<1>5. i - s \in 0..l /\ s + (i - s) = i /\ t + (i - s) \in (t + 1)..(t + l)
  BY <1>1
<1>6. g[t + (i - s)].kind = "def"
  <2>1. f[s + (i - s)] = g[t + (i - s)]
    BY <1>5
  <2> QED
    BY <1>4, <1>5, <2>1
<1> QED
  BY <1>5, <1>6 DEF Ends

LEMMA JoinedBack ==
  ASSUME NEW P, NEW s, NEW t, NEW k, Joins(OtherSide(P), t, s, k)
  PROVE  Joins(P, s, t, k)
<1> SUFFICES ASSUME NEW i \in 0..k PROVE \E p \in P : p[1] = s + i /\ p[2] = t + i
  BY DEF Joins
<1>1. PICK q \in OtherSide(P) : q[1] = t + i /\ q[2] = s + i
  BY DEF Joins
<1> QED
  BY <1>1, SwappedBack

\* Attribution loses no symbol: one that neither side reports has the same definition.
LEMMA NoSymbolLost ==
  ASSUME NEW f, NEW g, IsText(f), IsText(g), NEW P \in Alignments(f, g),
         NEW n, n \notin PairChangedSymbols(f, g, P)
  PROVE  Body(f, n) = Body(g, n)
<1> DEFINE Q == OtherSide(P)
<1>1. /\ Aligned(f, g, P) /\ Aligned(g, f, Q) /\ Len(f) \in Nat /\ Len(g) \in Nat
      /\ n \notin ChangedSymbols(f, ChangedLines(f, g, P)) /\ n \notin ChangedSymbols(g, ChangedLines(g, f, Q))
  BY AlignmentsAligned, SwappedAligned, TextIs DEF PairChangedSymbols
<1>2. \A s, t, k : Joins(Q, t, s, k) => Joins(P, s, t, k)
  BY JoinedBack
<1> HIDE DEF Q
<1>3. (\E i \in Defs(f) : f[i].name = n) <=> (\E i \in Defs(g) : g[i].name = n)
  <2>1. ASSUME \E i \in Defs(f) : f[i].name = n PROVE \E i \in Defs(g) : g[i].name = n
    <3>1. PICK s \in Defs(f), t \in 1..Len(g), k \in Nat : f[s].name = n /\ Joins(P, s, t, k)
      BY <1>1, <2>1, DefinitionKept
    <3>2. 0 \in 0..k /\ s + 0 = s /\ t + 0 = t
      BY <1>1 DEF Defs
    <3>3. f[s] = g[t]
      BY <1>1, <3>1, <3>2, JoinedSame
    <3> QED
      BY <3>1, <3>3 DEF Defs
  <2>2. ASSUME \E i \in Defs(g) : g[i].name = n PROVE \E i \in Defs(f) : f[i].name = n
    <3>1. PICK t \in Defs(g), s \in 1..Len(f), k \in Nat : g[t].name = n /\ Joins(Q, t, s, k)
      BY <1>1, <2>2, DefinitionKept
    <3>2. 0 \in 0..k /\ s + 0 = s /\ t + 0 = t
      BY <1>1 DEF Defs
    <3>3. g[t] = f[s]
      BY <1>1, <3>1, <3>2, JoinedSame
    <3> QED
      BY <3>1, <3>3 DEF Defs
  <2> QED
    BY <2>1, <2>2
<1>4. CASE ~\E i \in Defs(f) : f[i].name = n
  <2>1. {0} \cup {i \in Defs(f) : f[i].name = n} = {0} /\ {0} \cup {i \in Defs(g) : g[i].name = n} = {0}
    BY <1>3, <1>4
  <2>2. Max({0}) = 0
    BY DEF Max
  <2> QED
    BY <2>1, <2>2 DEF Body
<1>5. CASE \E i \in Defs(f) : f[i].name = n
  <2>1. PICK s \in Defs(f), t \in 1..Len(g), k \in Nat :
          /\ f[s].name = n /\ \A i \in Defs(f) : f[i].name = n => i <= s
          /\ Ends(f, s, s + k, {"def"}) /\ Joins(P, s, t, k)
    BY <1>1, <1>5, DefinitionKept
  <2>2. PICK y \in Defs(g), x \in 1..Len(f), l \in Nat :
          /\ g[y].name = n /\ \A i \in Defs(g) : g[i].name = n => i <= y
          /\ Ends(g, y, y + l, {"def"}) /\ Joins(Q, y, x, l)
    BY <1>1, <1>3, <1>5, DefinitionKept
  <2>3. s \in 1..Len(f) /\ y \in 1..Len(g) /\ 0 \in 0..k /\ 0 \in 0..l
        /\ s + 0 = s /\ t + 0 = t /\ y + 0 = y /\ x + 0 = x
    BY <1>1 DEF Defs
  <2>4. PICK p \in P : p[1] = s /\ p[2] = t
    <3>1. \E o \in P : o[1] = s + 0 /\ o[2] = t + 0
      BY <2>1, <2>3 DEF Joins
    <3> QED
      BY <2>3, <3>1
  <2>5. PICK q \in P : q[1] = x /\ q[2] = y
    <3>1. Joins(P, x, y, l)
      BY <1>2, <2>2
    <3>2. \E o \in P : o[1] = x + 0 /\ o[2] = y + 0
      BY <2>3, <3>1 DEF Joins
    <3> QED
      BY <2>3, <3>2
  <2>6. f[s] = g[t] /\ f[x] = g[y] /\ t <= y /\ x <= s
    <3>1. f[s] = g[t] /\ f[x] = g[y]
      BY <1>1, <2>4, <2>5 DEF Aligned
    <3>2. t \in Defs(g) /\ x \in Defs(f)
      BY <3>1 DEF Defs
    <3> QED
      BY <2>1, <2>2, <3>1, <3>2
  <2>7. y = t /\ x = s
    <3>1. (x < s <=> y < t) /\ (x = s <=> y = t)
      BY <1>1, <2>4, <2>5 DEF Aligned
    <3> QED
      BY <1>1, <2>3, <2>6, <3>1
  <2>8. \A i \in 0..k : f[s + i] = g[t + i] /\ t + i \in 1..Len(g)
    BY <1>1, <2>1, JoinedSame
  <2>9. \A i \in 0..l : g[t + i] = f[s + i] /\ s + i \in 1..Len(f)
    <3>1. \A i \in 0..l : g[y + i] = f[x + i] /\ x + i \in 1..Len(f)
      BY <1>1, <2>2, JoinedSame
    <3> QED
      BY <2>7, <3>1
  <2>10. Ends(g, t, t + l, {"def"})
    BY <2>2, <2>7
  <2>11. k = l
    <3>1. Ends(f, s, s + k, {"def"}) /\ Ends(g, t, t + l, {"def"}) /\ t \in 1..Len(g)
      BY <2>1, <2>10
    <3>2. SameLines(f, g, s, t, l)
      BY <2>9 DEF SameLines
    <3>3. ~(k < l)
      BY <2>3, <3>1, <3>2, NotLonger
    <3>4. ~(l < k)
      <4>1. SameLines(g, f, t, s, k)
        BY <2>8 DEF SameLines
      <4> QED
        BY <2>3, <3>1, <4>1, NotLonger
    <3> QED
      BY <3>3, <3>4
  <2>12. PICK b : Ends(f, s, b, {"def", "top"}) /\ Body(f, n) = SubSeq(f, s, b)
    BY <2>1, BodyIs
  <2>13. PICK c : Ends(g, t, c, {"def", "top"}) /\ Body(g, n) = SubSeq(g, t, c)
    BY <2>2, <2>7, BodyIs
  <2>14. b \in s..(s + k) /\ Ends(g, t, t + (b - s), {"def", "top"})
    BY <2>1, <2>3, <2>8, <2>10, <2>11, <2>12, EndMoves
  <2>15. c = t + (b - s)
    <3>1. c \in t..Len(g) /\ b - s \in 0..k /\ t + (b - s) \in Nat
      BY <1>1, <2>3, <2>13, <2>14 DEF Ends
    <3>2. ~(c < t + (b - s)) /\ ~(t + (b - s) < c)
      BY <2>13, <2>14, OneEnd
    <3> QED
      BY <1>1, <3>1, <3>2
  <2>16. SubSeq(f, s, b) = SubSeq(g, t, c)
    <3>1. c - t = b - s /\ b - s \in 0..k
      BY <1>1, <2>3, <2>14, <2>15
    <3>2. \A i \in 1..((b - s) + 1) : f[s + i - 1] = g[t + i - 1]
      <4>1. ASSUME NEW i \in 1..((b - s) + 1) PROVE f[s + i - 1] = g[t + i - 1]
        <5>1. i - 1 \in 0..k /\ s + i - 1 = s + (i - 1) /\ t + i - 1 = t + (i - 1)
          BY <1>1, <2>3, <3>1
        <5> QED
          BY <2>8, <5>1
      <4> QED
        BY <4>1
    <3>3. SubSeq(f, s, b) = [i \in 1..((b - s) + 1) |-> f[s + i - 1]]
      BY <1>1, <2>3, <2>14
    <3>4. SubSeq(g, t, c) = [i \in 1..((c - t) + 1) |-> g[t + i - 1]]
      BY <1>1, <2>3, <2>14, <2>15
    <3> QED
      BY <3>1, <3>2, <3>3, <3>4
  <2> QED
    BY <2>12, <2>13, <2>16
<1> QED
  BY <1>4, <1>5

\* What the narrowing looks at stays as it was, and a node is dropped only
\* when no code file of it keeps it.
ScopeInv ==
  /\ old \in [Codes -> Revisions] /\ new \in [Codes -> Revisions]
  /\ \A c \in Codes : diff[c] \in DiffsOf(old[c], new[c])
  /\ \A r \in baselined : r \in Refs /\ ~DependsOnChange(r)

LEMMA ScopeStep == ScopeInv /\ [ScopeNext]_scopeVars => ScopeInv'
<1> SUFFICES ASSUME ScopeInv, [ScopeNext]_scopeVars PROVE ScopeInv'
  OBVIOUS
<1>1. CASE UNCHANGED scopeVars
  BY <1>1 DEF ScopeInv, scopeVars, DependsOnChange, PairKeeps, DocText
<1>2. CASE ScopeNext
  <2>1. PICK r \in Refs : Keep(r) \/ Drop(r)
    BY <1>2 DEF ScopeNext
  <2>2. UNCHANGED <<old, new, diff, atRoot, reasons>>
    BY <2>1 DEF Keep, Drop
  <2>3. \A q \in baselined' : q \in Refs /\ ~DependsOnChange(q)
    BY <2>1 DEF Keep, Drop, ScopeInv
  <2>4. \A q \in baselined' : ~DependsOnChange(q)'
    BY <2>2, <2>3 DEF DependsOnChange, PairKeeps, DocText
  <2> QED
    BY <2>2, <2>3, <2>4 DEF ScopeInv
<1> QED
  BY <1>1, <1>2

\* The line arithmetic loses no symbol, whatever the files, their names and the
\* diff that git settles on: a node is never dropped over a change to the
\* definition of a symbol that the doc that was read names.
THEOREM ChangesAlwaysAttributed == ScopeSpec => []AttributionComplete
<1>1. ScopeInit => ScopeInv
  <2> SUFFICES ASSUME ScopeInit PROVE ScopeInv
    OBVIOUS
  <2>1. \A c \in Codes : diff[c] \in DiffsOf(old[c], new[c])
    BY DEF ScopeInit
  <2> QED
    BY <2>1 DEF ScopeInit, ScopeInv
<1>2. ScopeInv => AttributionComplete
  <2> SUFFICES ASSUME ScopeInv, NEW r \in baselined, NEW c \in CodesOf[r],
                      NEW n \in Touched(c), n \in DocText(r)
               PROVE  FALSE
    BY DEF AttributionComplete
  <2>1. c \in Codes /\ ~PairKeeps(c, DocText(r))
    BY DEF ScopeInv, Codes, DependsOnChange
  <2>2. Missing \notin {old[c], new[c]}
    BY DEF Touched
  <2>3. n \notin PairChangedSymbols(old[c], new[c], diff[c])
    BY <2>1, <2>2 DEF PairKeeps
  <2>4. IsText(old[c]) /\ IsText(new[c])
    BY <2>1, <2>2, ScopeConstants DEF ScopeInv, IsText
  <2>5. diff[c] \in Alignments(old[c], new[c])
    BY <2>1, <2>2 DEF ScopeInv, DiffsOf
  <2>6. Body(old[c], n) = Body(new[c], n)
    BY <2>3, <2>4, <2>5, NoSymbolLost
  <2> QED
    BY <2>6, <2>2 DEF Touched
<1> QED
  BY <1>1, <1>2, ScopeStep, PTL DEF ScopeSpec

-----------------------------------------------------------------------------
(***************************************************************************)
(* What is in the tables comes from the code or from the graph files.      *)
(***************************************************************************)
LEMMA FoundIn ==
  ASSUME NEW sets, DOMAIN sets \in SUBSET Nat, NEW n \in FirstFound(sets)
  PROVE  \E i \in DOMAIN sets : n \in sets[i]
<1>1. PICK T : T = {i \in DOMAIN sets : sets[i] # {}}
  OBVIOUS
<1>2. T # {} /\ n \in sets[Min(T)]
  BY <1>1 DEF FirstFound
<1>3. Min(T) \in T
  <2>1. T \in SUBSET Nat
    BY <1>1
  <2> QED
    BY <1>2, <2>1, MinIs
<1> QED
  BY <1>1, <1>2, <1>3

LEMMA PrefixIs ==
  ASSUME NEW S, NEW a \in Seq(S), NEW x \in Seq(S)
  PROVE  IsPrefix(a, x) <=> Len(a) <= Len(x) /\ \A i \in 1..Len(a) : a[i] = x[i]
<1>1. SubSeq(a, 1, Len(a)) = a
  BY SubSeqFull
<1>2. ASSUME Len(a) <= Len(x)
      PROVE  /\ SubSeq(x, 1, Len(a)) \in Seq(S) /\ Len(SubSeq(x, 1, Len(a))) = Len(a)
             /\ \A i \in 1..Len(a) : SubSeq(x, 1, Len(a))[i] = x[i]
  <2>1. PICK l \in Nat : l = Len(a) /\ l <= Len(x)
    BY <1>2
  <2>2. \A i \in 1..l : x[i] \in S
    BY <2>1, ElementOfSeq
  <2>3. /\ SubSeq(x, 1, l) \in Seq(S)
        /\ Len(SubSeq(x, 1, l)) = IF 1 <= l THEN l - 1 + 1 ELSE 0
        /\ \A i \in 1..(l - 1 + 1) : SubSeq(x, 1, l)[i] = x[1 + i - 1]
    BY <2>1, <2>2, SubSeqProperties
  <2>4. l - 1 + 1 = l /\ \A i \in 1..l : 1 + i - 1 = i
    OBVIOUS
  <2>5. Len(SubSeq(x, 1, l)) = l
    BY <2>3, <2>4
  <2>6. \A i \in 1..l : SubSeq(x, 1, l)[i] = x[i]
    BY <2>3, <2>4
  <2> QED
    BY <2>1, <2>3, <2>5, <2>6
<1>3. ASSUME IsPrefix(a, x) PROVE Len(a) <= Len(x) /\ \A i \in 1..Len(a) : a[i] = x[i]
  <2>1. Len(a) <= Len(x) /\ a = SubSeq(x, 1, Len(a))
    BY <1>1, <1>3 DEF IsPrefix
  <2> QED
    BY <1>2, <2>1
<1>4. ASSUME Len(a) <= Len(x), \A i \in 1..Len(a) : a[i] = x[i] PROVE IsPrefix(a, x)
  <2>1. PICK y : y = SubSeq(x, 1, Len(a))
    OBVIOUS
  <2>2. y \in Seq(S) /\ Len(y) = Len(a) /\ \A i \in 1..Len(a) : y[i] = a[i]
    BY <1>2, <1>4, <2>1
  <2>3. y = a
    BY <2>2
  <2> QED
    BY <1>1, <1>4, <2>1, <2>3 DEF IsPrefix
<1> QED
  BY <1>3, <1>4

\* Of two directories on the way to a path the shorter one is on the way to the other.
LEMMA PrefixesNest ==
  ASSUME NEW S, NEW a \in Seq(S), NEW b \in Seq(S), NEW x \in Seq(S),
         IsPrefix(a, x), IsPrefix(b, x), Len(a) <= Len(b)
  PROVE  IsPrefix(a, b)
<1>1. Len(a) \in Nat /\ Len(b) \in Nat
  OBVIOUS
<1>2. (\A i \in 1..Len(a) : a[i] = x[i]) /\ (\A i \in 1..Len(b) : b[i] = x[i])
  BY PrefixIs
<1>3. \A i \in 1..Len(a) : a[i] = b[i]
  BY <1>1, <1>2
<1> QED
  BY <1>3, PrefixIs

LEMMA FrontExtends ==
  ASSUME NEW S, NEW a \in Seq(S), NEW q \in Seq(S), NEW p \in Seq(S), IsPrefix(a, q \o Front(p))
  PROVE  IsPrefix(a, q \o p)
<1>1. PICK f : f = Front(p)
  OBVIOUS
<1>2. f \in Seq(S) /\ Len(f) <= Len(p) /\ \A i \in 1..Len(f) : f[i] = p[i]
  <2>1. CASE p = << >>
    BY <1>1, <2>1 DEF Front
  <2>2. CASE p # << >>
    <3>7. Len(p) \in Nat /\ Len(p) # 0
      BY <2>2
    <3>8. Len(p) - 1 \in Nat /\ Len(p) - 1 <= Len(p)
      BY <3>7
    <3>1. PICK l \in Nat : l = Len(p) - 1 /\ l <= Len(p)
      BY <3>8
    <3>2. f = SubSeq(p, 1, l) /\ \A i \in 1..l : p[i] \in S
      BY <1>1, <3>1, ElementOfSeq DEF Front
    <3>3. /\ SubSeq(p, 1, l) \in Seq(S)
          /\ Len(SubSeq(p, 1, l)) = IF 1 <= l THEN l - 1 + 1 ELSE 0
          /\ \A i \in 1..(l - 1 + 1) : SubSeq(p, 1, l)[i] = p[1 + i - 1]
      BY <3>1, <3>2, SubSeqProperties
    <3>4. l - 1 + 1 = l /\ \A i \in 1..l : 1 + i - 1 = i
      OBVIOUS
    <3>5. Len(f) = l
      BY <3>2, <3>3, <3>4
    <3>6. \A i \in 1..l : f[i] = p[i]
      BY <3>2, <3>3, <3>4
    <3> QED
      BY <3>1, <3>2, <3>3, <3>5, <3>6
  <2> QED
    BY <2>1, <2>2
<1>3. PICK u : u = q \o f
  OBVIOUS
<1>4. PICK v : v = q \o p
  OBVIOUS
<1>5. u \in Seq(S) /\ v \in Seq(S) /\ Len(u) = Len(q) + Len(f) /\ Len(v) = Len(q) + Len(p)
  BY <1>2, <1>3, <1>4
<1>6. Len(a) <= Len(u) /\ \A i \in 1..Len(a) : a[i] = u[i]
  <2>1. IsPrefix(a, u)
    BY <1>1, <1>3
  <2>2. IsPrefix(a, u) <=> Len(a) <= Len(u) /\ \A i \in 1..Len(a) : a[i] = u[i]
    <3>1. u \in Seq(S)
      BY <1>5
    <3> QED
      BY <3>1, PrefixIs
  <2> QED
    BY <2>1, <2>2
<1>7. \A i \in 1..Len(u) : u[i] = v[i]
  <2> TAKE i \in 1..Len(u)
  <2>1. Len(q) \in Nat /\ Len(f) \in Nat /\ Len(p) \in Nat
    BY <1>2
  <2>2. CASE i <= Len(q)
    BY <1>2, <1>3, <1>4, <1>5, <2>1, <2>2
  <2>3. CASE i > Len(q)
    <3>1. i - Len(q) \in 1..Len(f) /\ i - Len(q) \in 1..Len(p)
      BY <1>2, <1>5, <2>1, <2>3
    <3>2. u[i] = f[i - Len(q)] /\ v[i] = p[i - Len(q)]
      BY <1>2, <1>3, <1>4, <1>5, <2>3, <3>1
    <3> QED
      BY <1>2, <3>1, <3>2
  <2> QED
    BY <1>5, <2>1, <2>2, <2>3
<1>8. Len(a) \in Nat /\ Len(u) \in Nat /\ Len(a) <= Len(v)
  BY <1>2, <1>5, <1>6
<1>9. \A i \in 1..Len(a) : a[i] = v[i]
  BY <1>6, <1>7, <1>8
<1> QED
  BY <1>4, <1>5, <1>8, <1>9, PrefixIs

LEMMA DeepestIsHome ==
  ASSUME NEW m, m.dir \in Seq(PathNames)
  PROVE  Deepest(m.dir) = Home(m)
<1>1. \A n \in DOMAIN DirOf : DirOf[n] \in Seq(PathNames) /\ Len(DirOf[n]) \in Nat
  BY LintConstants
<1>2. ASSUME NEW n \in Deepest(m.dir) PROVE n \in Home(m)
  <2>1. n \in DOMAIN DirOf /\ IsPrefix(DirOf[n], m.dir)
    BY DEF Deepest
  <2>2. ASSUME NEW k \in DOMAIN DirOf, IsPrefix(DirOf[k], m.dir) PROVE IsPrefix(DirOf[k], DirOf[n])
    <3>1. Len(DirOf[k]) <= Len(DirOf[n])
      BY <2>2 DEF Deepest
    <3> QED
      BY <1>1, <2>1, <2>2, <3>1, PrefixesNest
  <2> QED
    BY <2>1, <2>2 DEF Home
<1>3. ASSUME NEW n \in Home(m) PROVE n \in Deepest(m.dir)
  <2>1. \A k \in DOMAIN DirOf : IsPrefix(DirOf[k], m.dir) => Len(DirOf[k]) <= Len(DirOf[n])
    BY DEF Home, IsPrefix
  <2> QED
    BY <2>1 DEF Home, Deepest
<1> QED
  BY <1>2, <1>3

LEMMA PrefixesTyped ==
  /\ SearchPrefixes \in Seq(Seq(PathNames)) /\ DOMAIN SearchPrefixes = 1..Len(SearchPrefixes)
  /\ DOMAIN SearchPrefixes \in SUBSET Nat
<1>1. << >> \in Seq(PathNames)
  OBVIOUS
<1>2. SearchPrefixes \in Seq(Seq(PathNames))
  BY <1>1, LintConstants, AppendProperties DEF SearchPrefixes
<1> QED
  BY <1>2

LEMMA CandidatesDenoted ==
  ASSUME NEW path, NEW i \in DOMAIN SearchPrefixes, NEW j \in 1..2
  PROVE  CandidatesAt(SearchPrefixes[i], path)[j] \in Denoted(path)
<1>1. DOMAIN CandidatesAt(SearchPrefixes[i], path) = 1..2
  BY DEF CandidatesAt
<1>2. CandidatesAt(SearchPrefixes[i], path)[j] \in Range(CandidatesAt(SearchPrefixes[i], path))
  BY <1>1 DEF Range
<1> QED
  BY <1>2 DEF Denoted

\* The node an annotation names is the one that the annotated module lies in.
LEMMA AnnotatedIsHome ==
  ASSUME AnnotatedAtHome, NEW tree \in Trees, NEW path, NEW n \in ByAnnotation(path, tree)
  PROVE  n \in Nodes /\ \E k \in Modules \cap Denoted(path) : n \in Home(k)
<1> DEFINE Named(i, j, k) == NamedBy(<<"domain", "service", "feature">>[k],
                                     CandidatesAt(SearchPrefixes[i], path)[j], tree)
           At(i, j) == [k \in 1..3 |-> Named(i, j, k)]
           Of(i) == [j \in 1..2 |-> FirstFound(At(i, j))]
<1>1. PICK sets : sets = [i \in DOMAIN SearchPrefixes |-> FirstFound(Of(i))]
  OBVIOUS
<1>2. n \in FirstFound(sets)
  BY <1>1 DEF ByAnnotation
<1> HIDE DEF Of
<1>3. PICK i \in DOMAIN SearchPrefixes : n \in FirstFound(Of(i))
  <2>1. DOMAIN sets = DOMAIN SearchPrefixes
    BY <1>1
  <2>2. \E i \in DOMAIN sets : n \in sets[i]
    BY <1>2, <2>1, PrefixesTyped, FoundIn
  <2> QED
    BY <1>1, <2>1, <2>2
<1> USE DEF Of
<1> HIDE DEF At
<1>4. PICK j \in 1..2 : n \in FirstFound(At(i, j))
  <2>1. DOMAIN Of(i) = 1..2 /\ 1..2 \in SUBSET Nat
    OBVIOUS
  <2>2. \E j \in DOMAIN Of(i) : n \in Of(i)[j]
    <3> HIDE DEF Of
    <3> QED
      BY <1>3, <2>1, FoundIn
  <2> QED
    BY <2>1, <2>2
<1> USE DEF At
<1> HIDE DEF Named
<1>5. PICK k \in 1..3 : n \in Named(i, j, k)
  <2>1. DOMAIN At(i, j) = 1..3 /\ 1..3 \in SUBSET Nat
    OBVIOUS
  <2>2. \E k \in DOMAIN At(i, j) : n \in At(i, j)[k]
    <3> HIDE DEF At
    <3> QED
      BY <1>4, <2>1, FoundIn
  <2> QED
    BY <2>1, <2>2
<1>6. PICK m : m = CandidatesAt(SearchPrefixes[i], path)[j]
  OBVIOUS
<1>7. PICK key : n \in NamedBy(key, m, tree)
  BY <1>5, <1>6 DEF Named
<1>8. /\ m \in Present(tree) /\ SymbolsIn[tree[m]] # << >> /\ n \in Nodes
      /\ \E a \in Range(SymbolsIn[tree[m]][1]) : a.key = key /\ RefOf[n] = <<key, a.value>>
  BY <1>7 DEF NamedBy
<1>9. m \in Modules /\ tree[m] \in ContentsOf[m] \ {Absent}
  BY <1>8 DEF Present, Trees
<1>10. n \in Home(m)
  BY <1>8, <1>9 DEF AnnotatedAtHome
<1> QED
  BY <1>6, <1>8, <1>9, <1>10, CandidatesDenoted

\* What an import is resolved to is a node that a module it may denote lies in.
LEMMA ResolvedHome ==
  ASSUME AnnotatedAtHome, NEW tree \in Trees, NEW path \in Seq(PathNames),
         Resolved(path, tree) # Absent
  PROVE  Resolved(path, tree) \in Nodes /\ \E k \in Denoted(path) : Resolved(path, tree) \in Home(k)
<1>1. PICK hits : hits = FirstFound(<<ByAnnotation(path, tree), BySource(path)>>)
  OBVIOUS
<1>2. PICK n \in hits : n = Resolved(path, tree)
  BY <1>1 DEF Resolved
<1>3. n \in ByAnnotation(path, tree) \/ n \in BySource(path)
  <2>1. PICK sets : sets = <<ByAnnotation(path, tree), BySource(path)>>
    OBVIOUS
  <2>2. DOMAIN sets = 1..2 /\ sets[1] = ByAnnotation(path, tree) /\ sets[2] = BySource(path)
    BY <2>1
  <2>3. PICK i \in 1..2 : n \in sets[i]
    BY <1>1, <1>2, <2>1, <2>2, FoundIn
  <2> QED
    BY <2>2, <2>3
<1>4. \A i \in DOMAIN SearchPrefixes : \A j \in 1..2 :
        CandidatesAt(SearchPrefixes[i], path)[j] \in Denoted(path)
  <2>1. \A i \in DOMAIN SearchPrefixes : DOMAIN CandidatesAt(SearchPrefixes[i], path) = 1..2
    BY DEF CandidatesAt
  <2>2. \A i \in DOMAIN SearchPrefixes : \A j \in 1..2 :
          CandidatesAt(SearchPrefixes[i], path)[j] \in Range(CandidatesAt(SearchPrefixes[i], path))
    BY <2>1 DEF Range
  <2> QED
    BY <2>2 DEF Denoted
<1>5. CASE n \in BySource(path)
  <2>1. PICK sets : sets = [i \in DOMAIN SearchPrefixes |-> Deepest(SearchPrefixes[i] \o path)]
    OBVIOUS
  <2>2. PICK i \in DOMAIN SearchPrefixes : n \in sets[i]
    BY <1>5, <2>1, PrefixesTyped, FoundIn DEF BySource
  <2>3. PICK x : x = SearchPrefixes[i] \o path
    OBVIOUS
  <2>4. n \in Deepest(x)
    BY <2>1, <2>2, <2>3
  <2>5. PICK k : k = CandidatesAt(SearchPrefixes[i], path)[2]
    OBVIOUS
  <2>6. k.dir = x
    BY <2>3, <2>5 DEF CandidatesAt
  <2>7. x \in Seq(PathNames)
    <3>1. SearchPrefixes[i] \in Seq(PathNames)
      BY PrefixesTyped, ElementOfSeq
    <3> QED
      BY <2>3, <3>1, ConcatProperties
  <2>8. n \in Home(k)
    BY <2>4, <2>6, <2>7, DeepestIsHome
  <2>9. n \in Nodes
    BY <2>4, LintConstants DEF Deepest
  <2> QED
    BY <1>2, <1>4, <2>5, <2>8, <2>9
<1>6. CASE n \in ByAnnotation(path, tree)
  BY <1>2, <1>6, AnnotatedIsHome
<1> QED
  BY <1>3, <1>5, <1>6

\* An edge made of an import is a dependency that the code has.
LEMMA ImportEdgeSeen ==
  ASSUME AnnotatedAtHome, NEW tree \in Trees, NEW g, NEW e \in ImportEdgesOf[tree],
         e \in DOMAIN g => g[e] = "active"
  PROVE  /\ e \in Nodes \X Nodes \X {"depends_on"}
         /\ <<e[1], e[2]>> \in Visible(tree, Imported, g)
<1>1. ImportEdgesOf[tree] = ImportEdges(IndexedImports(tree))
  BY DEF ImportEdgesOf, ImportRows
<1>2. PICK r \in IndexedImports(tree) :
        r.node # Absent /\ \E n \in Deepest(r.file.dir) \ {r.node} : e = <<n, r.node, "depends_on">>
  BY <1>1 DEF ImportEdges
<1>21. PICK n \in Deepest(r.file.dir) \ {r.node} : e = <<n, r.node, "depends_on">>
  BY <1>2
<1>3. PICK m \in Present(tree) :
        \E p \in ImportsIn[tree[m]] : r = [file |-> m, path |-> p, node |-> Resolved(p, tree)]
  BY DEF IndexedImports
<1>31. PICK p \in ImportsIn[tree[m]] : r = [file |-> m, path |-> p, node |-> Resolved(p, tree)]
  BY <1>3
<1>4. m \in Modules /\ m.dir \in Seq(PathNames) /\ tree[m] \in DOMAIN ImportsIn
  BY LintConstants DEF Present, Trees
<1>5. p \in Seq(PathNames) /\ Denoted(p) \subseteq Imported
  <2>1. p \in Seq(PathNames)
    BY <1>4, LintConstants
  <2>2. p \in UNION {ImportsIn[c] : c \in DOMAIN ImportsIn}
    BY <1>4
  <2> QED
    BY <2>1, <2>2 DEF Imported
<1>6. r.file = m /\ r.node = Resolved(p, tree)
  BY <1>31
<1>7. n \in Home(m) /\ n \in Nodes /\ n # r.node
  BY <1>21, <1>4, <1>6, DeepestIsHome, LintConstants DEF Home
<1>8. PICK k \in Denoted(p) : r.node \in Nodes /\ r.node \in Home(k)
  BY <1>2, <1>5, <1>6, ResolvedHome
<1>9. e[1] = n /\ e[2] = r.node /\ e[3] = "depends_on"
  BY <1>21
<1>10. <<n, r.node>> \in Visible(tree, Imported, g)
  <2>1. PICK d : d = <<n, r.node>>
    OBVIOUS
  <2>2. d \in Nodes \X Nodes /\ d[1] = n /\ d[2] = r.node /\ d[1] # d[2]
    BY <1>7, <1>8, <2>1
  <2>3. k \in Imported \cap Denoted(p)
    BY <1>5, <1>8
  <2>4. <<d[1], d[2], "depends_on">> = e
    BY <1>21, <2>2
  <2> QED
    BY <1>31, <1>7, <1>8, <2>1, <2>2, <2>3, <2>4 DEF Visible
<1> QED
  BY <1>21, <1>7, <1>8, <1>9, <1>10

\* The tables are empty, or as a full reindex has made them.
IndexInv ==
  \/ loaded = Absent /\ imports = {} /\ edges = << >>
  \/ /\ loaded \in Graphs /\ lastFull \in Trees
     /\ imports = ImportRows[lastFull] /\ edges = Loaded(loaded, lastFull)

LEMMA LoadedTyped ==
  ASSUME AnnotatedAtHome, NEW g \in Graphs, NEW tree \in Trees
  PROVE  DOMAIN Loaded(g, tree) \subseteq Nodes \X Nodes \X VALID_EDGE_KINDS
<1>1. DOMAIN Loaded(g, tree) = DOMAIN g \cup ImportEdgesOf[tree]
  BY DEF Loaded
<1>2. DOMAIN g \subseteq Nodes \X Nodes \X VALID_EDGE_KINDS
  BY LintConstants
<1>3. PICK h : h = [e \in ImportEdgesOf[tree] |-> "active"]
  OBVIOUS
<1>4. \A e \in ImportEdgesOf[tree] : e \in Nodes \X Nodes \X {"depends_on"}
  <2> TAKE e \in ImportEdgesOf[tree]
  <2>1. e \in DOMAIN h => h[e] = "active"
    BY <1>3
  <2> QED
    BY <2>1, ImportEdgeSeen
<1>5. "depends_on" \in VALID_EDGE_KINDS
  BY DEF VALID_EDGE_KINDS
<1> QED
  BY <1>1, <1>2, <1>4, <1>5

\* A live edge is known.
LEMMA LiveIsKnown ==
  ASSUME AnnotatedAtHome, IndexInv, NEW kinds
  PROVE  LiveEdges(edges, kinds) \subseteq Known(kinds)
<1> SUFFICES ASSUME NEW d \in LiveEdges(edges, kinds) PROVE d \in Known(kinds)
  OBVIOUS
<1>1. PICK e \in DOMAIN edges : e[3] \in kinds /\ edges[e] = "active" /\ d = <<e[1], e[2]>>
  BY DEF LiveEdges
<1>2. loaded \in Graphs /\ lastFull \in Trees /\ edges = Loaded(loaded, lastFull)
  BY <1>1 DEF IndexInv
<1>3. /\ e \in DOMAIN loaded \cup ImportEdgesOf[lastFull]
      /\ e \in DOMAIN loaded => loaded[e] = "active"
  BY <1>1, <1>2 DEF Loaded
<1>4. CASE e \in DOMAIN loaded
  BY <1>1, <1>3, <1>4 DEF Known, Declared
<1>5. CASE e \notin DOMAIN loaded
  <2>1. <<e[1], e[2]>> \in Visible(lastFull, Imported, loaded) /\ e[3] = "depends_on"
    BY <1>2, <1>3, <1>5, ImportEdgeSeen
  <2> QED
    BY <1>1, <2>1 DEF Known
<1> QED
  BY <1>4, <1>5

\* What a rule finds carries the rule's type.
LEMMA ViolationTypes ==
  ASSUME NEW r, r.type \in RuleTypes, NEW layer, NEW v \in Violations(r, layer)
  PROVE  /\ v.type = r.type
         /\ v.type = "layers" => v \in Upward(r, layer)
         /\ v.type = "deny" => v \in Denied(r)
<1>1. \A m, a, b : Violation(r, m, a, b).type = r.type
  BY DEF Violation
<1>2. CASE r.type = "deny"
  <2>1. v \in Denied(r)
    BY <1>2 DEF Violations
  <2> QED
    BY <1>1, <1>2, <2>1 DEF Denied
<1>3. CASE r.type = "require"
  <2>1. v \in Lacking(r)
    BY <1>3 DEF Violations
  <2> QED
    BY <1>1, <1>3, <2>1 DEF Lacking
<1>4. CASE r.type = "forbid_cycles"
  <2>1. v \in Cyclic(r)
    BY <1>4 DEF Violations
  <2> QED
    BY <1>1, <1>4, <2>1 DEF Cyclic
<1>5. CASE r.type = "forbid_import"
  <2>1. v \in CrossBoundary(r)
    BY <1>5 DEF Violations
  <2> QED
    BY <1>1, <1>5, <2>1 DEF CrossBoundary
<1>6. CASE r.type = "forbid"
  <2>1. v \in ForbiddenEdges(r)
    BY <1>6 DEF Violations
  <2> QED
    BY <1>1, <1>6, <2>1 DEF ForbiddenEdges
<1>7. CASE r.type = "layers"
  <2>1. v \in Upward(r, layer)
    BY <1>7 DEF Violations
  <2>2. PICK E : Upward(r, layer) = {Violation(r, Absent, e[1], e[2]) : e \in E}
    BY DEF Upward
  <2> QED
    BY <1>1, <1>7, <2>1, <2>2
<1>8. CASE r.type = "check"
  <2>1. v \in Sizes(r)
    BY <1>8 DEF Violations
  <2> QED
    BY <1>1, <1>8, <2>1 DEF Sizes
<1>9. CASE r.type = "unregistered_feature_candidate"
  <2>1. v \in Unregistered(r)
    BY <1>9 DEF Violations
  <2> QED
    BY <1>1, <1>9, <2>1 DEF Unregistered
<1>10. CASE r.type = "module_coverage"
  <2>1. v \in Uncovered(r)
    BY <1>10 DEF Violations
  <2> QED
    BY <1>1, <1>10, <2>1 DEF Uncovered
<1> QED
  BY <1>2, <1>3, <1>4, <1>5, <1>6, <1>7, <1>8, <1>9, <1>10 DEF RuleTypes

(***************************************************************************)
(* A lint makes nothing up.                                                *)
(***************************************************************************)
CycleKinds == UNION {r.spec.edge_kind : r \in RulesOf("forbid_cycles")}

ReportKnown ==
  phase = "idle" /\ report \notin {Absent, Refused} =>
    \A v \in report :
      /\ v.type = "layers" => <<v.from, v.to>> \in Known({r.spec.edge_kind : r \in RulesOf("layers")})
      /\ v.type = "deny" => \E p \in ImportsIn[lastFull[v.file]] :
                               \E k \in Denoted(p) : v.to \in Home(k)

Searching ==
  /\ SearchInv /\ OneEach
  /\ adj = UNION {LiveEdges(edges, r.spec.edge_kind) : r \in RulesOf("forbid_cycles")}
  /\ rulefile \in DOMAIN RuleFiles /\ RulesIn[rulefile] # Refused

\* The search is over the live edges of the rules' kinds, and outside of it nothing is
\* left of one; the report is of the tables.
LintInv ==
  /\ code \in Trees /\ declared \in Graphs
  /\ IndexInv
  /\ phase \in {"idle", "evaluating"}
  /\ phase = "evaluating" => Searching
  /\ phase = "idle" => reported = {}
  /\ ReportKnown

LEMMA LintInitInv == Init => LintInv
  BY DEF Init, LintInv, IndexInv, ReportKnown

\* Cycle links are edges.
LEMMA LinksAreEdges ==
  ASSUME NEW c \in Seq(Nodes), SimpleCycle(c)
  PROVE  Links(c) \subseteq adj
  BY DEF SimpleCycle, SimplePath, Links, Tip

LEMMA LintInvGives == AnnotatedAtHome /\ LintInv => NothingInvented
<1> SUFFICES ASSUME AnnotatedAtHome, LintInv PROVE NothingInvented
  OBVIOUS
<1>1. ReportedOnce
  <2>1. CASE phase = "idle"
    BY <2>1 DEF LintInv, ReportedOnce
  <2>2. CASE phase = "evaluating"
    <3>1. SearchInv /\ OneEach
      BY <2>2 DEF LintInv, Searching
    <3> SUFFICES ASSUME NEW r \in reported, NEW s \in reported, Links(r) = Links(s) PROVE r = s
      BY DEF ReportedOnce
    <3>2. r \in Seq(Nodes) /\ s \in Seq(Nodes) /\ SimplePath(r) /\ SimplePath(s)
      BY <3>1 DEF SearchInv, SearchTypeOK, CyclesAreReal, SimpleCycle
    <3>3. Normalize(r) = Normalize(s)
      BY <3>2, SameLinksOneNormalForm
    <3> QED
      BY <3>1, <3>3 DEF OneEach
  <2> QED
    BY <2>1, <2>2 DEF LintInv
<1>2. ASSUME NEW c \in reported PROVE Links(c) \subseteq Known(CycleKinds)
  <2>1. Searching
    BY <1>2 DEF LintInv
  <2>2. Links(c) \subseteq adj
    BY <1>2, <2>1, LinksAreEdges DEF Searching, SearchInv, SearchTypeOK, CyclesAreReal
  <2>3. ASSUME NEW d \in adj PROVE d \in LiveEdges(edges, CycleKinds)
    BY <2>1, <2>3 DEF Searching, LiveEdges, CycleKinds
  <2>4. LiveEdges(edges, CycleKinds) \subseteq Known(CycleKinds)
    BY LiveIsKnown DEF LintInv
  <2> QED
    BY <2>2, <2>3, <2>4
<1> QED
  BY <1>1, <1>2 DEF NothingInvented, LintInv, ReportKnown, CycleKinds

\* What a full or incremental reindex leaves.
LEMMA ReindexInv ==
  ASSUME code \in Trees, declared \in Graphs, IndexInv, Full \/ Incremental
  PROVE  IndexInv'
<1>1. CASE Full
  BY <1>1 DEF Full, IndexInv
<1>2. CASE Incremental
  BY <1>1, <1>2 DEF Incremental, IndexInv
<1> QED
  BY <1>1, <1>2

LEMMA SearchStarts ==
  ASSUME AnnotatedAtHome, IndexInv', NEW K,
         adj' = UNION {LiveEdges(edges', k) : k \in K},
         todo' = Participants(adj'), frames' = {}, reported' = {}
  PROVE  SearchInv' /\ OneEach'
<1>1. DOMAIN edges' \subseteq Nodes \X Nodes \X VALID_EDGE_KINDS
  <2>1. CASE edges' = << >>
    BY <2>1
  <2>2. CASE loaded' \in Graphs /\ lastFull' \in Trees /\ edges' = Loaded(loaded', lastFull')
    BY <2>2, LoadedTyped
  <2> QED
    BY <2>1, <2>2 DEF IndexInv
<1>2. adj' \in SUBSET (Nodes \X Nodes)
  BY <1>1 DEF LiveEdges
<1>3. SearchInit'
  BY <1>2 DEF SearchInit
<1>4. SearchInit' => SearchInv'
  BY SearchInitInv, PTL
<1> QED
  BY <1>3, <1>4 DEF OneEach

LEMMA LintStep ==
  ASSUME AnnotatedAtHome, LintInv, NEW reindex \in BOOLEAN,
         NEW source \in DOMAIN RuleFiles \cup {Blank}, Lint(reindex, source)
  PROVE  LintInv'
<1>1. phase = "idle" /\ UNCHANGED world /\ rulefile' = source
  BY DEF Lint
<1>2. code' \in Trees /\ declared' \in Graphs
  BY <1>1 DEF LintInv, world
<1>3. IndexInv'
  <2>1. CASE reindex
    BY <2>1, ReindexInv DEF LintInv, Lint
  <2>2. CASE ~reindex
    BY <2>2 DEF LintInv, Lint, IndexInv, index
  <2> QED
    BY <2>1, <2>2
<1>4. CASE phase' = phase /\ UNCHANGED search /\ report' \in {{}, Refused}
  <2>1. phase' = "idle" /\ reported' = {}
    BY <1>1, <1>4 DEF LintInv, search
  <2>2. ReportKnown'
    BY <1>4 DEF ReportKnown
  <2> QED
    BY <1>2, <1>3, <2>1, <2>2 DEF LintInv
<1>5. CASE /\ source # Blank /\ RulesIn[source] # Refused
           /\ phase' = "evaluating" /\ report' = Absent
           /\ adj' = UNION {LiveEdges(edges', r.spec.edge_kind) : r \in RulesOf("forbid_cycles")'}
           /\ todo' = Participants(adj') /\ frames' = {} /\ reported' = {}
  <2>1. PICK K : K = {r.spec.edge_kind : r \in RulesOf("forbid_cycles")'}
    OBVIOUS
  <2>2. adj' = UNION {LiveEdges(edges', k) : k \in K}
    BY <1>5, <2>1
  <2>3. SearchInv' /\ OneEach'
    BY <1>3, <1>5, <2>2, SearchStarts
  <2>4. Searching'
    BY <1>1, <1>5, <2>3 DEF Searching
  <2>5. ReportKnown'
    BY <1>5 DEF ReportKnown
  <2> QED
    BY <1>2, <1>3, <1>5, <2>4, <2>5 DEF LintInv
<1> QED
  BY <1>1, <1>4, <1>5 DEF Lint

LEMMA ReportStep ==
  ASSUME AnnotatedAtHome, LintInv, Report
  PROVE  LintInv'
<1>1. /\ phase = "evaluating" /\ phase' = "idle" /\ reported' = {}
      /\ code' = code /\ declared' = declared /\ rulefile' = rulefile
      /\ imports' = imports /\ edges' = edges /\ loaded' = loaded /\ lastFull' = lastFull
  BY DEF Report, world, index
<1>2. PICK layer \in LayerChoices : report' = evaluate_all(layer)
  BY DEF Report
<1>3. Searching
  BY <1>1 DEF LintInv
<1>4. \A r \in rules : r.type \in RuleTypes
  BY <1>3, LintConstants DEF Searching, rules
<1>5. ASSUME NEW v \in report'
      PROVE  /\ v.type = "layers" => <<v.from, v.to>> \in Known({r.spec.edge_kind : r \in RulesOf("layers")})
             /\ v.type = "deny" => \E p \in ImportsIn[lastFull[v.file]] :
                                      \E k \in Denoted(p) : v.to \in Home(k)
  <2>1. PICK r \in rules : v \in Violations(r, layer)
    BY <1>2, <1>5 DEF evaluate_all
  <2>2. /\ v.type = r.type
        /\ v.type = "layers" => v \in Upward(r, layer)
        /\ v.type = "deny" => v \in Denied(r)
    BY <1>4, <2>1, ViolationTypes
  <2>3. CASE v.type = "layers"
    <3>1. PICK e \in LiveEdges(edges, {r.spec.edge_kind}) : v = Violation(r, Absent, e[1], e[2])
      BY <2>2, <2>3 DEF Upward
    <3>2. \E a, b : e = <<a, b>>
      BY DEF LiveEdges
    <3>3. <<v.from, v.to>> = e
      BY <3>1, <3>2 DEF Violation
    <3>4. PICK kinds : kinds = {q.spec.edge_kind : q \in RulesOf("layers")}
      OBVIOUS
    <3>5. r.spec.edge_kind \in kinds
      BY <2>1, <2>2, <2>3, <3>4 DEF RulesOf
    <3>6. e \in LiveEdges(edges, kinds)
      BY <3>5 DEF LiveEdges
    <3>7. LiveEdges(edges, kinds) \subseteq Known(kinds)
      BY LiveIsKnown DEF LintInv
    <3>8. <<v.from, v.to>> \in Known({q.spec.edge_kind : q \in RulesOf("layers")})
      BY <3>3, <3>4, <3>6, <3>7
    <3> QED
      BY <2>3, <3>8
  <2>4. CASE v.type = "deny"
    <3>1. PICK x \in imports : x.node # Absent /\ v = Violation(r, x.file, FileNode(x.file), x.node)
      BY <2>2, <2>4 DEF Denied
    <3>2. v.file = x.file /\ v.to = x.node
      BY <3>1 DEF Violation
    <3>3. lastFull \in Trees /\ x \in IndexedImports(lastFull)
      BY <3>1 DEF LintInv, IndexInv, ImportRows
    <3>4. PICK m \in Present(lastFull) :
            \E p \in ImportsIn[lastFull[m]] : x = [file |-> m, path |-> p, node |-> Resolved(p, lastFull)]
      BY <3>3 DEF IndexedImports
    <3>5. PICK p \in ImportsIn[lastFull[m]] : x = [file |-> m, path |-> p, node |-> Resolved(p, lastFull)]
      BY <3>4
    <3>6. p \in Seq(PathNames)
      BY <3>3, LintConstants DEF Present, Trees
    <3>7. \E k \in Denoted(p) : x.node \in Home(k)
      BY <3>1, <3>3, <3>5, <3>6, ResolvedHome
    <3> QED
      BY <2>4, <3>2, <3>5, <3>7
  <2> QED
    BY <2>3, <2>4
<1>6. ReportKnown'
  <2>1. /\ \A kinds : Known(kinds)' = Known(kinds)
        /\ RulesOf("layers")' = RulesOf("layers")
    BY <1>1 DEF Known, RulesOf, rules
  <2> QED
    BY <1>1, <1>5, <2>1 DEF ReportKnown
<1> QED
  BY <1>1, <1>6 DEF LintInv, IndexInv

LEMMA LintInvInductive ==
  ASSUME AnnotatedAtHome, LintInv, [Next]_vars
  PROVE  LintInv'
<1>1. ASSUME NEW m \in Modules, NEW c \in ContentsOf[m], EditCode(m, c)
      PROVE  LintInv'
  <2>1. code' \in Trees
    BY <1>1 DEF EditCode, LintInv, Trees
  <2>2. ReportKnown'
    BY <1>1 DEF EditCode, ReportKnown
  <2> QED
    BY <1>1, <2>1, <2>2 DEF EditCode, LintInv, IndexInv, index, search
<1>2. ASSUME NEW g \in Graphs, EditGraph(g)
      PROVE  LintInv'
  <2>1. ReportKnown'
    BY <1>2 DEF EditGraph, ReportKnown
  <2> QED
    BY <1>2, <2>1 DEF EditGraph, LintInv, IndexInv, index, search
<1>3. CASE FullReindex
  <2>1. IndexInv'
    BY <1>3, ReindexInv DEF FullReindex, LintInv
  <2>2. ReportKnown'
    BY <1>3 DEF FullReindex, ReportKnown
  <2> QED
    BY <1>3, <2>1, <2>2 DEF FullReindex, LintInv, world, search
<1>4. CASE EvaluateCycles
  <2>1. Searching /\ SearchNext
    BY <1>4 DEF EvaluateCycles, LintInv
  <2>2. SearchInv' /\ OneEach'
    BY <2>1, SearchInvInductive, OneEachStep DEF Searching
  <2>3. adj' = adj
    BY <2>1 DEF SearchNext, NextStart, PopFrame
  <2>4. phase' = "evaluating" /\ edges' = edges /\ rulefile' = rulefile
    BY <1>4 DEF EvaluateCycles, index
  <2>5. Searching'
    BY <2>1, <2>2, <2>3, <2>4 DEF Searching, RulesOf, rules
  <2>6. ReportKnown'
    BY <2>4 DEF ReportKnown
  <2>7. code' \in Trees /\ declared' \in Graphs /\ IndexInv'
    BY <1>4 DEF EvaluateCycles, LintInv, IndexInv, world, index
  <2> QED
    BY <2>4, <2>5, <2>6, <2>7 DEF LintInv
<1>5. CASE Report
  BY <1>5, ReportStep
<1>6. ASSUME NEW reindex \in BOOLEAN, NEW f \in DOMAIN RuleFiles \cup {Blank}, Lint(reindex, f)
      PROVE  LintInv'
  BY <1>6, LintStep
<1>7. CASE UNCHANGED vars
  <2>1. /\ UNCHANGED <<code, declared, imports, edges, loaded, lastFull, phase, rulefile, report>>
        /\ UNCHANGED search
    BY <1>7 DEF vars, world, index
  <2>2. ASSUME Searching PROVE Searching'
    <3>1. SearchInv' /\ OneEach'
      BY <2>1, <2>2, SearchInvInductive, OneEachStep DEF Searching
    <3> QED
      BY <2>1, <2>2, <3>1 DEF Searching, RulesOf, rules, search
  <2>3. ReportKnown'
    <3>1. /\ \A kinds : Known(kinds)' = Known(kinds)
          /\ RulesOf("layers")' = RulesOf("layers")
      BY <2>1 DEF Known, RulesOf, rules
    <3> QED
      BY <2>1, <3>1 DEF LintInv, ReportKnown
  <2> QED
    BY <2>1, <2>2, <2>3 DEF LintInv, IndexInv, search
<1> QED
  BY <1>1, <1>2, <1>3, <1>4, <1>5, <1>6, <1>7 DEF Next

\* What a lint says of dependencies was true of the code at the last full reindex, or
\* is declared, whatever was edited and reindexed in between, as long as annotations
\* are put where their nodes are.
THEOREM LintTellsTheTruth == ASSUME AnnotatedAtHome PROVE Spec => []NothingInvented
<1>1. LintInv /\ [Next]_vars => LintInv'
  BY LintInvInductive
<1>2. LintInv => NothingInvented
  BY LintInvGives
<1> QED
  BY <1>1, <1>2, LintInitInv, PTL DEF Spec

-----------------------------------------------------------------------------
(***************************************************************************)
(* A green lint.  What the file asks for is enforced.                      *)
(***************************************************************************)
LEMMA AskedIsEnforced ==
  ASSUME rulefile \in DOMAIN RuleFiles, RulesIn[rulefile] # Refused,
         NEW type, type \notin Advisory, NEW b \in Asked(type)
  PROVE  \E r \in rules : /\ r.type = type /\ r.severity = "error"
                          /\ Given(b) /\ r.spec = ParsedBlock(type, b) /\ r.spec # Refused
<1>1. PICK yml : yml = RuleFiles[rulefile]
  OBVIOUS
<1>2. PICK listed : listed = Default(yml, "rules", << >>)
  OBVIOUS
<1>3. PICK parsed : parsed = [i \in DOMAIN listed |-> ParsedRule(listed[i])]
  OBVIOUS
<1>4. rules = load_rules(yml) /\ load_rules(yml) # Refused
  BY <1>1 DEF rules, RulesIn
<1>5. rules = Range(parsed) /\ Refused \notin Range(parsed)
  BY <1>2, <1>3, <1>4 DEF load_rules
<1>6. PICK x \in Range(listed) :
        type \in DOMAIN x.blocks /\ Get(x, "severity") \in {Blank, "error"} /\ b = x.blocks[type]
  BY <1>1, <1>2 DEF Asked
<1>7. PICK i \in DOMAIN listed : x = listed[i]
  BY <1>6 DEF Range
<1>8. PICK q : q = ParsedRule(x)
  OBVIOUS
<1>9. q \in rules /\ q # Refused
  BY <1>3, <1>5, <1>7, <1>8 DEF Range
<1>10. PICK spec : spec = ParsedBlock(type, b)
  OBVIOUS
<1>11. SeverityOf(x) \in VALID_RULE_SEVERITIES /\ DOMAIN x.blocks = {type}
  BY <1>6, <1>8, <1>9 DEF ParsedRule
<1>12. q = [name |-> x.name, severity |-> SeverityOf(x), type |-> type, spec |-> spec] /\ spec # Refused
  <2>1. (CHOOSE t \in DOMAIN x.blocks : TRUE) = type
    BY <1>11
  <2> QED
    BY <1>6, <1>8, <1>9, <1>10, <2>1 DEF ParsedRule
<1>13. Given(b)
  BY <1>10, <1>12 DEF ParsedBlock
<1>14. SeverityOf(x) = "error"
  <2>1. CASE "severity" \in DOMAIN x
    BY <1>6, <1>11, <2>1, NullIsNoWord DEF SeverityOf, Default, Get
  <2>2. CASE "severity" \notin DOMAIN x
    BY <1>11, <2>2 DEF SeverityOf, Default
  <2> QED
    BY <2>1, <2>2
<1> QED
  BY <1>9, <1>10, <1>12, <1>13, <1>14

LEMMA MeantMatches ==
  ASSUME NEW d, NEW n \in Meant(d)
  PROVE  Matches(_parse_node_matcher(d), n)
<1>1. Get(d, "exclude") = Blank
  BY DEF Meant, Get
<1>2. _parse_node_matcher(d).exclude = {}
  BY <1>1 DEF _parse_node_matcher, Given
<1>3. Get(d, "ref_id") \in {Blank, n} /\ Get(d, "kind") \in {Blank, KindOf[n]}
  BY DEF Meant, Get
<1>4. Get(d, "tag") = Blank \/ Get(d, "tag") \in TagsOf[n]
  BY DEF Meant, Get
<1> QED
  BY <1>2, <1>3, <1>4 DEF Matches, MatchesUntagged, _parse_node_matcher

LEMMA FirstIsFound ==
  ASSUME NEW sets, DOMAIN sets \in SUBSET Nat, NEW i \in DOMAIN sets, sets[i] # {}
  PROVE  FirstFound(sets) # {}
<1>1. PICK T : T = {j \in DOMAIN sets : sets[j] # {}}
  OBVIOUS
<1>2. T \in SUBSET Nat /\ T # {} /\ FirstFound(sets) = sets[Min(T)]
  BY <1>1 DEF FirstFound
<1>3. Min(T) \in T
  BY <1>2, MinIs
<1> QED
  BY <1>1, <1>2, <1>3

\* Directories differ, and so a module has one home.
LEMMA OneHomeAtMost ==
  ASSUME NEW m, m.dir \in Seq(PathNames), NEW n \in Home(m), NEW k \in Home(m)
  PROVE  n = k
<1>1. n \in DOMAIN DirOf /\ k \in DOMAIN DirOf /\ IsPrefix(DirOf[n], DirOf[k]) /\ IsPrefix(DirOf[k], DirOf[n])
  BY DEF Home
<1>2. DirOf[n] \in Seq(PathNames) /\ DirOf[k] \in Seq(PathNames)
  BY <1>1, LintConstants
<1>3. DirOf[n] = DirOf[k]
  <2>1. /\ Len(DirOf[n]) \in Nat /\ Len(DirOf[k]) \in Nat /\ Len(DirOf[n]) = Len(DirOf[k])
        /\ SubSeq(DirOf[n], 1, Len(DirOf[n])) = SubSeq(DirOf[k], 1, Len(DirOf[n]))
    BY <1>1, <1>2 DEF IsPrefix
  <2>2. \A s \in Seq(PathNames) : SubSeq(s, 1, Len(s)) = s
    BY SubSeqFull
  <2> QED
    BY <1>2, <2>1, <2>2
<1> QED
  BY <1>1, <1>3, SourcesDiffer

LEMMA AboveHasDeepest ==
  ASSUME NEW x \in Seq(PathNames), NEW n \in DOMAIN DirOf, IsPrefix(DirOf[n], x)
  PROVE  Deepest(x) # {}
<1>1. \A k \in DOMAIN DirOf : DirOf[k] \in Seq(PathNames) /\ Len(DirOf[k]) \in Nat
  BY LintConstants
<1>2. PICK above : above = {k \in DOMAIN DirOf : IsPrefix(DirOf[k], x)}
  OBVIOUS
<1>3. PICK T : T = {Len(DirOf[k]) : k \in above}
  OBVIOUS
<1>4. \A k \in above : Len(DirOf[k]) \in 0..Len(x)
  BY <1>1, <1>2 DEF IsPrefix
<1>5. T \in SUBSET (0..Len(x)) /\ T # {} /\ Len(x) \in Nat
  BY <1>2, <1>3, <1>4
<1>6. PICK l \in T : \A j \in T : l >= j
  BY <1>5, GreatestOne
<1>7. PICK k \in above : l = Len(DirOf[k])
  BY <1>3, <1>6
<1>8. k \in Deepest(x)
  <2>1. \A j \in above : Len(DirOf[j]) \in T
    BY <1>3
  <2>2. \A j \in above : Len(DirOf[j]) <= Len(DirOf[k])
    BY <1>4, <1>6, <1>7, <2>1
  <2> QED
    BY <1>2, <2>2 DEF Deepest
<1> QED
  BY <1>8

\* Where a module that may be denoted has a home, so has the package that may be.
LEMMA PackageHasHome ==
  ASSUME NEW path \in Seq(PathNames), NEW i \in DOMAIN SearchPrefixes,
         NEW k \in Range(CandidatesAt(SearchPrefixes[i], path)), k.dir \in Seq(PathNames), NEW t \in Home(k)
  PROVE  Home(CandidatesAt(SearchPrefixes[i], path)[2]) # {}
<1>1. PICK prefix : prefix = SearchPrefixes[i]
  OBVIOUS
<1>2. prefix \in Seq(PathNames)
  BY <1>1, PrefixesTyped, ElementOfSeq
<1>3. PICK package : package = CandidatesAt(prefix, path)[2]
  OBVIOUS
<1>4. package.dir = prefix \o path /\ package.dir \in Seq(PathNames)
  <2>1. package.dir = prefix \o path
    BY <1>3 DEF CandidatesAt
  <2> QED
    BY <1>2, <2>1, ConcatProperties
<1>5. k.dir = prefix \o Front(path) \/ k.dir = prefix \o path
  <2>1. PICK both : both = CandidatesAt(prefix, path)
    OBVIOUS
  <2>2. DOMAIN both = 1..2 /\ both[1].dir = prefix \o Front(path) /\ both[2].dir = prefix \o path
    BY <2>1 DEF CandidatesAt
  <2>3. k \in {both[1], both[2]}
    BY <1>1, <2>1, <2>2 DEF Range
  <2> QED
    BY <2>2, <2>3
<1>6. t \in DOMAIN DirOf /\ IsPrefix(DirOf[t], k.dir) /\ DirOf[t] \in Seq(PathNames)
  BY LintConstants DEF Home
<1>7. IsPrefix(DirOf[t], prefix \o path)
  BY <1>2, <1>5, <1>6, FrontExtends
<1>8. Deepest(package.dir) # {}
  BY <1>4, <1>6, <1>7, AboveHasDeepest
<1> QED
  BY <1>1, <1>3, <1>4, <1>8, DeepestIsHome

\* An import resolves to the node that the module it denotes lies in.
LEMMA ResolvedRight ==
  ASSUME AnnotatedAtHome, OneHome, NEW tree \in Trees, NEW path \in UNION Range(ImportsIn),
         NEW k \in Modules \cap Denoted(path), NEW t \in Home(k)
  PROVE  Resolved(path, tree) = t
<1>1. path \in Seq(PathNames)
  BY LintConstants DEF Range
<1>2. PICK i \in DOMAIN SearchPrefixes : k \in Range(CandidatesAt(SearchPrefixes[i], path))
  BY DEF Denoted
<1>3. SearchPrefixes[i] \in Seq(PathNames)
  BY PrefixesTyped, ElementOfSeq
<1>4. \A h \in DOMAIN SearchPrefixes :
        LET package == CandidatesAt(SearchPrefixes[h], path)[2]
        IN  /\ package.dir = SearchPrefixes[h] \o path /\ package.dir \in Seq(PathNames)
            /\ Deepest(SearchPrefixes[h] \o path) = Home(package)
  <2> TAKE h \in DOMAIN SearchPrefixes
  <2>1. PICK package : package = CandidatesAt(SearchPrefixes[h], path)[2]
    OBVIOUS
  <2>2. package.dir = SearchPrefixes[h] \o path
    BY <2>1 DEF CandidatesAt
  <2>3. package.dir \in Seq(PathNames)
    BY <1>1, <2>2, PrefixesTyped, ElementOfSeq, ConcatProperties
  <2>4. Deepest(package.dir) = Home(package)
    BY <2>3, DeepestIsHome
  <2> QED
    BY <2>1, <2>2, <2>3, <2>4
<1>5. \A h \in DOMAIN SearchPrefixes : Home(CandidatesAt(SearchPrefixes[h], path)[2]) \in {{}, Home(k)}
  BY DEF OneHome
<1>6. Home(k) = {t}
  <2>1. k.dir \in Seq(PathNames)
    BY LintConstants
  <2> QED
    BY <2>1, OneHomeAtMost
<1>7. Home(CandidatesAt(SearchPrefixes[i], path)[2]) # {}
  <2>1. k.dir \in Seq(PathNames)
    BY LintConstants
  <2> QED
    BY <1>1, <1>2, <2>1, PackageHasHome
<1>8. BySource(path) = {t}
  <2>1. PICK sets : sets = [h \in DOMAIN SearchPrefixes |-> Deepest(SearchPrefixes[h] \o path)]
    OBVIOUS
  <2>2. BySource(path) = FirstFound(sets) /\ DOMAIN sets = DOMAIN SearchPrefixes
    BY <2>1 DEF BySource
  <2>3. \A h \in DOMAIN sets : sets[h] \in {{}, {t}}
    BY <1>4, <1>5, <1>6, <2>1
  <2>4. sets[i] # {}
    BY <1>4, <1>7, <2>1
  <2>5. FirstFound(sets) # {}
    BY <2>2, <2>4, PrefixesTyped, FirstIsFound
  <2>6. \A n \in FirstFound(sets) : n = t
    <3> TAKE n \in FirstFound(sets)
    <3>1. DOMAIN sets \in SUBSET Nat
      BY <2>2, PrefixesTyped
    <3>2. \E h \in DOMAIN sets : n \in sets[h]
      BY <3>1, FoundIn
    <3> QED
      BY <2>3, <3>2
  <2> QED
    BY <2>2, <2>5, <2>6
<1>9. \A n \in ByAnnotation(path, tree) : n = t
  <2> TAKE n \in ByAnnotation(path, tree)
  <2>1. PICK j \in Modules \cap Denoted(path) : n \in Home(j)
    BY AnnotatedIsHome
  <2>2. PICK h \in DOMAIN SearchPrefixes : j \in Range(CandidatesAt(SearchPrefixes[h], path))
    BY <2>1 DEF Denoted
  <2>3. j.dir \in Seq(PathNames)
    BY LintConstants
  <2>4. Home(CandidatesAt(SearchPrefixes[h], path)[2]) # {}
    BY <1>1, <2>1, <2>2, <2>3, PackageHasHome
  <2>5. Home(CandidatesAt(SearchPrefixes[h], path)[2]) = {t}
    BY <1>5, <1>6, <2>4
  <2>6. Home(CandidatesAt(SearchPrefixes[h], path)[2]) = Home(j)
    BY <2>1, <2>4 DEF OneHome
  <2> QED
    BY <2>1, <2>5, <2>6
<1>10. PICK hits : hits = FirstFound(<<ByAnnotation(path, tree), BySource(path)>>)
  OBVIOUS
<1>11. hits = {t}
  <2>1. PICK sets : sets = <<ByAnnotation(path, tree), BySource(path)>>
    OBVIOUS
  <2>2. DOMAIN sets = 1..2 /\ sets[1] = ByAnnotation(path, tree) /\ sets[2] = {t}
    BY <1>8, <2>1
  <2>3. hits # {}
    BY <1>10, <2>1, <2>2, FirstIsFound
  <2>4. \A n \in hits : n = t
    BY <1>9, <1>10, <2>1, <2>2, FoundIn
  <2> QED
    BY <2>3, <2>4
<1> QED
  BY <1>10, <1>11 DEF Resolved

\* The tables are those of the code.
UpToDate == IndexInv /\ Fresh /\ code \in Trees /\ declared \in Graphs

LEMMA TablesOfTheCode ==
  ASSUME UpToDate
  PROVE  imports = IndexedImports(code) /\ edges = Loaded(declared, code) /\ symbols = code
<1>1. loaded = declared /\ loaded # Absent /\ lastFull = code /\ symbols = code
  BY LintConstants DEF UpToDate, Fresh
<1> QED
  BY <1>1 DEF UpToDate, IndexInv, ImportRows

\* An import of a module that lies in a node is a row with that node.
LEMMA ImportIndexed ==
  ASSUME AnnotatedAtHome, OneHome, NEW tree \in Trees, NEW m \in Present(tree), NEW p \in ImportsIn[tree[m]],
         NEW k \in Modules \cap Denoted(p), NEW t \in Home(k)
  PROVE  [file |-> m, path |-> p, node |-> t] \in IndexedImports(tree)
<1>1. m \in Modules /\ tree[m] \in DOMAIN ImportsIn
  BY LintConstants DEF Present, Trees
<1>2. p \in UNION Range(ImportsIn)
  BY <1>1 DEF Range
<1>3. Resolved(p, tree) = t
  BY <1>2, ResolvedRight
<1> QED
  BY <1>3 DEF IndexedImports

\* The code's own dependencies are among the live edges.
LEMMA RealIsLive ==
  ASSUME AnnotatedAtHome, OneHome, UpToDate
  PROVE  Visible(code, Present(code), declared) \cup Declared(declared, {"depends_on"})
           \subseteq LiveEdges(edges, {"depends_on"})
<1>1. edges = Loaded(declared, code) /\ code \in Trees
  BY TablesOfTheCode DEF UpToDate
<1>2. DOMAIN edges = DOMAIN declared \cup ImportEdgesOf[code]
  BY <1>1 DEF Loaded
<1>3. \A e \in DOMAIN edges : edges[e] = IF e \in DOMAIN declared THEN declared[e] ELSE "active"
  BY <1>1 DEF Loaded
<1>4. ASSUME NEW d \in Declared(declared, {"depends_on"})
      PROVE  d \in LiveEdges(edges, {"depends_on"})
  <2>1. PICK e \in DOMAIN declared : e[3] = "depends_on" /\ declared[e] = "active" /\ d = <<e[1], e[2]>>
    BY <1>4 DEF Declared
  <2> QED
    BY <1>2, <1>3, <2>1 DEF LiveEdges
<1>5. ASSUME NEW d \in Visible(code, Present(code), declared)
      PROVE  d \in LiveEdges(edges, {"depends_on"})
  <2>1. /\ d \in Nodes \X Nodes /\ d[1] # d[2]
        /\ <<d[1], d[2], "depends_on">> \in DOMAIN declared => declared[<<d[1], d[2], "depends_on">>] = "active"
        /\ \E m \in Present(code) : \E p \in ImportsIn[code[m]] : \E k \in Present(code) \cap Denoted(p) :
             d[1] \in Home(m) /\ d[2] \in Home(k)
    BY DEF Visible
  <2>2. PICK m \in Present(code) :
          \E p \in ImportsIn[code[m]] : \E k \in Present(code) \cap Denoted(p) : d[1] \in Home(m) /\ d[2] \in Home(k)
    BY <2>1
  <2>3. PICK p \in ImportsIn[code[m]] : \E k \in Present(code) \cap Denoted(p) : d[1] \in Home(m) /\ d[2] \in Home(k)
    BY <2>2
  <2>4. PICK k \in Present(code) \cap Denoted(p) : d[1] \in Home(m) /\ d[2] \in Home(k)
    BY <2>3
  <2>5. PICK r : r = [file |-> m, path |-> p, node |-> d[2]]
    OBVIOUS
  <2>6. r \in IndexedImports(code) /\ r.node # Absent
    <3>1. k \in Modules \cap Denoted(p)
      BY DEF Present
    <3> QED
      BY <1>1, <2>1, <2>4, <2>5, <3>1, LintConstants, ImportIndexed
  <2>7. d[1] \in Deepest(m.dir) \ {r.node}
    <3>1. m.dir \in Seq(PathNames)
      BY LintConstants DEF Present
    <3> QED
      BY <2>1, <2>4, <2>5, <3>1, DeepestIsHome
  <2>8. PICK e : e = <<d[1], d[2], "depends_on">>
    OBVIOUS
  <2>9. e \in ImportEdges(IndexedImports(code))
    BY <2>5, <2>6, <2>7, <2>8 DEF ImportEdges
  <2>10. e \in DOMAIN edges /\ edges[e] = "active"
    <3>1. ImportEdgesOf[code] = ImportEdges(IndexedImports(code))
      BY <1>1 DEF ImportEdgesOf, ImportRows
    <3> QED
      BY <1>2, <1>3, <2>1, <2>8, <2>9, <3>1
  <2>11. e[1] = d[1] /\ e[2] = d[2] /\ e[3] = "depends_on" /\ d = <<d[1], d[2]>>
    BY <2>1, <2>8
  <2> QED
    BY <2>10, <2>11 DEF LiveEdges
<1> QED
  BY <1>4, <1>5

(***************************************************************************)
(* Rule by rule: a rule that reports nothing has nothing to report.        *)
(***************************************************************************)
\* The file's node, if its annotations name one only.
LEMMA AnnotatedFile ==
  ASSUME UpToDate, NEW m \in Present(code), NEW n, Annotated(m) = {n}
  PROVE  FileNode(m) = n
<1>1. PICK rows : rows = SymbolsIn[code[m]]
  OBVIOUS
<1>2. m \in Present(symbols) /\ SymbolsIn[symbols[m]] = rows
  BY <1>1, TablesOfTheCode
<1>3. DOMAIN rows \in SUBSET Nat /\ \A s \in DOMAIN rows : DOMAIN rows[s] \in SUBSET Nat
  <2>1. code[m] \in DOMAIN ImportsIn
    BY LintConstants DEF Present, Trees, UpToDate
  <2> QED
    BY <1>1, <2>1, LintConstants
<1> DEFINE Naming(s, i) == {k \in Nodes : RefOf[k] = <<rows[s][i].value>>}
           First(s) == [i \in DOMAIN rows[s] |-> Naming(s, i)]
<1>4. \A s \in DOMAIN rows : \A i \in DOMAIN rows[s] : Naming(s, i) \subseteq {n}
  <2>1. \A s \in DOMAIN rows : \A i \in DOMAIN rows[s] : rows[s] \in Range(rows) /\ rows[s][i] \in Range(rows[s])
    BY DEF Range
  <2>2. \A k \in Nodes : (\E s \in Range(rows) : \E a \in Range(s) : RefOf[k] = <<a.value>>) => k = n
    BY <1>1 DEF Annotated
  <2> QED
    BY <2>1, <2>2
<1>5. PICK s \in DOMAIN rows : \E i \in DOMAIN rows[s] : n \in Naming(s, i)
  <2>1. PICK x \in Range(rows) : \E a \in Range(x) : n \in Nodes /\ RefOf[n] = <<a.value>>
    BY <1>1 DEF Annotated
  <2>2. PICK s \in DOMAIN rows : x = rows[s]
    BY DEF Range
  <2>3. PICK i \in DOMAIN rows[s] : n \in Nodes /\ RefOf[n] = <<rows[s][i].value>>
    BY <2>1, <2>2 DEF Range
  <2> QED
    BY <2>3
<1>6. PICK i \in DOMAIN rows[s] : n \in Naming(s, i)
  BY <1>5
<1> HIDE DEF Naming
<1>7. \A x \in DOMAIN rows : DOMAIN First(x) = DOMAIN rows[x] /\ \A y \in DOMAIN rows[x] : First(x)[y] = Naming(x, y)
  OBVIOUS
<1> HIDE DEF First
<1>8. \A x \in DOMAIN rows : FirstFound(First(x)) \subseteq {n}
  <2> SUFFICES ASSUME NEW x \in DOMAIN rows, NEW k \in FirstFound(First(x)) PROVE k = n
    OBVIOUS
  <2>1. DOMAIN First(x) \in SUBSET Nat
    BY <1>3, <1>7
  <2>2. \E y \in DOMAIN First(x) : k \in First(x)[y]
    BY <2>1, FoundIn
  <2> QED
    BY <1>4, <1>7, <2>2
<1>9. FirstFound(First(s)) # {}
  BY <1>3, <1>6, <1>7, FirstIsFound
<1>10. PICK sets : sets = [x \in DOMAIN rows |-> FirstFound(First(x))]
  OBVIOUS
<1>11. FirstFound(sets) = {n}
  <2>1. DOMAIN sets \in SUBSET Nat /\ s \in DOMAIN sets /\ sets[s] # {}
    BY <1>3, <1>9, <1>10
  <2>2. FirstFound(sets) # {}
    BY <2>1, FirstIsFound
  <2>3. ASSUME NEW k \in FirstFound(sets) PROVE k = n
    <3>1. \E x \in DOMAIN sets : k \in sets[x]
      BY <2>1, FoundIn
    <3> QED
      BY <1>8, <1>10, <3>1
  <2> QED
    BY <2>2, <2>3
<1>12. FileNode(m) = IF FirstFound(sets) = {} THEN Absent ELSE CHOOSE k \in FirstFound(sets) : TRUE
  BY <1>1, <1>2, <1>10 DEF FileNode, First, Naming
<1> QED
  BY <1>11, <1>12

LEMMA LiveIsTyped ==
  ASSUME AnnotatedAtHome, UpToDate, NEW kinds, NEW d \in LiveEdges(edges, kinds)
  PROVE  d[1] \in Nodes /\ d[2] \in Nodes
<1>1. PICK e \in DOMAIN edges : d = <<e[1], e[2]>>
  BY DEF LiveEdges
<1>2. DOMAIN edges \subseteq Nodes \X Nodes \X VALID_EDGE_KINDS
  BY TablesOfTheCode, LoadedTyped DEF UpToDate
<1> QED
  BY <1>1, <1>2

LEMMA DenyClean ==
  ASSUME AnnotatedAtHome, OneHome, UpToDate,
         NEW b, NEW r, r.spec = _parse_deny_rule(b), r.spec # Refused, Denied(r) = {},
         "depends_on" \notin Default(b, "unless_edge", {}),
         NEW m \in Present(code), NEW n \in Meant(b.from), Annotated(m) = {n}
  PROVE  ~Crosses(b, m, n)
<1> SUFFICES ASSUME Crosses(b, m, n) PROVE FALSE
  OBVIOUS
<1>1. PICK unless : unless = Default(b, "unless_edge", {})
  OBVIOUS
<1>2. r.spec = [from |-> _parse_node_matcher(b.from), to |-> _parse_node_matcher(b.to), unless |-> unless]
  BY <1>1 DEF _parse_deny_rule
<1>3. PICK p \in ImportsIn[code[m]] : \E k \in Present(code) \cap Denoted(p) : \E t \in Home(k) \ {n} :
        t \in Meant(b.to) /\ \A u \in unless : <<n, t, u>> \notin DOMAIN declared
  BY <1>1 DEF Crosses
<1>4. PICK k \in Present(code) \cap Denoted(p) : \E t \in Home(k) \ {n} :
        t \in Meant(b.to) /\ \A u \in unless : <<n, t, u>> \notin DOMAIN declared
  BY <1>3
<1>5. PICK t \in Home(k) \ {n} :
        t \in Meant(b.to) /\ \A u \in unless : <<n, t, u>> \notin DOMAIN declared
  BY <1>4
<1>6. k \in Modules /\ code \in Trees /\ t \in Nodes /\ n \in Nodes
  BY <1>5 DEF Present, UpToDate, Meant
<1>7. PICK i : i = [file |-> m, path |-> p, node |-> t]
  OBVIOUS
<1>8. i \in imports
  <2>1. i \in IndexedImports(code)
    BY <1>4, <1>5, <1>6, <1>7, ImportIndexed
  <2> QED
    BY <2>1, TablesOfTheCode
<1>9. FileNode(m) = n
  BY AnnotatedFile
<1>10. ~_edge_exists(n, t, unless)
  <2> SUFFICES ASSUME NEW u \in unless, <<n, t, u>> \in DOMAIN edges PROVE FALSE
    BY DEF _edge_exists
  <2>1. DOMAIN edges = DOMAIN declared \cup ImportEdgesOf[code]
    BY TablesOfTheCode DEF Loaded
  <2>2. <<n, t, u>> \in ImportEdgesOf[code]
    BY <1>5, <2>1
  <2>3. ImportEdgesOf[code] = ImportEdges(IndexedImports(code))
    BY <1>6 DEF ImportEdgesOf, ImportRows
  <2>4. u = "depends_on"
    BY <2>2, <2>3 DEF ImportEdges
  <2> QED
    BY <1>1, <2>4
<1>11. Matches(r.spec.from, n) /\ Matches(r.spec.to, t)
  BY <1>2, <1>5, MeantMatches
<1>12. t # Absent /\ n \notin {Absent, t} /\ r.spec.unless = unless
  BY <1>2, <1>5, <1>6, LintConstants
<1>13. i.file = m /\ i.node = t
  BY <1>7
<1>14. Violation(r, i.file, FileNode(i.file), i.node) \in Denied(r)
  BY <1>8, <1>9, <1>10, <1>11, <1>12, <1>13 DEF Denied
<1> QED
  BY <1>14

LEMMA CheckClean ==
  ASSUME UpToDate, IsFiniteSet(Modules),
         NEW b, NEW r, r.spec = _parse_check_rule(b), r.spec # Refused, Sizes(r) = {},
         NEW n \in Meant(b.for) \cap DOMAIN DirOf, Get(b, "max_files") # Blank
  PROVE  Fits(b, n)
<1>1. r.spec = [for |-> _parse_node_matcher(b.for), max_symbols |-> Get(b, "max_symbols"),
                max_files |-> Get(b, "max_files"), min_doc_coverage |-> Get(b, "min_doc_coverage")]
  BY DEF _parse_check_rule
<1>2. b.max_files \in Nat /\ Get(b, "max_files") = b.max_files
  BY DEF _parse_check_rule, IsCount, Get
<1>3. n \in Nodes /\ Matches(r.spec.for, n)
  BY <1>1, MeantMatches DEF Meant
<1>4. PICK files : files = {m \in Present(code) : IsPrefix(DirOf[n], m.dir)}
  OBVIOUS
<1>5. Under(n) \cap Present(symbols) = files
  BY <1>4, TablesOfTheCode DEF Under, Present
<1>6. Cardinality(files) \in Nat
  BY <1>4, FS_Subset, FS_CardinalityType DEF Present
<1>7. ~(Cardinality(Under(n) \cap Present(symbols)) > r.spec.max_files)
  <2> SUFFICES ASSUME Cardinality(Under(n) \cap Present(symbols)) > r.spec.max_files PROVE FALSE
    OBVIOUS
  <2>1. r.spec.max_files # Blank
    BY <1>1
  <2>2. Violation(r, Absent, n, Absent) \in Sizes(r)
    BY <1>3, <2>1 DEF Sizes
  <2> QED
    BY <2>2
<1>8. Cardinality(files) <= b.max_files
  BY <1>1, <1>2, <1>5, <1>6, <1>7
<1> QED
  BY <1>4, <1>8 DEF Fits

LEMMA LayersClean ==
  ASSUME AnnotatedAtHome, OneHome, UpToDate,
         NEW b, Get(b, "edge_kind") = "depends_on",
         NEW r \in RulesOf("layers"), r.spec = _parse_layer_rule(b), r.spec # Refused, DOMAIN r.spec.layers \in SUBSET Nat,
         \A q \in RulesOf("layers") : q = r,
         NEW layer \in LayerChoices, Upward(r, layer) = {},
         NEW links, links \subseteq LiveEdges(edges, {"depends_on"})
  PROVE  Downward(b, links)
<1> DEFINE Places(n) == {i \in DOMAIN b.layers : b.layers[i].tag \in TagsOf[n]}
<1>1. r.spec.edge_kind = "depends_on" /\ r.spec.layers = [i \in DOMAIN b.layers |-> b.layers[i].tag]
  <2>1. Default(b, "edge_kind", "uses") = "depends_on"
    BY NullIsNoWord DEF Default, Get, VALID_EDGE_KINDS
  <2>2. PICK tags : tags = [i \in DOMAIN b.layers |-> b.layers[i].tag]
    OBVIOUS
  <2>3. PICK skip : skip = (Default(b, "allow_skip", TRUE) \notin {FALSE, Blank})
    OBVIOUS
  <2>4. r.spec = [layers |-> tags, edge_kind |-> "depends_on", allow_skip |-> skip]
    BY <2>1, <2>2, <2>3, Zenon DEF _parse_layer_rule
  <2> QED
    BY <2>2, <2>4
<1>2. \A n : \A i \in DOMAIN b.layers : Places(n) = {i} => LayersOf(r.spec.layers, n) = {i}
  <2> SUFFICES ASSUME NEW n, NEW i \in DOMAIN b.layers, Places(n) = {i}
               PROVE  LayersOf(r.spec.layers, n) = {i}
    OBVIOUS
  <2>1. PICK tags : tags = r.spec.layers
    OBVIOUS
  <2>2. DOMAIN tags = DOMAIN b.layers /\ \A j \in DOMAIN tags : tags[j] = b.layers[j].tag
    BY <1>1, <2>1
  <2>3. \A j \in DOMAIN tags : tags[j] \in TagsOf[n] <=> j = i
    BY <2>2
  <2>4. \A j \in DOMAIN tags : j > i => tags[j] # tags[i]
    BY <2>1, <2>2, <2>3
  <2> QED
    BY <2>1, <2>2, <2>3, <2>4 DEF LayersOf
<1>3. \A n \in Nodes : \A i \in DOMAIN b.layers : Places(n) = {i} => layer[n] = i
  <2> SUFFICES ASSUME NEW n \in Nodes, NEW i \in DOMAIN b.layers, Places(n) = {i}
               PROVE  layer[n] = i
    OBVIOUS
  <2>1. LayersOf(r.spec.layers, n) = {i}
    BY <1>2
  <2>2. PICK places : places = UNION {LayersOf(q.spec.layers, n) : q \in RulesOf("layers")}
    OBVIOUS
  <2>3. places # {} => layer[n] \in places
    BY <2>2 DEF LayerChoices
  <2>4. places = {i}
    BY <2>1, <2>2
  <2> QED
    BY <2>3, <2>4
<1>4. SUFFICES ASSUME NEW d \in links, NEW i \in DOMAIN b.layers, NEW j \in DOMAIN b.layers,
                      Places(d[1]) = {i}, Places(d[2]) = {j}, i > j
               PROVE  FALSE
  BY DEF Downward
<1>5. d \in LiveEdges(edges, {r.spec.edge_kind})
  BY <1>1
<1>6. d[1] \in Nodes /\ d[2] \in Nodes
  BY <1>5, LiveIsTyped
<1>7. LayersOf(r.spec.layers, d[1]) # {} /\ LayersOf(r.spec.layers, d[2]) # {}
  BY <1>2, <1>4
<1>8. layer[d[1]] > layer[d[2]]
  BY <1>3, <1>4, <1>6
<1>9. Violation(r, Absent, d[1], d[2]) \in Upward(r, layer)
  BY <1>5, <1>7, <1>8 DEF Upward
<1> QED
  BY <1>9

\* A rule of which nothing is an error, and that makes errors, has found nothing.
LEMMA SilentRules ==
  ASSUME NEW r, r.severity = "error", NEW layer, \A v \in Violations(r, layer) : v.severity # "error"
  PROVE  /\ r.type = "deny" => Denied(r) = {}
         /\ r.type = "check" => Sizes(r) = {}
         /\ r.type = "layers" => Upward(r, layer) = {}
         /\ r.type = "forbid_cycles" => reported = {}
<1>1. \A m, x, y : Violation(r, m, x, y).severity = "error"
  BY DEF Violation
<1>2. CASE r.type = "deny"
  <2>1. \A v \in Denied(r) : v.severity # "error"
    BY <1>2 DEF Violations
  <2> QED
    BY <1>1, <1>2, <2>1 DEF Denied
<1>3. CASE r.type = "check"
  <2>1. \A v \in Sizes(r) : v.severity # "error"
    BY <1>3 DEF Violations
  <2>2. PICK E : Sizes(r) = {Violation(r, Absent, n, Absent) : n \in E}
    BY DEF Sizes
  <2> QED
    BY <1>1, <1>3, <2>1, <2>2
<1>4. CASE r.type = "layers"
  <2>1. \A v \in Upward(r, layer) : v.severity # "error"
    BY <1>4 DEF Violations
  <2>2. PICK E : Upward(r, layer) = {Violation(r, Absent, e[1], e[2]) : e \in E}
    BY DEF Upward
  <2> QED
    BY <1>1, <1>4, <2>1, <2>2
<1>5. CASE r.type = "forbid_cycles"
  <2>1. \A v \in Cyclic(r) : v.severity # "error"
    BY <1>5 DEF Violations
  <2> QED
    BY <1>1, <1>5, <2>1 DEF Cyclic
<1> QED
  BY <1>2, <1>3, <1>4, <1>5

\* What a lint of fresh tables finds no error in is clean.
LEMMA SilenceIsClean ==
  ASSUME AnnotatedAtHome, OneHome, IsFiniteSet(Nodes), IsFiniteSet(Modules),
         UpToDate, Searching, SearchDone,
         NEW layer \in LayerChoices, \A v \in evaluate_all(layer) : v.severity # "error"
  PROVE  Clean
<1> DEFINE real == Visible(code, Present(code), declared) \cup Declared(declared, {"depends_on"})
<1>1. real \subseteq LiveEdges(edges, {"depends_on"})
  BY RealIsLive
<1>2. rulefile \in DOMAIN RuleFiles /\ RulesIn[rulefile] # Refused
  BY DEF Searching
<1>3. \A r \in rules : \A v \in Violations(r, layer) : v.severity # "error"
  BY DEF evaluate_all
<1>4. "forbid_cycles" \notin Advisory /\ "layers" \notin Advisory /\ "check" \notin Advisory /\ "deny" \notin Advisory
  BY DEF Advisory
<1>5. ASSUME NEW b \in Asked("forbid_cycles"), "depends_on" \in b.edge_kind, MaxDepth >= Cardinality(Nodes)
      PROVE  Acyclic(real)
  <2>1. PICK r \in rules : /\ r.type = "forbid_cycles" /\ r.severity = "error"
                           /\ r.spec = ParsedBlock("forbid_cycles", b) /\ r.spec # Refused
    BY <1>2, <1>4, AskedIsEnforced
  <2>2. reported = {}
    BY <1>3, <2>1, SilentRules
  <2>3. Acyclic(adj)
    <3>1. Cardinality(Nodes) \in Nat
      BY FS_CardinalityType
    <3>2. Cardinality(Nodes) <= MaxDepth
      BY <1>5, <3>1, MaxDepthAssumption
    <3> QED
      BY <2>2, <3>2, InvGivesLayers DEF Searching, SilenceMeansLayers
  <2>4. r.spec = _parse_cycle_rule(b)
    BY <2>1 DEF ParsedBlock
  <2>5. r.spec.edge_kind = b.edge_kind
    BY <1>5, <2>1, <2>4 DEF _parse_cycle_rule, Get, Given
  <2>6. LiveEdges(edges, {"depends_on"}) \subseteq LiveEdges(edges, r.spec.edge_kind)
    BY <1>5, <2>5 DEF LiveEdges
  <2>7. r \in RulesOf("forbid_cycles")
    BY <2>1 DEF RulesOf
  <2>8. LiveEdges(edges, r.spec.edge_kind) \subseteq adj
    BY <2>7 DEF Searching
  <2> HIDE DEF real
  <2>9. real \subseteq adj
    BY <1>1, <2>6, <2>8
  <2> QED
    BY <2>3, <2>9 DEF Acyclic
<1>6. ASSUME NEW b \in Asked("layers"), Get(b, "edge_kind") = "depends_on"
      PROVE  Downward(b, real)
  <2>1. PICK r \in rules : /\ r.type = "layers" /\ r.severity = "error"
                           /\ r.spec = ParsedBlock("layers", b) /\ r.spec # Refused
    BY <1>2, <1>4, AskedIsEnforced
  <2>2. r \in RulesOf("layers")
    BY <2>1 DEF RulesOf
  <2>3. r.spec = _parse_layer_rule(b)
    BY <2>1 DEF ParsedBlock
  <2>4. DOMAIN r.spec.layers \in SUBSET Nat
    BY <1>2, <2>1, LintConstants DEF rules
  <2>5. \A q \in RulesOf("layers") : q = r
    BY <1>2, <2>1, OneCycleRule DEF RulesOf, rules
  <2>6. Upward(r, layer) = {}
    BY <1>3, <2>1, SilentRules
  <2> HIDE DEF real
  <2> QED
    BY <1>1, <1>6, <2>1, <2>2, <2>3, <2>4, <2>5, <2>6, LayersClean
<1>7. ASSUME NEW b \in Asked("check"), NEW n \in Meant(b.for) \cap DOMAIN DirOf, Get(b, "max_files") # Blank
      PROVE  Fits(b, n)
  <2>1. PICK r \in rules : /\ r.type = "check" /\ r.severity = "error"
                           /\ r.spec = ParsedBlock("check", b) /\ r.spec # Refused
    BY <1>2, <1>4, AskedIsEnforced
  <2>2. r.spec = _parse_check_rule(b)
    BY <2>1 DEF ParsedBlock
  <2>3. Sizes(r) = {}
    BY <1>3, <2>1, SilentRules
  <2> QED
    BY <1>7, <2>1, <2>2, <2>3, CheckClean
<1>8. ASSUME NEW b \in Asked("deny"), "depends_on" \notin Default(b, "unless_edge", {}),
             NEW m \in Present(code), NEW n \in Meant(b.from), Annotated(m) = {n}
      PROVE  ~Crosses(b, m, n)
  <2>1. PICK r \in rules : /\ r.type = "deny" /\ r.severity = "error"
                           /\ r.spec = ParsedBlock("deny", b) /\ r.spec # Refused
    BY <1>2, <1>4, AskedIsEnforced
  <2>2. r.spec = _parse_deny_rule(b)
    BY <2>1 DEF ParsedBlock
  <2>3. Denied(r) = {}
    BY <1>3, <2>1, SilentRules
  <2> QED
    BY <1>8, <2>1, <2>2, <2>3, DenyClean
<1> QED
  BY <1>5, <1>6, <1>7, <1>8 DEF Clean

\* Clean is about the code, the graph files and the rules file only.
LEMMA CleanKept ==
  ASSUME UNCHANGED <<code, declared, rulefile>>
  PROVE  Clean' <=> Clean
<1>1. \A type : Asked(type)' = Asked(type)
  BY DEF Asked
<1>2. \A b, n : Fits(b, n)' <=> Fits(b, n)
  BY DEF Fits
<1>3. \A b, m, n : Crosses(b, m, n)' <=> Crosses(b, m, n)
  BY DEF Crosses
<1>4. \A m : Annotated(m)' = Annotated(m)
  BY DEF Annotated
<1> QED
  BY <1>1, <1>2, <1>3, <1>4 DEF Clean

LEMMA GreenStep ==
  ASSUME AnnotatedAtHome, OneHome, IsFiniteSet(Nodes), IsFiniteSet(Modules),
         LintInv, GreenMeansClean, [Next]_vars
  PROVE  GreenMeansClean'
<1>1. CASE report' = Absent
  BY <1>1 DEF GreenMeansClean, Green
<1>2. CASE phase' = "evaluating"
  BY <1>2 DEF GreenMeansClean
<1>3. ASSUME NEW m \in Modules, NEW c \in ContentsOf[m], EditCode(m, c) PROVE GreenMeansClean'
  BY <1>1, <1>3 DEF EditCode
<1>4. ASSUME NEW g \in Graphs, EditGraph(g) PROVE GreenMeansClean'
  BY <1>1, <1>4 DEF EditGraph
<1>5. CASE FullReindex
  BY <1>1, <1>5 DEF FullReindex
<1>6. CASE EvaluateCycles
  BY <1>2, <1>6 DEF EvaluateCycles
<1>7. ASSUME NEW reindex \in BOOLEAN, NEW f \in DOMAIN RuleFiles \cup {Blank}, Lint(reindex, f)
      PROVE  GreenMeansClean'
  <2>1. CASE f = Blank /\ rulefile' = f
    <3>1. \A type : Asked(type)' = {}
      BY <2>1 DEF Asked
    <3> QED
      BY <3>1 DEF GreenMeansClean, Clean
  <2>2. CASE report' = Refused
    BY <2>2 DEF GreenMeansClean, Green
  <2> QED
    BY <1>2, <1>7, <2>1, <2>2 DEF Lint
<1>8. CASE Report
  <2>1. /\ UNCHANGED <<code, declared, rulefile>> /\ phase = "evaluating" /\ SearchDone
        /\ UNCHANGED <<symbols, loaded, lastFull>>
    BY <1>8 DEF Report, world, index
  <2>2. PICK layer \in LayerChoices : report' = evaluate_all(layer)
    BY <1>8 DEF Report
  <2>3. SUFFICES ASSUME Green', Fresh' PROVE Clean
    BY <2>1, CleanKept DEF GreenMeansClean
  <2>4. \A v \in evaluate_all(layer) : v.severity # "error"
    BY <2>2, <2>3 DEF Green
  <2>5. UpToDate /\ Searching
    BY <2>1, <2>3 DEF UpToDate, Fresh, LintInv
  <2> QED
    BY <2>1, <2>4, <2>5, SilenceIsClean
<1>9. CASE UNCHANGED vars
  <2>1. /\ UNCHANGED <<code, declared, rulefile>> /\ UNCHANGED <<symbols, loaded, lastFull, phase, report>>
    BY <1>9 DEF vars, world, index
  <2> QED
    BY <2>1, CleanKept DEF GreenMeansClean, Green, Fresh
<1> QED
  BY <1>3, <1>4, <1>5, <1>6, <1>7, <1>8, <1>9 DEF Next

\* `lint --strict` exits with 0 over tables of the code as it is only if the code is
\* clean, for any graphs, code, rules and order of the search.
THEOREM GreenIsClean ==
  ASSUME AnnotatedAtHome, OneHome, IsFiniteSet(Nodes), IsFiniteSet(Modules)
  PROVE  Spec => []GreenMeansClean
<1>1. Init => GreenMeansClean
  BY DEF Init, GreenMeansClean, Green
<1>2. LintInv /\ [Next]_vars => LintInv'
  BY LintInvInductive
<1>3. LintInv /\ GreenMeansClean /\ [Next]_vars => GreenMeansClean'
  BY GreenStep
<1> QED
  BY <1>1, <1>2, <1>3, LintInitInv, PTL DEF Spec

=============================================================================
