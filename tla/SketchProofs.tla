------------------------------ MODULE SketchProofs ------------------------------
(***************************************************************************)
(* Proofs about Sketch, for submissions of any length and form, any edits, *)
(* and compiles with any number of errors of any size in any order.        *)
(*                                                                         *)
(* list_evolve_blocks pairs the k-th start marker with the k-th end marker *)
(* and knows nothing of what belongs together.  Whatever the text, blocks  *)
(* begin one below the other (AnyBlocks), and that is all the walk of the  *)
(* retirement needs (NoneOverlooked).  Tidy(t, B) says that in t the pairs *)
(* are what they should be, the blocks B: one after the other, tactics and *)
(* comments inside, statements outside.  prepare() makes a tidy text, if   *)
(* the submission has no marker in a comment (Prepared), a replacement     *)
(* keeps it tidy, if the code has none (ReplaceFollows), and so does the   *)
(* retirement (RetiredTidy): that is, until a marker is foreign.  What the *)
(* functions compute for texts of any length is shown by induction over    *)
(* the natural numbers (Induct).                                           *)
(***************************************************************************)
EXTENDS Sketch, TLAPS, SequenceTheorems, FiniteSetTheorems, WellFoundedInduction

-----------------------------------------------------------------------------
(* Induction over the natural numbers, by their least element *)
LEMMA Induct ==
  ASSUME NEW S, 0 \in S, \A n \in Nat : n \in S => n + 1 \in S
  PROVE  \A n \in Nat : n \in S
<1> SUFFICES ASSUME NEW m \in Nat, m \notin S PROVE FALSE
  OBVIOUS
<1> DEFINE Left == Nat \ S
           Below == {ss \in Nat \X Nat : ss[1] < ss[2]}
<1>1. IsWellFoundedOn(Below, Nat)
  BY NatLessThanWellFounded DEF OpToRel
<1>2. PICK n \in Left : \A k \in Left : ~(<<k, n>> \in Below)
  <2>1. Left # {} /\ Left \subseteq Nat
    OBVIOUS
  <2> HIDE DEF Left, Below
  <2> QED BY <1>1, <2>1, WFMin
<1>3. \A k \in Left : ~(k < n)
  BY <1>2
<1>4. n # 0 /\ n - 1 \in Nat /\ n - 1 < n
  OBVIOUS
<1>5. n - 1 \in S
  BY <1>3, <1>4
<1>6. n - 1 + 1 = n
  OBVIOUS
<1> QED BY <1>4, <1>5, <1>6

LEMMA Least ==
  ASSUME NEW S \in SUBSET Nat, S # {}
  PROVE  \E n \in S : \A k \in S : n <= k
<1> DEFINE T == {m \in Nat : \A k \in S : m <= k}
<1> SUFFICES ASSUME ~\E n \in S : \A k \in S : n <= k PROVE FALSE
  OBVIOUS
<1>1. 0 \in T
  OBVIOUS
<1>2. ASSUME NEW m \in Nat, m \in T PROVE m + 1 \in T
  <2>1. m \notin S
    BY <1>2
  <2> QED BY <1>2, <2>1
<1>3. \A m \in Nat : m \in T
  <2> HIDE DEF T
  <2> QED BY <1>1, <1>2, Induct
<1>4. PICK k \in S : k \in Nat
  OBVIOUS
<1>5. k + 1 \in T
  BY <1>3, <1>4
<1> QED BY <1>4, <1>5

(* InOrder lists the members of a set in their order, and nothing else does. *)
Lists(e, S) ==
  /\ e \in Seq(S)
  /\ \A j, k \in 1..Len(e) : j < k => e[j] < e[k]
  /\ \A i \in S : \E k \in 1..Len(e) : e[k] = i

UpTo(u, S, n) ==
  u = [i \in 0..n |->
        IF i = 0 THEN <<>> ELSE IF i \in S THEN Append(u[i - 1], i) ELSE u[i - 1]]

LEMMA UpToExists ==
  ASSUME NEW S, NEW n \in Nat
  PROVE  \E u : UpTo(u, S, n)
<1> DEFINE T == {m \in Nat : \E u : UpTo(u, S, m)}
<1>1. 0 \in T
  <2> DEFINE u == [i \in 0..0 |-> <<>>]
  <2>1. UpTo(u, S, 0)
    BY DEF UpTo
  <2> QED BY <2>1
<1>2. ASSUME NEW m \in Nat, m \in T PROVE m + 1 \in T
  <2>1. PICK u : UpTo(u, S, m)
    BY <1>2
  <2> DEFINE next == IF m + 1 \in S THEN Append(u[m], m + 1) ELSE u[m]
             v == [i \in 0..m + 1 |-> IF i = m + 1 THEN next ELSE u[i]]
  <2>2. \A i \in 0..m : u[i] = IF i = 0 THEN <<>>
                               ELSE IF i \in S THEN Append(u[i - 1], i) ELSE u[i - 1]
    BY <2>1 DEF UpTo
  <2>3. ASSUME NEW i \in 0..m + 1
        PROVE  v[i] = IF i = 0 THEN <<>> ELSE IF i \in S THEN Append(v[i - 1], i) ELSE v[i - 1]
    <3>1. CASE i = m + 1
      <4>1. v[i] = next /\ v[i - 1] = u[m] /\ i # 0 /\ i - 1 = m
        BY <3>1
      <4> QED BY <3>1, <4>1
    <3>2. CASE i \in 0..m
      <4>1. v[i] = u[i] /\ (i # 0 => v[i - 1] = u[i - 1])
        BY <3>2
      <4> QED BY <2>2, <3>2, <4>1
    <3> QED BY <3>1, <3>2
  <2>4. UpTo(v, S, m + 1)
    <3>1. v = [i \in 0..m + 1 |-> v[i]]
      OBVIOUS
    <3> HIDE DEF v
    <3> QED BY <2>3, <3>1 DEF UpTo
  <2> QED BY <2>4
<1>3. \A m \in Nat : m \in T
  <2> HIDE DEF T
  <2> QED BY <1>1, <1>2, Induct
<1> QED BY <1>3

LEMMA InOrderLists ==
  ASSUME NEW n \in Nat, NEW S \in SUBSET (1..n)
  PROVE  Lists(InOrder(S, n), S)
<1> DEFINE u == CHOOSE v : UpTo(v, S, n)
           T == {m \in Nat : m <= n => Lists(u[m], S \cap 1..m)}
<1>1. UpTo(u, S, n)
  BY UpToExists
<1>2. InOrder(S, n) = u[n]
  BY DEF InOrder, UpTo
<1> HIDE DEF u
<1>3. \A i \in 0..n : u[i] = IF i = 0 THEN <<>>
                             ELSE IF i \in S THEN Append(u[i - 1], i) ELSE u[i - 1]
  BY <1>1 DEF UpTo
<1>4. 0 \in T
  <2>1. u[0] = <<>> /\ <<>> \in Seq(S \cap 1..0)
    BY <1>3
  <2>2. Lists(<<>>, S \cap 1..0)
    BY <2>1 DEF Lists
  <2> QED BY <2>1, <2>2
<1>5. ASSUME NEW m \in Nat, m \in T PROVE m + 1 \in T
  <2> SUFFICES ASSUME m + 1 <= n PROVE Lists(u[m + 1], S \cap 1..m + 1)
    OBVIOUS
  <2> DEFINE e == u[m]
             A == S \cap 1..m
             B == S \cap 1..m + 1
  <2>1. Lists(e, A) /\ m \in Nat /\ A \subseteq B
    BY <1>5
  <2>2. u[m + 1] = IF m + 1 \in S THEN Append(e, m + 1) ELSE e
    BY <1>3
  <2>3. CASE m + 1 \notin S
    <3>1. B = A
      BY <2>3
    <3> QED BY <2>1, <2>2, <2>3, <3>1
  <2>4. CASE m + 1 \in S
    <3>1. B = A \cup {m + 1} /\ \A i \in A : i < m + 1
      BY <2>4
    <3> DEFINE d == Append(e, m + 1)
    <3> HIDE DEF e, A, B
    <3>2. e \in Seq(A) /\ e \in Seq(B) /\ Len(e) \in Nat /\ m + 1 \in B
      BY <2>1, <3>1 DEF Lists
    <3>3. /\ d \in Seq(B) /\ Len(d) = Len(e) + 1 /\ d[Len(e) + 1] = m + 1
          /\ \A k \in 1..Len(e) : d[k] = e[k]
      BY <3>2, AppendProperties
    <3> HIDE DEF d
    <3>4. \A k \in 1..Len(e) : e[k] \in A
      BY <3>2
    <3>5. \A k \in 1..Len(e) + 1 : k \in 1..Len(e) \/ k = Len(e) + 1
      BY <3>2
    <3>6. \A j, k \in 1..Len(d) : j < k => d[j] < d[k]
      <4>1. \A j, k \in 1..Len(e) : j < k => d[j] < d[k]
        BY <2>1, <3>3 DEF Lists
      <4>2. \A j \in 1..Len(e) : d[j] < d[Len(e) + 1]
        BY <3>1, <3>3, <3>4
      <4>3. \A k \in 1..Len(e) + 1 : ~(Len(e) + 1 < k)
        BY <3>2
      <4> QED BY <3>3, <3>5, <4>1, <4>2, <4>3
    <3>7. \A i \in B : \E k \in 1..Len(d) : d[k] = i
      <4>1. ASSUME NEW i \in A PROVE \E k \in 1..Len(d) : d[k] = i
        <5>1. PICK k \in 1..Len(e) : e[k] = i
          BY <2>1 DEF Lists
        <5>2. k \in 1..Len(d)
          BY <3>2, <3>3
        <5> QED BY <3>3, <5>1, <5>2
      <4>2. Len(e) + 1 \in 1..Len(d)
        BY <3>2, <3>3
      <4> QED BY <3>1, <3>3, <4>1, <4>2
    <3>8. Lists(d, B)
      BY <3>3, <3>6, <3>7 DEF Lists
    <3> QED BY <2>2, <2>4, <3>8 DEF d, B
  <2> QED BY <2>3, <2>4
<1>6. n \in T
  <2> HIDE DEF T
  <2> QED BY <1>4, <1>5, Induct
<1>7. S \cap 1..n = S
  OBVIOUS
<1> QED BY <1>2, <1>6, <1>7

LEMMA ListsMembers ==
  ASSUME NEW S \in SUBSET Nat, NEW d, Lists(d, S)
  PROVE  /\ Len(d) \in Nat /\ DOMAIN d = 1..Len(d) /\ d \in Seq(S)
         /\ \A k \in 1..Len(d) : d[k] \in S /\ d[k] \in Nat
<1>1. d \in Seq(S)
  BY DEF Lists
<1>2. Len(d) \in Nat /\ DOMAIN d = 1..Len(d)
  BY <1>1
<1>3. \A k \in 1..Len(d) : d[k] \in S
  BY <1>1
<1> QED BY <1>1, <1>2, <1>3

LEMMA ListsNext ==
  ASSUME NEW S \in SUBSET Nat, NEW d, NEW e, Lists(d, S), Lists(e, S), NEW m \in Nat,
         \A k \in 1..m : k \in DOMAIN d <=> k \in DOMAIN e,
         \A k \in 1..m : k \in DOMAIN d => d[k] = e[k],
         m + 1 \in DOMAIN d
  PROVE  m + 1 \in DOMAIN e /\ e[m + 1] <= d[m + 1]
<1>1. /\ DOMAIN d = 1..Len(d) /\ DOMAIN e = 1..Len(e)
      /\ Len(d) \in Nat /\ Len(e) \in Nat
      /\ \A k \in 1..Len(d) : d[k] \in S
      /\ \A k \in 1..Len(e) : e[k] \in Nat /\ e[k] \in S
  BY ListsMembers
<1>2. PICK r \in 1..Len(e) : e[r] = d[m + 1]
  BY <1>1 DEF Lists
<1>3. ~(r <= m)
  <2> SUFFICES ASSUME r <= m PROVE FALSE
    OBVIOUS
  <2>1. r \in 1..m
    BY <1>1
  <2>2. r \in DOMAIN d /\ d[r] = e[r]
    BY <1>1, <2>1
  <2>3. d[r] < d[m + 1]
    BY <1>1, <2>1, <2>2 DEF Lists
  <2> QED BY <1>1, <1>2, <2>2, <2>3
<1>4. m + 1 \in 1..Len(e) /\ (m + 1 = r \/ m + 1 < r)
  BY <1>1, <1>3
<1>5. m + 1 < r => e[m + 1] < e[r]
  BY <1>4 DEF Lists
<1> QED BY <1>1, <1>2, <1>4, <1>5

LEMMA ListsUnique ==
  ASSUME NEW S \in SUBSET Nat, NEW d, NEW e, Lists(d, S), Lists(e, S)
  PROVE  d = e
<1> DEFINE Same(k) == /\ k \in DOMAIN d <=> k \in DOMAIN e
                      /\ k \in DOMAIN d => d[k] = e[k]
           T == {m \in Nat : \A k \in 1..m : Same(k)}
<1>1. /\ d \in Seq(S) /\ e \in Seq(S)
      /\ DOMAIN d = 1..Len(d) /\ DOMAIN e = 1..Len(e) /\ Len(d) \in Nat /\ Len(e) \in Nat
      /\ \A k \in 1..Len(d) : d[k] \in Nat
      /\ \A k \in 1..Len(e) : e[k] \in Nat
  BY ListsMembers
<1>2. 0 \in T
  OBVIOUS
<1>3. ASSUME NEW m \in Nat, m \in T PROVE m + 1 \in T
  <2>1. \A k \in 1..m : Same(k)
    BY <1>3
  <2>2. m + 1 \in DOMAIN d => m + 1 \in DOMAIN e /\ e[m + 1] <= d[m + 1]
    BY <2>1, ListsNext
  <2>3. m + 1 \in DOMAIN e => m + 1 \in DOMAIN d /\ d[m + 1] <= e[m + 1]
    BY <2>1, ListsNext
  <2>4. \A k \in DOMAIN d : d[k] \in Nat
    BY <1>1
  <2>5. \A k \in DOMAIN e : e[k] \in Nat
    BY <1>1
  <2>6. Same(m + 1)
    BY <2>2, <2>3, <2>4, <2>5
  <2>7. \A k \in 1..m + 1 : k \in 1..m \/ k = m + 1
    OBVIOUS
  <2> QED BY <2>1, <2>6, <2>7
<1>4. \A m \in Nat : m \in T
  <2> HIDE DEF T
  <2> QED BY <1>2, <1>3, Induct
<1>5. \A k \in Nat \ {0} : Same(k)
  <2>1. \A k \in Nat \ {0} : k \in T /\ k \in 1..k
    BY <1>4
  <2> QED BY <2>1
<1>6. Len(d) = Len(e)
  <2> HIDE DEF T
  <2>1. Len(d) > 0 => Len(d) \in 1..Len(e)
    <3>1. Len(d) > 0 => Len(d) \in DOMAIN d /\ Len(d) \in Nat \ {0}
      BY <1>1
    <3> QED BY <1>1, <1>5, <3>1
  <2>2. Len(e) > 0 => Len(e) \in 1..Len(d)
    <3>1. Len(e) > 0 => Len(e) \in DOMAIN e /\ Len(e) \in Nat \ {0}
      BY <1>1
    <3> QED BY <1>1, <1>5, <3>1
  <2>3. Len(d) \in Nat /\ Len(e) \in Nat
    BY <1>1
  <2> HIDE <1>1, <1>5
  <2> QED BY <2>1, <2>2, <2>3
<1>7. \A k \in 1..Len(d) : d[k] = e[k]
  BY <1>1, <1>5
<1> QED BY <1>1, <1>6, <1>7, SeqEqual

-----------------------------------------------------------------------------
(* What a text looks like whose blocks are B *)

Block == [first : Nat, last : Nat]

(* Its markers are those of B, one block after the other. *)
Paired(t, B) ==
  /\ B \in Seq(Block)
  /\ \A k \in 1..Len(B) :
       B[k].first \in 1..Len(t) /\ B[k].last \in 1..Len(t) /\ B[k].first < B[k].last
  /\ \A j, k \in 1..Len(B) : j < k => B[j].last < B[k].first
  /\ \A i \in 1..Len(t) : t[i].mark = "start" <=> \E k \in 1..Len(B) : B[k].first = i
  /\ \A i \in 1..Len(t) : t[i].mark = "end"   <=> \E k \in 1..Len(B) : B[k].last = i

LEMMA PairedTypes ==
  ASSUME NEW t, NEW B, Paired(t, B)
  PROVE  /\ Len(B) \in Nat /\ DOMAIN B = 1..Len(B) /\ B \in Seq(Block)
         /\ \A k \in 1..Len(B) :
              /\ B[k].first \in Nat /\ B[k].last \in Nat
              /\ B[k] = [first |-> B[k].first, last |-> B[k].last]
<1>1. B \in Seq(Block)
  BY DEF Paired
<1>2. Len(B) \in Nat /\ DOMAIN B = 1..Len(B)
  BY <1>1
<1>3. \A k \in 1..Len(B) : B[k] \in Block
  BY <1>1
<1> QED BY <1>1, <1>2, <1>3 DEF Block

LEMMA BlocksAre ==
  ASSUME NEW t \in Seq(Line), NEW B, Paired(t, B)
  PROVE  ListEvolve(t) = B
<1> DEFINE n == Len(B)
           starts == [k \in 1..n |-> B[k].first]
           ends == [k \in 1..n |-> B[k].last]
           ids == [k \in 1..n |-> k]
           S == {k \in DOMAIN t : t[k].mark = "start"}
           E == {k \in DOMAIN t : t[k].mark = "end"}
<1>1. /\ n \in Nat /\ Len(t) \in Nat /\ DOMAIN t = 1..Len(t)
      /\ \A k \in 1..n : B[k].first \in Nat /\ B[k].last \in Nat
  <2>1. Len(t) \in Nat /\ DOMAIN t = 1..Len(t)
    OBVIOUS
  <2> QED BY <2>1, PairedTypes
<1>2. S \in SUBSET (1..Len(t)) /\ E \in SUBSET (1..Len(t))
  BY <1>1
<1>3. \A j, k \in 1..n : j < k => B[j].first < B[k].first /\ B[j].last < B[k].last
  <2>1. \A j, k \in 1..n : j < k => B[j].last < B[k].first
    BY DEF Paired
  <2>2. \A k \in 1..n : B[k].first < B[k].last
    BY DEF Paired
  <2> QED BY <1>1, <2>1, <2>2
<1>4. Marked(t, "start") = starts
  <2>1. \A k \in 1..n : B[k].first \in S
    BY <1>1 DEF Paired
  <2>2. starts \in Seq(S) /\ Len(starts) = n
    BY <1>1, <2>1
  <2>3. \A i \in S : \E k \in 1..n : B[k].first = i
    BY <1>1 DEF Paired
  <2>4. Lists(starts, S)
    BY <1>3, <2>2, <2>3 DEF Lists
  <2>5. Lists(InOrder(S, Len(t)), S)
    BY <1>1, <1>2, InOrderLists
  <2>6. S \in SUBSET Nat
    BY <1>2
  <2> HIDE DEF starts, S
  <2>7. starts = InOrder(S, Len(t))
    BY <2>4, <2>5, <2>6, ListsUnique
  <2> QED BY <2>7 DEF Marked, S
<1>5. Marked(t, "end") = ends
  <2>1. \A k \in 1..n : B[k].last \in E
    BY <1>1 DEF Paired
  <2>2. ends \in Seq(E) /\ Len(ends) = n
    BY <1>1, <2>1
  <2>3. \A i \in E : \E k \in 1..n : B[k].last = i
    BY <1>1 DEF Paired
  <2>4. Lists(ends, E)
    BY <1>3, <2>2, <2>3 DEF Lists
  <2>5. Lists(InOrder(E, Len(t)), E)
    BY <1>1, <1>2, InOrderLists
  <2>6. E \in SUBSET Nat
    BY <1>2
  <2> HIDE DEF ends, E
  <2>7. ends = InOrder(E, Len(t))
    BY <2>4, <2>5, <2>6, ListsUnique
  <2> QED BY <2>7 DEF Marked, E
<1>6. InOrder(1..n, n) = ids
  <2>1. ids \in Seq(1..n) /\ Len(ids) = n
    BY <1>1
  <2>2. Lists(ids, 1..n)
    BY <2>1 DEF Lists
  <2>3. Lists(InOrder(1..n, n), 1..n)
    BY <1>1, InOrderLists
  <2> HIDE DEF ids
  <2> QED BY <1>1, <2>2, <2>3, ListsUnique
<1>7. Len(starts) = n /\ Len(ends) = n /\ {k \in 1..n : starts[k] < ends[k]} = 1..n
  <2>1. \A k \in 1..n : starts[k] < ends[k]
    BY DEF Paired
  <2> QED BY <1>1, <2>1
<1> DEFINE Bs == [k \in DOMAIN ids |-> [first |-> starts[ids[k]], last |-> ends[ids[k]]]]
<1>8. ListEvolve(t) = Bs
  <2> HIDE DEF starts, ends, n, ids
  <2> QED BY <1>1, <1>4, <1>5, <1>6, <1>7 DEF ListEvolve
<1>9. Bs = B
  <2>1. Bs = [k \in 1..n |-> [first |-> B[k].first, last |-> B[k].last]]
    OBVIOUS
  <2>2. \A k \in 1..n : B[k] = [first |-> B[k].first, last |-> B[k].last]
    BY PairedTypes
  <2>3. B = [k \in 1..n |-> B[k]]
    BY PairedTypes
  <2> HIDE DEF n, Bs
  <2> QED BY <2>1, <2>2, <2>3
<1> QED BY <1>8, <1>9

(***************************************************************************)
(* Whatever the markers are, the blocks are pairs of a start marker and an *)
(* end marker below it, and begin one below the other.                     *)
(***************************************************************************)
LEMMA AnyBlocks ==
  ASSUME NEW t \in Seq(Line)
  PROVE  LET B == ListEvolve(t)
         IN /\ B \in Seq(Block) /\ Len(B) \in Nat /\ DOMAIN B = 1..Len(B)
            /\ \A k \in 1..Len(B) :
                 /\ B[k].first \in 1..Len(t) /\ B[k].last \in 1..Len(t)
                 /\ B[k].first \in Nat /\ B[k].last \in Nat
                 /\ B[k].first < B[k].last /\ t[B[k].first].mark = "start"
            /\ \A j, k \in 1..Len(B) : j < k => B[j].first < B[k].first
<1> DEFINE S == {k \in DOMAIN t : t[k].mark = "start"}
           E == {k \in DOMAIN t : t[k].mark = "end"}
           starts == Marked(t, "start")
           ends == Marked(t, "end")
           pairs == IF Len(starts) < Len(ends) THEN Len(starts) ELSE Len(ends)
           P == {k \in 1..pairs : starts[k] < ends[k]}
           proper == InOrder(P, pairs)
           B == [k \in DOMAIN proper |-> [first |-> starts[proper[k]], last |-> ends[proper[k]]]]
<1>1. Len(t) \in Nat /\ DOMAIN t = 1..Len(t) /\ S \in SUBSET (1..Len(t)) /\ E \in SUBSET (1..Len(t))
  OBVIOUS
<1>2. S \in SUBSET Nat /\ E \in SUBSET Nat
  BY <1>1
<1>3. Lists(starts, S) /\ Lists(ends, E)
  BY <1>1, InOrderLists DEF Marked
<1>4. ListEvolve(t) = B
  BY DEF ListEvolve
<1>5. \A k \in S : k \in 1..Len(t) /\ t[k].mark = "start"
  BY <1>1
<1>6. \A k \in E : k \in 1..Len(t)
  BY <1>1
<1> HIDE DEF S, E, starts, ends
<1>7. /\ Len(starts) \in Nat /\ \A k \in 1..Len(starts) : starts[k] \in S
      /\ Len(ends) \in Nat /\ \A k \in 1..Len(ends) : ends[k] \in E
  BY <1>2, <1>3, ListsMembers
<1>8. /\ pairs \in Nat /\ P \in SUBSET (1..pairs) /\ P \in SUBSET Nat
      /\ \A k \in P : /\ k \in 1..Len(starts) /\ k \in 1..Len(ends) /\ k \in Nat
                       /\ starts[k] < ends[k]
  BY <1>7
<1> HIDE DEF P, pairs
<1>9. Lists(proper, P)
  BY <1>8, InOrderLists
<1> HIDE DEF proper
<1>10. /\ Len(proper) \in Nat /\ DOMAIN proper = 1..Len(proper)
       /\ \A k \in 1..Len(proper) : proper[k] \in P
  BY <1>8, <1>9, ListsMembers
<1>11. \A k \in 1..Len(proper) : B[k] = [first |-> starts[proper[k]], last |-> ends[proper[k]]]
  BY <1>10
<1>12. ASSUME NEW k \in 1..Len(proper)
       PROVE  /\ B[k] \in Block
              /\ B[k].first = starts[proper[k]] /\ B[k].first \in 1..Len(t) /\ B[k].first \in Nat
              /\ B[k].last \in 1..Len(t) /\ B[k].last \in Nat
              /\ B[k].first < B[k].last /\ t[B[k].first].mark = "start"
  <2> DEFINE m == proper[k]
  <2>1. m \in P /\ starts[m] \in S /\ ends[m] \in E /\ starts[m] < ends[m]
    BY <1>7, <1>8, <1>10
  <2>2. B[k] = [first |-> starts[m], last |-> ends[m]]
    BY <1>11
  <2> HIDE DEF m, B
  <2>3. /\ starts[m] \in 1..Len(t) /\ starts[m] \in Nat /\ ends[m] \in 1..Len(t) /\ ends[m] \in Nat
        /\ t[starts[m]].mark = "start"
    BY <1>2, <1>5, <1>6, <2>1
  <2> QED BY <2>1, <2>2, <2>3 DEF Block, m
<1>13. DOMAIN B = 1..Len(proper)
  BY <1>10
<1> HIDE DEF B
<1>14. B \in Seq(Block) /\ Len(B) = Len(proper)
  <2>1. B = [k \in 1..Len(proper) |-> B[k]]
    BY <1>10 DEF B
  <2>2. B \in [1..Len(proper) -> Block]
    BY <1>12, <2>1
  <2> QED BY <1>10, <2>2
<1>15. ASSUME NEW j \in 1..Len(proper), NEW k \in 1..Len(proper), j < k
       PROVE  B[j].first < B[k].first
  <2>1. proper[j] < proper[k]
    BY <1>9, <1>15 DEF Lists
  <2>2. proper[j] \in 1..Len(starts) /\ proper[k] \in 1..Len(starts)
    BY <1>8, <1>10
  <2>3. starts[proper[j]] < starts[proper[k]]
    BY <1>3, <2>1, <2>2 DEF Lists
  <2> QED BY <1>12, <2>3
<1> QED BY <1>4, <1>10, <1>12, <1>13, <1>14, <1>15

(* Within a block are tactics and comments, and no part of a statement. *)
Tidy(t, B) ==
  /\ t \in Seq(Line) /\ Paired(t, B)
  /\ \A k \in 1..Len(B) :
       /\ t[B[k].first].part = "start" /\ t[B[k].last].part = "end"
       /\ \A i \in 1..Len(t) :
            B[k].first < i /\ i < B[k].last => t[i].part \in {"tac", "tail"}

LEMMA TidyTypes ==
  ASSUME NEW t, NEW B, Tidy(t, B)
  PROVE  /\ t \in Seq(Line) /\ Len(t) \in Nat /\ DOMAIN t = 1..Len(t)
         /\ \A i \in 1..Len(t) : t[i] \in Line
         /\ Paired(t, B) /\ ListEvolve(t) = B
         /\ Len(B) \in Nat /\ DOMAIN B = 1..Len(B) /\ B \in Seq(Block)
         /\ \A k \in 1..Len(B) :
              /\ B[k].first \in Nat /\ B[k].last \in Nat
              /\ B[k] = [first |-> B[k].first, last |-> B[k].last]
              /\ B[k].first \in 1..Len(t) /\ B[k].last \in 1..Len(t) /\ B[k].first < B[k].last
<1>1. t \in Seq(Line) /\ Paired(t, B)
  BY DEF Tidy
<1>2. Len(t) \in Nat /\ DOMAIN t = 1..Len(t) /\ \A i \in 1..Len(t) : t[i] \in Line
  BY <1>1
<1>3. \A k \in 1..Len(B) :
        B[k].first \in 1..Len(t) /\ B[k].last \in 1..Len(t) /\ B[k].first < B[k].last
  BY <1>1 DEF Paired
<1> QED BY <1>1, <1>2, <1>3, PairedTypes, BlocksAre

LEMMA PlainTidy ==
  ASSUME NEW t \in Seq(Line), \A i \in 1..Len(t) : t[i].mark = "no"
  PROVE  Tidy(t, <<>>)
<1>1. <<>> \in Seq(Block) /\ Len(<<>>) = 0
  OBVIOUS
<1> QED BY <1>1 DEF Tidy, Paired

LEMMA LineTypes ==
  ASSUME NEW i \in Nat
  PROVE  /\ \A part \in {"import", "blank", "head", "tac", "tail", "start", "end"} :
              Plain(i, part) \in Line /\ Plain(i, part).mark = "no" /\ Plain(i, part).part = part
         /\ \A tac : Tactic(i, tac) \in Line /\ Tactic(i, tac).mark = "no" /\ Tactic(i, tac).part = "tac"
         /\ \A mark \in {"start", "end"} :
              /\ Marker(i, mark) \in Line
              /\ Marker(i, mark).mark = mark /\ Marker(i, mark).part = mark
         /\ \A tac : Tactic(i, tac).of = i
<1>1. \A tac : (tac = "sorry") \in BOOLEAN
  OBVIOUS
<1> QED BY <1>1 DEF Plain, Tactic, Marker, Line

LEMMA BlockTidy ==
  ASSUME NEW body \in Seq(Line), NEW i \in Nat,
         \A k \in 1..Len(body) : body[k].mark = "no" /\ body[k].part \in {"tac", "tail"}
  PROVE  Tidy(<<Marker(i, "start")>> \o body \o <<Marker(i, "end")>>,
              <<[first |-> 1, last |-> Len(body) + 2]>>)
<1> DEFINE a == Marker(i, "start")
           z == Marker(i, "end")
           n == Len(body)
           t == <<a>> \o body \o <<z>>
           B == <<[first |-> 1, last |-> n + 2]>>
<1>1. /\ a \in Line /\ a.mark = "start" /\ a.part = "start"
      /\ z \in Line /\ z.mark = "end" /\ z.part = "end" /\ n \in Nat
  BY LineTypes
<1> HIDE DEF a, z
<1>2. /\ t \in Seq(Line) /\ Len(t) = n + 2 /\ t[1] = a /\ t[n + 2] = z
      /\ \A k \in 1..n : t[k + 1] = body[k]
  BY <1>1
<1>3. /\ B \in Seq(Block) /\ Len(B) = 1 /\ B[1].first = 1 /\ B[1].last = n + 2
  BY <1>1 DEF Block
<1> HIDE DEF t, B, n
<1>4. ASSUME NEW k \in 1..Len(t), k # 1, k # n + 2
      PROVE  t[k].mark = "no" /\ t[k].part \in {"tac", "tail"}
  <2>1. k - 1 \in 1..n /\ k = k - 1 + 1
    BY <1>1, <1>2, <1>4
  <2>2. t[k] = body[k - 1]
    BY <1>2, <2>1
  <2> QED BY <2>1, <2>2 DEF n
<1>5. Paired(t, B)
  <2>1. 1 \in 1..Len(t) /\ n + 2 \in 1..Len(t) /\ 1 < n + 2
    BY <1>1, <1>2
  <2>2. \A j, k \in 1..1 : ~(j < k)
    OBVIOUS
  <2>3. \A k \in 1..1 : k = 1
    OBVIOUS
  <2>4. \A k \in 1..Len(t) : t[k].mark = "start" <=> 1 = k
    BY <1>1, <1>2, <1>4
  <2>5. \A k \in 1..Len(t) : t[k].mark = "end" <=> n + 2 = k
    BY <1>1, <1>2, <1>4
  <2> QED BY <1>3, <2>1, <2>2, <2>3, <2>4, <2>5 DEF Paired
<1>6. Tidy(t, B)
  <2>1. \A k \in 1..1 : k = 1
    OBVIOUS
  <2>2. \A k \in 1..Len(t) : 1 < k /\ k < n + 2 => k # 1 /\ k # n + 2
    BY <1>1, <1>2
  <2> QED BY <1>1, <1>2, <1>3, <1>4, <1>5, <2>1, <2>2 DEF Tidy
<1> QED BY <1>6 DEF t, B, n, a, z

(* The blocks of a text further down *)
Shifted(C, d) == [k \in 1..Len(C) |-> [first |-> C[k].first + d, last |-> C[k].last + d]]

LEMMA Joined ==
  ASSUME NEW t, NEW B, Tidy(t, B), NEW u, NEW C, Tidy(u, C)
  PROVE  Tidy(t \o u, B \o Shifted(C, Len(t)))
<1> DEFINE m == Len(t)
           b == Len(B)
           c == Len(C)
           v == t \o u
           Sh == Shifted(C, m)
           D == B \o Sh
<1>1. /\ t \in Seq(Line) /\ u \in Seq(Line) /\ m \in Nat /\ Len(u) \in Nat
      /\ b \in Nat /\ c \in Nat /\ B \in Seq(Block) /\ C \in Seq(Block)
  BY TidyTypes
<1>0. m \in Nat /\ Len(u) \in Nat /\ b \in Nat /\ c \in Nat
  BY <1>1
<1>2. \A k \in 1..b : /\ B[k].first \in Nat /\ B[k].last \in Nat
                      /\ B[k].first \in 1..m /\ B[k].last \in 1..m /\ B[k].first < B[k].last
  BY TidyTypes
<1>3. \A k \in 1..c : /\ C[k].first \in Nat /\ C[k].last \in Nat
                      /\ C[k].first \in 1..Len(u) /\ C[k].last \in 1..Len(u)
                      /\ C[k].first < C[k].last
  BY TidyTypes
<1>4. /\ Sh \in Seq(Block) /\ Len(Sh) = c
      /\ \A k \in 1..c : Sh[k].first = C[k].first + m /\ Sh[k].last = C[k].last + m
  <2>1. \A k \in 1..c : [first |-> C[k].first + m, last |-> C[k].last + m] \in Block
    <3> SUFFICES ASSUME NEW k \in 1..c
                 PROVE  [first |-> C[k].first + m, last |-> C[k].last + m] \in Block
      OBVIOUS
    <3>1. C[k].first \in Nat /\ C[k].last \in Nat
      BY <1>3
    <3>2. C[k].first + m \in Nat /\ C[k].last + m \in Nat
      BY <1>0, <3>1
    <3> QED BY <3>2 DEF Block
  <2>2. Sh = [k \in 1..c |-> [first |-> C[k].first + m, last |-> C[k].last + m]]
    BY DEF Shifted
  <2> HIDE DEF Sh, c
  <2>3. Sh \in [1..c -> Block] /\ \A k \in 1..c : Sh[k] = [first |-> C[k].first + m, last |-> C[k].last + m]
    BY <2>1, <2>2
  <2>4. Sh \in Seq(Block) /\ Len(Sh) = c
    BY <1>0, <2>3
  <2> QED BY <2>3, <2>4
<1>5. /\ v \in Seq(Line) /\ Len(v) = m + Len(u)
      /\ \A i \in 1..m : v[i] = t[i]
      /\ \A i \in 1..Len(u) : v[i + m] = u[i]
  BY <1>1
<1>6. /\ D \in Seq(Block) /\ Len(D) = b + c
      /\ \A k \in 1..b : D[k] = B[k]
      /\ \A k \in 1..c : D[k + b] = Sh[k]
  <2> HIDE DEF Sh
  <2>1. B \in Seq(Block) /\ Sh \in Seq(Block) /\ Len(B) = b /\ Len(Sh) = c
    BY <1>1, <1>4
  <2> HIDE DEF b, c, m
  <2> QED BY <1>0, <2>1
<1> HIDE DEF v, Sh, D, m, b, c
<1>7. ASSUME NEW i \in 1..Len(v)
      PROVE  i \in 1..m \/ (i - m \in 1..Len(u) /\ i = i - m + m /\ i > m)
  BY <1>1, <1>5
<1>8. ASSUME NEW k \in 1..Len(D)
      PROVE  k \in 1..b \/ (k - b \in 1..c /\ k = k - b + b /\ k > b)
  BY <1>1, <1>6
<1>9. \A k \in 1..b : k \in 1..Len(D) /\ D[k].first = B[k].first /\ D[k].last = B[k].last
  BY <1>1, <1>6
<1>10. \A k \in 1..c : /\ k + b \in 1..Len(D)
                       /\ D[k + b].first = C[k].first + m /\ D[k + b].last = C[k].last + m
  BY <1>1, <1>4, <1>6
<1>8a. \A i \in 1..Len(u) : i + m \in 1..Len(v)
  BY <1>1, <1>5
<1>12. Paired(v, D)
  <2>1. ASSUME NEW k \in 1..Len(D)
        PROVE  D[k].first \in 1..Len(v) /\ D[k].last \in 1..Len(v) /\ D[k].first < D[k].last
    <3>1. CASE k \in 1..b
      <4> DEFINE x == B[k].first
                 y == B[k].last
      <4>1. D[k].first = x /\ D[k].last = y
        BY <1>9, <3>1
      <4>2. x \in 1..m /\ y \in 1..m /\ x < y
        BY <1>2, <3>1
      <4> HIDE DEF x, y
      <4> QED BY <1>0, <1>5, <4>1, <4>2
    <3>2. CASE k - b \in 1..c /\ k = k - b + b
      <4> DEFINE j == k - b
      <4>1. D[k].first = C[j].first + m /\ D[k].last = C[j].last + m
        BY <1>10, <3>2
      <4> HIDE DEF j
      <4>2. j \in 1..c
        BY <3>2 DEF j
      <4> DEFINE x == C[j].first
                 y == C[j].last
      <4>3. x \in 1..Len(u) /\ y \in 1..Len(u) /\ x < y
        BY <1>3, <4>2
      <4>4. D[k].first = x + m /\ D[k].last = y + m
        BY <4>1
      <4> HIDE DEF x, y
      <4> QED BY <1>0, <1>5, <4>3, <4>4
    <3> QED BY <1>8, <3>1, <3>2
  <2>2. ASSUME NEW j \in 1..Len(D), NEW k \in 1..Len(D), j < k
        PROVE  D[j].last < D[k].first
    <3>1. CASE j \in 1..b /\ k \in 1..b
      BY <1>9, <2>2, <3>1 DEF Tidy, Paired, b
    <3>2. CASE j \in 1..b /\ k - b \in 1..c /\ k = k - b + b
      <4> DEFINE l == k - b
      <4>1. D[k].first = C[l].first + m /\ D[j].last = B[j].last
        BY <1>9, <1>10, <3>2
      <4> HIDE DEF l
      <4>2. l \in 1..c
        BY <3>2 DEF l
      <4>3. B[j].last \in 1..m /\ C[l].first \in 1..Len(u)
        BY <1>2, <1>3, <3>2, <4>2
      <4> QED BY <1>0, <4>1, <4>3
    <3>3. CASE j - b \in 1..c /\ j = j - b + b /\ k - b \in 1..c /\ k = k - b + b
      <4> DEFINE i == j - b
                 l == k - b
      <4>1. D[k].first = C[l].first + m /\ D[j].last = C[i].last + m
        BY <1>10, <3>3
      <4>2. i < l
        BY <1>1, <2>2, <3>3
      <4>3. i \in 1..c /\ l \in 1..c
        BY <3>3
      <4> HIDE DEF i, l
      <4>4. C[i].last < C[l].first
        BY <4>2, <4>3 DEF Tidy, Paired, c
      <4>5. C[l].first \in Nat /\ C[i].last \in Nat
        BY <1>3, <4>3
      <4> QED BY <1>0, <4>1, <4>4, <4>5
    <3>4. CASE k \in 1..b /\ j > b
      BY <1>1, <2>2, <3>4
    <3> QED BY <1>8, <3>1, <3>2, <3>3, <3>4
  <2>3. ASSUME NEW i \in 1..Len(v)
        PROVE  v[i].mark = "start" <=> \E k \in 1..Len(D) : D[k].first = i
    <3>1. CASE i \in 1..m
      <4>1. v[i] = t[i]
        BY <1>5, <3>1
      <4>2. t[i].mark = "start" <=> \E k \in 1..b : B[k].first = i
        BY <3>1 DEF Tidy, Paired, m, b
      <4>3. ASSUME NEW k \in 1..Len(D), D[k].first = i PROVE k \in 1..b
        <5> SUFFICES ASSUME k - b \in 1..c, k = k - b + b PROVE FALSE
          BY <1>8
        <5> DEFINE l == k - b
        <5>1. D[k].first = C[l].first + m /\ l \in 1..c
          BY <1>10
        <5> HIDE DEF l
        <5> QED BY <1>1, <1>3, <3>1, <4>3, <5>1
      <4> QED BY <1>9, <4>1, <4>2, <4>3
    <3>2. CASE i - m \in 1..Len(u) /\ i = i - m + m /\ i > m
      <4> DEFINE h == i - m
      <4>1. h \in 1..Len(u) /\ i = h + m
        BY <3>2
      <4> HIDE DEF h
      <4>2. v[i] = u[h]
        BY <1>5, <4>1
      <4>3. u[h].mark = "start" <=> \E k \in 1..c : C[k].first = h
        BY <4>1 DEF Tidy, Paired, c
      <4>4. ASSUME NEW k \in 1..c, C[k].first = h PROVE k + b \in 1..Len(D) /\ D[k + b].first = i
        BY <1>10, <4>1, <4>4
      <4>5. ASSUME NEW k \in 1..Len(D), D[k].first = i PROVE \E l \in 1..c : C[l].first = h
        <5>1. ~(k \in 1..b)
          BY <1>1, <1>2, <1>9, <3>2, <4>5
        <5> DEFINE l == k - b
        <5>2. D[k].first = C[l].first + m /\ l \in 1..c
          BY <1>8, <1>10, <5>1
        <5> HIDE DEF l
        <5>3. C[l].first = h
          BY <1>1, <1>3, <4>1, <4>5, <5>2
        <5> QED BY <5>2, <5>3
      <4> QED BY <4>2, <4>3, <4>4, <4>5
    <3> QED BY <1>7, <3>1, <3>2
  <2>4. ASSUME NEW i \in 1..Len(v)
        PROVE  v[i].mark = "end" <=> \E k \in 1..Len(D) : D[k].last = i
    <3>1. CASE i \in 1..m
      <4>1. v[i] = t[i]
        BY <1>5, <3>1
      <4>2. t[i].mark = "end" <=> \E k \in 1..b : B[k].last = i
        BY <3>1 DEF Tidy, Paired, m, b
      <4>3. ASSUME NEW k \in 1..Len(D), D[k].last = i PROVE k \in 1..b
        <5> SUFFICES ASSUME k - b \in 1..c, k = k - b + b PROVE FALSE
          BY <1>8
        <5> DEFINE l == k - b
        <5>1. D[k].last = C[l].last + m /\ l \in 1..c
          BY <1>10
        <5> HIDE DEF l
        <5> QED BY <1>1, <1>3, <3>1, <4>3, <5>1
      <4> QED BY <1>9, <4>1, <4>2, <4>3
    <3>2. CASE i - m \in 1..Len(u) /\ i = i - m + m /\ i > m
      <4> DEFINE h == i - m
      <4>1. h \in 1..Len(u) /\ i = h + m
        BY <3>2
      <4> HIDE DEF h
      <4>2. v[i] = u[h]
        BY <1>5, <4>1
      <4>3. u[h].mark = "end" <=> \E k \in 1..c : C[k].last = h
        BY <4>1 DEF Tidy, Paired, c
      <4>4. ASSUME NEW k \in 1..c, C[k].last = h PROVE k + b \in 1..Len(D) /\ D[k + b].last = i
        BY <1>10, <4>1, <4>4
      <4>5. ASSUME NEW k \in 1..Len(D), D[k].last = i PROVE \E l \in 1..c : C[l].last = h
        <5>1. ~(k \in 1..b)
          BY <1>1, <1>2, <1>9, <3>2, <4>5
        <5> DEFINE l == k - b
        <5>2. D[k].last = C[l].last + m /\ l \in 1..c
          BY <1>8, <1>10, <5>1
        <5> HIDE DEF l
        <5>3. C[l].last = h
          BY <1>1, <1>3, <4>1, <4>5, <5>2
        <5> QED BY <5>2, <5>3
      <4> QED BY <4>2, <4>3, <4>4, <4>5
    <3> QED BY <1>7, <3>1, <3>2
  <2> QED BY <1>6, <2>1, <2>2, <2>3, <2>4 DEF Paired
<1>13. ASSUME NEW k \in 1..Len(D)
       PROVE  /\ v[D[k].first].part = "start" /\ v[D[k].last].part = "end"
              /\ \A i \in 1..Len(v) :
                   D[k].first < i /\ i < D[k].last => v[i].part \in {"tac", "tail"}
  <2>1. CASE k \in 1..b
    <3>1. v[B[k].first] = t[B[k].first] /\ v[B[k].last] = t[B[k].last]
      BY <1>2, <1>5, <2>1
    <3>2. t[B[k].first].part = "start" /\ t[B[k].last].part = "end"
      BY <2>1 DEF Tidy, b
    <3>3. ASSUME NEW i \in 1..Len(v), B[k].first < i, i < B[k].last
          PROVE  v[i].part \in {"tac", "tail"}
      <4>1. i \in 1..m /\ v[i] = t[i]
        <5>1. B[k].first \in 1..m /\ B[k].last \in 1..m
          BY <1>2, <2>1
        <5>2. i \in Nat
          OBVIOUS
        <5>3. i \in 1..m
          BY <1>0, <3>3, <5>1, <5>2
        <5> QED BY <1>5, <5>3
      <4> QED BY <2>1, <3>3, <4>1 DEF Tidy, b, m
    <3> QED BY <1>9, <2>1, <3>1, <3>2, <3>3
  <2>2. CASE k - b \in 1..c /\ k = k - b + b
    <3> DEFINE l == k - b
    <3>1. D[k].first = C[l].first + m /\ D[k].last = C[l].last + m /\ l \in 1..c
      BY <1>10, <2>2
    <3> HIDE DEF l
    <3>2. v[C[l].first + m] = u[C[l].first] /\ v[C[l].last + m] = u[C[l].last]
      BY <1>3, <1>5, <3>1
    <3>3. u[C[l].first].part = "start" /\ u[C[l].last].part = "end"
      BY <3>1 DEF Tidy, c
    <3>4. ASSUME NEW i \in 1..Len(v), C[l].first + m < i, i < C[l].last + m
          PROVE  v[i].part \in {"tac", "tail"}
      <4> DEFINE h == i - m
      <4> DEFINE x == C[l].first
                 y == C[l].last
      <4>3. x \in 1..Len(u) /\ y \in 1..Len(u) /\ x + m < i /\ i < y + m
        BY <1>3, <3>1, <3>4
      <4>4. i \in Nat
        OBVIOUS
      <4> HIDE DEF x, y
      <4>1. h \in 1..Len(u) /\ i = h + m /\ x < h /\ h < y
        BY <1>0, <4>3, <4>4
      <4> HIDE DEF h
      <4>2. v[i] = u[h]
        BY <1>5, <4>1
      <4> QED BY <3>1, <4>1, <4>2 DEF Tidy, c, x, y
    <3> QED BY <3>1, <3>2, <3>3, <3>4
  <2> QED BY <1>8, <2>1, <2>2
<1>14. Tidy(v, D)
  BY <1>5, <1>12, <1>13 DEF Tidy
<1> QED BY <1>14 DEF v, D, Sh, m

-----------------------------------------------------------------------------
(* The text that is prepared *)

(* No comment of the user after a theorem's first line is a marker. *)
Unmarked(s) == \A i \in DOMAIN s : s[i].note \notin {"start", "end"}

LEMMA RestIs ==
  ASSUME NEW c \in Command, NEW i \in Nat
  PROVE  /\ Rest(c, i) \in Seq(Line)
         /\ \A k \in 1..Len(Rest(c, i)) :
              Rest(c, i)[k].mark = "no" /\ Rest(c, i)[k].part \in {"tac", "tail"}
<1> DEFINE OK == {l \in Line : l.mark = "no" /\ l.part \in {"tac", "tail"}}
<1>1. c.rest \in Seq({"tac", "sorry"}) /\ c.tail \in BOOLEAN
  BY DEF Command
<1>2. \A tac : Tactic(i, tac) \in OK
  BY LineTypes
<1>3. Plain(i, "tail") \in OK
  BY LineTypes
<1> HIDE DEF OK
<1>4. [k \in DOMAIN c.rest |-> Tactic(i, c.rest[k])] \in Seq(OK)
  BY <1>1, <1>2
<1>5. TailLine(c, i) \in Seq(OK)
  BY <1>1, <1>3 DEF TailLine
<1>6. Rest(c, i) \in Seq(OK)
  BY <1>4, <1>5 DEF Rest
<1>7. \A k \in 1..Len(Rest(c, i)) : Rest(c, i)[k] \in OK
  BY <1>6
<1>8. OK \subseteq Line
  BY DEF OK
<1>9. Rest(c, i) \in Seq(Line)
  BY <1>6, <1>8
<1> QED BY <1>7, <1>9 DEF OK

LEMMA AsTacticsIs ==
  ASSUME NEW c \in Command
  PROVE  AsTactics(c) \in Command /\ AsTactics(c).note = c.note
<1>1. <<"sorry">> \in Seq({"tac", "sorry"})
  OBVIOUS
<1> QED BY <1>1 DEF AsTactics, Command

LEMMA HeadLineIs ==
  ASSUME NEW c \in Command, NEW i \in Nat
  PROVE  /\ NoteMark(c) \in {"no", "start", "end"}
         /\ HeadLine(c, i) \in Line /\ HeadLine(c, i).mark = NoteMark(c)
<1> DEFINE sorry == c.proof \in {"sorry", "termsorry"} \/ c.here = "sorry"
           m == NoteMark(c)
<1>1. sorry \in BOOLEAN
  OBVIOUS
<1>2. m \in {"no", "start", "end"}
  BY DEF NoteMark
<1>3. HeadLine(c, i) = [Plain(i, "head") EXCEPT !.sorry = sorry, !.mark = m]
  BY Zenon DEF HeadLine
<1> HIDE DEF sorry, m
<1>4. HeadLine(c, i) = [of |-> i, part |-> "head", sorry |-> sorry, mark |-> m]
  BY <1>3 DEF Plain
<1>5. HeadLine(c, i) \in Line /\ HeadLine(c, i).mark = m
  BY <1>1, <1>2, <1>4 DEF Line
<1> QED BY <1>2, <1>5 DEF m

(* With or without such a comment, a command becomes lines. *)
LEMMA RewrittenLines ==
  ASSUME NEW c \in Command, NEW i \in Nat, NEW inject \in BOOLEAN
  PROVE  Rewritten(c, i, inject) \in Seq(Line)
<1> DEFINE t == AsTactics(c)
           m == NoteMark(t)
<1>1. t \in Command
  BY AsTacticsIs
<1> HIDE DEF t
<1>2. HeadLine(t, i) \in Line /\ m \in {"no", "start", "end"}
  BY <1>1, HeadLineIs
<1>3. Rest(t, i) \in Seq(Line)
  BY <1>1, RestIs
<1>4. Plain(i, "head") \in Line /\ Marker(i, "start") \in Line /\ Marker(i, "end") \in Line
  BY LineTypes
<1> HIDE DEF m
<1>5. [Tactic(i, t.here) EXCEPT !.mark = m] \in Line
  <2>1. Tactic(i, t.here) \in Line
    BY LineTypes
  <2> QED BY <1>2, <2>1 DEF Line
<1>6. <<HeadLine(t, i)>> \o Rest(t, i) \in Seq(Line)
  BY <1>2, <1>3
<1>7. Wrap(t, i) \in Seq(Line)
  <2>1. CASE t.rest = <<>> /\ ~t.tail
    <3> DEFINE l == [Tactic(i, t.here) EXCEPT !.mark = m]
               a == Marker(i, "start")
               z == Marker(i, "end")
               h == Plain(i, "head")
    <3>1. Wrap(t, i) = <<h>> \o (<<a>> \o <<l>> \o <<z>>)
      BY <2>1 DEF Wrap, m
    <3>2. l \in Line /\ a \in Line /\ z \in Line /\ h \in Line
      BY <1>4, <1>5
    <3> HIDE DEF l, a, z, h
    <3> QED BY <3>1, <3>2
  <2>2. CASE ~(t.rest = <<>> /\ ~t.tail)
    <3> DEFINE body == Rest(t, i)
               a == Marker(i, "start")
               z == Marker(i, "end")
               h == HeadLine(t, i)
    <3>1. Wrap(t, i) = <<h>> \o (<<a>> \o body \o <<z>>)
      BY <2>2 DEF Wrap
    <3>2. body \in Seq(Line) /\ a \in Line /\ z \in Line /\ h \in Line
      BY <1>2, <1>3, <1>4
    <3> HIDE DEF body, a, z, h
    <3> QED BY <3>1, <3>2
  <2> QED BY <2>1, <2>2
<1>8. Rewritten(c, i, inject) = IF inject /\ Wrapped(c) THEN Wrap(t, i)
                                ELSE <<HeadLine(t, i)>> \o Rest(t, i)
  BY DEF Rewritten, t
<1> QED BY <1>6, <1>7, <1>8

LEMMA PieceLines ==
  ASSUME NEW s \in Submissions, NEW i \in DOMAIN s, NEW inject \in BOOLEAN
  PROVE  Piece(s, i, inject) \in Seq(Line)
<1> DEFINE lines == Rewritten(s[i], i, inject)
<1>1. s \in Seq(Command)
  BY SubmissionsAssumption
<1>2. i \in Nat /\ s[i] \in Command
  BY <1>1
<1>3. lines \in Seq(Line)
  BY <1>2, RewrittenLines
<1> HIDE DEF lines
<1>4. SubSeq(lines, 2, Len(lines)) \in Seq(Line)
  BY <1>3
<1>5. Piece(s, i, inject) = IF Swallowed(s, i, inject) THEN SubSeq(lines, 2, Len(lines)) ELSE lines
  BY DEF Piece, lines
<1> QED BY <1>3, <1>4, <1>5

(* A command becomes a line and what follows it, perhaps a block. *)
LEMMA RewrittenIs ==
  ASSUME NEW c \in Command, c.note \notin {"start", "end"}, NEW i \in Nat, NEW inject \in BOOLEAN
  PROVE  \E l \in Line : \E w, B :
           l.mark = "no" /\ Tidy(w, B) /\ Rewritten(c, i, inject) = <<l>> \o w
<1> DEFINE t == AsTactics(c)
<1>1. t \in Command /\ t.note \notin {"start", "end"}
  BY AsTacticsIs
<1> HIDE DEF t
<1>2. HeadLine(t, i) \in Line /\ HeadLine(t, i).mark = "no"
  <2>1. NoteMark(t) = "no"
    BY <1>1 DEF NoteMark
  <2> QED BY <1>1, <2>1, HeadLineIs
<1>3. Plain(i, "head") \in Line /\ Plain(i, "head").mark = "no"
  BY LineTypes
<1>4. CASE ~(inject /\ Wrapped(c))
  <2>1. Tidy(Rest(t, i), <<>>)
    BY <1>1, RestIs, PlainTidy
  <2>2. Rewritten(c, i, inject) = <<HeadLine(t, i)>> \o Rest(t, i)
    BY <1>4 DEF Rewritten, t
  <2> QED BY <1>2, <2>1, <2>2
<1>5. CASE inject /\ Wrapped(c)
  <2>1. Rewritten(c, i, inject) = Wrap(t, i)
    BY <1>5 DEF Rewritten, t
  <2>2. CASE t.rest = <<>> /\ ~t.tail
    <3> DEFINE l == [Tactic(i, t.here) EXCEPT !.mark = NoteMark(t)]
               body == <<l>>
               w == <<Marker(i, "start")>> \o body \o <<Marker(i, "end")>>
    <3>1. l = Tactic(i, t.here)
      <4>1. NoteMark(t) = "no"
        BY <1>1 DEF NoteMark
      <4>2. ASSUME NEW x \in BOOLEAN
            PROVE  [[Plain(i, "tac") EXCEPT !.sorry = x] EXCEPT !.mark = "no"]
                     = [Plain(i, "tac") EXCEPT !.sorry = x]
        <5>1. [Plain(i, "tac") EXCEPT !.sorry = x]
                = [of |-> i, part |-> "tac", sorry |-> x, mark |-> "no"]
          BY DEF Plain
        <5> QED BY <5>1
      <4>3. l = [Tactic(i, t.here) EXCEPT !.mark = "no"]
        BY <4>1, Zenon
      <4>4. [Tactic(i, t.here) EXCEPT !.mark = "no"] = Tactic(i, t.here)
        BY <4>2, Zenon DEF Tactic
      <4> QED BY <4>3, <4>4
    <3>2. l \in Line /\ l.mark = "no" /\ l.part = "tac"
      <4> HIDE DEF l
      <4> QED BY <3>1, LineTypes
    <3>3. Wrap(t, i) = <<Plain(i, "head")>> \o w
      BY <2>2 DEF Wrap
    <3> HIDE DEF l
    <3>4. body \in Seq(Line) /\ \A k \in 1..Len(body) : body[k].mark = "no" /\ body[k].part \in {"tac", "tail"}
      BY <3>2
    <3> HIDE DEF body
    <3>5. Tidy(w, <<[first |-> 1, last |-> Len(body) + 2]>>)
      BY <3>4, BlockTidy
    <3> HIDE DEF w
    <3> QED BY <1>3, <2>1, <3>3, <3>5
  <2>3. CASE ~(t.rest = <<>> /\ ~t.tail)
    <3> DEFINE body == Rest(t, i)
               w == <<Marker(i, "start")>> \o body \o <<Marker(i, "end")>>
    <3>1. Wrap(t, i) = <<HeadLine(t, i)>> \o w
      BY <2>3 DEF Wrap
    <3>2. Tidy(w, <<[first |-> 1, last |-> Len(body) + 2]>>)
      <4>1. /\ body \in Seq(Line)
            /\ \A k \in 1..Len(body) : body[k].mark = "no" /\ body[k].part \in {"tac", "tail"}
        BY <1>1, RestIs
      <4> HIDE DEF body
      <4> QED BY <4>1, BlockTidy
    <3> HIDE DEF w, body
    <3> QED BY <1>2, <2>1, <3>1, <3>2
  <2> QED BY <2>2, <2>3
<1> QED BY <1>4, <1>5

LEMMA PieceTidy ==
  ASSUME NEW s \in Submissions, Unmarked(s), NEW i \in DOMAIN s, NEW inject \in BOOLEAN
  PROVE  \E B : Tidy(Piece(s, i, inject), B)
<1>1. s \in Seq(Command)
  BY SubmissionsAssumption
<1>2. i \in Nat /\ s[i] \in Command /\ s[i].note \notin {"start", "end"}
  BY <1>1 DEF Unmarked
<1>3. PICK l \in Line : \E w, B :
        l.mark = "no" /\ Tidy(w, B) /\ Rewritten(s[i], i, inject) = <<l>> \o w
  BY <1>2, RewrittenIs
<1>4. PICK w, B : l.mark = "no" /\ Tidy(w, B) /\ Rewritten(s[i], i, inject) = <<l>> \o w
  BY <1>3
<1>5. w \in Seq(Line) /\ Len(w) \in Nat
  BY <1>4, TidyTypes
<1>6. SubSeq(<<l>> \o w, 2, Len(<<l>> \o w)) = w
  <2>1. /\ <<l>> \o w \in Seq(Line) /\ Len(<<l>> \o w) = Len(w) + 1
        /\ \A k \in 1..Len(w) : (<<l>> \o w)[k + 1] = w[k]
    BY <1>5
  <2> DEFINE v == <<l>> \o w
  <2> HIDE DEF v
  <2>2. SubSeq(v, 2, Len(w) + 1) = [k \in 1..Len(w) |-> v[k + 1]]
    BY <1>5
  <2>3. w = [k \in 1..Len(w) |-> w[k]]
    BY <1>5
  <2> QED BY <2>1, <2>2, <2>3 DEF v
<1>7. Tidy(<<l>>, <<>>)
  <2>1. <<l>> \in Seq(Line) /\ \A k \in 1..Len(<<l>>) : <<l>>[k].mark = "no"
    BY <1>4
  <2> QED BY <2>1, PlainTidy
<1>8. \E C : Tidy(<<l>> \o w, C)
  BY <1>4, <1>7, Joined
<1> QED BY <1>4, <1>6, <1>8 DEF Piece

FlatTo(u, seqs, m) ==
  u = [i \in 1..m |-> IF i = 1 THEN seqs[i] ELSE u[i - 1] \o seqs[i]]

LEMMA FlatToExists ==
  ASSUME NEW seqs, NEW n \in Nat
  PROVE  \E u : FlatTo(u, seqs, n)
<1> DEFINE T == {m \in Nat : \E u : FlatTo(u, seqs, m)}
<1>1. 0 \in T
  <2> DEFINE u == [i \in 1..0 |-> seqs[i]]
  <2>1. FlatTo(u, seqs, 0)
    BY DEF FlatTo
  <2> QED BY <2>1
<1>2. ASSUME NEW m \in Nat, m \in T PROVE m + 1 \in T
  <2>1. PICK u : FlatTo(u, seqs, m)
    BY <1>2
  <2> DEFINE v == [i \in 1..m + 1 |->
                    IF i = 1 THEN seqs[1] ELSE IF i = m + 1 THEN u[m] \o seqs[m + 1] ELSE u[i]]
  <2>2. \A i \in 1..m : u[i] = IF i = 1 THEN seqs[i] ELSE u[i - 1] \o seqs[i]
    BY <2>1 DEF FlatTo
  <2>3. \A i \in 1..m : v[i] = u[i]
    BY <2>2
  <2>4. ASSUME NEW i \in 1..m + 1
        PROVE  v[i] = IF i = 1 THEN seqs[i] ELSE v[i - 1] \o seqs[i]
    <3>1. CASE i = 1
      BY <3>1
    <3>2. CASE i # 1 /\ i = m + 1
      <4>1. i - 1 = m /\ m \in 1..m
        BY <3>2
      <4>2. v[i] = u[m] \o seqs[m + 1]
        BY <3>2
      <4> HIDE DEF v
      <4>3. v[i - 1] = u[m]
        BY <2>3, <4>1
      <4> QED BY <3>2, <4>2, <4>3
    <3>3. CASE i # 1 /\ i # m + 1
      <4>1. i \in 1..m /\ i - 1 \in 1..m
        BY <3>3
      <4> HIDE DEF v
      <4> QED BY <2>2, <2>3, <3>3, <4>1
    <3> QED BY <3>1, <3>2, <3>3
  <2>5. v = [i \in 1..m + 1 |-> v[i]]
    OBVIOUS
  <2> HIDE DEF v
  <2>6. FlatTo(v, seqs, m + 1)
    BY <2>4, <2>5 DEF FlatTo
  <2> QED BY <2>6
<1>3. n \in T
  <2> HIDE DEF T
  <2> QED BY <1>1, <1>2, Induct
<1> QED BY <1>3

LEMMA FlattenClosed ==
  ASSUME NEW S, <<>> \in S, \A u, v \in S : u \o v \in S,
         NEW seqs \in Seq(S)
  PROVE  FlattenSeq(seqs) \in S
<1> DEFINE n == Len(seqs)
<1>0. n \in Nat /\ \A i \in 1..n : seqs[i] \in S
  OBVIOUS
<1>1. CASE n = 0
  <2>1. seqs = <<>> /\ FlattenSeq(seqs) = <<>>
    BY <1>1 DEF FlattenSeq
  <2> QED BY <2>1
<1>2. CASE n > 0
  <2> DEFINE f == CHOOSE u : FlatTo(u, seqs, n)
             V == {m \in Nat : 1 <= m /\ m <= n => f[m] \in S}
  <2>1. FlatTo(f, seqs, n)
    BY <1>0, FlatToExists
  <2>2. FlattenSeq(seqs) = f[n]
    BY <1>2 DEF FlattenSeq, FlatTo
  <2> HIDE DEF f
  <2>3. \A i \in 1..n : f[i] = IF i = 1 THEN seqs[i] ELSE f[i - 1] \o seqs[i]
    BY <2>1 DEF FlatTo
  <2>4. 0 \in V
    OBVIOUS
  <2>5. ASSUME NEW m \in Nat, m \in V PROVE m + 1 \in V
    <3> SUFFICES ASSUME m + 1 <= n PROVE f[m + 1] \in S
      OBVIOUS
    <3>0. m + 1 \in 1..n
      BY <1>0
    <3>1. seqs[m + 1] \in S
      BY <1>0, <3>0
    <3>2. CASE m = 0
      BY <2>3, <3>0, <3>1, <3>2
    <3>3. CASE m > 0
      <4>1. f[m] \in S
        BY <2>5, <3>0, <3>3
      <4>2. f[m + 1] = f[m] \o seqs[m + 1]
        <5>1. \A i \in 1..n : i # 1 => f[i] = f[i - 1] \o seqs[i]
          BY <2>3
        <5> DEFINE i == m + 1
        <5>2. i \in 1..n /\ i # 1 /\ i - 1 = m
          BY <3>0, <3>3
        <5> HIDE DEF i
        <5>3. f[i] = f[i - 1] \o seqs[i]
          BY <5>1, <5>2
        <5> QED BY <5>2, <5>3 DEF i
      <4> QED BY <3>1, <4>1, <4>2
    <3> QED BY <3>2, <3>3
  <2>6. n \in V
    <3> HIDE DEF V, n
    <3> QED BY <1>0, <2>4, <2>5, Induct
  <2> QED BY <1>0, <1>2, <2>2, <2>6
<1> QED BY <1>0, <1>1, <1>2

LEMMA FlattenTidy ==
  ASSUME NEW seqs \in Seq(Seq(Line)), \A i \in 1..Len(seqs) : \E B : Tidy(seqs[i], B)
  PROVE  \E B : Tidy(FlattenSeq(seqs), B)
<1> DEFINE S == {t \in Seq(Line) : \E B : Tidy(t, B)}
<1>1. <<>> \in S
  <2>1. <<>> \in Seq(Line) /\ \A k \in 1..Len(<<>>) : <<>>[k].mark = "no"
    OBVIOUS
  <2> QED BY <2>1, PlainTidy
<1>2. ASSUME NEW u \in S, NEW v \in S PROVE u \o v \in S
  <2>1. PICK B, C : Tidy(u, B) /\ Tidy(v, C)
    OBVIOUS
  <2>2. \E D : Tidy(u \o v, D)
    BY <2>1, Joined
  <2> QED BY <2>2, TidyTypes
<1>3. seqs \in Seq(S)
  <2>1. Len(seqs) \in Nat /\ DOMAIN seqs = 1..Len(seqs) /\ seqs = [i \in 1..Len(seqs) |-> seqs[i]]
    OBVIOUS
  <2>2. \A i \in 1..Len(seqs) : seqs[i] \in S
    BY TidyTypes
  <2> HIDE DEF S
  <2>3. seqs \in [1..Len(seqs) -> S]
    BY <2>1, <2>2
  <2> QED BY <2>1, <2>3
<1> HIDE DEF S
<1>4. FlattenSeq(seqs) \in S
  BY <1>1, <1>2, <1>3, FlattenClosed
<1> QED BY <1>4 DEF S

(* The lines _imports_ and blank are the server's own. *)
Headed(t) == Len(t) >= 2 /\ t[1] = Plain(0, "import") /\ t[2] = Plain(0, "blank")

LEMMA HeaderThen ==
  ASSUME NEW body \in Seq(Line)
  PROVE  LET t == HeaderLines \o body
         IN /\ t \in Seq(Line) /\ Headed(t)
            /\ \A k \in 1..Len(body) : k + 2 \in 1..Len(t) /\ t[k + 2] = body[k]
<1> DEFINE t == HeaderLines \o body
<1>1. /\ HeaderLines \in Seq(Line) /\ Len(HeaderLines) = 2
      /\ HeaderLines[1] = Plain(0, "import") /\ HeaderLines[2] = Plain(0, "blank")
  BY LineTypes DEF HeaderLines
<1>2. Len(body) \in Nat
  OBVIOUS
<1>3. /\ t \in Seq(Line) /\ Len(t) = Len(body) + 2
      /\ \A k \in 1..Len(body) + 2 : t[k] = IF k <= 2 THEN HeaderLines[k] ELSE body[k - 2]
  <2>1. /\ t \in Seq(Line) /\ Len(t) = Len(HeaderLines) + Len(body)
        /\ \A k \in 1..Len(HeaderLines) + Len(body) :
             t[k] = IF k <= Len(HeaderLines) THEN HeaderLines[k] ELSE body[k - Len(HeaderLines)]
    BY <1>1, ConcatProperties
  <2>2. 2 + Len(body) = Len(body) + 2
    BY <1>2
  <2> HIDE DEF t
  <2> QED BY <1>1, <2>1, <2>2
<1> HIDE DEF t
<1>4. 1 \in 1..Len(body) + 2 /\ 2 \in 1..Len(body) + 2
  BY <1>2
<1>5. \A k \in 1..Len(body) : k + 2 \in 1..Len(body) + 2 /\ ~(k + 2 <= 2) /\ k + 2 - 2 = k
  BY <1>2
<1>6. Headed(t)
  BY <1>1, <1>2, <1>3, <1>4 DEF Headed
<1> QED BY <1>3, <1>5, <1>6 DEF t

(* Whatever was submitted, the text is the header and lines. *)
LEMMA PreparedLines ==
  ASSUME NEW s \in Submissions, NEW mode
  PROVE  NormalizedLean(s, mode) \in Seq(Line) /\ Headed(NormalizedLean(s, mode))
<1> DEFINE inject == mode = "lean"
           seqs == [i \in DOMAIN s |-> Piece(s, i, inject)]
           body == Body(s, inject)
<1>1. s \in Seq(Command) /\ inject \in BOOLEAN
  BY SubmissionsAssumption
<1>2. Len(s) \in Nat /\ DOMAIN s = 1..Len(s)
  BY <1>1
<1> HIDE DEF inject
<1>3. \A i \in 1..Len(s) : Piece(s, i, inject) \in Seq(Line)
  BY <1>1, <1>2, PieceLines
<1>4. seqs \in Seq(Seq(Line))
  BY <1>2, <1>3
<1>5. body \in Seq(Line)
  <2> HIDE DEF seqs
  <2>1. <<>> \in Seq(Line) /\ \A u, v \in Seq(Line) : u \o v \in Seq(Line)
    OBVIOUS
  <2> DEFINE S == Seq(Line)
  <2> HIDE DEF S
  <2>2. FlattenSeq(seqs) \in S
    BY <1>4, <2>1, FlattenClosed DEF S
  <2> QED BY <2>2 DEF Body, seqs, S
<1>6. NormalizedLean(s, mode) = HeaderLines \o body
  BY DEF NormalizedLean, body, inject
<1> HIDE DEF body
<1> QED BY <1>5, <1>6, HeaderThen

LEMMA Prepared ==
  ASSUME NEW s \in Submissions, Unmarked(s), NEW mode
  PROVE  \E B : /\ Tidy(NormalizedLean(s, mode), B)
                /\ Accepts(s, mode) /\ mode = "lean" => B # <<>>
<1> DEFINE inject == mode = "lean"
           seqs == [i \in DOMAIN s |-> Piece(s, i, inject)]
           body == Body(s, inject)
<1>1. s \in Seq(Command) /\ inject \in BOOLEAN
  BY SubmissionsAssumption
<1>2. Len(s) \in Nat /\ DOMAIN s = 1..Len(s)
  BY <1>1
<1> HIDE DEF inject
<1>3. \A i \in 1..Len(s) : \E B : Tidy(Piece(s, i, inject), B)
  BY <1>1, <1>2, PieceTidy
<1>4. \A i \in 1..Len(s) : Piece(s, i, inject) \in Seq(Line)
  BY <1>3, TidyTypes
<1>5. seqs \in Seq(Seq(Line)) /\ DOMAIN seqs = 1..Len(s) /\ Len(seqs) = Len(s)
  BY <1>2, <1>4
<1>6. \A i \in 1..Len(s) : seqs[i] = Piece(s, i, inject)
  BY <1>2
<1>7. PICK B : Tidy(body, B)
  <2> HIDE DEF seqs
  <2>1. \E B : Tidy(FlattenSeq(seqs), B)
    BY <1>3, <1>5, <1>6, FlattenTidy
  <2> QED BY <2>1 DEF Body, seqs
<1> HIDE DEF body, seqs
<1>8. Tidy(HeaderLines, <<>>)
  <2>1. /\ HeaderLines \in Seq(Line) /\ Len(HeaderLines) = 2
        /\ HeaderLines[1] = Plain(0, "import") /\ HeaderLines[2] = Plain(0, "blank")
    BY LineTypes DEF HeaderLines
  <2>2. Plain(0, "import").mark = "no" /\ Plain(0, "blank").mark = "no"
    BY LineTypes
  <2>3. \A k \in 1..Len(HeaderLines) : k = 1 \/ k = 2
    BY <2>1
  <2>4. \A k \in 1..Len(HeaderLines) : HeaderLines[k].mark = "no"
    BY <2>1, <2>2, <2>3
  <2> QED BY <2>1, <2>4, PlainTidy
<1> DEFINE t == HeaderLines \o body
           D == <<>> \o Shifted(B, Len(HeaderLines))
<1>9. Tidy(t, D)
  BY <1>7, <1>8, Joined
<1>10. NormalizedLean(s, mode) = t
  BY DEF NormalizedLean, body, inject
<1>11. body \in Seq(Line) /\ DOMAIN body = 1..Len(body)
  BY <1>7, TidyTypes
<1>12. \A k \in 1..Len(body) : k + 2 \in 1..Len(t) /\ t[k + 2] = body[k]
  BY <1>11, HeaderThen
<1>13. ASSUME Accepts(s, mode), mode = "lean" PROVE D # <<>>
  <2>1. PICK k \in 1..Len(body) : body[k].mark = "start"
    BY <1>11, <1>13 DEF Accepts, body, inject
  <2>2. t[k + 2].mark = "start" /\ k + 2 \in 1..Len(t)
    <3> HIDE DEF t
    <3> QED BY <1>12, <2>1
  <2> HIDE DEF t, D
  <2>3. \E j \in 1..Len(D) : D[j].first = k + 2
    BY <1>9, <2>2 DEF Tidy, Paired
  <2> QED BY <2>3
<1> QED BY <1>9, <1>10, <1>13

-----------------------------------------------------------------------------
(* Replacing the inside of a block *)

Heads(t) == {k \in DOMAIN t : t[k].part \in {"import", "blank", "head"}}

LEMMA SameStatement ==
  ASSUME NEW t \in Seq(Line), NEW r \in Seq(Line), NEW move,
         \A i \in Heads(t) : move[i] \in Heads(r) /\ r[move[i]] = t[i],
         \A i, j \in Heads(t) : i < j => move[i] < move[j],
         \A p \in Heads(r) : \E i \in Heads(t) : p = move[i]
  PROVE  Statement(r) = Statement(t)
<1> DEFINE e == InOrder(Heads(t), Len(t))
           d == InOrder(Heads(r), Len(r))
           f == [k \in 1..Len(e) |-> move[e[k]]]
<1>1. /\ Len(t) \in Nat /\ Heads(t) \in SUBSET (1..Len(t)) /\ Heads(t) \in SUBSET Nat
      /\ Len(r) \in Nat /\ Heads(r) \in SUBSET (1..Len(r)) /\ Heads(r) \in SUBSET Nat
  BY DEF Heads
<1>2. Statement(t) = [k \in DOMAIN e |-> t[e[k]]] /\ Statement(r) = [k \in DOMAIN d |-> r[d[k]]]
  BY DEF Statement, Heads
<1>3. Lists(e, Heads(t)) /\ Lists(d, Heads(r))
  BY <1>1, InOrderLists
<1> HIDE DEF e, d
<1>4. Len(e) \in Nat /\ DOMAIN e = 1..Len(e) /\ \A k \in 1..Len(e) : e[k] \in Heads(t)
  BY <1>1, <1>3, ListsMembers
<1>5. \A k \in 1..Len(e) : f[k] = move[e[k]] /\ f[k] \in Heads(r)
  BY <1>4
<1>6. f \in Seq(Heads(r)) /\ Len(f) = Len(e) /\ DOMAIN f = 1..Len(e)
  BY <1>4, <1>5
<1> HIDE DEF f
<1>7. Lists(f, Heads(r))
  <2>1. \A j, k \in 1..Len(e) : j < k => f[j] < f[k]
    <3>1. \A j, k \in 1..Len(e) : j < k => e[j] < e[k]
      BY <1>3 DEF Lists
    <3> QED BY <1>4, <1>5, <3>1
  <2>2. ASSUME NEW p \in Heads(r) PROVE \E k \in 1..Len(e) : f[k] = p
    <3>1. PICK i \in Heads(t) : p = move[i]
      OBVIOUS
    <3>2. PICK k \in 1..Len(e) : e[k] = i
      BY <1>3 DEF Lists
    <3> QED BY <1>5, <3>1, <3>2
  <2> QED BY <1>6, <2>1, <2>2 DEF Lists
<1>8. d = f
  BY <1>1, <1>3, <1>7, ListsUnique
<1>9. Statement(r) = [k \in 1..Len(e) |-> r[f[k]]] /\ Statement(t) = [k \in 1..Len(e) |-> t[e[k]]]
  BY <1>2, <1>4, <1>6, <1>8
<1>10. \A k \in 1..Len(e) : r[f[k]] = t[e[k]]
  BY <1>4, <1>5
<1> QED BY <1>9, <1>10

(***************************************************************************)
(* Of t the lines Out are kept in their order, as the lines move[i] of r.  *)
(* What goes is inside of a block, and so is what comes.                   *)
(***************************************************************************)
Moved(t, r, move, Out) ==
  /\ Out \in SUBSET (1..Len(t))
  /\ \A i \in Out : move[i] \in 1..Len(r) /\ r[move[i]] = t[i]
  /\ \A i, j \in Out : i < j => move[i] < move[j]
  /\ \A p \in 1..Len(r) : \/ \E i \in Out : p = move[i]
                          \/ r[p].mark = "no" /\ r[p].part = "tac"
  /\ \A i \in 1..Len(t) : i \notin Out => t[i].part \in {"tac", "tail"}

MovedBlocks(B, move) == [k \in 1..Len(B) |-> [first |-> move[B[k].first], last |-> move[B[k].last]]]

LEMMA MovedTidy ==
  ASSUME NEW t, NEW B, Tidy(t, B), NEW r \in Seq(Line), NEW move, NEW Out, Moved(t, r, move, Out)
  PROVE  Tidy(r, MovedBlocks(B, move)) /\ Statement(r) = Statement(t)
<1> DEFINE b == Len(B)
           C == MovedBlocks(B, move)
<1>1. /\ t \in Seq(Line) /\ Len(t) \in Nat /\ DOMAIN t = 1..Len(t)
      /\ b \in Nat /\ Len(r) \in Nat /\ DOMAIN r = 1..Len(r)
  BY TidyTypes
<1>2. \A i \in Out : i \in 1..Len(t) /\ i \in Nat /\ move[i] \in 1..Len(r) /\ move[i] \in Nat
                     /\ r[move[i]] = t[i]
  BY <1>1 DEF Moved
<1>3. \A i, j \in Out : i < j => move[i] < move[j]
  BY DEF Moved
<1>4. \A i, j \in Out : move[i] = move[j] => i = j
  <2> SUFFICES ASSUME NEW i \in Out, NEW j \in Out, move[i] = move[j], i # j PROVE FALSE
    OBVIOUS
  <2>1. i \in Nat /\ j \in Nat /\ move[i] \in Nat /\ move[j] \in Nat
    BY <1>2
  <2>2. i < j \/ j < i
    BY <2>1
  <2>3. move[i] < move[j] \/ move[j] < move[i]
    BY <1>3, <2>2
  <2> QED BY <2>1, <2>3
<1>5. \A i, j \in Out : move[i] < move[j] => i < j
  <2> SUFFICES ASSUME NEW i \in Out, NEW j \in Out, move[i] < move[j], ~(i < j) PROVE FALSE
    OBVIOUS
  <2>1. i \in Nat /\ j \in Nat /\ move[i] \in Nat /\ move[j] \in Nat
    BY <1>2
  <2>2. i = j \/ j < i
    BY <2>1
  <2>3. move[i] = move[j] \/ move[j] < move[i]
    BY <1>3, <2>2
  <2> QED BY <2>1, <2>3
<1>6. ASSUME NEW k \in 1..b
      PROVE  /\ B[k].first \in Out /\ B[k].last \in Out /\ B[k].first < B[k].last
             /\ B[k].first \in 1..Len(t) /\ B[k].last \in 1..Len(t)
             /\ t[B[k].first].part = "start" /\ t[B[k].last].part = "end"
             /\ t[B[k].first].mark = "start" /\ t[B[k].last].mark = "end"
  <2>1. B[k].first \in 1..Len(t) /\ B[k].last \in 1..Len(t) /\ B[k].first < B[k].last
    BY TidyTypes
  <2>2. t[B[k].first].part = "start" /\ t[B[k].last].part = "end"
    BY DEF Tidy
  <2>3. t[B[k].first].mark = "start" /\ t[B[k].last].mark = "end"
    BY <2>1 DEF Tidy, Paired
  <2> QED BY <2>1, <2>2, <2>3 DEF Moved
<1>7. /\ C \in Seq(Block) /\ Len(C) = b
      /\ \A k \in 1..b : C[k].first = move[B[k].first] /\ C[k].last = move[B[k].last]
  <2>1. \A k \in 1..b : [first |-> move[B[k].first], last |-> move[B[k].last]] \in Block
    BY <1>2, <1>6 DEF Block
  <2> DEFINE c == [k \in 1..b |-> [first |-> move[B[k].first], last |-> move[B[k].last]]]
  <2>2. C = c
    BY DEF MovedBlocks
  <2>3. \A k \in 1..b : c[k].first = move[B[k].first] /\ c[k].last = move[B[k].last]
    OBVIOUS
  <2>4. c \in [1..b -> Block]
    BY <2>1
  <2> HIDE DEF c, C, b
  <2>5. c \in Seq(Block) /\ Len(c) = b
    BY <1>1, <2>4
  <2> QED BY <2>2, <2>3, <2>5
<1> HIDE DEF b, C
<1>8. ASSUME NEW k \in 1..b
       PROVE  /\ r[C[k].first].part = "start" /\ r[C[k].last].part = "end"
              /\ r[C[k].first].mark = "start" /\ r[C[k].last].mark = "end"
  <2>1. r[move[B[k].first]] = t[B[k].first] /\ r[move[B[k].last]] = t[B[k].last]
    BY <1>2, <1>6
  <2>2. r[C[k].first] = t[B[k].first] /\ r[C[k].last] = t[B[k].last]
    BY <1>7, <2>1
  <2> QED BY <1>6, <2>2
<1>9. Paired(r, C)
  <2>1. \A k \in 1..b : C[k].first \in 1..Len(r) /\ C[k].last \in 1..Len(r) /\ C[k].first < C[k].last
    BY <1>2, <1>3, <1>6, <1>7
  <2>2. \A j, k \in 1..b : j < k => C[j].last < C[k].first
    <3>1. \A j, k \in 1..b : j < k => B[j].last < B[k].first
      BY DEF Tidy, Paired, b
    <3> QED BY <1>3, <1>6, <1>7, <3>1
  <2>3. ASSUME NEW p \in 1..Len(r)
        PROVE  /\ r[p].mark = "start" <=> \E k \in 1..b : C[k].first = p
               /\ r[p].mark = "end" <=> \E k \in 1..b : C[k].last = p
    <3>1. \A k \in 1..b : /\ C[k].first = p => r[p].mark = "start"
                          /\ C[k].last = p => r[p].mark = "end"
      BY <1>8
    <3>2. CASE r[p].mark = "no"
      BY <3>1, <3>2
    <3>3. ASSUME NEW i \in Out, p = move[i]
          PROVE  /\ r[p].mark = "start" => \E k \in 1..b : C[k].first = p
                 /\ r[p].mark = "end" => \E k \in 1..b : C[k].last = p
      <4>1. r[p] = t[i] /\ i \in 1..Len(t)
        BY <1>2, <3>3
      <4>2. /\ t[i].mark = "start" => \E k \in 1..b : B[k].first = i
            /\ t[i].mark = "end" => \E k \in 1..b : B[k].last = i
        BY <4>1 DEF Tidy, Paired, b
      <4> QED BY <1>7, <3>3, <4>1, <4>2
    <3> QED BY <3>1, <3>2, <3>3 DEF Moved
  <2> QED BY <1>7, <2>1, <2>2, <2>3 DEF Paired
<1>10. Tidy(r, C)
  <2>1. \A k \in 1..b : r[C[k].first].part = "start" /\ r[C[k].last].part = "end"
    BY <1>8
  <2>2. ASSUME NEW k \in 1..b, NEW p \in 1..Len(r), C[k].first < p, p < C[k].last
        PROVE  r[p].part \in {"tac", "tail"}
    <3>1. ASSUME NEW i \in Out, p = move[i]
          PROVE  r[p].part \in {"tac", "tail"}
      <4>1. r[p] = t[i] /\ i \in 1..Len(t)
        BY <1>2, <3>1
      <4>2. move[B[k].first] < move[i] /\ move[i] < move[B[k].last]
        BY <1>7, <2>2, <3>1
      <4>3. B[k].first < i /\ i < B[k].last
        BY <1>5, <1>6, <4>2
      <4> QED BY <4>1, <4>3 DEF Tidy, b
    <3> QED BY <3>1 DEF Moved
  <2> QED BY <1>7, <1>9, <2>1, <2>2 DEF Tidy
<1>11. Statement(r) = Statement(t)
  <2>1. Heads(t) \subseteq Out
    BY <1>1 DEF Heads, Moved
  <2>2. \A i \in Heads(t) : move[i] \in Heads(r) /\ r[move[i]] = t[i]
    BY <1>1, <1>2, <2>1 DEF Heads
  <2>3. \A i, j \in Heads(t) : i < j => move[i] < move[j]
    BY <1>3, <2>1
  <2>4. ASSUME NEW p \in Heads(r) PROVE \E i \in Heads(t) : p = move[i]
    <3>1. p \in 1..Len(r) /\ r[p].part \in {"import", "blank", "head"}
      BY <1>1 DEF Heads
    <3>2. PICK i \in Out : p = move[i]
      BY <3>1 DEF Moved
    <3>3. i \in Heads(t)
      BY <1>1, <1>2, <3>1, <3>2 DEF Heads
    <3> QED BY <3>2, <3>3
  <2> QED BY <1>1, <2>2, <2>3, <2>4, SameStatement
<1> QED BY <1>10, <1>11 DEF C

(* The text of a replacement: the first m lines, others, and those from z on *)
Splice(t, x, y, new) == SubSeq(t, 1, x) \o new \o SubSeq(t, y, Len(t))

LEMMA SpliceIs ==
  ASSUME NEW t \in Seq(Line), NEW new \in Seq(Line),
         NEW x \in 1..Len(t), NEW y \in 1..Len(t), x < y
  PROVE  /\ Splice(t, x, y, new) \in Seq(Line)
         /\ Len(Splice(t, x, y, new)) = x + Len(new) + (Len(t) - y + 1)
         /\ \A i \in 1..x : Splice(t, x, y, new)[i] = t[i]
         /\ \A i \in 1..Len(new) : Splice(t, x, y, new)[x + i] = new[i]
         /\ \A i \in y..Len(t) : Splice(t, x, y, new)[i + (x + Len(new) + 1 - y)] = t[i]
<1> DEFINE a == SubSeq(t, 1, x)
           z == SubSeq(t, y, Len(t))
           n == Len(t)
           l == Len(new)
           c == n - y + 1
<1>1. n \in Nat /\ l \in Nat /\ x \in Nat /\ y \in Nat /\ x <= n /\ y <= n /\ 1 <= x /\ 1 <= y
  OBVIOUS
<1>2. a \in Seq(Line) /\ Len(a) = x /\ \A i \in 1..x : a[i] = t[i]
  BY SubSeqProperties
<1>3. z \in Seq(Line) /\ Len(z) = c /\ \A i \in 1..c : z[i] = t[y + i - 1]
  BY SubSeqProperties
<1>4. c \in Nat
  BY <1>1
<1> HIDE DEF a, z, n, l, c
<1> DEFINE u == a \o new
           r == u \o z
<1>5. /\ u \in Seq(Line) /\ Len(u) = x + l
      /\ \A i \in 1..x + l : u[i] = IF i <= x THEN a[i] ELSE new[i - x]
  BY <1>2, ConcatProperties DEF l
<1> HIDE DEF u
<1>6. /\ r \in Seq(Line) /\ Len(r) = x + l + c
      /\ \A i \in 1..x + l + c : r[i] = IF i <= x + l THEN u[i] ELSE z[i - (x + l)]
  <2>1. z \in Seq(Line) /\ u \in Seq(Line) /\ Len(z) = c /\ Len(u) = x + l
    BY <1>3, <1>5
  <2>2. /\ r \in Seq(Line) /\ Len(r) = Len(u) + Len(z)
        /\ \A i \in 1..Len(u) + Len(z) : r[i] = IF i <= Len(u) THEN u[i] ELSE z[i - Len(u)]
    BY <2>1, ConcatProperties
  <2> HIDE DEF r
  <2> QED BY <2>1, <2>2
<1>7. r = Splice(t, x, y, new)
  BY DEF Splice, u, a, z
<1> HIDE DEF r
<1>8. ASSUME NEW i \in 1..x PROVE r[i] = t[i]
  <2>1. i \in 1..x + l /\ i \in 1..x + l + c /\ i <= x /\ i <= x + l
    BY <1>1, <1>4
  <2> QED BY <1>2, <1>5, <1>6, <2>1
<1>9. ASSUME NEW i \in 1..l PROVE r[x + i] = new[i]
  <2>1. /\ x + i \in 1..x + l /\ x + i \in 1..x + l + c
        /\ ~(x + i <= x) /\ x + i <= x + l /\ x + i - x = i
    BY <1>1, <1>4
  <2> QED BY <1>5, <1>6, <2>1
<1>10. ASSUME NEW i \in y..n PROVE r[i + (x + l + 1 - y)] = t[i]
  <2> DEFINE p == i + (x + l + 1 - y)
             q == i + 1 - y
  <2>1. /\ p \in 1..x + l + c /\ ~(p <= x + l) /\ p - (x + l) = q
        /\ q \in 1..c /\ y + q - 1 = i
    BY <1>1, <1>4 DEF c
  <2> HIDE DEF p, q
  <2>2. r[p] = z[q] /\ z[q] = t[i]
    BY <1>3, <1>6, <2>1
  <2> QED BY <2>2 DEF p
<1> QED BY <1>6, <1>7, <1>8, <1>9, <1>10 DEF n, l, c

(* A replacement keeps what is outside of the block. *)
LEMMA SpliceMoved ==
  ASSUME NEW t, NEW B, Tidy(t, B), NEW m \in 1..Len(B), NEW new \in Seq(Line),
         \A i \in 1..Len(new) : new[i].mark = "no" /\ new[i].part = "tac"
  PROVE  LET x == B[m].first
             y == B[m].last
             r == Splice(t, x, y, new)
         IN /\ r \in Seq(Line)
            /\ \A i \in 1..x : r[i] = t[i]
            /\ \E move, Out : Moved(t, r, move, Out) /\ \A i \in 1..x : move[i] = i
<1> DEFINE x == B[m].first
           y == B[m].last
           r == Splice(t, x, y, new)
           n == Len(t)
           l == Len(new)
           d == x + l + 1 - y
           Out == {i \in 1..n : i <= x \/ y <= i}
           move == [i \in 1..n |-> IF i <= x THEN i ELSE i + d]
<1>1. /\ t \in Seq(Line) /\ n \in Nat /\ l \in Nat
      /\ x \in 1..n /\ y \in 1..n /\ x < y
  <2>1. l \in Nat
    OBVIOUS
  <2> QED BY <2>1, TidyTypes
<1>2. \A i \in 1..n : x < i /\ i < y => t[i].part \in {"tac", "tail"}
  BY DEF Tidy
<1> HIDE DEF x, y
<1>3. /\ r \in Seq(Line) /\ Len(r) = x + l + (n - y + 1)
      /\ \A i \in 1..x : r[i] = t[i]
      /\ \A i \in 1..l : r[x + i] = new[i]
      /\ \A i \in y..n : r[i + d] = t[i]
  BY <1>1, SpliceIs
<1> HIDE DEF r
<1>4. \A i \in 1..x : i \in 1..n /\ move[i] = i
  BY <1>1
<1>5. \A i \in y..n : i \in 1..n /\ move[i] = i + d
  BY <1>1
<1>6. d \in Int /\ y + d = x + l + 1 /\ n + d = Len(r)
  BY <1>1, <1>3
<1> HIDE DEF move, n, l, d
<1>7. ASSUME NEW i \in Out PROVE i \in Nat /\ (i \in 1..x \/ i \in y..n)
  BY <1>1
<1>8. ASSUME NEW i \in Out PROVE move[i] \in 1..Len(r) /\ r[move[i]] = t[i]
  <2>1. CASE i \in 1..x
    <3>1. move[i] = i /\ i \in 1..Len(r)
      BY <1>1, <1>3, <1>4, <2>1
    <3> QED BY <1>3, <2>1, <3>1
  <2>2. CASE i \in y..n
    <3>1. move[i] = i + d
      BY <1>5, <2>2
    <3>2. i + d \in 1..Len(r)
      BY <1>1, <1>6, <2>2
    <3> QED BY <1>3, <2>2, <3>1, <3>2
  <2> QED BY <1>7, <2>1, <2>2
<1>9. ASSUME NEW i \in Out, NEW j \in Out, i < j PROVE move[i] < move[j]
  <2>1. CASE i \in 1..x /\ j \in 1..x
    BY <1>4, <1>9, <2>1
  <2>2. CASE i \in 1..x /\ j \in y..n
    <3>1. move[i] = i /\ move[j] = j + d
      BY <1>4, <1>5, <2>2
    <3>2. i <= x /\ y <= j /\ j \in Nat /\ i \in Nat
      BY <1>1, <2>2
    <3> QED BY <1>1, <1>6, <3>1, <3>2
  <2>3. CASE i \in y..n /\ j \in y..n
    <3>1. move[i] = i + d /\ move[j] = j + d
      BY <1>5, <2>3
    <3> QED BY <1>1, <1>6, <1>9, <2>3, <3>1
  <2>4. CASE i \in y..n /\ j \in 1..x
    BY <1>1, <1>9, <2>4
  <2> QED BY <1>7, <2>1, <2>2, <2>3, <2>4
<1>10. ASSUME NEW p \in 1..Len(r)
       PROVE  (\E i \in Out : p = move[i]) \/ (r[p].mark = "no" /\ r[p].part = "tac")
  <2>1. CASE p <= x
    <3>1. p \in 1..x /\ p \in 1..n
      BY <1>1, <2>1
    <3>2. p \in Out /\ move[p] = p
      BY <1>4, <2>1, <3>1
    <3> QED BY <3>2
  <2>2. CASE x < p /\ p <= x + l
    <3> DEFINE i == p - x
    <3>1. i \in 1..l /\ x + i = p
      BY <1>1, <2>2
    <3> HIDE DEF i
    <3>2. r[p] = new[i]
      BY <1>3, <3>1
    <3> QED BY <3>1, <3>2 DEF l
  <2>3. CASE x + l < p
    <3> DEFINE i == p - d
    <3>1. i \in y..n /\ p = i + d
      BY <1>1, <1>6, <2>3
    <3> HIDE DEF i
    <3>2. i \in 1..n /\ y <= i
      BY <1>1, <3>1
    <3>3. i \in Out /\ move[i] = p
      BY <1>5, <3>1, <3>2
    <3> QED BY <3>3
  <2> QED BY <1>1, <2>1, <2>2, <2>3
<1>11. ASSUME NEW i \in 1..n, i \notin Out PROVE t[i].part \in {"tac", "tail"}
  BY <1>1, <1>2, <1>11
<1>12. Out \in SUBSET (1..n)
  OBVIOUS
<1> HIDE DEF Out
<1>13. Moved(t, r, move, Out)
  BY <1>8, <1>9, <1>10, <1>11, <1>12 DEF Moved, n
<1> QED BY <1>3, <1>4, <1>13 DEF r, x, y

-----------------------------------------------------------------------------
(* The model's edits *)

(* r came from t by edits. *)
Follows(t, B, r, C) ==
  /\ Tidy(r, C) /\ Headed(r) /\ Len(C) = Len(B) /\ C[1].first = B[1].first
  /\ \A k \in 1..Len(B) : r[C[k].first].of = t[B[k].first].of
  /\ \A i \in 1..B[1].first : r[i] = t[i]
  /\ Statement(r) = Statement(t)

(* The header is above the first block. *)
LEMMA HeaderAbove ==
  ASSUME NEW t \in Seq(Line), Headed(t)
  PROVE  \A k \in 1..Len(ListEvolve(t)) : ListEvolve(t)[k].first > 2
<1> DEFINE B == ListEvolve(t)
<1> SUFFICES ASSUME NEW k \in 1..Len(B), ~(B[k].first > 2) PROVE FALSE
  BY AnyBlocks
<1>1. B[k].first \in 1..Len(t) /\ t[B[k].first].mark = "start"
  BY AnyBlocks
<1>2. B[k].first = 1 \/ B[k].first = 2
  BY <1>1
<1>3. t[1].mark = "no" /\ t[2].mark = "no"
  BY LineTypes DEF Headed
<1> QED BY <1>1, <1>2, <1>3

(* r is what t is above the first block. *)
Above(t, r) ==
  LET B == ListEvolve(t)
  IN B # <<>> => \A i \in 1..B[1].first - 1 : i \in DOMAIN r /\ r[i] = t[i]

LEMMA EditFollows ==
  ASSUME NEW t, NEW B, Tidy(t, B), Headed(t), NEW m \in 1..Len(B), NEW new \in Seq(Line),
         \A i \in 1..Len(new) : new[i].mark = "no" /\ new[i].part = "tac"
  PROVE  \E C : Follows(t, B, Splice(t, B[m].first, B[m].last, new), C)
<1> DEFINE x == B[m].first
           r == Splice(t, x, B[m].last, new)
<1>1. /\ r \in Seq(Line)
      /\ \A i \in 1..x : r[i] = t[i]
      /\ \E move, Out : Moved(t, r, move, Out) /\ \A i \in 1..x : move[i] = i
  BY SpliceMoved
<1>2. PICK move, Out : Moved(t, r, move, Out) /\ \A i \in 1..x : move[i] = i
  BY <1>1
<1> HIDE DEF r
<1> DEFINE C == MovedBlocks(B, move)
<1>3. Tidy(r, C) /\ Statement(r) = Statement(t)
  BY <1>1, <1>2, MovedTidy
<1>4. Len(C) = Len(B) /\ \A k \in 1..Len(B) : C[k].first = move[B[k].first]
  BY TidyTypes DEF MovedBlocks
<1>5. ASSUME NEW k \in 1..Len(B) PROVE r[C[k].first] = t[B[k].first]
  <2>1. B[k].first \in 1..Len(t) /\ t[B[k].first].part = "start"
    BY TidyTypes DEF Tidy
  <2>2. B[k].first \in Out
    BY <1>2, <2>1 DEF Moved
  <2>3. r[move[B[k].first]] = t[B[k].first]
    BY <1>2, <2>2 DEF Moved
  <2> QED BY <1>4, <2>3
<1>6. B[1].first <= x /\ B[1].first \in Nat /\ x \in Nat /\ x <= Len(t) /\ 1 \in 1..Len(B)
  <2>1. Len(B) \in Nat /\ m \in Nat /\ 1 \in 1..Len(B)
    BY TidyTypes
  <2>2. \A k \in 1..Len(B) : B[k].first \in Nat /\ B[k].last \in Nat /\ B[k].first < B[k].last
    BY TidyTypes
  <2>3. x \in 1..Len(t) /\ Len(t) \in Nat
    BY TidyTypes
  <2>4. m = 1 \/ 1 < m
    BY <2>1
  <2>5. 1 < m => B[1].last < B[m].first
    BY <2>1 DEF Tidy, Paired
  <2> QED BY <2>1, <2>2, <2>3, <2>4, <2>5
<1>7. x > 2 /\ B[1].first > 2
  BY <1>6, HeaderAbove, TidyTypes
<1>8. \A i \in 1..B[1].first : i \in 1..x /\ r[i] = t[i] /\ move[i] = i
  <2>1. \A i \in 1..B[1].first : i \in 1..x
    BY <1>6
  <2> QED BY <1>1, <1>2, <2>1
<1>9. Headed(r)
  <2>1. 1 \in 1..x /\ 2 \in 1..x
    BY <1>6, <1>7
  <2>2. r[1] = t[1] /\ r[2] = t[2]
    BY <1>1, <2>1
  <2>3. Len(r) >= 2
    <3>1. C[m].first \in 1..Len(r) /\ Len(r) \in Nat
      BY <1>3, <1>4, TidyTypes
    <3>2. C[m].first = x
      <4>1. x \in 1..x
        BY <1>6, <1>7
      <4> QED BY <1>2, <1>4, <4>1
    <3> HIDE DEF C, x
    <3> QED BY <1>7, <3>1, <3>2
  <2> QED BY <2>2, <2>3 DEF Headed
<1>10. C[1].first = B[1].first
  <2>1. B[1].first \in 1..B[1].first
    BY <1>6, <1>7
  <2> QED BY <1>4, <1>6, <1>8, <2>1
<1> HIDE DEF C
<1>11. Follows(t, B, r, C)
  BY <1>3, <1>4, <1>5, <1>8, <1>9, <1>10 DEF Follows
<1> QED BY <1>11 DEF r

LEMMA CodeLineIs ==
  ASSUME NEW i \in Nat, NEW l \in {"tac", "sorry", "start", "end"}
  PROVE  /\ CodeLine(i, l) \in Line /\ CodeLine(i, l).part = "tac"
         /\ l \notin {"start", "end"} => CodeLine(i, l).mark = "no"
<1> DEFINE m == IF l \in {"start", "end"} THEN l ELSE "no"
<1>1. m \in {"no", "start", "end"} /\ (l \notin {"start", "end"} => m = "no")
  OBVIOUS
<1>2. CodeLine(i, l) = [Tactic(i, l) EXCEPT !.mark = m]
  BY DEF CodeLine
<1> HIDE DEF m
<1>3. Tactic(i, l) \in Line /\ Tactic(i, l).part = "tac"
  BY LineTypes
<1> QED BY <1>1, <1>2, <1>3 DEF Line

(* A replacement of a block that exists splices the code into the text. *)
LEMMA ReplaceIs ==
  ASSUME NEW t \in Seq(Line), NEW code \in Codes, NEW id \in Int,
         -Len(ListEvolve(t)) <= id, id < Len(ListEvolve(t))
  PROVE  \E m \in 1..Len(ListEvolve(t)), new \in Seq(Line) :
           /\ ReplaceBlockById(t, id, code)
                = Splice(t, ListEvolve(t)[m].first, ListEvolve(t)[m].last, new)
           /\ ~HasMarker(code) => \A k \in 1..Len(new) : new[k].mark = "no" /\ new[k].part = "tac"
<1> DEFINE B == ListEvolve(t)
           m == (IF id < 0 THEN Len(B) + id ELSE id) + 1
           i == t[B[m].first].of
           new == [k \in DOMAIN code |-> CodeLine(i, code[k])]
<1>1. Len(B) \in Nat
  BY AnyBlocks
<1>2. m \in 1..Len(B)
  BY <1>1
<1>3. ReplaceBlockById(t, id, code) = Splice(t, B[m].first, B[m].last, new)
  <2>1. ~(id >= Len(B))
    BY <1>1
  <2>2. ReplaceBlockById(t, id, code)
          = IF id >= Len(B) THEN t
            ELSE SubSeq(t, 1, B[m].first) \o new \o SubSeq(t, B[m].last, Len(t))
    BY Zenon DEF ReplaceBlockById
  <2> HIDE DEF B, m, new
  <2> QED BY <2>1, <2>2, Zenon DEF Splice
<1> HIDE DEF m
<1>4. i \in Nat
  <2>1. B[m].first \in 1..Len(t) /\ \A k \in 1..Len(t) : t[k] \in Line
    BY <1>2, AnyBlocks
  <2> QED BY <2>1 DEF Line
<1> HIDE DEF i, B
<1>5. code \in Seq({"tac", "sorry", "start", "end"})
  BY CodesAssumption
<1>6. /\ Len(code) \in Nat /\ DOMAIN code = 1..Len(code)
      /\ \A k \in 1..Len(code) : code[k] \in {"tac", "sorry", "start", "end"}
  BY <1>5
<1>7. \A k \in 1..Len(code) : CodeLine(i, code[k]) \in Line
  BY <1>4, <1>6, CodeLineIs
<1>8. new \in Seq(Line) /\ Len(new) = Len(code) /\ \A k \in 1..Len(code) : new[k] = CodeLine(i, code[k])
  BY <1>6, <1>7
<1>9. ~HasMarker(code) => \A k \in 1..Len(new) : new[k].mark = "no" /\ new[k].part = "tac"
  <2> HIDE DEF new
  <2>1. ~HasMarker(code) => \A k \in 1..Len(code) : code[k] \notin {"start", "end"}
    BY <1>6 DEF HasMarker
  <2>2. ASSUME ~HasMarker(code), NEW k \in 1..Len(new)
        PROVE  new[k].mark = "no" /\ new[k].part = "tac"
    <3>1. k \in 1..Len(code) /\ new[k] = CodeLine(i, code[k])
      BY <1>8
    <3>2. code[k] \in {"tac", "sorry", "start", "end"} /\ code[k] \notin {"start", "end"}
      BY <1>6, <2>1, <2>2, <3>1
    <3> QED BY <1>4, <3>1, <3>2, CodeLineIs
  <2> QED BY <2>2
<1> HIDE DEF new
<1> QED BY <1>2, <1>3, <1>8, <1>9 DEF B

(* Whatever the markers are, a replacement is below the first one. *)
LEMMA ReplaceKeeps ==
  ASSUME NEW t \in Seq(Line), Headed(t), NEW code \in Codes,
         NEW id \in -Len(ListEvolve(t))..Len(ListEvolve(t))
  PROVE  LET r == ReplaceBlockById(t, id, code)
         IN r \in Seq(Line) /\ Headed(r) /\ Above(t, r)
<1> DEFINE B == ListEvolve(t)
           r == ReplaceBlockById(t, id, code)
<1>1. Len(B) \in Nat /\ id \in Int /\ -Len(B) <= id
  BY AnyBlocks
<1>2. CASE id >= Len(B)
  <2>1. r = t
    BY <1>2 DEF ReplaceBlockById
  <2>2. ASSUME B # <<>>, NEW i \in 1..B[1].first - 1 PROVE i \in DOMAIN t
    <3>1. 1 \in 1..Len(B) /\ DOMAIN t = 1..Len(t) /\ Len(t) \in Nat
      <4>1. B \in Seq(Block)
        BY AnyBlocks
      <4> HIDE DEF B
      <4> QED BY <2>2, <4>1
    <3>2. B[1].first \in 1..Len(t)
      BY <3>1, AnyBlocks
    <3> HIDE DEF B
    <3> QED BY <2>2, <3>1, <3>2
  <2> QED BY <2>1, <2>2 DEF Above
<1>3. CASE id < Len(B)
  <2>1. PICK m \in 1..Len(B), new \in Seq(Line) : r = Splice(t, B[m].first, B[m].last, new)
    BY <1>1, <1>3, ReplaceIs
  <2> DEFINE x == B[m].first
             y == B[m].last
  <2>2. /\ x \in 1..Len(t) /\ y \in 1..Len(t) /\ x < y /\ x > 2 /\ Len(t) \in Nat
        /\ B[1].first \in Nat /\ B[1].first <= x
    <3>1. x \in 1..Len(t) /\ y \in 1..Len(t) /\ x < y
      BY AnyBlocks
    <3>2. x > 2
      BY HeaderAbove
    <3>3. B[1].first \in Nat /\ B[1].first <= x
      <4>1. 1 \in 1..Len(B) /\ (m = 1 \/ 1 < m)
        BY <1>1
      <4>2. B[1].first \in Nat /\ x \in Nat /\ (1 < m => B[1].first < x)
        BY <4>1, AnyBlocks
      <4> HIDE DEF B, x
      <4>3. m = 1 => B[1].first = x
        BY DEF x
      <4> QED BY <4>1, <4>2, <4>3
    <3> QED BY <3>1, <3>2, <3>3
  <2> HIDE DEF B, x, y, r
  <2>3. /\ r \in Seq(Line) /\ Len(r) = x + Len(new) + (Len(t) - y + 1)
        /\ \A i \in 1..x : r[i] = t[i]
    BY <2>1, <2>2, SpliceIs DEF x, y
  <2>4. DOMAIN r = 1..Len(r) /\ Len(r) >= x /\ Len(r) \in Nat
    <3>1. Len(new) \in Nat /\ Len(r) \in Nat /\ DOMAIN r = 1..Len(r)
      BY <2>3
    <3> QED BY <2>2, <2>3, <3>1
  <2>5. Headed(r)
    <3>1. 1 \in 1..x /\ 2 \in 1..x
      BY <2>2
    <3>2. r[1] = t[1] /\ r[2] = t[2] /\ Len(r) >= 2
      BY <2>2, <2>3, <2>4, <3>1
    <3> QED BY <3>2 DEF Headed
  <2>6. \A i \in 1..B[1].first - 1 : i \in 1..x /\ i \in 1..Len(r)
    BY <2>2, <2>4
  <2>7. Above(t, r)
    BY <2>3, <2>4, <2>6 DEF Above, B
  <2> QED BY <2>3, <2>5, <2>7 DEF r
<1> QED BY <1>1, <1>2, <1>3

LEMMA ReplaceFollows ==
  ASSUME NEW t, NEW B, Tidy(t, B), Headed(t), NEW code \in Codes,
         NEW id \in -Len(B)..Len(B), id < Len(B) => ~HasMarker(code)
  PROVE  \E C : Follows(t, B, ReplaceBlockById(t, id, code), C)
<1>1. t \in Seq(Line) /\ Len(B) \in Nat /\ ListEvolve(t) = B
  BY TidyTypes
<1>2. CASE id >= Len(B)
  <2>1. ReplaceBlockById(t, id, code) = t
    BY <1>1, <1>2 DEF ReplaceBlockById
  <2>2. Follows(t, B, t, B)
    BY DEF Follows
  <2> QED BY <2>1, <2>2
<1>3. CASE id < Len(B)
  <2>1. id \in Int /\ -Len(B) <= id
    BY <1>1
  <2>2. PICK m \in 1..Len(B), new \in Seq(Line) :
          /\ ReplaceBlockById(t, id, code) = Splice(t, B[m].first, B[m].last, new)
          /\ \A k \in 1..Len(new) : new[k].mark = "no" /\ new[k].part = "tac"
    BY <1>1, <1>3, <2>1, ReplaceIs
  <2>3. \E C : Follows(t, B, Splice(t, B[m].first, B[m].last, new), C)
    BY <2>2, EditFollows
  <2> QED BY <2>2, <2>3
<1> QED BY <1>1, <1>2, <1>3

-----------------------------------------------------------------------------
(* The compile and the retirement *)

LEMMA SkipIs ==
  ASSUME NEW t, NEW errors, Len(errors) \in Nat, NEW j \in 1..Len(errors) + 1, NEW b
  PROVE  /\ Skip(t, errors, j, b) \in 1..Len(errors) + 1
         /\ \A h \in 1..Skip(t, errors, j, b) - 1 : h \in 1..j - 1 \/ Before(t, errors[h], b)
<1> DEFINE n == Len(errors)
           Bef(h) == Before(t, errors[h], b)
           First(i) == (\A h \in j..i - 1 : Bef(h)) /\ (i <= n => ~Bef(i))
           S == {i \in j..n + 1 : i <= n => ~Bef(i)}
           p == Skip(t, errors, j, b)
<1>1. p = CHOOSE i \in j..n + 1 : First(i)
  BY DEF Skip
<1> HIDE DEF Bef
<1>2. S \in SUBSET Nat /\ n + 1 \in S
  OBVIOUS
<1>3. PICK i \in S : \A k \in S : i <= k
  <2> HIDE DEF S
  <2> QED BY <1>2, Least
<1>4. i \in j..n + 1 /\ First(i)
  <2>1. ASSUME NEW h \in j..i - 1 PROVE Bef(h)
    <3>1. h \in j..n + 1 /\ h < i /\ h <= n
      OBVIOUS
    <3> QED BY <1>3, <3>1
  <2> QED BY <2>1
<1> HIDE DEF First, p, S
<1>5. p \in j..n + 1 /\ First(p)
  BY <1>1, <1>4
<1>6. p \in 1..n + 1
  BY <1>5
<1>7. \A h \in 1..p - 1 : h \in 1..j - 1 \/ h \in j..p - 1
  BY <1>6
<1>8. \A h \in j..p - 1 : Bef(h)
  BY <1>5 DEF First
<1> QED BY <1>6, <1>7, <1>8 DEF p, Bef

IndexTo(u, t, errors, B, n) ==
  u = [k \in 0..n |-> IF k = 0 THEN 1 ELSE Skip(t, errors, u[k - 1], B[k])]

LEMMA IndexToExists ==
  ASSUME NEW t, NEW errors, NEW B, NEW n \in Nat
  PROVE  \E u : IndexTo(u, t, errors, B, n)
<1> DEFINE T == {m \in Nat : \E u : IndexTo(u, t, errors, B, m)}
           Step(x, k) == Skip(t, errors, x, B[k])
<1>1. 0 \in T
  <2> DEFINE u == [k \in 0..0 |-> 1]
  <2>1. IndexTo(u, t, errors, B, 0)
    BY DEF IndexTo
  <2> QED BY <2>1
<1>2. ASSUME NEW m \in Nat, m \in T PROVE m + 1 \in T
  <2>1. PICK u : IndexTo(u, t, errors, B, m)
    BY <1>2
  <2> DEFINE v == [k \in 0..m + 1 |-> IF k = m + 1 THEN Step(u[m], m + 1) ELSE u[k]]
  <2>2. \A k \in 0..m : u[k] = IF k = 0 THEN 1 ELSE Step(u[k - 1], k)
    BY <2>1 DEF IndexTo
  <2> HIDE DEF Step
  <2>3. \A k \in 0..m : v[k] = u[k]
    OBVIOUS
  <2>4. ASSUME NEW k \in 0..m + 1
        PROVE  v[k] = IF k = 0 THEN 1 ELSE Step(v[k - 1], k)
    <3>1. CASE k = m + 1
      <4>1. k # 0 /\ k - 1 = m /\ m \in 0..m /\ v[k] = Step(u[m], m + 1)
        BY <3>1
      <4> HIDE DEF v
      <4>2. v[m] = u[m]
        BY <2>3, <4>1
      <4> QED BY <3>1, <4>1, <4>2
    <3>2. CASE k # m + 1
      <4>1. k \in 0..m /\ (k # 0 => k - 1 \in 0..m)
        BY <3>2
      <4> HIDE DEF v
      <4> QED BY <2>2, <2>3, <4>1
    <3> QED BY <3>1, <3>2
  <2>5. v = [k \in 0..m + 1 |-> v[k]]
    OBVIOUS
  <2> HIDE DEF v
  <2>6. IndexTo(v, t, errors, B, m + 1)
    BY <2>4, <2>5 DEF IndexTo, Step
  <2> QED BY <2>6
<1>3. n \in T
  <2> HIDE DEF T
  <2> QED BY <1>1, <1>2, Induct
<1> QED BY <1>3

(* What the index has passed at a block is before it or one above it. *)
LEMMA IndicesAre ==
  ASSUME NEW t \in Seq(Line), NEW errors, Len(errors) \in Nat, NEW n \in 1..Len(ListEvolve(t))
  PROVE  LET j == Indices(t, errors)
             B == ListEvolve(t)
         IN /\ j[n] \in 1..Len(errors) + 1
            /\ \A h \in 1..j[n] - 1 : \E k \in 1..n : Before(t, errors[h], B[k])
<1> DEFINE B == ListEvolve(t)
           b == Len(B)
           u == CHOOSE v : IndexTo(v, t, errors, B, b)
           Passed(m) == \A h \in 1..u[m] - 1 : \E k \in 1..m : Before(t, errors[h], B[k])
           T == {m \in Nat : m <= b => u[m] \in 1..Len(errors) + 1 /\ Passed(m)}
<1>1. b \in Nat
  BY AnyBlocks
<1> HIDE DEF B
<1>2. IndexTo(u, t, errors, B, b)
  BY <1>1, IndexToExists
<1>3. Indices(t, errors) = u
  BY DEF Indices, IndexTo, B
<1> HIDE DEF u, b
<1>4. \A k \in 0..b : u[k] = IF k = 0 THEN 1 ELSE Skip(t, errors, u[k - 1], B[k])
  BY <1>2 DEF IndexTo
<1>5. 0 \in T
  <2>1. u[0] = 1
    BY <1>1, <1>4
  <2> QED BY <2>1
<1>6. ASSUME NEW m \in Nat, m \in T PROVE m + 1 \in T
  <2> SUFFICES ASSUME m + 1 <= b PROVE u[m + 1] \in 1..Len(errors) + 1 /\ Passed(m + 1)
    OBVIOUS
  <2>1. u[m] \in 1..Len(errors) + 1 /\ Passed(m)
    BY <1>1, <1>6
  <2> DEFINE k == m + 1
  <2>2. k \in 0..b /\ k # 0 /\ k - 1 = m /\ k \in 1..k /\ \A i \in 1..m : i \in 1..k
    BY <1>1
  <2> HIDE DEF k, T
  <2>3. u[k] = Skip(t, errors, u[m], B[k])
    BY <1>4, <2>2
  <2>4. /\ u[k] \in 1..Len(errors) + 1
        /\ \A h \in 1..u[k] - 1 : h \in 1..u[m] - 1 \/ Before(t, errors[h], B[k])
    BY <2>1, <2>3, SkipIs
  <2>5. Passed(k)
    BY <2>1, <2>2, <2>4
  <2> HIDE DEF Passed
  <2> QED BY <2>4, <2>5 DEF k
<1>7. n \in T /\ n <= b
  <2>1. n \in Nat /\ n <= b
    BY <1>1 DEF b, B
  <2> HIDE DEF T
  <2> QED BY <1>5, <1>6, <2>1, Induct
<1> QED BY <1>3, <1>7 DEF B

LEMMA RetiredCountIs ==
  ASSUME NEW t \in Seq(Line), NEW es
  PROVE  LET B == ListEvolve(t)
             errors == Positions(t, es)
             j == Indices(t, errors)
         IN /\ RetiredCount(t, es) \in 0..Len(B)
            /\ \A k \in 1..RetiredCount(t, es) : Done(t, errors, j[k], B[k])
<1> DEFINE B == ListEvolve(t)
           b == Len(B)
           errors == Positions(t, es)
           j == Indices(t, errors)
           D(k) == Done(t, errors, j[k], B[k])
           First(n) == (\A k \in 1..n : D(k)) /\ (n < b => ~D(n + 1))
           S == {n \in 0..b : n < b => ~D(n + 1)}
           p == RetiredCount(t, es)
<1>1. b \in Nat
  BY AnyBlocks
<1>2. p = CHOOSE n \in 0..b : First(n)
  BY DEF RetiredCount
<1> HIDE DEF D, b
<1>3. S \in SUBSET Nat /\ b \in S
  BY <1>1
<1>4. PICK n \in S : \A k \in S : n <= k
  <2> HIDE DEF S
  <2> QED BY <1>3, Least
<1>5. n \in 0..b /\ First(n)
  <2>1. ASSUME NEW k \in 1..n PROVE D(k)
    <3>1. k - 1 \in 0..b /\ k - 1 < n /\ k - 1 < b /\ k - 1 + 1 = k
      BY <1>1
    <3>2. k - 1 \notin S
      BY <1>4, <3>1
    <3> QED BY <3>1, <3>2
  <2> QED BY <2>1
<1> HIDE DEF First, p, S
<1>6. p \in 0..b /\ First(p)
  BY <1>2, <1>5
<1>7. \A k \in 1..p : D(k)
  BY <1>6 DEF First
<1> QED BY <1>6, <1>7 DEF p, D, b

(* The first n blocks lose their markers, and nothing else changes. *)
LEMMA RetireIs ==
  ASSUME NEW t \in Seq(Line), Headed(t), NEW n \in 0..Len(ListEvolve(t))
  PROVE  LET r == Retire(t, n)
             B == ListEvolve(t)
         IN /\ r \in Seq(Line) /\ Len(r) = Len(t) /\ Headed(r) /\ Above(t, r)
            /\ \A i \in 1..Len(t) :
                 /\ r[i].of = t[i].of /\ r[i].part = t[i].part
                 /\ (\E k \in 1..n : i = B[k].first \/ i = B[k].last) => r[i].mark = "no"
                 /\ ~(\E k \in 1..n : i = B[k].first \/ i = B[k].last) => r[i] = t[i]
<1> DEFINE B == ListEvolve(t)
           gone == SubSeq(B, 1, n)
           ends == UNION {{gone[k].first, gone[k].last} : k \in DOMAIN gone}
           r == Retire(t, n)
<1>1. /\ Len(t) \in Nat /\ DOMAIN t = 1..Len(t) /\ \A i \in 1..Len(t) : t[i] \in Line
      /\ Len(B) \in Nat /\ B \in Seq(Block) /\ n \in Nat /\ n <= Len(B)
  BY AnyBlocks
<1>2. \A k \in 1..Len(B) : /\ B[k].first \in Nat /\ B[k].last \in Nat /\ B[k].first < B[k].last
                           /\ B[k].first \in 1..Len(t) /\ B[k].first > 2
  BY AnyBlocks, HeaderAbove
<1>3. \A k \in 1..Len(B) : B[1].first <= B[k].first
  <2> SUFFICES ASSUME NEW k \in 1..Len(B) PROVE B[1].first <= B[k].first
    OBVIOUS
  <2>1. 1 \in 1..Len(B) /\ (k = 1 \/ 1 < k)
    BY <1>1
  <2>2. 1 < k => B[1].first < B[k].first
    BY <2>1, AnyBlocks
  <2> HIDE DEF B
  <2> QED BY <1>2, <2>1, <2>2
<1>4. r = [k \in 1..Len(t) |-> IF k \in ends THEN [t[k] EXCEPT !.mark = "no"] ELSE t[k]]
  BY <1>1 DEF Retire
<1> HIDE DEF B
<1>5. Len(gone) = n /\ DOMAIN gone = 1..n /\ \A k \in 1..n : gone[k] = B[k]
  <2>1. \A k \in 1..n : B[k] \in Block
    BY <1>1
  <2>2. /\ gone \in Seq(Block) /\ Len(gone) = IF 1 <= n THEN n - 1 + 1 ELSE 0
        /\ \A k \in 1..n - 1 + 1 : gone[k] = B[1 + k - 1]
    BY <1>1, <2>1, SubSeqProperties
  <2>3. n - 1 + 1 = n /\ \A k \in 1..n : 1 + k - 1 = k
    BY <1>1
  <2> HIDE DEF gone
  <2>4. Len(gone) = n
    BY <1>1, <2>2, <2>3
  <2> QED BY <2>2, <2>3, <2>4
<1>6. \A i : i \in ends <=> \E k \in 1..n : i = B[k].first \/ i = B[k].last
  <2> HIDE DEF gone
  <2> QED BY <1>5
<1> HIDE DEF gone, ends, r
<1>7. ASSUME NEW i \in 1..Len(t)
      PROVE  /\ r[i] \in Line /\ r[i].of = t[i].of /\ r[i].part = t[i].part
             /\ i \in ends => r[i].mark = "no"
             /\ i \notin ends => r[i] = t[i]
  <2>1. t[i] \in Line
    BY <1>1
  <2>2. /\ [t[i] EXCEPT !.mark = "no"] \in Line
        /\ [t[i] EXCEPT !.mark = "no"].of = t[i].of
        /\ [t[i] EXCEPT !.mark = "no"].part = t[i].part
        /\ [t[i] EXCEPT !.mark = "no"].mark = "no"
    BY <2>1 DEF Line
  <2>3. r[i] = IF i \in ends THEN [t[i] EXCEPT !.mark = "no"] ELSE t[i]
    BY <1>4
  <2>4. CASE i \in ends
    <3>1. r[i] = [t[i] EXCEPT !.mark = "no"]
      BY <2>3, <2>4
    <3> QED BY <2>2, <2>4, <3>1
  <2>5. CASE i \notin ends
    BY <2>1, <2>3, <2>5
  <2> QED BY <2>4, <2>5
<1>8. r \in Seq(Line) /\ Len(r) = Len(t) /\ DOMAIN r = 1..Len(t)
  <2>1. r \in [1..Len(t) -> Line]
    BY <1>4, <1>7
  <2> QED BY <1>1, <2>1
<1>9. ASSUME NEW i \in 1..Len(t), \A k \in 1..Len(B) : i < B[k].first PROVE r[i] = t[i]
  <2>1. \A k \in 1..n : k \in 1..Len(B)
    BY <1>1
  <2>2. ASSUME NEW k \in 1..n PROVE i # B[k].first /\ i # B[k].last
    <3>1. i < B[k].first /\ B[k].first < B[k].last /\ B[k].first \in Nat /\ B[k].last \in Nat
      BY <1>2, <1>9, <2>1
    <3> QED BY <3>1
  <2>3. i \notin ends
    BY <1>6, <2>2
  <2> QED BY <1>7, <2>3
<1>10. Headed(r)
  <2>1. Len(t) >= 2 /\ 1 \in 1..Len(t) /\ 2 \in 1..Len(t)
    BY <1>1 DEF Headed
  <2>2. \A k \in 1..Len(B) : 1 < B[k].first /\ 2 < B[k].first
    BY <1>2
  <2>3. r[1] = t[1] /\ r[2] = t[2]
    BY <1>9, <2>1, <2>2
  <2> QED BY <1>8, <2>1, <2>3 DEF Headed
<1>11. Above(t, r)
  <2> SUFFICES ASSUME B # <<>>, NEW i \in 1..B[1].first - 1 PROVE i \in DOMAIN r /\ r[i] = t[i]
    BY DEF Above, B
  <2>1. 1 \in 1..Len(B)
    BY <1>1
  <2>2. i \in 1..Len(t) /\ \A k \in 1..Len(B) : i < B[k].first
    BY <1>1, <1>2, <1>3, <2>1
  <2> QED BY <1>8, <1>9, <2>2
<1> QED BY <1>6, <1>7, <1>8, <1>10, <1>11 DEF r, B

(* What is left of the blocks *)
Remaining(B, n) == [k \in 1..Len(B) - n |-> B[k + n]]

LEMMA RetiredTidy ==
  ASSUME NEW t, NEW B, Tidy(t, B), Headed(t), NEW n \in 0..Len(B)
  PROVE  LET r == Retire(t, n)
             D == Remaining(B, n)
         IN /\ Tidy(r, D) /\ Statement(r) = Statement(t) /\ Len(r) = Len(t)
            /\ \A i \in 1..Len(t) : r[i].of = t[i].of
<1> DEFINE b == Len(B)
           r == Retire(t, n)
           D == Remaining(B, n)
           ends == {i \in 1..Len(t) : \E k \in 1..n : i = B[k].first \/ i = B[k].last}
<1>1. /\ t \in Seq(Line) /\ Len(t) \in Nat /\ DOMAIN t = 1..Len(t)
      /\ b \in Nat /\ B \in Seq(Block) /\ DOMAIN B = 1..b /\ ListEvolve(t) = B
  BY TidyTypes
<1>2. n \in 0..b /\ n \in Nat /\ n <= b
  BY <1>1
<1>4. /\ r \in Seq(Line) /\ Len(r) = Len(t)
      /\ \A i \in 1..Len(t) :
           /\ r[i].of = t[i].of /\ r[i].part = t[i].part
           /\ (\E k \in 1..n : i = B[k].first \/ i = B[k].last) => r[i].mark = "no"
           /\ ~(\E k \in 1..n : i = B[k].first \/ i = B[k].last) => r[i] = t[i]
  BY <1>1, RetireIs
<1> HIDE DEF r
<1>5. \A i \in 1..Len(t) : i \in ends <=> \E k \in 1..n : i = B[k].first \/ i = B[k].last
  OBVIOUS
<1> HIDE DEF ends
<1>6. ASSUME NEW i \in 1..Len(t)
      PROVE  /\ r[i].of = t[i].of /\ r[i].part = t[i].part
             /\ i \in ends => r[i].mark = "no"
             /\ i \notin ends => r[i] = t[i]
  BY <1>4, <1>5
<1>7. r \in Seq(Line) /\ Len(r) = Len(t) /\ DOMAIN r = 1..Len(t)
  BY <1>1, <1>4
<1>8. ASSUME NEW k \in 1..b
      PROVE  /\ B[k].first \in Nat /\ B[k].last \in Nat
             /\ B[k].first \in 1..Len(t) /\ B[k].last \in 1..Len(t) /\ B[k].first < B[k].last
             /\ B[k] \in Block
             /\ t[B[k].first].part = "start" /\ t[B[k].last].part = "end"
  <2>1. /\ B[k].first \in 1..Len(t) /\ B[k].last \in 1..Len(t) /\ B[k].first < B[k].last
        /\ B[k].first \in Nat /\ B[k].last \in Nat
    BY TidyTypes
  <2>2. B[k] \in Block
    BY <1>1
  <2>3. t[B[k].first].part = "start" /\ t[B[k].last].part = "end"
    BY DEF Tidy
  <2> QED BY <2>1, <2>2, <2>3
<1>9. \A j, k \in 1..b : j < k => B[j].last < B[k].first
  BY DEF Tidy, Paired
<1>10. ASSUME NEW k \in 1..b
       PROVE  /\ B[k].first \in ends <=> k <= n
              /\ B[k].last \in ends <=> k <= n
  <2>1. k <= n => k \in 1..n
    BY <1>2
  <2>2. ASSUME NEW j \in 1..n, k > n
        PROVE  /\ B[k].first # B[j].first /\ B[k].first # B[j].last
               /\ B[k].last # B[j].first /\ B[k].last # B[j].last
    <3>1. j \in 1..b /\ j < k
      BY <1>1, <1>2, <2>2
    <3>2. B[j].last < B[k].first
      BY <1>9, <3>1
    <3>3. /\ B[k].first \in Nat /\ B[k].last \in Nat /\ B[j].first \in Nat /\ B[j].last \in Nat
          /\ B[k].first < B[k].last /\ B[j].first < B[j].last
      BY <1>8, <3>1
    <3> QED BY <3>2, <3>3
  <2>3. k <= n \/ k > n
    BY <1>2
  <2>4. B[k].first \in 1..Len(t) /\ B[k].last \in 1..Len(t)
    BY <1>8
  <2>5. k \in 1..b /\ (k > n => ~(k <= n))
    BY <1>1, <1>2
  <2> HIDE DEF b
  <2>6. CASE k <= n
    BY <1>5, <2>1, <2>4, <2>6
  <2>7. CASE k > n
    BY <1>5, <2>2, <2>4, <2>5, <2>7
  <2> QED BY <2>3, <2>6, <2>7
<1>11. /\ D \in Seq(Block) /\ Len(D) = b - n
       /\ \A k \in 1..b - n : k + n \in 1..b /\ k + n > n /\ D[k] = B[k + n]
  <2>1. \A k \in 1..b - n : k + n \in 1..b /\ k + n > n
    BY <1>1, <1>2
  <2>2. b - n \in Nat
    BY <1>1, <1>2
  <2>3. D = [k \in 1..b - n |-> B[k + n]]
    BY DEF Remaining
  <2>4. D \in [1..b - n -> Block]
    BY <1>8, <2>1, <2>3
  <2> HIDE DEF D, b
  <2>5. D \in Seq(Block) /\ Len(D) = b - n
    BY <2>2, <2>4
  <2> QED BY <2>1, <2>3, <2>5
<1> HIDE DEF D, b
<1>12. \A k \in 1..b : k > n => \E j \in 1..b - n : k = j + n
  <2> SUFFICES ASSUME NEW k \in 1..b, k > n PROVE k - n \in 1..b - n /\ k = k - n + n
    OBVIOUS
  <2> QED BY <1>1, <1>2
<1>13. Paired(r, D)
  <2>1. \A k \in 1..b - n :
          D[k].first \in 1..Len(r) /\ D[k].last \in 1..Len(r) /\ D[k].first < D[k].last
    BY <1>7, <1>8, <1>11
  <2>2. ASSUME NEW j \in 1..b - n, NEW k \in 1..b - n, j < k PROVE D[j].last < D[k].first
    <3>1. j + n < k + n
      BY <1>2, <2>2
    <3> QED BY <1>9, <1>11, <3>1
  <2>3. ASSUME NEW i \in 1..Len(t)
        PROVE  /\ r[i].mark = "start" <=> \E k \in 1..b - n : D[k].first = i
               /\ r[i].mark = "end" <=> \E k \in 1..b - n : D[k].last = i
    <3>1. /\ t[i].mark = "start" <=> \E k \in 1..b : B[k].first = i
          /\ t[i].mark = "end" <=> \E k \in 1..b : B[k].last = i
      BY DEF Tidy, Paired, b
    <3>2. /\ r[i].mark = "start" <=> i \notin ends /\ t[i].mark = "start"
          /\ r[i].mark = "end" <=> i \notin ends /\ t[i].mark = "end"
      BY <1>6
    <3>3. \A k \in 1..b : /\ B[k].first = i => (i \notin ends <=> k > n)
                          /\ B[k].last = i => (i \notin ends <=> k > n)
      <4>1. \A k \in 1..b : k <= n <=> ~(k > n)
        BY <1>2
      <4> QED BY <1>10, <4>1
    <3>4. (i \notin ends /\ \E k \in 1..b : B[k].first = i) <=> \E k \in 1..b - n : D[k].first = i
      BY <1>11, <1>12, <3>3
    <3>5. (i \notin ends /\ \E k \in 1..b : B[k].last = i) <=> \E k \in 1..b - n : D[k].last = i
      BY <1>11, <1>12, <3>3
    <3> QED BY <3>1, <3>2, <3>4, <3>5
  <2> QED BY <1>7, <1>11, <2>1, <2>2, <2>3 DEF Paired
<1>14. Tidy(r, D)
  <2>1. ASSUME NEW k \in 1..b - n
        PROVE  /\ r[D[k].first].part = "start" /\ r[D[k].last].part = "end"
               /\ \A i \in 1..Len(r) :
                    D[k].first < i /\ i < D[k].last => r[i].part \in {"tac", "tail"}
    <3> DEFINE j == k + n
    <3>1. j \in 1..b /\ D[k] = B[j]
      BY <1>11
    <3> HIDE DEF j
    <3>2. r[B[j].first].part = "start" /\ r[B[j].last].part = "end"
      BY <1>6, <1>8, <3>1
    <3>3. \A i \in 1..Len(t) : B[j].first < i /\ i < B[j].last => t[i].part \in {"tac", "tail"}
      BY <3>1 DEF Tidy, b
    <3> QED BY <1>6, <1>7, <3>1, <3>2, <3>3
  <2> QED BY <1>7, <1>11, <1>13, <2>1 DEF Tidy
<1>17. Statement(r) = Statement(t)
  <2> DEFINE move == [i \in Nat |-> i]
  <2>1. ASSUME NEW i \in 1..Len(t), t[i].part \in {"import", "blank", "head"} PROVE r[i] = t[i]
    <3>1. i \notin ends
      <4>1. \A k \in 1..n : k \in 1..b
        BY <1>1, <1>2
      <4>2. \A k \in 1..n : i # B[k].first /\ i # B[k].last
        BY <1>8, <2>1, <4>1
      <4> QED BY <1>5, <4>2
    <3> QED BY <1>6, <3>1
  <2>2. Heads(t) = Heads(r) /\ Heads(t) \subseteq Nat
    BY <1>1, <1>6, <1>7 DEF Heads
  <2>3. \A i \in Heads(t) : move[i] = i /\ r[i] = t[i]
    BY <1>1, <2>1, <2>2 DEF Heads
  <2> HIDE DEF move
  <2>4. \A i \in Heads(t) : move[i] \in Heads(r) /\ r[move[i]] = t[i]
    BY <2>2, <2>3
  <2>5. \A i, j \in Heads(t) : i < j => move[i] < move[j]
    BY <2>3
  <2>6. \A p \in Heads(r) : \E i \in Heads(t) : p = move[i]
    BY <2>2, <2>3
  <2> QED BY <1>1, <1>7, <2>4, <2>5, <2>6, SameStatement
<1> QED BY <1>6, <1>7, <1>14, <1>17 DEF r, D, b

LEMMA OneImport ==
  ASSUME NEW t \in Seq(Line), Headed(t)
  PROVE  Imports(t) = 1
<1> DEFINE I == {k \in DOMAIN t : \A j \in 1..k : t[j].part = "import"}
<1>1. Len(t) \in Nat /\ DOMAIN t = 1..Len(t) /\ Len(t) >= 2
  BY DEF Headed
<1>2. t[1].part = "import" /\ t[2].part # "import"
  BY LineTypes DEF Headed
<1>3. 1 \in I
  <2>1. 1 \in DOMAIN t /\ \A j \in 1..1 : j = 1
    BY <1>1
  <2> QED BY <1>2, <2>1
<1>4. ASSUME NEW k \in I PROVE k = 1
  <2>1. k \in 1..Len(t) /\ ~(2 \in 1..k)
    BY <1>1, <1>2
  <2> QED BY <1>1, <2>1
<1>5. I = {1}
  <2> HIDE DEF I
  <2> QED BY <1>3, <1>4
<1> QED BY <1>5, FS_Singleton DEF Imports

LEMMA ErrorsAre ==
  ASSUME NEW t \in Seq(Line), Headed(t), NEW es \in BoundedSeq(Errors(t), MaxErrors)
  PROVE  /\ Len(es) \in Nat /\ DOMAIN es = 1..Len(es)
         /\ \A i \in 1..Len(es) :
              /\ es[i].from \in Nat /\ es[i].to \in Nat /\ es[i].at \in Nat /\ es[i].col \in Nat
              /\ Reported(t, es[i]).from = es[i].from - 1 /\ Reported(t, es[i]).to = es[i].to - 1
              /\ Reported(t, es[i]).col = es[i].col
<1> DEFINE Error == [from : Nat, to : Nat, at : Nat, col : Nat]
<1>1. Imports(t) = 1 /\ Len(t) \in Nat
  BY OneImport
<1>2. Errors(t) \subseteq Error
  <2>1. NoPlace \in Error
    BY DEF NoPlace
  <2>2. ASSUME NEW l \in 1 + 1..Len(t), NEW s \in Shapes
        PROVE  [from |-> l, to |-> l + s.span, at |-> s.at, col |-> s.col] \in Error
    <3>1. s \in [span : Nat, at : Nat, col : Nat]
      BY ShapesAssumption
    <3>2. s.span \in Nat /\ s.at \in Nat /\ s.col \in Nat /\ l \in Nat
      BY <1>1, <3>1
    <3> QED BY <3>2
  <2> HIDE DEF Error
  <2> QED BY <1>1, <2>1, <2>2 DEF Errors
<1>3. PICK m \in 0..MaxErrors : es \in [1..m -> Errors(t)]
  BY DEF BoundedSeq, SeqOf
<1>4. m \in Nat /\ Len(es) = m /\ DOMAIN es = 1..m
  <2>1. m \in Nat
    BY BoundsAssumption
  <2> QED BY <1>3, <2>1
<1>5. ASSUME NEW i \in 1..m
      PROVE  /\ es[i].from \in Nat /\ es[i].to \in Nat /\ es[i].at \in Nat /\ es[i].col \in Nat
             /\ Reported(t, es[i]).from = es[i].from - 1 /\ Reported(t, es[i]).to = es[i].to - 1
             /\ Reported(t, es[i]).col = es[i].col
  <2>1. es[i] \in Error
    <3> HIDE DEF Error
    <3> QED BY <1>2, <1>3
  <2> DEFINE e == es[i]
  <2>2. e \in Error
    BY <2>1
  <2>3. Reported(t, e) = [e EXCEPT !.from = e.from - 1, !.to = e.to - 1]
    BY <1>1, <2>2 DEF Reported
  <2> HIDE DEF e
  <2>4. /\ [e EXCEPT !.from = e.from - 1, !.to = e.to - 1].from = e.from - 1
        /\ [e EXCEPT !.from = e.from - 1, !.to = e.to - 1].to = e.to - 1
        /\ [e EXCEPT !.from = e.from - 1, !.to = e.to - 1].col = e.col
    BY <2>2
  <2> QED BY <2>2, <2>3, <2>4 DEF e
<1> QED BY <1>4, <1>5

(* keep lists the errors that have a position: Positions reports them. *)
Placed(t, es, keep) ==
  /\ Lists(keep, {i \in 1..Len(es) : es[i] # NoPlace})
  /\ Len(keep) \in Nat /\ \A p \in 1..Len(keep) : keep[p] \in 1..Len(es)
  /\ Len(Positions(t, es)) = Len(keep)
  /\ \A p \in 1..Len(keep) : Positions(t, es)[p] = Reported(t, es[keep[p]])

LEMMA PositionsAre ==
  ASSUME NEW t, NEW es, Len(es) \in Nat, DOMAIN es = 1..Len(es)
  PROVE  \E keep : Placed(t, es, keep)
<1> DEFINE S == {i \in 1..Len(es) : es[i] # NoPlace}
           keep == InOrder(S, Len(es))
<1>1. S \in SUBSET (1..Len(es)) /\ S \in SUBSET Nat
  OBVIOUS
<1>2. \A i \in S : i \in 1..Len(es)
  OBVIOUS
<1>3. Positions(t, es) = [p \in DOMAIN keep |-> Reported(t, es[keep[p]])]
  BY DEF Positions
<1> HIDE DEF S
<1>4. Lists(keep, S)
  BY <1>1, InOrderLists
<1> HIDE DEF keep
<1>5. Len(keep) \in Nat /\ DOMAIN keep = 1..Len(keep) /\ \A p \in 1..Len(keep) : keep[p] \in S
  BY <1>1, <1>4, ListsMembers
<1>6. /\ Len(Positions(t, es)) = Len(keep)
      /\ \A p \in 1..Len(keep) : Positions(t, es)[p] = Reported(t, es[keep[p]])
  BY <1>3, <1>5
<1>7. \A p \in 1..Len(keep) : keep[p] \in 1..Len(es)
  BY <1>2, <1>5
<1>8. Placed(t, es, keep)
  BY <1>4, <1>5, <1>6, <1>7 DEF S, Placed
<1> QED BY <1>8

(***************************************************************************)
(* An error in a block that is closed has been passed at a block above it, *)
(* or one that lies below the block comes before it in the list; one line  *)
(* off is not enough for it to be taken for one outside.                   *)
(***************************************************************************)
LEMMA NoneOverlooked ==
  ASSUME NEW t \in Seq(Line), Headed(t), NEW es \in BoundedSeq(Errors(t), MaxErrors)
  PROVE  Overlooked(t, es, RetiredCount(t, es)) = {}
<1> DEFINE B == ListEvolve(t)
           n == RetiredCount(t, es)
           errors == Positions(t, es)
           j == Indices(t, errors)
<1>1. Len(B) \in Nat
  BY AnyBlocks
<1>2. n \in 0..Len(B) /\ \A k \in 1..n : Done(t, errors, j[k], B[k])
  BY RetiredCountIs
<1>3. Len(es) \in Nat /\ DOMAIN es = 1..Len(es)
  BY ErrorsAre
<1>4. PICK keep :
        /\ Lists(keep, {i \in 1..Len(es) : es[i] # NoPlace})
        /\ Len(keep) \in Nat /\ \A p \in 1..Len(keep) : keep[p] \in 1..Len(es)
        /\ Len(errors) = Len(keep)
        /\ \A p \in 1..Len(keep) : errors[p] = Reported(t, es[keep[p]])
  <2> HIDE DEF errors, n, B, j
  <2>1. PICK keep : Placed(t, es, keep)
    BY <1>3, PositionsAre
  <2> QED BY <2>1 DEF Placed, errors
<1> HIDE DEF errors, n
<1>5. ASSUME NEW k \in 1..n, NEW i \in 1..Len(es), Inside(t, es[i], B[k]), ~Hidden(es, i, B[k])
      PROVE  FALSE
  <2> DEFINE x == B[k].first
             y == B[k].last
             e == es[i]
  <2>1. k \in 1..Len(B)
    BY <1>1, <1>2
  <2>2. x \in Nat /\ y \in Nat /\ x < y
    BY <2>1, AnyBlocks
  <2>3. /\ e.from \in Nat /\ e.to \in Nat /\ e.col \in Nat
        /\ Reported(t, e).from = e.from - 1 /\ Reported(t, e).to = e.to - 1 /\ Reported(t, e).col = e.col
    BY ErrorsAre
  <2>4. /\ e # NoPlace /\ e.to > x /\ e.from < y
        /\ ~(e.to = x + 1 /\ e.col < Column(t[x]))
    BY <1>5 DEF Inside
  <2>5. PICK p \in 1..Len(keep) : keep[p] = i
    BY <1>4, <2>4 DEF Lists
  <2>6. errors[p] = Reported(t, e)
    BY <1>4, <2>5
  <2>7. /\ j[k] \in 1..Len(errors) + 1
        /\ \A h \in 1..j[k] - 1 : \E m \in 1..k : Before(t, errors[h], B[m])
    BY <1>4, <2>1, IndicesAre
  <2>8. j[k] > Len(errors) \/ After(t, errors[j[k]], B[k])
    BY <1>2 DEF Done
  <2> DEFINE q == j[k]
  <2> HIDE DEF j, x, y, e, B
  <2>9. CASE p < q
    <3>1. p \in 1..q - 1
      BY <1>4, <2>7, <2>9
    <3>2. PICK m \in 1..k : Before(t, Reported(t, e), B[m])
      BY <2>6, <2>7, <3>1
    <3>3. B[m].first \in Nat /\ (m = k \/ B[m].first < x)
      <4>1. m \in 1..Len(B) /\ (m = k \/ m < k)
        BY <1>1, <2>1
      <4> QED BY <2>1, <4>1, AnyBlocks DEF B, x
    <3>4. e.to - 1 < B[m].first \/ (e.to - 1 = B[m].first /\ e.col < Column(t[B[m].first]))
      BY <2>3, <3>2 DEF Before
    <3>5. CASE m = k
      <4>1. e.to - 1 < x \/ (e.to - 1 = x /\ e.col < Column(t[x]))
        BY <3>4, <3>5 DEF x
      <4>2. e.to - 1 = x => e.to = x + 1
        BY <2>2, <2>3
      <4>3. ~(e.to - 1 < x)
        BY <2>2, <2>3, <2>4
      <4> QED BY <2>4, <4>1, <4>2, <4>3
    <3>6. CASE m # k
      <4>1. e.to - 1 < B[m].first \/ e.to - 1 = B[m].first
        BY <3>4
      <4> QED BY <2>2, <2>3, <2>4, <3>3, <3>6, <4>1
    <3> QED BY <3>5, <3>6
  <2>10. ASSUME NEW h \in 1..Len(keep), h = q PROVE es[keep[h]].from > y
    <3>1. ~(q > Len(errors))
      BY <1>4, <2>7, <2>10
    <3>2. After(t, Reported(t, es[keep[h]]), B[k])
      BY <1>4, <2>8, <2>10, <3>1
    <3> DEFINE d == es[keep[h]]
    <3>3. d.from \in Nat /\ Reported(t, d).from = d.from - 1
      <4>1. keep[h] \in 1..Len(es)
        BY <1>4
      <4> QED BY <4>1, ErrorsAre
    <3> HIDE DEF d
    <3>4. d.from - 1 > y \/ d.from - 1 = y
      BY <3>2, <3>3 DEF After, y, d
    <3>5. d.from > y
      BY <2>2, <3>3, <3>4
    <3> QED BY <3>5 DEF d
  <2>11. CASE p = q
    <3>1. e.from > y
      BY <2>5, <2>10, <2>11 DEF e
    <3> QED BY <2>2, <2>3, <2>4, <3>1
  <2>12. CASE p > q
    <3>1. q \in 1..Len(keep) /\ q < p
      BY <1>4, <2>7, <2>12
    <3>2. es[keep[q]].from > y
      BY <2>10, <3>1
    <3>3. keep[q] < keep[p] /\ keep[q] \in 1..Len(es)
      BY <1>4, <3>1 DEF Lists
    <3>4. keep[q] \in 1..i - 1
      BY <2>5, <3>3
    <3> QED BY <1>5, <3>2, <3>4 DEF Hidden, y
  <2>13. p \in Nat /\ q \in Nat
    BY <1>4, <2>7
  <2> QED BY <2>9, <2>11, <2>12, <2>13
<1>6. \A k \in 1..n : ~SorryIn(t, B[k])
  BY <1>2 DEF Done
<1>7. Overlooked(t, es, n) = {k \in 1..n :
         \/ SorryIn(t, B[k])
         \/ \E i \in DOMAIN es : Inside(t, es[i], B[k]) /\ ~Hidden(es, i, B[k])}
  BY DEF Overlooked
<1> HIDE DEF B
<1>8. Overlooked(t, es, n) = {}
  BY <1>3, <1>5, <1>6, <1>7
<1> QED BY <1>8 DEF n

-----------------------------------------------------------------------------
(* Sessions *)

(***************************************************************************)
(* A session's text has its header.  As long as no marker is foreign, it   *)
(* has a block left, and is the header, then statements and blocks.        *)
(***************************************************************************)
SessionInv ==
  /\ phase = "submitted" => request.commands \in Submissions /\ ~foreign
  /\ phase = "editing" => Headed(text)
  /\ phase = "editing" /\ ~foreign => \E B : B # <<>> /\ Tidy(text, B)

IInv == TypeOK /\ SessionInv /\ RetiredIsDone

LEMMA InitInv == Init => IInv
<1> SUFFICES ASSUME Init PROVE IInv
  OBVIOUS
<1>1. request \in [commands : Submissions, mode : Modes]
  BY DEF Init
<1>2. request \in [commands : Submissions \cup {<<>>}, mode : Modes] /\ request.commands \in Submissions
  BY <1>1
<1>3. phase = "submitted" /\ text = <<>> /\ foreign = FALSE /\ overlooked = {}
  BY DEF Init
<1>4. text \in Seq(Line) /\ overlooked \subseteq Nat
  BY <1>3
<1>5. TypeOK
  BY <1>2, <1>3, <1>4 DEF TypeOK
<1>6. SessionInv
  BY <1>2, <1>3 DEF SessionInv
<1> QED BY <1>3, <1>5, <1>6 DEF IInv, RetiredIsDone

LEMMA PrepareInv ==
  ASSUME IInv, Prepare
  PROVE  IInv'
<1> DEFINE s == request.commands
           mode == request.mode
<1>1. /\ phase = "submitted" /\ s \in Submissions /\ overlooked' = {}
      /\ request \in [commands : Submissions \cup {<<>>}, mode : Modes]
  BY DEF Prepare, IInv, TypeOK, SessionInv, RetiredIsDone
<1>2. request' \in [commands : Submissions \cup {<<>>}, mode : Modes]
  <2>1. request' = [request EXCEPT !.commands = <<>>]
    BY DEF Prepare
  <2> QED BY <1>1, <2>1
<1>3. foreign' \in BOOLEAN /\ (~foreign' => Unmarked(s))
  <2>1. foreign' = \E i \in DOMAIN s : NoteMark(s[i]) # "no"
    BY DEF Prepare
  <2>2. \A i : NoteMark(s[i]) = "no" => s[i].note \notin {"start", "end"}
    BY DEF NoteMark
  <2> HIDE DEF s
  <2> QED BY <2>1, <2>2 DEF Unmarked
<1> HIDE DEF s, mode
<1>4. CASE phase' = "rejected" /\ text' = <<>>
  BY <1>1, <1>2, <1>3, <1>4 DEF IInv, TypeOK, SessionInv, RetiredIsDone
<1>5. CASE /\ Accepts(s, mode) /\ text' = NormalizedLean(s, mode)
           /\ phase' = IF mode = "lean" THEN "editing" ELSE "whole"
  <2>1. text' \in Seq(Line) /\ Headed(text')
    BY <1>1, <1>5, PreparedLines
  <2>2. phase' \in {"editing", "whole"}
    BY <1>5
  <2>3. ASSUME phase' = "editing", ~foreign'
        PROVE  \E B : B # <<>> /\ Tidy(text', B)
    <3>1. PICK B : /\ Tidy(NormalizedLean(s, mode), B)
                   /\ Accepts(s, mode) /\ mode = "lean" => B # <<>>
      BY <1>1, <1>3, <2>3, Prepared
    <3>2. mode = "lean"
      BY <1>5, <2>3
    <3> QED BY <1>5, <3>1, <3>2
  <2>4. phase' = "editing" /\ ~foreign' => ListEvolve(text') # <<>>
    BY <2>3, TidyTypes
  <2>5. TypeOK'
    BY <1>1, <1>2, <1>3, <2>1, <2>2, <2>4 DEF TypeOK
  <2>6. SessionInv'
    BY <2>1, <2>2, <2>3 DEF SessionInv
  <2> QED BY <1>1, <2>5, <2>6 DEF IInv, RetiredIsDone
<1> QED BY <1>4, <1>5 DEF Prepare, s, mode

(***************************************************************************)
(* What a step of a session makes of a text with the blocks B, as long as  *)
(* no marker is foreign: n of them are retired.                            *)
(***************************************************************************)
Continued(B, D, n) ==
  /\ Tidy(text', D)
  /\ n \in 0..Len(B) /\ Len(D) = Len(B) - n
  /\ \A k \in 1..Len(D) : text'[D[k].first].of = text[B[k + n].first].of
  /\ Statement(text') = Statement(text)

(* A replacement retires none. *)
LEMMA ReplaceDoes ==
  ASSUME NEW B, B # <<>>, Tidy(text, B), Headed(text), NEW code \in Codes,
         NEW id \in -Len(ListEvolve(text))..Len(ListEvolve(text)), Replace(id, code), ~foreign'
  PROVE  \E D : D # <<>> /\ Continued(B, D, 0)
<1>1. ListEvolve(text) = B /\ Len(B) \in Nat /\ B \in Seq(Block)
  BY TidyTypes
<1>2. text' = ReplaceBlockById(text, id, code) /\ (id < Len(B) => ~HasMarker(code))
  BY <1>1 DEF Replace
<1>3. PICK C : Follows(text, B, text', C)
  BY <1>1, <1>2, ReplaceFollows
<1>4. Tidy(text', C) /\ Len(C) = Len(B) /\ Statement(text') = Statement(text)
  BY <1>3 DEF Follows
<1>5. \A k \in 1..Len(C) : text'[C[k].first].of = text[B[k + 0].first].of
  <2>1. \A k \in 1..Len(B) : k + 0 = k /\ text'[C[k].first].of = text[B[k].first].of
    BY <1>3 DEF Follows
  <2> QED BY <1>4, <2>1
<1>6. C # <<>>
  <2>1. C \in Seq(Block)
    BY <1>4, TidyTypes
  <2> QED BY <1>1, <1>4, <2>1
<1>7. 0 \in 0..Len(B) /\ Len(C) = Len(B) - 0
  BY <1>1, <1>4
<1> QED BY <1>4, <1>5, <1>6, <1>7 DEF Continued

LEMMA CompileDoes ==
  ASSUME NEW B, Tidy(text, B), Headed(text), Compile
  PROVE  \E D, n : Continued(B, D, n)
<1> DEFINE b == Len(B)
<1>1. b \in Nat /\ ListEvolve(text) = B /\ text \in Seq(Line)
  BY TidyTypes
<1>2. PICK es : text' = Retire(text, RetiredCount(text, es))
  BY DEF Compile
<1> DEFINE n == RetiredCount(text, es)
           D == Remaining(B, n)
<1>3. n \in 0..b
  BY <1>1, RetiredCountIs
<1> HIDE DEF n
<1>4. /\ Tidy(text', D) /\ Statement(text') = Statement(text) /\ Len(text') = Len(text)
      /\ \A i \in 1..Len(text) : text'[i].of = text[i].of
  BY <1>2, <1>3, RetiredTidy DEF n
<1>5. /\ Len(D) = b - n
      /\ \A k \in 1..b - n : k + n \in 1..b /\ D[k] = B[k + n]
  <2>1. b - n \in Nat /\ n \in Nat
    BY <1>1, <1>3
  <2>2. D = [k \in 1..b - n |-> B[k + n]]
    BY DEF Remaining
  <2>3. \A k \in 1..b - n : k + n \in 1..b
    BY <1>1, <2>1
  <2> HIDE DEF D
  <2> QED BY <2>1, <2>2, <2>3
<1> HIDE DEF D
<1>6. \A k \in 1..Len(D) : text'[D[k].first].of = text[B[k + n].first].of
  <2> SUFFICES ASSUME NEW k \in 1..b - n
               PROVE  text'[D[k].first].of = text[B[k + n].first].of
    BY <1>5
  <2> DEFINE j == k + n
  <2>1. j \in 1..b /\ D[k] = B[j]
    BY <1>5
  <2> HIDE DEF j
  <2>2. B[j].first \in 1..Len(text)
    BY <2>1, TidyTypes
  <2> QED BY <1>4, <2>1, <2>2 DEF j
<1> QED BY <1>3, <1>4, <1>5, <1>6 DEF Continued

(* And whatever the markers are, these are kept. *)
LEMMA ReplaceAny ==
  ASSUME text \in Seq(Line), Headed(text), NEW code \in Codes,
         NEW id \in -Len(ListEvolve(text))..Len(ListEvolve(text)), Replace(id, code)
  PROVE  text' \in Seq(Line) /\ Headed(text') /\ Above(text, text')
BY ReplaceKeeps DEF Replace

LEMMA CompileAny ==
  ASSUME text \in Seq(Line), Headed(text), Compile
  PROVE  text' \in Seq(Line) /\ Headed(text') /\ Above(text, text') /\ overlooked' = {}
<1>1. PICK es \in BoundedSeq(Errors(text), MaxErrors) :
        /\ text' = Retire(text, RetiredCount(text, es))
        /\ overlooked' = Overlooked(text, es, RetiredCount(text, es))
  BY DEF Compile
<1>2. RetiredCount(text, es) \in 0..Len(ListEvolve(text))
  BY RetiredCountIs
<1>3. overlooked' = {}
  BY <1>1, NoneOverlooked
<1> QED BY <1>1, <1>2, <1>3, RetireIs

LEMMA ReplaceInv ==
  ASSUME IInv, NEW code \in Codes,
         NEW id \in -Len(ListEvolve(text))..Len(ListEvolve(text)), Replace(id, code)
  PROVE  IInv'
<1>1. /\ phase = "editing" /\ phase' = "editing" /\ request' = request /\ overlooked' = overlooked
      /\ foreign' = (foreign \/ (id < Len(ListEvolve(text)) /\ HasMarker(code)))
  BY DEF Replace
<1>2. text \in Seq(Line) /\ Headed(text) /\ foreign \in BOOLEAN
  BY <1>1 DEF IInv, TypeOK, SessionInv
<1>3. text' \in Seq(Line) /\ Headed(text')
  BY <1>2, ReplaceAny
<1>4. ASSUME ~foreign' PROVE \E D : D # <<>> /\ Tidy(text', D)
  <2>1. PICK B : B # <<>> /\ Tidy(text, B)
    BY <1>1, <1>4 DEF IInv, SessionInv
  <2> QED BY <1>2, <1>4, <2>1, ReplaceDoes DEF Continued
<1>5. ~foreign' => ListEvolve(text') # <<>>
  BY <1>4, TidyTypes
<1>6. foreign' \in BOOLEAN
  BY <1>1
<1>7. TypeOK'
  BY <1>1, <1>3, <1>5, <1>6 DEF IInv, TypeOK
<1>8. SessionInv'
  BY <1>1, <1>3, <1>4 DEF SessionInv
<1> QED BY <1>1, <1>7, <1>8 DEF IInv, RetiredIsDone

LEMMA CompileInv ==
  ASSUME IInv, Compile
  PROVE  IInv'
<1>1. /\ phase = "editing" /\ request' = request /\ foreign' = foreign
      /\ phase' = IF ListEvolve(text') = <<>> THEN "exhausted" ELSE "editing"
  BY DEF Compile
<1>2. text \in Seq(Line) /\ Headed(text)
  BY <1>1 DEF IInv, TypeOK, SessionInv
<1>3. text' \in Seq(Line) /\ Headed(text') /\ overlooked' = {}
  BY <1>2, CompileAny
<1>4. ASSUME ~foreign', phase' = "editing" PROVE \E D : D # <<>> /\ Tidy(text', D)
  <2>1. PICK B : Tidy(text, B)
    BY <1>1, <1>4 DEF IInv, SessionInv
  <2>2. PICK D, n : Continued(B, D, n)
    BY <1>2, <2>1, CompileDoes
  <2>3. Tidy(text', D) /\ ListEvolve(text') = D
    BY <2>2, TidyTypes DEF Continued
  <2> QED BY <1>1, <1>4, <2>3
<1>5. TypeOK'
  BY <1>1, <1>3 DEF IInv, TypeOK
<1>6. SessionInv'
  BY <1>1, <1>3, <1>4 DEF SessionInv
<1> QED BY <1>3, <1>5, <1>6 DEF IInv, RetiredIsDone

(* IInv is inductive, and so holds in every reachable state. *)
LEMMA Invariance == Spec => []IInv
<1>1. IInv /\ [Next]_vars => IInv'
  <2> SUFFICES ASSUME IInv, [Next]_vars PROVE IInv'
    OBVIOUS
  <2>1. CASE Prepare
    BY <2>1, PrepareInv
  <2>2. ASSUME NEW code \in Codes, NEW id \in -Len(ListEvolve(text))..Len(ListEvolve(text)),
               Replace(id, code)
        PROVE  IInv'
    BY <2>2, ReplaceInv
  <2>3. CASE ReplaceRaises
    BY <2>3 DEF ReplaceRaises, IInv, TypeOK, SessionInv, RetiredIsDone
  <2>4. CASE Compile
    BY <2>4, CompileInv
  <2>5. CASE UNCHANGED vars
    BY <2>5 DEF IInv, TypeOK, SessionInv, RetiredIsDone, vars
  <2> QED BY <2>1, <2>2, <2>3, <2>4, <2>5 DEF Next
<1> QED BY InitInv, <1>1, PTL DEF Spec

(***************************************************************************)
(* Types; and a session that goes on has a block to work on, whatever the  *)
(* edits and the errors were, until a marker is foreign.                   *)
(***************************************************************************)
THEOREM TypeCorrect == Spec => []TypeOK
<1>1. IInv => TypeOK
  BY DEF IInv
<1> QED BY <1>1, Invariance, PTL

(***************************************************************************)
(* The retirement in prover_step closes no block with a sorry in it, and   *)
(* none with an error in it but one that the list of a compile has behind  *)
(* an error below the block: for lists of any length, errors of any size   *)
(* at any place, some without one, and any markers.                        *)
(***************************************************************************)
THEOREM RetiredAlwaysDone == Spec => []RetiredIsDone
<1>1. IInv => RetiredIsDone
  BY DEF IInv
<1> QED BY <1>1, Invariance, PTL

LEMMA AboveKept ==
  ASSUME NEW t \in Seq(Line), NEW r, ListEvolve(t) # <<>>, Above(t, r)
  PROVE  SubSeq(r, 1, ListEvolve(t)[1].first - 1) = SubSeq(t, 1, ListEvolve(t)[1].first - 1)
<1> DEFINE B == ListEvolve(t)
           m == B[1].first - 1
<1>1. m \in Nat
  <2>1. B \in Seq(Block)
    BY AnyBlocks
  <2>2. 1 \in 1..Len(B)
    <3> HIDE DEF B
    <3>1. B # <<>>
      BY DEF B
    <3> QED BY <2>1, <3>1
  <2>3. B[1].first \in 1..Len(t)
    BY <2>2, AnyBlocks
  <2> HIDE DEF B
  <2> QED BY <2>3
<1>2. \A i \in 1..m : r[i] = t[i]
  BY DEF Above
<1> HIDE DEF m, B
<1>3. SubSeq(r, 1, m) = [i \in 1..m |-> r[i]] /\ SubSeq(t, 1, m) = [i \in 1..m |-> t[i]]
  <2>1. \A i \in 1..m : 1 + i - 1 = i
    BY <1>1
  <2>2. 1..(m - 1 + 1) = 1..m
    BY <1>1
  <2> QED BY <1>1, <2>1, <2>2
<1>4. SubSeq(r, 1, m) = SubSeq(t, 1, m)
  BY <1>2, <1>3
<1> QED BY <1>4 DEF m, B

(***************************************************************************)
(* replace_block_by_id and the retirement change nothing above the first   *)
(* open block, whatever the markers are, and no statement, until one is    *)
(* foreign.                                                                *)
(***************************************************************************)
THEOREM OutsideAlwaysKept == Spec => OutsideKept
<1> DEFINE Kept == phase = "editing" =>
                     /\ ~foreign' => Statement(text') = Statement(text)
                     /\ LET blocks == ListEvolve(text)
                        IN blocks # <<>> =>
                             SubSeq(text', 1, blocks[1].first - 1) = SubSeq(text, 1, blocks[1].first - 1)
<1>1. IInv /\ [Next]_vars => [Kept]_vars
  <2> SUFFICES ASSUME IInv, Next, phase = "editing" PROVE Kept
    BY DEF vars
  <2>1. text \in Seq(Line) /\ Headed(text)
    BY DEF IInv, TypeOK, SessionInv
  <2>2. ~foreign => \E B : B # <<>> /\ Tidy(text, B)
    BY DEF IInv, SessionInv
  <2>3. ASSUME NEW code \in Codes, NEW id \in -Len(ListEvolve(text))..Len(ListEvolve(text)),
               Replace(id, code)
        PROVE  Kept
    <3>1. ~foreign' => Statement(text') = Statement(text)
      <4>1. ~foreign' => ~foreign
        BY <2>3 DEF Replace
      <4> QED BY <2>1, <2>2, <2>3, <4>1, ReplaceDoes DEF Continued
    <3>2. Above(text, text')
      BY <2>1, <2>3, ReplaceAny
    <3> QED BY <2>1, <3>1, <3>2, AboveKept
  <2>4. CASE ReplaceRaises
    BY <2>4 DEF ReplaceRaises
  <2>5. CASE Compile
    <3>1. ~foreign' => Statement(text') = Statement(text)
      <4>1. ~foreign' => ~foreign
        BY <2>5 DEF Compile
      <4> QED BY <2>1, <2>2, <2>5, <4>1, CompileDoes DEF Continued
    <3>2. Above(text, text')
      BY <2>1, <2>5, CompileAny
    <3> QED BY <2>1, <3>1, <3>2, AboveKept
  <2>6. ~Prepare
    BY DEF Prepare
  <2> QED BY <2>3, <2>4, <2>5, <2>6 DEF Next
<1> QED BY <1>1, Invariance, PTL DEF Spec, OutsideKept

LEMMA ContinuedShrinks ==
  ASSUME NEW B, Tidy(text, B), NEW D, NEW n, Continued(B, D, n)
  PROVE  IsSuffix(Owners(text'), Owners(text))
<1> DEFINE b == Len(B)
           d == Len(D)
           u == Owners(text')
           v == Owners(text)
<1>1. /\ ListEvolve(text) = B /\ ListEvolve(text') = D
      /\ b \in Nat /\ d \in Nat /\ DOMAIN B = 1..b /\ DOMAIN D = 1..d
      /\ n \in 0..b /\ d = b - n
  BY TidyTypes DEF Continued
<1>2. u = [k \in 1..d |-> text'[D[k].first].of] /\ v = [k \in 1..b |-> text[B[k].first].of]
  BY <1>1 DEF Owners
<1>3. Len(u) = d /\ Len(v) = b
  BY <1>1, <1>2
<1>4. \A k \in 1..d : k + n \in 1..b /\ u[k] = v[k + n]
  <2>1. \A k \in 1..d : k + n \in 1..b
    BY <1>1
  <2>2. \A k \in 1..d : text'[D[k].first].of = text[B[k + n].first].of
    BY DEF Continued
  <2> QED BY <1>2, <2>1, <2>2
<1> HIDE DEF u, v, b, d
<1> DEFINE ru == [i \in 1..d |-> u[(d - i) + 1]]
           rv == [i \in 1..b |-> v[(b - i) + 1]]
<1>5. Reverse(u) = ru /\ Reverse(v) = rv
  BY <1>3 DEF Reverse
<1>6. \A i \in 1..d : ru[i] = rv[i]
  <2> SUFFICES ASSUME NEW i \in 1..d PROVE ru[i] = rv[i]
    OBVIOUS
  <2> DEFINE k == (d - i) + 1
  <2>1. k \in 1..d /\ i \in 1..b /\ k + n = (b - i) + 1
    BY <1>1
  <2>2. ru[i] = u[k] /\ rv[i] = v[(b - i) + 1]
    BY <2>1
  <2> HIDE DEF k, ru, rv
  <2> QED BY <1>4, <2>1, <2>2
<1>7. Len(ru) = d /\ Len(rv) = b /\ d <= b
  BY <1>1
<1> HIDE DEF ru, rv
<1>8. SubSeq(ru, 1, d) = [i \in 1..d |-> ru[i]] /\ SubSeq(rv, 1, d) = [i \in 1..d |-> rv[i]]
  <2>1. \A i \in 1..d : 1 + i - 1 = i
    BY <1>1
  <2>2. 1..(d - 1 + 1) = 1..d
    BY <1>1
  <2> QED BY <1>1, <2>1, <2>2
<1>9. SubSeq(ru, 1, d) = SubSeq(rv, 1, d)
  BY <1>6, <1>8
<1> QED BY <1>5, <1>7, <1>9 DEF IsSuffix, IsPrefix, u, v

(***************************************************************************)
(* Blocks are retired from the top only, and none is added, until a marker *)
(* is foreign: block id k after a step is block k + n of before, n the     *)
(* number of those it retired.                                             *)
(***************************************************************************)
THEOREM OpenBlocksAlwaysShrink == Spec => OpenBlocksShrink
<1> DEFINE Shrink == phase = "editing" /\ ~foreign' => IsSuffix(Owners(text'), Owners(text))
<1>1. IInv /\ [Next]_vars => [Shrink]_vars
  <2> SUFFICES ASSUME IInv, Next, phase = "editing", ~foreign'
               PROVE  IsSuffix(Owners(text'), Owners(text))
    BY DEF vars
  <2>1. ~foreign
    BY DEF Next, Prepare, Replace, ReplaceRaises, Compile
  <2>2. PICK B : B # <<>> /\ Tidy(text, B)
    BY <2>1 DEF IInv, SessionInv
  <2>3. Headed(text)
    BY DEF IInv, SessionInv
  <2>4. ASSUME NEW code \in Codes, NEW id \in -Len(ListEvolve(text))..Len(ListEvolve(text)),
               Replace(id, code)
        PROVE  \E D, n : Continued(B, D, n)
    BY <2>2, <2>3, <2>4, ReplaceDoes
  <2>5. CASE Compile
    BY <2>2, <2>3, <2>5, CompileDoes, ContinuedShrinks
  <2>6. ASSUME ReplaceRaises PROVE \E D, n : Continued(B, D, n)
    <3>1. text' = text
      BY <2>6 DEF ReplaceRaises
    <3>2. Len(B) \in Nat
      BY <2>2, TidyTypes
    <3>3. 0 \in 0..Len(B) /\ Len(B) = Len(B) - 0 /\ \A k \in 1..Len(B) : k + 0 = k
      BY <3>2
    <3>4. \A k \in 1..Len(B) : text'[B[k].first].of = text[B[k + 0].first].of
      BY <3>1, <3>3
    <3>5. Continued(B, B, 0)
      BY <2>2, <3>1, <3>3, <3>4 DEF Continued
    <3> QED BY <3>5
  <2>7. ~Prepare
    BY DEF Prepare
  <2> QED BY <2>2, <2>4, <2>5, <2>6, <2>7, ContinuedShrinks DEF Next
<1> QED BY <1>1, Invariance, PTL DEF Spec, OpenBlocksShrink
=============================================================================
