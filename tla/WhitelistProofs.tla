--------------------------- MODULE WhitelistProofs ---------------------------
(***************************************************************************)
(* Proofs about the whitelist trees and the escrows of a presale with      *)
(* Merkle proofs, for lists, trees and presales of every size.             *)
(*                                                                         *)
(* The trees are built by loops, which the model writes as recursive       *)
(* functions.  Of each a lemma says that the function exists and what one  *)
(* turn of the loop does (SortedSteps, KeptSteps, LayerSteps, ClimbSteps,  *)
(* FoldSteps); what the loop makes follows from it by induction over the   *)
(* turns, in first-order form: a property of the numbers up to n is the    *)
(* set of those that have it (IntervalInduction).                          *)
(***************************************************************************)
EXTENDS Whitelist, SequenceTheorems, FiniteSetTheorems, TLAPS

---------------------------------------------------------------------------
(* Induction over an interval *)

\* A set that has 0, and with every number below n its successor, has 0..n.
LEMMA IntervalInduction ==
    ASSUME NEW n \in Nat, NEW Good, 0 \in Good,
           \A k \in 1..n : k - 1 \in Good => k \in Good
    PROVE  \A k \in 0..n : k \in Good
<1> DEFINE S == 0..n
           Bad == {T \in FiniteSubsetsOf(S) : \E k \in S : T = 0..k /\ k \notin Good}
<1>1. Bad = {}
  <2> SUFFICES ASSUME Bad # {} PROVE FALSE
    OBVIOUS
  <2>0. IsFiniteSet(S)
    BY FS_Interval
  <2>1. IsWellFoundedOn(StrictSubsetOrdering(S), FiniteSubsetsOf(S))
    BY <2>0, FS_StrictSubsetOrderingWellFounded
  <2>2. Bad \subseteq FiniteSubsetsOf(S)
    OBVIOUS
  <2> HIDE DEF Bad
  <2>3. PICK T \in Bad : \A U \in Bad : <<U, T>> \notin StrictSubsetOrdering(S)
    BY <2>1, <2>2, WFMin
  <2> USE DEF Bad
  <2>4. PICK k \in S : T = 0..k /\ k \notin Good
    OBVIOUS
  <2>5. k \in 1..n /\ k - 1 \in S /\ k - 1 \notin Good
    BY <2>4
  <2>6. 0..(k - 1) \in FiniteSubsetsOf(S)
    BY <2>5, FS_Interval DEF FiniteSubsetsOf
  <2>7. 0..(k - 1) \in Bad
    BY <2>5, <2>6
  <2>8. <<0..(k - 1), T>> \in StrictSubsetOrdering(S)
    <3>1. 0..(k - 1) \subseteq 0..k /\ k \in 0..k /\ k \notin 0..(k - 1)
      BY <2>5
    <3>2. 0..k \subseteq S /\ 0..(k - 1) \subseteq S
      BY <2>5
    <3> QED
      BY <2>4, <3>1, <3>2 DEF StrictSubsetOrdering
  <2> QED
    BY <2>3, <2>7, <2>8
<1>2. ASSUME NEW k \in S PROVE 0..k \in FiniteSubsetsOf(S)
  BY FS_Interval DEF FiniteSubsetsOf
<1> QED
  BY <1>1, <1>2

---------------------------------------------------------------------------
(* Sorting and removing duplicates *)

\* The turns of the sort.
LEMMA SortedSteps ==
    ASSUME NEW nodes, Len(nodes) \in Nat
    PROVE  \E sorted :
              /\ sorted[0] = <<>>
              /\ \A n \in 1..Len(nodes) : \E upTo \in SUBSET DOMAIN sorted[n - 1] :
                    sorted[n] = InsertAt(sorted[n - 1], Cardinality(upTo) + 1, nodes[n])
              /\ Sorted(nodes) = sorted[Len(nodes)]
<1> DEFINE L == Len(nodes)
           upTo(before, n) == {i \in DOMAIN before : before[i].leaf <= nodes[n].leaf}
           turn(before, n) ==
                InsertAt(before, Cardinality(upTo(before, n)) + 1, nodes[n])
           loop(m, f) == f = [n \in 0..m |->
                                IF n = 0 THEN <<>> ELSE turn(f[n - 1], n)]
           sorted == CHOOSE f : loop(L, f)
<1>1. Sorted(nodes) = sorted[L]
  BY DEF Sorted
<1> HIDE DEF turn
<1>2. \E f : loop(L, f)
  <2> DEFINE Good == {m \in 0..L : \E f : loop(m, f)}
  <2>1. 0 \in Good
    <3> DEFINE none == [n \in 0..0 |-> <<>>]
    <3>1. loop(0, none)
      OBVIOUS
    <3> HIDE DEF none, loop
    <3> QED
      BY <3>1
  <2>2. ASSUME NEW m \in 1..L, m - 1 \in Good PROVE m \in Good
    <3>1. PICK f : loop(m - 1, f)
      BY <2>2
    <3> DEFINE g == [n \in 0..m |-> IF n = m THEN turn(f[m - 1], m) ELSE f[n]]
    <3>2. loop(m, g)
      <4>1. ASSUME NEW n \in 0..m
            PROVE  g[n] = IF n = 0 THEN <<>> ELSE turn(g[n - 1], n)
        BY <3>1
      <4> QED
        BY <4>1
    <3> HIDE DEF g, loop
    <3> QED
      BY <3>2
  <2>3. L \in 0..L
    OBVIOUS
  <2> HIDE DEF Good
  <2>4. L \in Good
    BY <2>1, <2>2, <2>3, IntervalInduction
  <2> QED
    BY <2>4 DEF Good
<1>3. loop(L, sorted)
  <2> HIDE DEF loop
  <2> QED
    BY <1>2
<1> HIDE DEF sorted
<1>4. sorted[0] = <<>> /\ \A n \in 1..L : sorted[n] = turn(sorted[n - 1], n)
  BY <1>3
<1>5. ASSUME NEW n \in 1..L
      PROVE  \E u \in SUBSET DOMAIN sorted[n - 1] :
                sorted[n] = InsertAt(sorted[n - 1], Cardinality(u) + 1, nodes[n])
  <2>1. upTo(sorted[n - 1], n) \in SUBSET DOMAIN sorted[n - 1]
    OBVIOUS
  <2>2. sorted[n] = InsertAt(sorted[n - 1],
                             Cardinality(upTo(sorted[n - 1], n)) + 1, nodes[n])
    BY <1>4 DEF turn
  <2> HIDE DEF upTo
  <2> QED
    BY <2>1, <2>2
<1> QED
  BY <1>1, <1>4, <1>5

\* Inserting an element into a sequence adds it to what the sequence holds.
LEMMA InsertAtProperties ==
    ASSUME NEW S, NEW s \in Seq(S), NEW x \in S, NEW i \in 1..(Len(s) + 1)
    PROVE  /\ InsertAt(s, i, x) \in Seq(S)
           /\ Len(InsertAt(s, i, x)) = Len(s) + 1
           /\ ToSet(InsertAt(s, i, x)) = ToSet(s) \cup {x}
<1> DEFINE a == SubSeq(s, 1, i - 1)
           c == SubSeq(s, i, Len(s))
           ab == a \o <<x>>
<1>0. Len(s) \in Nat /\ DOMAIN s = 1..Len(s) /\ \A k \in 1..Len(s) : s[k] \in S
  BY LenProperties, ElementOfSeq
<1>1. a \in Seq(S) /\ Len(a) = i - 1 /\ \A k \in 1..(i - 1) : a[k] = s[k]
  <2>1. \A k \in 1..(i - 1) : s[k] \in S
    BY <1>0
  <2>2. /\ a \in Seq(S) /\ Len(a) = IF 1 <= i - 1 THEN i - 1 - 1 + 1 ELSE 0
        /\ \A k \in 1..(i - 1 - 1 + 1) : a[k] = s[1 + k - 1]
    BY <2>1, SubSeqProperties
  <2> HIDE DEF a
  <2> QED
    BY <2>2
<1>2. /\ c \in Seq(S) /\ Len(c) = Len(s) - i + 1
      /\ \A k \in 1..(Len(s) - i + 1) : c[k] = s[i + k - 1]
  <2>1. \A k \in i..Len(s) : s[k] \in S
    BY <1>0
  <2>2. Len(s) \in Int /\ i \in Int
    BY <1>0
  <2>3. /\ c \in Seq(S) /\ Len(c) = IF i <= Len(s) THEN Len(s) - i + 1 ELSE 0
        /\ \A k \in 1..(Len(s) - i + 1) : c[k] = s[i + k - 1]
    BY <2>1, <2>2, SubSeqProperties
  <2> HIDE DEF c
  <2> QED
    BY <2>3, <1>0
<1> HIDE DEF a, c
<1>3. <<x>> \in Seq(S) /\ Len(<<x>>) = 1 /\ <<x>>[1] = x
  OBVIOUS
<1>4. /\ ab \in Seq(S) /\ Len(ab) = i
      /\ \A k \in 1..(i - 1) : ab[k] = s[k]
      /\ ab[i] = x
  <2>1. /\ ab \in Seq(S) /\ Len(ab) = Len(a) + Len(<<x>>)
        /\ \A k \in 1..(Len(a) + Len(<<x>>)) :
              ab[k] = IF k <= Len(a) THEN a[k] ELSE <<x>>[k - Len(a)]
    BY <1>1, <1>3, ConcatProperties
  <2> HIDE DEF ab
  <2>2. Len(ab) = i
    BY <2>1, <1>1, <1>3
  <2>3. \A k \in 1..(i - 1) : ab[k] = s[k]
    BY <2>1, <1>1, <1>3
  <2>4. ab[i] = <<x>>[i - (i - 1)]
    BY <2>1, <1>1, <1>3
  <2>5. ab[i] = x
    BY <2>4, <1>3
  <2> QED
    BY <2>1, <2>2, <2>3, <2>5
<1> DEFINE all == InsertAt(s, i, x)
<1>5. all = ab \o c
  BY DEF InsertAt, a, c
<1> HIDE DEF ab
<1>6. /\ all \in Seq(S) /\ Len(all) = Len(s) + 1
      /\ \A k \in 1..(Len(s) + 1) : all[k] = IF k <= i THEN ab[k] ELSE c[k - i]
  <2>1. /\ all \in Seq(S) /\ Len(all) = Len(ab) + Len(c)
        /\ \A k \in 1..(Len(ab) + Len(c)) :
              all[k] = IF k <= Len(ab) THEN ab[k] ELSE c[k - Len(ab)]
    BY <1>2, <1>4, <1>5, ConcatProperties
  <2>2. Len(ab) + Len(c) = Len(s) + 1
    BY <1>0, <1>2, <1>4
  <2> HIDE DEF all
  <2> QED
    BY <2>1, <2>2, <1>4
<1> HIDE DEF all
<1>7. DOMAIN all = 1..(Len(s) + 1)
  BY <1>6, LenProperties
<1>8. /\ \A k \in 1..(i - 1) : all[k] = s[k]
      /\ all[i] = x
      /\ \A k \in (i + 1)..(Len(s) + 1) : all[k] = s[k - 1]
  <2>1. ASSUME NEW k \in 1..(i - 1) PROVE all[k] = s[k]
    <3>1. k \in 1..(Len(s) + 1) /\ k <= i
      BY <1>0
    <3> QED
      BY <3>1, <1>4, <1>6
  <2>2. all[i] = x
    BY <1>0, <1>4, <1>6
  <2>3. ASSUME NEW k \in (i + 1)..(Len(s) + 1) PROVE all[k] = s[k - 1]
    <3>1. k \in 1..(Len(s) + 1) /\ ~(k <= i)
      BY <1>0
    <3>2. k - i \in 1..(Len(s) - i + 1) /\ i + (k - i) - 1 = k - 1
      BY <1>0
    <3>3. all[k] = c[k - i] /\ c[k - i] = s[i + (k - i) - 1]
      BY <3>1, <3>2, <1>2, <1>6
    <3> QED
      BY <3>2, <3>3
  <2> QED
    BY <2>1, <2>2, <2>3
<1>9. ToSet(all) \subseteq ToSet(s) \cup {x}
  <2> SUFFICES ASSUME NEW k \in 1..(Len(s) + 1)
               PROVE  all[k] = x \/ \E j \in 1..Len(s) : all[k] = s[j]
    BY <1>0, <1>7 DEF ToSet
  <2> QED
    BY <1>0, <1>8
<1>10. x \in ToSet(all)
  BY <1>0, <1>7, <1>8 DEF ToSet
<1>11. ToSet(s) \subseteq ToSet(all)
  <2> SUFFICES ASSUME NEW j \in 1..Len(s)
               PROVE  \E k \in 1..(Len(s) + 1) : all[k] = s[j]
    BY <1>0, <1>7 DEF ToSet
  <2>1. CASE j < i
    BY <2>1, <1>0, <1>8
  <2>2. CASE j >= i
    <3>1. j + 1 \in (i + 1)..(Len(s) + 1) /\ all[j + 1] = s[(j + 1) - 1]
      BY <2>2, <1>0, <1>8
    <3>2. all[j + 1] = s[j] /\ j + 1 \in 1..(Len(s) + 1)
      BY <3>1, <1>0
    <3> QED
      BY <3>2
  <2> QED
    BY <2>1, <2>2, <1>0
<1> QED
  BY <1>6, <1>9, <1>10, <1>11 DEF all

\* The sort keeps every node.
LEMMA SortedProperties ==
    ASSUME NEW S, NEW nodes \in Seq(S)
    PROVE  /\ Sorted(nodes) \in Seq(S)
           /\ Len(Sorted(nodes)) = Len(nodes)
           /\ ToSet(Sorted(nodes)) = ToSet(nodes)
<1> DEFINE L == Len(nodes)
<1>1. L \in Nat /\ DOMAIN nodes = 1..L /\ \A n \in 1..L : nodes[n] \in S
  BY LenProperties, ElementOfSeq
<1>2. PICK sorted :
        /\ sorted[0] = <<>>
        /\ \A n \in 1..L : \E upTo \in SUBSET DOMAIN sorted[n - 1] :
              sorted[n] = InsertAt(sorted[n - 1], Cardinality(upTo) + 1, nodes[n])
        /\ Sorted(nodes) = sorted[L]
  BY <1>1, SortedSteps
<1> DEFINE holds(n) == /\ sorted[n] \in Seq(S)
                       /\ Len(sorted[n]) = n
                       /\ ToSet(sorted[n]) = {nodes[k] : k \in 1..n}
           Good == {n \in 0..L : holds(n)}
<1>3. 0 \in Good
  <2>1. <<>> \in Seq(S) /\ Len(<<>>) = 0 /\ ToSet(<<>>) = {}
    BY DEF ToSet
  <2>2. {nodes[k] : k \in 1..0} = {}
    OBVIOUS
  <2>3. sorted[0] = <<>>
    BY <1>2
  <2>4. holds(0)
    BY <2>1, <2>2, <2>3
  <2> HIDE DEF holds
  <2> QED
    BY <1>1, <2>4
<1>4. ASSUME NEW n \in 1..L, n - 1 \in Good PROVE n \in Good
  <2> DEFINE before == sorted[n - 1]
  <2>1. /\ before \in Seq(S) /\ Len(before) = n - 1
        /\ ToSet(before) = {nodes[k] : k \in 1..(n - 1)}
    BY <1>4
  <2>2. PICK upTo \in SUBSET DOMAIN before :
           sorted[n] = InsertAt(before, Cardinality(upTo) + 1, nodes[n])
    BY <1>2
  <2> HIDE DEF before
  <2>3. DOMAIN before = 1..(n - 1)
    BY <2>1, LenProperties
  <2>4. Cardinality(upTo) \in Nat /\ Cardinality(upTo) <= n - 1
    <3>1. n - 1 \in Nat
      OBVIOUS
    <3>2. IsFiniteSet(1..(n - 1)) /\ Cardinality(1..(n - 1)) = n - 1
      BY <3>1, FS_Interval
    <3>3. IsFiniteSet(upTo) /\ Cardinality(upTo) <= Cardinality(1..(n - 1))
      BY <2>2, <2>3, <3>2, FS_Subset
    <3> QED
      BY <3>2, <3>3, FS_CardinalityType
  <2> DEFINE place == Cardinality(upTo) + 1
  <2>5. place \in 1..(Len(before) + 1) /\ nodes[n] \in S
    BY <1>1, <2>1, <2>4
  <2> HIDE DEF place
  <2>6. /\ InsertAt(before, place, nodes[n]) \in Seq(S)
        /\ Len(InsertAt(before, place, nodes[n])) = Len(before) + 1
        /\ ToSet(InsertAt(before, place, nodes[n])) = ToSet(before) \cup {nodes[n]}
    <3>1. before \in Seq(S) /\ nodes[n] \in S
      BY <2>1, <2>5
    <3>2. \A s \in Seq(S) : \A x \in S : \A i \in 1..(Len(s) + 1) :
            /\ InsertAt(s, i, x) \in Seq(S)
            /\ Len(InsertAt(s, i, x)) = Len(s) + 1
            /\ ToSet(InsertAt(s, i, x)) = ToSet(s) \cup {x}
      BY InsertAtProperties
    <3> QED
      BY <2>5, <3>1, <3>2
  <2>7. sorted[n] = InsertAt(before, place, nodes[n])
    BY <2>2 DEF place
  <2>8. {nodes[k] : k \in 1..n} = {nodes[k] : k \in 1..(n - 1)} \cup {nodes[n]}
    OBVIOUS
  <2>9. n \in 0..L /\ Len(before) + 1 = n
    BY <1>1, <2>1
  <2> QED
    BY <2>1, <2>6, <2>7, <2>8, <2>9
<1>5. L \in Good
  <2> HIDE DEF Good
  <2>1. \A n \in 0..L : n \in Good
    BY <1>1, <1>3, <1>4, IntervalInduction
  <2> QED
    BY <1>1, <2>1
<1>6. ToSet(nodes) = {nodes[k] : k \in 1..L}
  BY <1>1 DEF ToSet
<1> QED
  BY <1>2, <1>5, <1>6

\* The turns of the filter.
LEMMA KeptSteps ==
    ASSUME NEW elements, Len(elements) \in Nat
    PROVE  \E kept :
              /\ kept[0] = <<>>
              /\ \A n \in 1..Len(elements) :
                    \/ kept[n] = Append(kept[n - 1], elements[n])
                    \/ kept[n] = kept[n - 1] /\ n # 1 /\ elements[n - 1] = elements[n]
              /\ BufDedup(elements) = kept[Len(elements)]
<1> DEFINE L == Len(elements)
           turn(before, n) ==
                IF n = 1 \/ elements[n - 1] # elements[n]
                THEN Append(before, elements[n])
                ELSE before
           loop(m, f) == f = [n \in 0..m |->
                                IF n = 0 THEN <<>> ELSE turn(f[n - 1], n)]
           kept == CHOOSE f : loop(L, f)
<1>1. BufDedup(elements) = kept[L]
  <2> DEFINE body(f) == [n \in 0..L |->
                IF n = 0 THEN <<>>
                ELSE IF n = 1 \/ elements[n - 1] # elements[n]
                THEN Append(f[n - 1], elements[n])
                ELSE f[n - 1]]
  <2>1. BufDedup(elements) = (CHOOSE f : f = body(f))[L]
    BY DEF BufDedup
  <2> QED
    BY <2>1
<1> HIDE DEF turn
<1>2. \E f : loop(L, f)
  <2> DEFINE Good == {m \in 0..L : \E f : loop(m, f)}
  <2>1. 0 \in Good
    <3> DEFINE none == [n \in 0..0 |-> <<>>]
    <3>1. loop(0, none)
      OBVIOUS
    <3> HIDE DEF none, loop
    <3> QED
      BY <3>1
  <2>2. ASSUME NEW m \in 1..L, m - 1 \in Good PROVE m \in Good
    <3>1. PICK f : loop(m - 1, f)
      BY <2>2
    <3> DEFINE g == [n \in 0..m |-> IF n = m THEN turn(f[m - 1], m) ELSE f[n]]
    <3>2. loop(m, g)
      <4>1. ASSUME NEW n \in 0..m
            PROVE  g[n] = IF n = 0 THEN <<>> ELSE turn(g[n - 1], n)
        BY <3>1
      <4> QED
        BY <4>1
    <3> HIDE DEF g, loop
    <3> QED
      BY <3>2
  <2>3. L \in 0..L
    OBVIOUS
  <2> HIDE DEF Good
  <2>4. L \in Good
    BY <2>1, <2>2, <2>3, IntervalInduction
  <2> QED
    BY <2>4 DEF Good
<1>3. loop(L, kept)
  <2> HIDE DEF loop
  <2> QED
    BY <1>2
<1> HIDE DEF kept
<1>4. kept[0] = <<>> /\ \A n \in 1..L : kept[n] = turn(kept[n - 1], n)
  BY <1>3
<1> QED
  BY <1>1, <1>4 DEF turn

\* Appending an element to a sequence adds it to what the sequence holds.
LEMMA AppendToSet ==
    ASSUME NEW S, NEW s \in Seq(S), NEW x \in S
    PROVE  ToSet(Append(s, x)) = ToSet(s) \cup {x}
<1>1. /\ Append(s, x) \in Seq(S) /\ Len(Append(s, x)) = Len(s) + 1
      /\ \A i \in 1..Len(s) : Append(s, x)[i] = s[i]
      /\ Append(s, x)[Len(s) + 1] = x
  BY AppendProperties
<1>2. Len(s) \in Nat /\ DOMAIN s = 1..Len(s) /\ DOMAIN Append(s, x) = 1..(Len(s) + 1)
  BY <1>1, LenProperties
<1> DEFINE t == Append(s, x)
<1> HIDE DEF t
<1>3. 1..(Len(s) + 1) = 1..Len(s) \cup {Len(s) + 1}
  BY <1>2
<1> QED
  BY <1>1, <1>2, <1>3 DEF ToSet

\* What is removed is still there: in the place before.
LEMMA BufDedupProperties ==
    ASSUME NEW S, NEW elements \in Seq(S)
    PROVE  /\ BufDedup(elements) \in Seq(S)
           /\ ToSet(BufDedup(elements)) = ToSet(elements)
<1> DEFINE L == Len(elements)
<1>1. L \in Nat /\ DOMAIN elements = 1..L /\ \A n \in 1..L : elements[n] \in S
  BY LenProperties, ElementOfSeq
<1>2. PICK kept :
        /\ kept[0] = <<>>
        /\ \A n \in 1..L :
              \/ kept[n] = Append(kept[n - 1], elements[n])
              \/ kept[n] = kept[n - 1] /\ n # 1 /\ elements[n - 1] = elements[n]
        /\ BufDedup(elements) = kept[L]
  BY <1>1, KeptSteps
<1> DEFINE upTo(n) == {elements[k] : k \in 1..n}
           holds(n) == kept[n] \in Seq(S) /\ ToSet(kept[n]) = upTo(n)
           Good == {n \in 0..L : holds(n)}
<1>3. 0 \in Good
  <2>1. <<>> \in Seq(S) /\ ToSet(<<>>) = {}
    BY DEF ToSet
  <2>2. upTo(0) = {}
    OBVIOUS
  <2>3. kept[0] = <<>>
    BY <1>2
  <2>4. holds(0)
    BY <2>1, <2>2, <2>3
  <2> HIDE DEF holds
  <2> QED
    BY <1>1, <2>4
<1>4. ASSUME NEW n \in 1..L, n - 1 \in Good PROVE n \in Good
  <2>1. holds(n - 1)
    BY <1>4
  <2>2. upTo(n) = upTo(n - 1) \cup {elements[n]}
    OBVIOUS
  <2>3. CASE kept[n] = Append(kept[n - 1], elements[n])
    <3>1. \A t \in Seq(S) : \A x \in S :
            Append(t, x) \in Seq(S) /\ ToSet(Append(t, x)) = ToSet(t) \cup {x}
      BY AppendProperties, AppendToSet
    <3>2. kept[n - 1] \in Seq(S) /\ ToSet(kept[n - 1]) = upTo(n - 1) /\ elements[n] \in S
      BY <1>1, <2>1
    <3> HIDE DEF upTo
    <3>3. holds(n)
      BY <2>2, <2>3, <3>1, <3>2
    <3> QED
      BY <1>1, <3>3
  <2>4. CASE kept[n] = kept[n - 1] /\ n # 1 /\ elements[n - 1] = elements[n]
    <3>1. n - 1 \in 1..(n - 1) /\ elements[n] = elements[n - 1]
      BY <2>4
    <3>2. elements[n] \in upTo(n - 1)
      BY <3>1
    <3> HIDE DEF upTo
    <3>3. holds(n)
      BY <2>1, <2>2, <2>4, <3>2
    <3> QED
      BY <1>1, <3>3
  <2> QED
    BY <1>2, <2>3, <2>4
<1>5. L \in Good
  <2> HIDE DEF Good
  <2>1. \A n \in 0..L : n \in Good
    BY <1>1, <1>3, <1>4, IntervalInduction
  <2> QED
    BY <1>1, <2>1
<1>6. ToSet(elements) = upTo(L)
  BY <1>1 DEF ToSet
<1> QED
  BY <1>2, <1>5, <1>6

\* The leaves of a tree are the nodes of the wallets on its list, and no others.
LEMMA ElementsProperties ==
    ASSUME NEW list \in Seq(DOMAIN HashRank), list # <<>>
    PROVE  LET leaves == {ToNode(w) : w \in ToSet(list)}
           IN  /\ Elements(list) \in Seq(leaves)
               /\ Len(Elements(list)) \in Nat \ {0}
               /\ ToSet(Elements(list)) = leaves
<1> DEFINE leaves == {ToNode(w) : w \in ToSet(list)}
           nodes == [i \in DOMAIN list |-> ToNode(list[i])]
<1>1. Len(list) \in Nat /\ DOMAIN list = 1..Len(list) /\ Len(list) # 0
  BY LenProperties, EmptySeq
<1>2. nodes \in [1..Len(list) -> leaves]
  BY <1>1 DEF ToSet
<1>3. nodes \in Seq(leaves)
  BY <1>1, <1>2, SeqDef
<1>4. ToSet(nodes) = leaves
  BY <1>1 DEF ToSet
<1> HIDE DEF nodes, leaves
<1>5. Sorted(nodes) \in Seq(leaves) /\ ToSet(Sorted(nodes)) = leaves
  BY <1>3, <1>4, SortedProperties
<1>6. Elements(list) = BufDedup(Sorted(nodes))
  BY DEF Elements, nodes
<1>7. Elements(list) \in Seq(leaves) /\ ToSet(Elements(list)) = leaves
  BY <1>5, <1>6, BufDedupProperties
<1>8. leaves # {}
  <2>1. 1 \in DOMAIN list
    BY <1>1
  <2>2. ToNode(list[1]) \in leaves
    BY <2>1 DEF leaves, ToSet
  <2> QED
    BY <2>2
<1>9. Elements(list) # <<>>
  BY <1>7, <1>8 DEF ToSet
<1>10. Len(Elements(list)) \in Nat \ {0}
  BY <1>7, <1>9, EmptySeq
<1> QED
  BY <1>7, <1>10 DEF leaves

---------------------------------------------------------------------------
(* The layers of a tree *)

LEMMA AtMostOne ==
    ASSUME NEW n \in Nat \ {0}, n <= 1
    PROVE  n = 1
OBVIOUS

\* A function on 1..n has length n.
LEMMA LenOfFunction ==
    ASSUME NEW n \in Nat, NEW f, NEW S, f \in [1..n -> S]
    PROVE  f \in Seq(S) /\ Len(f) = n /\ DOMAIN f = 1..n
<1>1. f \in Seq(S)
  BY SeqDef
<1>2. Len(f) \in Nat /\ DOMAIN f = 1..Len(f)
  BY <1>1, LenProperties
<1>3. 1..Len(f) = 1..n
  BY <1>2
<1>4. Len(f) = n
  BY <1>2, <1>3
<1> QED
  BY <1>1, <1>4

\* A layer has half as many elements as the one below, rounded up.
LEMMA NextLayerProperties ==
    ASSUME NEW elements, Len(elements) \in Nat \ {0}
    PROVE  LET next == GetNextLayer(elements)
               half == (Len(elements) + 1) \div 2
           IN  /\ half \in Nat \ {0}
               /\ Len(next) = half /\ DOMAIN next = 1..half
               /\ \A i \in 1..half : next[i] =
                    IF 2 * i <= Len(elements)
                    THEN CombinedHash(elements[2 * i - 1], elements[2 * i])
                    ELSE elements[2 * i - 1]
               /\ Len(elements) > 1 => half < Len(elements)
<1> DEFINE next == GetNextLayer(elements)
           half == (Len(elements) + 1) \div 2
           at(i) == IF 2 * i <= Len(elements)
                    THEN CombinedHash(elements[2 * i - 1], elements[2 * i])
                    ELSE elements[2 * i - 1]
           T == {at(i) : i \in 1..half}
<1>1. half \in Nat \ {0} /\ (Len(elements) > 1 => half < Len(elements))
  OBVIOUS
<1>2. next = [i \in 1..half |-> at(i)]
  BY DEF GetNextLayer
<1> HIDE DEF next, half, at
<1>3. next \in [1..half -> T] /\ \A i \in 1..half : next[i] = at(i)
  BY <1>2
<1> HIDE DEF T
<1>4. Len(next) = half /\ DOMAIN next = 1..half
  BY <1>1, <1>3, LenOfFunction
<1> QED
  BY <1>1, <1>3, <1>4 DEF next, half, at

\* The turns that make the layers.
LEMMA LayerSteps ==
    ASSUME NEW elements, Len(elements) \in Nat \ {0}
    PROVE  \E layer, height :
              /\ layer[0] = elements
              /\ \A k \in 1..Len(elements) : layer[k] = GetNextLayer(layer[k - 1])
              /\ height = CHOOSE k \in 0..Len(elements) :
                            Len(layer[k]) <= 1 /\ \A j \in 0..(k - 1) : Len(layer[j]) > 1
              /\ GetLayers(elements) = [k \in 1..(height + 1) |-> layer[k - 1]]
<1> DEFINE L == Len(elements)
           loop(m, f) == f = [k \in 0..m |->
                                IF k = 0 THEN elements ELSE GetNextLayer(f[k - 1])]
           layer == CHOOSE f : loop(L, f)
           height == CHOOSE k \in 0..L :
                        Len(layer[k]) <= 1 /\ \A j \in 0..(k - 1) : Len(layer[j]) > 1
<1>1. GetLayers(elements) = [k \in 1..(height + 1) |-> layer[k - 1]]
  BY DEF GetLayers
<1>2. \E f : loop(L, f)
  <2> DEFINE Good == {m \in 0..L : \E f : loop(m, f)}
  <2>1. 0 \in Good
    <3> DEFINE first == [k \in 0..0 |-> elements]
    <3>1. loop(0, first)
      OBVIOUS
    <3> HIDE DEF first, loop
    <3> QED
      BY <3>1
  <2>2. ASSUME NEW m \in 1..L, m - 1 \in Good PROVE m \in Good
    <3>1. PICK f : loop(m - 1, f)
      BY <2>2
    <3> DEFINE g == [k \in 0..m |-> IF k = m THEN GetNextLayer(f[m - 1]) ELSE f[k]]
    <3>2. loop(m, g)
      <4>1. ASSUME NEW k \in 0..m
            PROVE  g[k] = IF k = 0 THEN elements ELSE GetNextLayer(g[k - 1])
        BY <3>1
      <4> QED
        BY <4>1
    <3> HIDE DEF g, loop
    <3> QED
      BY <3>2
  <2>3. L \in Nat /\ L \in 0..L
    OBVIOUS
  <2> HIDE DEF Good, L
  <2>4. L \in Good
    BY <2>1, <2>2, <2>3, IntervalInduction
  <2> QED
    BY <2>4 DEF Good
<1>3. loop(L, layer)
  <2> HIDE DEF loop
  <2> QED
    BY <1>2
<1> HIDE DEF layer
<1>4. layer[0] = elements /\ \A k \in 1..L : layer[k] = GetNextLayer(layer[k - 1])
  BY <1>3
<1> HIDE DEF loop
<1> QED
  BY <1>1, <1>4

\* The layers of a tree: the leaves, then each the next of the one before, down
\* to one element, the first of that length.
IsTree(layers, top, elements) ==
    /\ top \in Nat \ {0}
    /\ Len(layers) = top /\ DOMAIN layers = 1..top
    /\ layers[1] = elements
    /\ \A k \in 1..(top - 1) : layers[k + 1] = GetNextLayer(layers[k])
    /\ \A k \in 1..top : Len(layers[k]) \in Nat \ {0}
    /\ Len(layers[top]) = 1

\* The loop ends, for every layer of more than one element has a shorter one above.
LEMMA GetLayersIsTree ==
    ASSUME NEW elements, Len(elements) \in Nat \ {0}
    PROVE  \E top : IsTree(GetLayers(elements), top, elements)
<1> DEFINE L == Len(elements)
<1>0. L \in Nat /\ L # 0
  OBVIOUS
<1>1. PICK layer, height :
        /\ layer[0] = elements
        /\ \A k \in 1..L : layer[k] = GetNextLayer(layer[k - 1])
        /\ height = CHOOSE k \in 0..L :
                        Len(layer[k]) <= 1 /\ \A j \in 0..(k - 1) : Len(layer[j]) > 1
        /\ GetLayers(elements) = [k \in 1..(height + 1) |-> layer[k - 1]]
  BY LayerSteps
<1>2. \A k \in 0..L : /\ Len(layer[k]) \in Nat \ {0}
                      /\ Len(layer[k]) > 1 => Len(layer[k]) <= L - k
  <2> DEFINE holds(k) == /\ Len(layer[k]) \in Nat \ {0}
                         /\ Len(layer[k]) > 1 => Len(layer[k]) <= L - k
             Good == {k \in 0..L : holds(k)}
  <2>1. 0 \in Good
    BY <1>1
  <2>2. ASSUME NEW k \in 1..L, k - 1 \in Good PROVE k \in Good
    <3>1. Len(layer[k - 1]) \in Nat \ {0}
      BY <2>2
    <3>2. layer[k] = GetNextLayer(layer[k - 1])
      BY <1>1
    <3> DEFINE half == (Len(layer[k - 1]) + 1) \div 2
    <3>3. half \in Nat \ {0} /\ Len(layer[k]) = half
          /\ (Len(layer[k - 1]) > 1 => half < Len(layer[k - 1]))
      BY <3>1, <3>2, NextLayerProperties
    <3>4. Len(layer[k - 1]) <= 1 => half = 1
      <4>1. SUFFICES ASSUME Len(layer[k - 1]) <= 1 PROVE half = 1
        OBVIOUS
      <4>2. Len(layer[k - 1]) = 1
        BY <3>1, <4>1, AtMostOne
      <4>3. (1 + 1) \div 2 = 1
        OBVIOUS
      <4> QED
        BY <4>2, <4>3
    <3> HIDE DEF half
    <3>5. holds(k)
      BY <2>2, <3>1, <3>3, <3>4
    <3> QED
      BY <3>5
  <2> HIDE DEF Good
  <2>3. \A k \in 0..L : k \in Good
    BY <1>0, <2>1, <2>2, IntervalInduction
  <2> QED
    BY <2>3 DEF Good
<1> DEFINE last(k) == Len(layer[k]) <= 1 /\ \A j \in 0..(k - 1) : Len(layer[j]) > 1
<1>3. \E k \in 0..L : last(k)
  <2> SUFFICES ASSUME \A k \in 0..L : ~last(k) PROVE FALSE
    OBVIOUS
  <2> DEFINE long(k) == \A j \in 0..k : Len(layer[j]) > 1
             Good == {k \in 0..L : long(k)}
  <2>1. 0 \in Good
    <3>1. ~last(0) /\ 0 \in 0..L
      OBVIOUS
    <3>2. Len(layer[0]) > 1
      BY <1>2, <3>1
    <3>3. long(0)
      BY <3>2
    <3> QED
      BY <3>1, <3>3
  <2>2. ASSUME NEW k \in 1..L, k - 1 \in Good PROVE k \in Good
    <3>1. long(k - 1) /\ ~last(k) /\ k \in 0..L
      BY <2>2
    <3>2. Len(layer[k]) > 1
      BY <1>2, <3>1
    <3>3. \A j \in 0..k : j = k \/ j \in 0..(k - 1)
      OBVIOUS
    <3>4. long(k)
      BY <3>1, <3>2, <3>3
    <3> QED
      BY <3>1, <3>4
  <2>3. L \in Good
    <3> HIDE DEF Good
    <3>1. \A k \in 0..L : k \in Good
      BY <1>0, <2>1, <2>2, IntervalInduction
    <3> QED
      BY <1>0, <3>1
  <2>4. Len(layer[L]) > 1 /\ L \in 0..L
    BY <1>0, <2>3
  <2> QED
    BY <1>0, <1>2, <2>4
<1>4. height \in 0..L /\ last(height)
  <2> HIDE DEF last
  <2>1. height = CHOOSE k \in 0..L : last(k)
    BY <1>1 DEF last
  <2> QED
    BY <1>3, <2>1
<1> DEFINE layers == GetLayers(elements)
           top == height + 1
           T == {layer[k] : k \in 0..L}
<1>5. top \in Nat \ {0} /\ \A k \in 1..top : k - 1 \in 0..L
  BY <1>0, <1>4
<1>6. layers = [k \in 1..top |-> layer[k - 1]]
  BY <1>1
<1> HIDE DEF layers, top
<1>7. layers \in [1..top -> T] /\ \A k \in 1..top : layers[k] = layer[k - 1]
  BY <1>5, <1>6
<1>8. Len(layers) = top /\ DOMAIN layers = 1..top
  <2> HIDE DEF T
  <2> QED
    BY <1>5, <1>7, LenOfFunction
<1>9. layers[1] = elements
  BY <1>1, <1>5, <1>7
<1>10. ASSUME NEW k \in 1..(top - 1) PROVE layers[k + 1] = GetNextLayer(layers[k])
  <2>1. k \in 1..top /\ k + 1 \in 1..top /\ (k + 1) - 1 = k /\ k \in 1..L
    BY <1>5, <1>4 DEF top
  <2> QED
    BY <1>1, <1>7, <2>1
<1>11. \A k \in 1..top : Len(layers[k]) \in Nat \ {0}
  BY <1>2, <1>5, <1>7
<1>12. Len(layers[top]) = 1
  <2>1. layers[top] = layer[height]
    BY <1>4, <1>5, <1>7 DEF top
  <2>2. Len(layer[height]) \in Nat \ {0}
    BY <1>2, <1>4
  <2>3. Len(layer[height]) <= 1
    BY <1>4
  <2>4. Len(layer[height]) = 1
    BY <2>2, <2>3, AtMostOne
  <2> QED
    BY <2>1, <2>4
<1>13. IsTree(layers, top, elements)
  BY <1>5, <1>8, <1>9, <1>10, <1>11, <1>12 DEF IsTree
<1> QED
  BY <1>13 DEF layers

---------------------------------------------------------------------------
(* What a proof makes of a leaf *)

\* The root that a proof leads to from a node.
RootFrom(node, proof) == FoldLeft(CombinedHash, node, proof)

\* The turns of BalanceTree.verifyProof.
LEMMA FoldSteps ==
    ASSUME NEW base, NEW seq, NEW n \in Nat, DOMAIN seq = 1..n
    PROVE  \E v : /\ v[0] = base
                  /\ \A k \in 1..n : v[k] = CombinedHash(v[k - 1], seq[k])
                  /\ RootFrom(base, seq) = v[n]
<1> DEFINE D == 1..n
           pick(U) == Max(U)
           turn(f, U) == IF U = {} THEN base
                         ELSE CombinedHash(f[U \ {pick(U)}], seq[pick(U)])
           loop(m, f) == f = [U \in SUBSET (1..m) |-> turn(f, U)]
           fold == CHOOSE f : loop(n, f)
<1>1. RootFrom(base, seq) = fold[D]
  <2> DEFINE body(f) == [U \in SUBSET D |->
                IF U = {} THEN base
                ELSE CombinedHash(f[U \ {pick(U)}], seq[pick(U)])]
  <2>1. RootFrom(base, seq) = (CHOOSE f : f = body(f))[D]
    BY DEF RootFrom, FoldLeft, MapThenFoldSet
  <2> QED
    BY <2>1
<1>2. ASSUME NEW m \in Nat, NEW U \in SUBSET (1..m), m \in U
      PROVE  pick(U) = m
  <2>1. \A j \in U : j \in Int /\ j <= m
    OBVIOUS
  <2>2. pick(U) \in U /\ \A j \in U : pick(U) >= j
    BY <1>2, <2>1 DEF Max
  <2> HIDE DEF pick
  <2>3. pick(U) <= m /\ pick(U) >= m /\ pick(U) \in Int
    BY <1>2, <2>1, <2>2
  <2> QED
    BY <2>3
<1> HIDE DEF pick
<1>3. \E f : loop(n, f)
  <2> DEFINE Good == {m \in 0..n : \E f : loop(m, f)}
  <2>1. 0 \in Good
    <3> DEFINE none == [U \in SUBSET (1..0) |-> base]
    <3>1. loop(0, none)
      <4>1. \A U \in SUBSET (1..0) : U = {}
        OBVIOUS
      <4> QED
        BY <4>1
    <3> HIDE DEF none, loop
    <3> QED
      BY <3>1
  <2>2. ASSUME NEW m \in 1..n, m - 1 \in Good PROVE m \in Good
    <3>1. PICK f : loop(m - 1, f)
      BY <2>2
    <3> DEFINE g == [U \in SUBSET (1..m) |->
                        IF m \in U THEN CombinedHash(f[U \ {m}], seq[m]) ELSE f[U]]
    <3>2. loop(m, g)
      <4>1. ASSUME NEW U \in SUBSET (1..m) PROVE g[U] = turn(g, U)
        <5>1. U \ {m} \in SUBSET (1..m) /\ m \notin U \ {m} /\ m \in Nat
          OBVIOUS
        <5>2. CASE m \in U
          <6>1. pick(U) = m
            BY <1>2, <5>1, <5>2
          <6>2. g[U \ {m}] = f[U \ {m}]
            BY <5>1
          <6>3. g[U] = CombinedHash(f[U \ {m}], seq[m])
            BY <5>2
          <6> HIDE DEF g
          <6> QED
            BY <5>2, <6>1, <6>2, <6>3
        <5>3. CASE m \notin U
          <6>1. U \in SUBSET (1..(m - 1)) /\ U \ {pick(U)} \in SUBSET (1..m)
            <7>1. \A k \in U : k \in 1..m /\ k # m
              BY <5>3
            <7>2. \A k \in U : k \in 1..(m - 1)
              BY <7>1
            <7> QED
              BY <7>2
          <6>2. g[U] = f[U] /\ g[U \ {pick(U)}] = f[U \ {pick(U)}]
            BY <5>3, <6>1
          <6>3. f[U] = turn(f, U)
            BY <3>1, <6>1
          <6> HIDE DEF g
          <6> QED
            BY <6>2, <6>3
        <5> QED
          BY <5>2, <5>3
      <4> HIDE DEF turn
      <4>2. g = [U \in SUBSET (1..m) |-> g[U]]
        OBVIOUS
      <4> HIDE DEF g
      <4> QED
        BY <4>1, <4>2
    <3> HIDE DEF g, loop
    <3> QED
      BY <3>2
  <2> HIDE DEF Good
  <2>3. \A m \in 0..n : m \in Good
    BY <2>1, <2>2, IntervalInduction
  <2>4. n \in Good
    BY <2>3
  <2> QED
    BY <2>4 DEF Good
<1>4. loop(n, fold)
  <2> HIDE DEF loop
  <2> QED
    BY <1>3
<1> HIDE DEF fold
<1>5. \A U \in SUBSET D : fold[U] = turn(fold, U)
  <2> HIDE DEF turn
  <2> QED
    BY <1>4
<1> DEFINE v == [k \in 0..n |-> fold[1..k]]
<1>6. v[0] = base
  <2>1. 1..0 = {} /\ {} \in SUBSET D /\ 0 \in 0..n
    OBVIOUS
  <2>2. fold[{}] = base
    BY <1>5, <2>1
  <2> QED
    BY <2>1, <2>2
<1>7. ASSUME NEW k \in 1..n PROVE v[k] = CombinedHash(v[k - 1], seq[k])
  <2>1. 1..k \in SUBSET D /\ k \in 1..k /\ k \in Nat /\ 1..k \in SUBSET (1..k)
    OBVIOUS
  <2>2. pick(1..k) = k
    BY <1>2, <2>1
  <2>3. (1..k) \ {k} = 1..(k - 1) /\ k - 1 \in 0..n
    OBVIOUS
  <2>4. fold[1..k] = CombinedHash(fold[(1..k) \ {k}], seq[k])
    BY <1>5, <2>1, <2>2
  <2>5. v[k] = fold[1..k] /\ v[k - 1] = fold[1..(k - 1)]
    BY <2>3
  <2> HIDE DEF v
  <2> QED
    BY <2>3, <2>4, <2>5
<1>8. RootFrom(base, seq) = v[n]
  BY <1>1
<1> HIDE DEF v
<1> QED
  BY <1>6, <1>7, <1>8

\* Without neighbours a leaf is the root.
LEMMA FoldEmpty ==
    ASSUME NEW base
    PROVE  RootFrom(base, <<>>) = base
<1>1. DOMAIN <<>> = 1..0
  OBVIOUS
<1>2. PICK v : v[0] = base /\ RootFrom(base, <<>>) = v[0]
  BY <1>1, FoldSteps
<1> QED
  BY <1>2

\* A neighbour at the end of a proof is combined last.
LEMMA FoldAppend ==
    ASSUME NEW S, NEW s \in Seq(S), NEW x \in S, NEW base
    PROVE  RootFrom(base, s \o <<x>>)
                = CombinedHash(RootFrom(base, s), x)
<1> DEFINE n == Len(s)
           t == s \o <<x>>
<1>1. n \in Nat /\ DOMAIN s = 1..n
  BY LenProperties
<1>2. /\ t \in Seq(S) /\ Len(t) = n + 1
      /\ \A k \in 1..n : t[k] = s[k]
      /\ t[n + 1] = x
  <2>1. t = Append(s, x)
    BY AppendIsConcat
  <2> HIDE DEF t
  <2> QED
    BY <2>1, AppendProperties
<1> HIDE DEF n, t
<1>3. DOMAIN t = 1..(n + 1) /\ n + 1 \in Nat
  BY <1>1, <1>2, LenProperties
<1>0. \A q : \A m \in Nat : DOMAIN q = 1..m =>
        \E v : /\ v[0] = base
               /\ \A k \in 1..m : v[k] = CombinedHash(v[k - 1], q[k])
               /\ RootFrom(base, q) = v[m]
  BY FoldSteps
<1>4. PICK u : /\ u[0] = base
               /\ \A k \in 1..n : u[k] = CombinedHash(u[k - 1], s[k])
               /\ RootFrom(base, s) = u[n]
  BY <1>0, <1>1
<1>5. PICK v : /\ v[0] = base
               /\ \A k \in 1..(n + 1) : v[k] = CombinedHash(v[k - 1], t[k])
               /\ RootFrom(base, t) = v[n + 1]
  BY <1>0, <1>3
<1> DEFINE Good == {k \in 0..n : u[k] = v[k]}
<1>6. 0 \in Good
  BY <1>1, <1>4, <1>5
<1>7. ASSUME NEW k \in 1..n, k - 1 \in Good PROVE k \in Good
  <2>1. k \in 1..(n + 1) /\ k \in 0..n
    BY <1>1
  <2>2. u[k] = CombinedHash(u[k - 1], s[k]) /\ v[k] = CombinedHash(v[k - 1], t[k])
    BY <1>4, <1>5, <2>1
  <2>3. u[k - 1] = v[k - 1] /\ t[k] = s[k]
    BY <1>2, <1>7
  <2> QED
    BY <2>1, <2>2, <2>3
<1> HIDE DEF Good
<1>8. \A k \in 0..n : k \in Good
  BY <1>1, <1>6, <1>7, IntervalInduction
<1>9. u[n] = v[n]
  BY <1>1, <1>8 DEF Good
<1>10. v[n + 1] = CombinedHash(v[n], t[n + 1])
  <2>1. n + 1 \in 1..(n + 1) /\ (n + 1) - 1 = n
    BY <1>1
  <2> QED
    BY <1>5, <2>1
<1>11. RootFrom(base, t) = CombinedHash(RootFrom(base, s), x)
  BY <1>2, <1>4, <1>5, <1>9, <1>10
<1> QED
  BY <1>11 DEF t

---------------------------------------------------------------------------
(* No proof for a wallet that is not on the list *)

\* All nodes of a tree.
NodesOf(layers) == UNION {{layers[k][i] : i \in 1..Len(layers[k])} : k \in DOMAIN layers}

\* A node is a leaf or the combination of two nodes.
LEMMA LeafOrPair ==
    ASSUME NEW layers, NEW top, NEW elements, IsTree(layers, top, elements),
           DOMAIN elements = 1..Len(elements)
    PROVE  \A x \in NodesOf(layers) :
              \/ x \in ToSet(elements)
              \/ \E a, b \in NodesOf(layers) : x = CombinedHash(a, b)
<1> DEFINE Nodes == NodesOf(layers)
           made(x) == \/ x \in ToSet(elements)
                       \/ \E a, b \in Nodes : x = CombinedHash(a, b)
<1>1. /\ top \in Nat \ {0} /\ DOMAIN layers = 1..top /\ layers[1] = elements
      /\ \A k \in 1..(top - 1) : layers[k + 1] = GetNextLayer(layers[k])
      /\ \A k \in 1..top : Len(layers[k]) \in Nat \ {0}
  BY DEF IsTree
<1>2. \A k \in 1..top : \A i \in 1..Len(layers[k]) : layers[k][i] \in Nodes
  BY <1>1 DEF NodesOf
<1> HIDE DEF Nodes, made
<1> DEFINE holds(k) == \A i \in 1..Len(layers[k + 1]) : made(layers[k + 1][i])
           Good == {k \in 0..(top - 1) : holds(k)}
<1>3. 0 \in Good
  <2>1. \A i \in 1..Len(layers[1]) : layers[1][i] \in ToSet(elements)
    BY <1>1 DEF ToSet
  <2>2. holds(0)
    BY <2>1 DEF made
  <2> HIDE DEF holds
  <2> QED
    BY <1>1, <2>2
<1>4. ASSUME NEW k \in 1..(top - 1), k - 1 \in Good PROVE k \in Good
  <2> DEFINE e == layers[k]
  <2>1. k \in 1..top /\ layers[k + 1] = GetNextLayer(e) /\ (k - 1) + 1 = k
    BY <1>1
  <2>2. Len(e) \in Nat \ {0} /\ \A i \in 1..Len(e) : e[i] \in Nodes /\ made(e[i])
    BY <1>1, <1>2, <1>4, <2>1
  <2> HIDE DEF e
  <2> DEFINE half == (Len(e) + 1) \div 2
             next == GetNextLayer(e)
  <2>3. /\ half \in Nat \ {0} /\ Len(next) = half
        /\ \A i \in 1..half : next[i] =
              IF 2 * i <= Len(e) THEN CombinedHash(e[2 * i - 1], e[2 * i])
              ELSE e[2 * i - 1]
    BY <2>2, NextLayerProperties
  <2>4. ASSUME NEW i \in 1..half PROVE made(next[i])
    <3>1. 2 * i - 1 \in 1..Len(e) /\ (2 * i <= Len(e) => 2 * i \in 1..Len(e))
      BY <2>2
    <3> HIDE DEF half, next
    <3>2. CASE 2 * i <= Len(e)
      <4>1. next[i] = CombinedHash(e[2 * i - 1], e[2 * i])
        BY <2>3, <3>2
      <4>2. e[2 * i - 1] \in Nodes /\ e[2 * i] \in Nodes
        BY <2>2, <3>1, <3>2
      <4> QED
        BY <4>1, <4>2 DEF made
    <3>3. CASE ~(2 * i <= Len(e))
      <4>1. next[i] = e[2 * i - 1]
        BY <2>3, <3>3
      <4> QED
        BY <2>2, <3>1, <4>1
    <3> QED
      BY <3>2, <3>3
  <2> HIDE DEF half, next
  <2>5. holds(k)
    BY <2>1, <2>3, <2>4 DEF next
  <2> QED
    BY <2>5
<1> HIDE DEF Good
<1>5. \A k \in 0..(top - 1) : k \in Good
  <2>1. top - 1 \in Nat
    BY <1>1
  <2> QED
    BY <2>1, <1>3, <1>4, IntervalInduction
<1>6. ASSUME NEW x \in Nodes PROVE made(x)
  <2>1. PICK k \in 1..top : \E i \in 1..Len(layers[k]) : x = layers[k][i]
    BY <1>1 DEF Nodes, NodesOf
  <2>2. k - 1 \in 0..(top - 1) /\ (k - 1) + 1 = k
    BY <1>1
  <2>3. holds(k - 1)
    BY <1>5, <2>2 DEF Good
  <2> QED
    BY <2>1, <2>2, <2>3
<1> QED
  BY <1>6 DEF Nodes, made

\* What a proof leads to a node of a tree from has to be one of its leaves, for a
\* combined node is made of nodes only.
LEMMA OnlyLeavesVerify ==
    ASSUME NEW layers, NEW top, NEW elements, IsTree(layers, top, elements),
           DOMAIN elements = 1..Len(elements),
           \A x \in ToSet(elements) : x.pair = {},
           NEW leaf, leaf.pair = {},
           NEW proof, NEW n \in Nat, DOMAIN proof = 1..n,
           RootFrom(leaf, proof) \in NodesOf(layers)
    PROVE  leaf \in ToSet(elements)
<1> DEFINE Nodes == NodesOf(layers)
<1>1. PICK v : /\ v[0] = leaf
               /\ \A k \in 1..n : v[k] = CombinedHash(v[k - 1], proof[k])
               /\ RootFrom(leaf, proof) = v[n]
  BY FoldSteps
<1>2. \A x \in Nodes : \/ x \in ToSet(elements)
                       \/ \E a, b \in Nodes : x = CombinedHash(a, b)
  BY LeafOrPair
<1> HIDE DEF Nodes
<1> DEFINE Good == {k \in 0..n : v[n - k] \in Nodes}
<1>3. 0 \in Good
  <2>1. n - 0 = n /\ 0 \in 0..n
    OBVIOUS
  <2> QED
    BY <1>1, <2>1 DEF Nodes
<1>4. ASSUME NEW k \in 1..n, k - 1 \in Good PROVE k \in Good
  <2> DEFINE j == n - (k - 1)
  <2>1. j \in 1..n /\ j - 1 = n - k /\ k \in 0..n
    OBVIOUS
  <2>2. v[j] \in Nodes
    BY <1>4
  <2> HIDE DEF j
  <2>3. v[j] = CombinedHash(v[j - 1], proof[j])
    BY <1>1, <2>1
  <2>4. v[j].pair = {v[j - 1], proof[j]}
    BY <2>3 DEF CombinedHash
  <2>5. v[j] \notin ToSet(elements)
    BY <2>4
  <2>6. PICK a \in Nodes, b \in Nodes : v[j] = CombinedHash(a, b)
    BY <1>2, <2>2, <2>5
  <2>7. v[j].pair = {a, b}
    BY <2>6 DEF CombinedHash
  <2>8. v[j - 1] \in Nodes
    BY <2>4, <2>6, <2>7
  <2> QED
    BY <2>1, <2>8
<1> HIDE DEF Good
<1>5. \A k \in 0..n : k \in Good
  BY <1>3, <1>4, IntervalInduction
<1>6. leaf \in Nodes
  <2>1. n \in 0..n /\ n - n = 0
    OBVIOUS
  <2> QED
    BY <1>1, <1>5, <2>1 DEF Good
<1>7. ASSUME NEW a, NEW b PROVE leaf # CombinedHash(a, b)
  <2>1. CombinedHash(a, b).pair = {a, b}
    BY DEF CombinedHash
  <2> QED
    BY <2>1
<1> QED
  BY <1>2, <1>6, <1>7

---------------------------------------------------------------------------
(* A proof for every wallet on the list *)

\* The turns of getProof.
LEMMA ClimbSteps ==
    ASSUME NEW list, NEW w, Len(GetLayers(Elements(list))) \in Nat
    PROVE  LET elements == Elements(list)
               layers == GetLayers(elements)
               initialIdx == (CHOOSE i \in DOMAIN elements :
                                elements[i] = ToNode(w)) - 1
           IN  \E climb :
                 /\ climb[0] = [idx |-> initialIdx, proof |-> <<>>]
                 /\ \A k \in 1..Len(layers) :
                      climb[k] = [idx |-> climb[k - 1].idx \div 2,
                                  proof |-> climb[k - 1].proof
                                    \o GetPairElement(climb[k - 1].idx, layers[k])]
                 /\ GetProof(list, w) = climb[Len(layers)].proof
<1> DEFINE elements == Elements(list)
           layers == GetLayers(elements)
           initialIdx == (CHOOSE i \in DOMAIN elements : elements[i] = ToNode(w)) - 1
           L == Len(layers)
           turn(at, k) == [idx |-> at.idx \div 2,
                           proof |-> at.proof \o GetPairElement(at.idx, layers[k])]
           first == [idx |-> initialIdx, proof |-> <<>>]
           loop(m, f) == f = [k \in 0..m |->
                                IF k = 0 THEN first ELSE turn(f[k - 1], k)]
           climb == CHOOSE f : loop(L, f)
<1>1. GetProof(list, w) = climb[L].proof
  BY DEF GetProof
<1>0. L \in Nat
  OBVIOUS
<1> HIDE DEF turn, first, L
<1>2. \E f : loop(L, f)
  <2> DEFINE Good == {m \in 0..L : \E f : loop(m, f)}
  <2>1. 0 \in Good
    <3> DEFINE none == [k \in 0..0 |-> first]
    <3>1. loop(0, none)
      OBVIOUS
    <3> HIDE DEF none, loop
    <3> QED
      BY <1>0, <3>1
  <2>2. ASSUME NEW m \in 1..L, m - 1 \in Good PROVE m \in Good
    <3>1. PICK f : loop(m - 1, f)
      BY <2>2
    <3> DEFINE g == [k \in 0..m |-> IF k = m THEN turn(f[m - 1], m) ELSE f[k]]
    <3>2. loop(m, g)
      <4>1. ASSUME NEW k \in 0..m
            PROVE  g[k] = IF k = 0 THEN first ELSE turn(g[k - 1], k)
        BY <1>0, <3>1
      <4> QED
        BY <4>1
    <3> HIDE DEF g, loop
    <3> QED
      BY <1>0, <3>2
  <2>3. L \in 0..L
    BY <1>0
  <2> HIDE DEF Good
  <2>4. L \in Good
    BY <1>0, <2>1, <2>2, <2>3, IntervalInduction
  <2> QED
    BY <2>4 DEF Good
<1>3. loop(L, climb)
  <2> HIDE DEF loop
  <2> QED
    BY <1>2
<1> HIDE DEF climb
<1>4. climb[0] = first /\ \A k \in 1..L : climb[k] = turn(climb[k - 1], k)
  BY <1>0, <1>3
<1> HIDE DEF loop
<1> QED
  BY <1>1, <1>4 DEF turn, first, L

\* One layer up: a node and its neighbour make the node at half the position, and a
\* node without a neighbour is there itself.
LEMMA OneLayerUp ==
    ASSUME NEW e, Len(e) \in Nat \ {0}, NEW idx \in 0..(Len(e) - 1)
    PROVE  LET next == GetNextLayer(e)
               above == next[(idx \div 2) + 1]
           IN  /\ idx \div 2 \in 0..(Len(next) - 1)
               /\ \/ /\ GetPairElement(idx, e) = <<>>
                     /\ above = e[idx + 1]
                  \/ \E i \in 1..Len(e) :
                        /\ GetPairElement(idx, e) = <<e[i]>>
                        /\ above = CombinedHash(e[idx + 1], e[i])
<1> DEFINE next == GetNextLayer(e)
           half == (Len(e) + 1) \div 2
           y == idx \div 2
<1>1. /\ half \in Nat \ {0} /\ Len(next) = half
      /\ \A i \in 1..half : next[i] =
              IF 2 * i <= Len(e) THEN CombinedHash(e[2 * i - 1], e[2 * i])
              ELSE e[2 * i - 1]
  BY NextLayerProperties
<1>2. y \in 0..(half - 1) /\ y + 1 \in 1..half
  OBVIOUS
<1>3. /\ idx \in Nat /\ y \in Nat
      /\ \/ idx % 2 = 0 /\ idx = 2 * y
         \/ idx % 2 = 1 /\ idx = 2 * y + 1
  OBVIOUS
<1> DEFINE m == Len(e)
<1>4. m \in Nat \ {0} /\ idx < m
  OBVIOUS
<1> HIDE DEF next, half, y, m
<1>5. next[y + 1] = IF 2 * (y + 1) <= m
                    THEN CombinedHash(e[2 * (y + 1) - 1], e[2 * (y + 1)])
                    ELSE e[2 * (y + 1) - 1]
  BY <1>1, <1>2 DEF m
<1>6. CASE idx % 2 = 0 /\ idx + 1 < m
  <2>1. idx = 2 * y
    BY <1>3, <1>6
  <2>2. 2 * (y + 1) <= m /\ 2 * (y + 1) - 1 = idx + 1 /\ 2 * (y + 1) = idx + 2
    BY <1>3, <1>4, <1>6, <2>1
  <2>3. next[y + 1] = CombinedHash(e[idx + 1], e[idx + 2])
    BY <1>5, <2>2
  <2>4. (idx + 1) + 1 = idx + 2 /\ idx + 2 \in 1..m
    BY <1>3, <1>4, <1>6
  <2>5. GetPairElement(idx, e) = <<e[(idx + 1) + 1]>>
    BY <1>6 DEF GetPairElement, m
  <2> QED
    BY <1>1, <1>2, <2>3, <2>4, <2>5 DEF next, y, m
<1>7. CASE idx % 2 = 0 /\ ~(idx + 1 < m)
  <2>1. idx = 2 * y
    BY <1>3, <1>7
  <2>2. ~(2 * (y + 1) <= m) /\ 2 * (y + 1) - 1 = idx + 1
    BY <1>3, <1>4, <1>7, <2>1
  <2>3. next[y + 1] = e[idx + 1]
    BY <1>5, <2>2
  <2>4. GetPairElement(idx, e) = <<>>
    BY <1>7 DEF GetPairElement, m
  <2> QED
    BY <1>1, <1>2, <2>3, <2>4 DEF next, y, m
<1>8. CASE idx % 2 # 0
  <2>1. idx = 2 * y + 1
    BY <1>3, <1>8
  <2>2. 2 * (y + 1) <= m /\ 2 * (y + 1) - 1 = idx /\ 2 * (y + 1) = idx + 1
    BY <1>3, <1>4, <2>1
  <2>3. next[y + 1] = CombinedHash(e[idx], e[idx + 1])
    BY <1>5, <2>2
  <2>4. (idx - 1) + 1 = idx /\ idx \in 1..m /\ idx - 1 < m
    BY <1>3, <1>4, <2>1
  <2>5. GetPairElement(idx, e) = <<e[(idx - 1) + 1]>>
    BY <1>8, <2>4 DEF GetPairElement, m
  <2>6. CombinedHash(e[idx], e[idx + 1]) = CombinedHash(e[idx + 1], e[idx])
    BY DEF CombinedHash
  <2> QED
    BY <1>1, <1>2, <2>3, <2>4, <2>5, <2>6 DEF next, y, m
<1> QED
  BY <1>6, <1>7, <1>8

\* The root of the tree of a list is the only node of the top layer.
LEMMA RootOfTree ==
    ASSUME NEW list, NEW top, IsTree(GetLayers(Elements(list)), top, Elements(list))
    PROVE  /\ GetRoot(list) = GetLayers(Elements(list))[top][1]
           /\ GetRoot(list) \in NodesOf(GetLayers(Elements(list)))
<1> DEFINE layers == GetLayers(Elements(list))
<1>1. /\ top \in Nat \ {0} /\ DOMAIN layers = 1..top /\ Len(layers) = top
      /\ Len(layers[top]) = 1
  BY DEF IsTree
<1>2. GetRoot(list) = layers[top][1]
  BY <1>1 DEF GetRoot, Last
<1> HIDE DEF layers
<1>3. top \in DOMAIN layers /\ 1 \in 1..Len(layers[top])
  BY <1>1
<1>4. layers[top][1] \in NodesOf(layers)
  BY <1>3 DEF NodesOf
<1> QED
  BY <1>2, <1>4 DEF layers

\* getProof gives a proof that the program accepts for every wallet of the list
\* that the root is of.
THEOREM GetProofVerifies ==
    ASSUME NEW list \in Seq(DOMAIN HashRank), list # <<>>, NEW w \in ToSet(list)
    PROVE  LET proof == GetProof(list, w)
           IN  /\ Len(proof) \in Nat /\ DOMAIN proof = 1..Len(proof)
               /\ VerifyProof(w, proof, GetRoot(list))
<1> DEFINE elements == Elements(list)
           layers == GetLayers(elements)
           initialIdx == (CHOOSE i \in DOMAIN elements : elements[i] = ToNode(w)) - 1
           Nodes == NodesOf(layers)
<1>1. /\ Len(elements) \in Nat \ {0} /\ DOMAIN elements = 1..Len(elements)
      /\ ToNode(w) \in ToSet(elements)
  <2> DEFINE leaves == {ToNode(x) : x \in ToSet(list)}
  <2>1. /\ elements \in Seq(leaves) /\ Len(elements) \in Nat \ {0}
        /\ ToSet(elements) = leaves
    BY ElementsProperties
  <2>2. ToNode(w) \in leaves
    OBVIOUS
  <2> HIDE DEF leaves, elements
  <2> QED
    BY <2>1, <2>2, LenProperties
<1>2. PICK top : IsTree(layers, top, elements)
  BY <1>1, GetLayersIsTree
<1>3. /\ top \in Nat \ {0} /\ DOMAIN layers = 1..top /\ Len(layers) = top
      /\ layers[1] = elements
      /\ \A k \in 1..(top - 1) : layers[k + 1] = GetNextLayer(layers[k])
      /\ \A k \in 1..top : Len(layers[k]) \in Nat \ {0}
      /\ Len(layers[top]) = 1
  BY <1>2 DEF IsTree
<1>4. PICK climb :
        /\ climb[0] = [idx |-> initialIdx, proof |-> <<>>]
        /\ \A k \in 1..top :
              climb[k] = [idx |-> climb[k - 1].idx \div 2,
                          proof |-> climb[k - 1].proof
                            \o GetPairElement(climb[k - 1].idx, layers[k])]
        /\ GetProof(list, w) = climb[top].proof
  BY <1>3, ClimbSteps
<1>5. initialIdx \in 0..(Len(elements) - 1) /\ elements[initialIdx + 1] = ToNode(w)
  <2> DEFINE at == CHOOSE i \in DOMAIN elements : elements[i] = ToNode(w)
  <2>1. \E i \in DOMAIN elements : elements[i] = ToNode(w)
    BY <1>1 DEF ToSet
  <2>2. at \in 1..Len(elements) /\ elements[at] = ToNode(w)
    BY <1>1, <2>1
  <2>3. initialIdx = at - 1
    OBVIOUS
  <2> HIDE DEF at, initialIdx, elements
  <2>4. at - 1 \in 0..(Len(elements) - 1) /\ (at - 1) + 1 = at
    BY <1>1, <2>2
  <2> QED
    BY <2>2, <2>3, <2>4
<1>6. GetRoot(list) = layers[top][1]
  BY <1>2, RootOfTree
<1>7. \A k \in 1..top : \A i \in 1..Len(layers[k]) : layers[k][i] \in Nodes
  BY <1>3 DEF NodesOf
<1> HIDE DEF elements, layers, initialIdx, Nodes
<1> DEFINE holds(k) == /\ climb[k].idx \in 0..(Len(layers[k + 1]) - 1)
                       /\ climb[k].proof \in Seq(Nodes)
                       /\ RootFrom(ToNode(w), climb[k].proof)
                            = layers[k + 1][climb[k].idx + 1]
           Good == {k \in 0..(top - 1) : holds(k)}
<1>8. 0 \in Good
  <2>1. climb[0].idx = initialIdx /\ climb[0].proof = <<>>
    BY <1>4
  <2>2. <<>> \in Seq(Nodes) /\ RootFrom(ToNode(w), <<>>) = ToNode(w)
    BY FoldEmpty
  <2>3. layers[0 + 1] = elements
    BY <1>3
  <2>4. holds(0)
    BY <1>5, <2>1, <2>2, <2>3
  <2> HIDE DEF holds
  <2> QED
    BY <1>3, <2>4
<1>9. ASSUME NEW k \in 1..(top - 1), k - 1 \in Good PROVE k \in Good
  <2> DEFINE e == layers[k]
             idx == climb[k - 1].idx
             before == climb[k - 1].proof
  <2>1. /\ k \in 1..top /\ (k - 1) + 1 = k /\ k \in 0..(top - 1)
        /\ layers[k + 1] = GetNextLayer(e) /\ Len(e) \in Nat \ {0}
    BY <1>3
  <2>2. /\ idx \in 0..(Len(e) - 1) /\ before \in Seq(Nodes)
        /\ RootFrom(ToNode(w), before) = e[idx + 1]
    <3>1. holds(k - 1)
      BY <1>9
    <3> QED
      BY <2>1, <3>1
  <2>3. /\ climb[k].idx = idx \div 2
        /\ climb[k].proof = before \o GetPairElement(idx, e)
    <3>1. climb[k] = [idx |-> idx \div 2, proof |-> before \o GetPairElement(idx, e)]
      BY <1>4, <2>1
    <3> HIDE DEF idx, before, e
    <3> QED
      BY <3>1
  <2>4. \A i \in 1..Len(e) : e[i] \in Nodes
    BY <1>7, <2>1
  <2> HIDE DEF e, idx, before
  <2> DEFINE above == GetNextLayer(e)[(idx \div 2) + 1]
  <2>5. /\ idx \div 2 \in 0..(Len(GetNextLayer(e)) - 1)
        /\ \/ /\ GetPairElement(idx, e) = <<>>
              /\ above = e[idx + 1]
           \/ \E i \in 1..Len(e) :
                 /\ GetPairElement(idx, e) = <<e[i]>>
                 /\ above = CombinedHash(e[idx + 1], e[i])
    BY <2>1, <2>2, OneLayerUp
  <2>6. layers[k + 1][climb[k].idx + 1] = above
    BY <2>1, <2>3
  <2> HIDE DEF above
  <2>7. /\ climb[k].proof \in Seq(Nodes)
        /\ RootFrom(ToNode(w), climb[k].proof) = above
    <3>1. CASE GetPairElement(idx, e) = <<>> /\ above = e[idx + 1]
      <4>1. before \o <<>> = before
        BY <2>2, ConcatEmptySeq
      <4> QED
        BY <2>2, <2>3, <3>1, <4>1
    <3>2. ASSUME NEW i \in 1..Len(e), GetPairElement(idx, e) = <<e[i]>>,
                 above = CombinedHash(e[idx + 1], e[i])
          PROVE  /\ climb[k].proof \in Seq(Nodes)
                 /\ RootFrom(ToNode(w), climb[k].proof) = above
      <4>1. e[i] \in Nodes /\ climb[k].proof = before \o <<e[i]>>
        BY <2>3, <2>4, <3>2
      <4>2. \A q \in Seq(Nodes) : \A x \in Nodes : \A base :
              RootFrom(base, q \o <<x>>) = CombinedHash(RootFrom(base, q), x)
        BY FoldAppend
      <4>3. RootFrom(ToNode(w), before \o <<e[i]>>)
              = CombinedHash(RootFrom(ToNode(w), before), e[i])
        BY <2>2, <4>1, <4>2
      <4>4. before \o <<e[i]>> \in Seq(Nodes)
        BY <2>2, <4>1
      <4> QED
        BY <2>2, <3>2, <4>1, <4>3, <4>4
    <3> QED
      BY <2>5, <3>1, <3>2
  <2>8. holds(k)
    BY <2>1, <2>3, <2>5, <2>6, <2>7
  <2> HIDE DEF holds
  <2> QED
    BY <2>1, <2>8
<1> HIDE DEF Good
<1>10. holds(top - 1)
  <2>1. top - 1 \in Nat /\ top - 1 \in 0..(top - 1)
    BY <1>3
  <2>2. \A k \in 0..(top - 1) : k \in Good
    BY <2>1, <1>8, <1>9, IntervalInduction
  <2> QED
    BY <2>1, <2>2 DEF Good
<1>11. /\ climb[top - 1].idx = 0
       /\ climb[top - 1].proof \in Seq(Nodes)
       /\ RootFrom(ToNode(w), climb[top - 1].proof) = layers[top][1]
  <2>1. (top - 1) + 1 = top /\ 0 + 1 = 1
    BY <1>3
  <2>2. climb[top - 1].idx \in 0..(Len(layers[top]) - 1)
    BY <1>10, <2>1
  <2>3. climb[top - 1].idx = 0
    BY <1>3, <2>2
  <2> QED
    BY <1>10, <2>1, <2>3
<1>12. GetPairElement(0, layers[top]) = <<>>
  BY <1>3 DEF GetPairElement
<1>13. climb[top].proof = climb[top - 1].proof
  <2>1. top \in 1..top
    BY <1>3
  <2>2. climb[top].proof
          = climb[top - 1].proof \o GetPairElement(climb[top - 1].idx, layers[top])
    <3> DEFINE x == climb[top - 1].idx \div 2
               q == climb[top - 1].proof \o GetPairElement(climb[top - 1].idx, layers[top])
    <3>1. climb[top] = [idx |-> x, proof |-> q]
      BY <1>4, <2>1
    <3> HIDE DEF x, q
    <3>2. climb[top].proof = q
      BY <3>1
    <3> QED
      BY <3>2 DEF q
  <2> QED
    BY <1>11, <1>12, <2>2, ConcatEmptySeq
<1>14. GetProof(list, w) \in Seq(Nodes)
  BY <1>4, <1>11, <1>13
<1>15. Len(GetProof(list, w)) \in Nat
       /\ DOMAIN GetProof(list, w) = 1..Len(GetProof(list, w))
  BY <1>14, LenProperties
<1>16. RootFrom(ToNode(w), GetProof(list, w)) = GetRoot(list)
  BY <1>4, <1>6, <1>11, <1>13
<1> QED
  BY <1>15, <1>16 DEF VerifyProof, RootFrom

\* A proof that leads to the root of a list from a wallet shows that it is listed.
THEOREM OnlyListedVerify ==
    ASSUME NEW list \in Seq(DOMAIN HashRank), list # <<>>,
           NEW w \in DOMAIN HashRank,
           NEW proof, Len(proof) \in Nat, DOMAIN proof = 1..Len(proof),
           VerifyProof(w, proof, GetRoot(list))
    PROVE  w \in ToSet(list)
<1> DEFINE elements == Elements(list)
           layers == GetLayers(elements)
           leaves == {ToNode(x) : x \in ToSet(list)}
<1>1. /\ elements \in Seq(leaves) /\ Len(elements) \in Nat \ {0}
      /\ ToSet(elements) = leaves
  BY ElementsProperties
<1>2. DOMAIN elements = 1..Len(elements)
  <2> HIDE DEF leaves, elements
  <2> QED
    BY <1>1, LenProperties
<1>3. PICK top : IsTree(layers, top, elements)
  BY <1>1, GetLayersIsTree
<1>4. GetRoot(list) \in NodesOf(layers)
  BY <1>3, RootOfTree
<1>5. RootFrom(ToNode(w), proof) \in NodesOf(layers)
  BY <1>4 DEF VerifyProof, RootFrom
<1>6. ToNode(w).pair = {} /\ \A x \in leaves : x.pair = {}
  BY DEF ToNode
<1>7. ToNode(w) \in ToSet(elements)
  <2>1. \A x \in ToSet(elements) : x.pair = {}
    BY <1>1, <1>6
  <2> HIDE DEF leaves, elements, layers
  <2> QED
    BY <1>2, <1>3, <1>5, <1>6, <2>1, OnlyLeavesVerify
<1>8. PICK x \in ToSet(list) : ToNode(w) = ToNode(x)
  BY <1>1, <1>7
<1>9. HashRank[w] = HashRank[x]
  <2>1. ToNode(w).leaf = HashRank[w] /\ ToNode(x).leaf = HashRank[x]
    BY DEF ToNode
  <2> QED
    BY <1>8, <2>1
<1>10. x \in DOMAIN HashRank
  BY LenProperties, ElementOfSeq DEF ToSet
<1> QED
  BY <1>8, <1>9, <1>10, HashRankAssumption

---------------------------------------------------------------------------
(* Chunks *)

\* A finite set of integers has a greatest element.
LEMMA MaxProperties ==
    ASSUME NEW S \in SUBSET Int, IsFiniteSet(S), S # {}
    PROVE  Max(S) \in S /\ \A y \in S : Max(S) >= y
<1> DEFINE above(m) == {x \in S : x > m}
           Candidates == {T \in FiniteSubsetsOf(S) : \E m \in S : T = above(m)}
<1>1. ASSUME NEW m \in S PROVE above(m) \in Candidates
  <2>1. IsFiniteSet(above(m))
    BY FS_Subset
  <2> QED
    BY <2>1 DEF FiniteSubsetsOf
<1>2. IsWellFoundedOn(StrictSubsetOrdering(S), FiniteSubsetsOf(S))
  BY FS_StrictSubsetOrderingWellFounded
<1>3. Candidates \subseteq FiniteSubsetsOf(S) /\ Candidates # {}
  BY <1>1
<1> HIDE DEF Candidates
<1>4. PICK T \in Candidates : \A U \in Candidates : <<U, T>> \notin StrictSubsetOrdering(S)
  BY <1>2, <1>3, WFMin
<1>5. PICK m \in S : T = above(m)
  BY <1>4 DEF Candidates
<1>6. above(m) = {}
  <2> SUFFICES ASSUME NEW y \in S, y > m PROVE FALSE
    OBVIOUS
  <2>1. above(y) \subseteq above(m) /\ y \in above(m) /\ y \notin above(y)
    <3>1. \A x \in S : x \in Int
      OBVIOUS
    <3>2. \A x \in S : x > y => x > m
      BY <3>1
    <3>3. ~(y > y)
      BY <3>1
    <3> QED
      BY <3>2, <3>3
  <2>2. above(m) \subseteq S /\ above(y) \subseteq S
    OBVIOUS
  <2> HIDE DEF above
  <2>3. <<above(y), above(m)>> \in StrictSubsetOrdering(S)
    BY <2>1, <2>2 DEF StrictSubsetOrdering
  <2> QED
    BY <1>1, <1>4, <1>5, <2>3
<1>7. \A y \in S : m >= y
  BY <1>6
<1>8. \E x \in S : \A y \in S : x >= y
  BY <1>7
<1> QED
  BY <1>8 DEF Max

\* Integer division finds the tree of a position.
LEMMA DivProperties ==
    ASSUME NEW a \in Nat, NEW p \in Nat \ {0}
    PROVE  /\ a \div p \in Nat
           /\ (a \div p) * p <= a
           /\ a < (a \div p) * p + p
BY SMT

LEMMA ListsAreSequences ==
    ASSUME NEW list \in Lists
    PROVE  /\ list \in Seq(DOMAIN HashRank) /\ list # <<>>
           /\ Len(list) \in Nat \ {0} /\ DOMAIN list = 1..Len(list)
           /\ \A i \in 1..Len(list) : list[i] \in DOMAIN HashRank
<1>1. list \in Seq(DOMAIN HashRank) /\ list # <<>>
  BY ListsAssumption
<1> QED
  BY <1>1, LenProperties, EmptySeq, ElementOfSeq

\* Every tree of a list has a version.
LEMMA TreesHaveVersions ==
    ASSUME NEW list \in Lists, NEW p \in WalletPerTree,
           NEW v \in Nat, v * p < Len(list)
    PROVE  v \in Versions /\ v \in TreesOf(list, p)
<1> DEFINE lengths == {Len(x) : x \in Lists}
<1>1. IsFiniteSet(Lists) /\ p \in Nat \ {0} /\ Len(list) \in Nat
  BY ListsAssumption, WalletPerTreeAssumption, ListsAreSequences
<1>2. lengths \in SUBSET Int /\ Len(list) \in lengths
  BY ListsAreSequences
<1>3. IsFiniteSet(lengths)
  <2> DEFINE f == [x \in Lists |-> Len(x)]
  <2>1. f \in Surjection(Lists, lengths)
    BY DEF Surjection
  <2> HIDE DEF f, lengths
  <2> QED
    BY <1>1, <2>1, FS_Surjection
<1> HIDE DEF lengths
<1>4. Max(lengths) \in Int /\ Max(lengths) >= Len(list)
  BY <1>2, <1>3, MaxProperties
<1>5. v <= v * p
  <2>1. \A a \in Nat : \A b \in Nat \ {0} : a <= a * b
    BY SMT
  <2> QED
    BY <1>1, <2>1
<1>6. v * p \in Nat
  <2>1. \A a, b \in Nat : a * b \in Nat
    BY SMT
  <2> QED
    BY <1>1, <2>1
<1>7. v < Max(lengths)
  BY <1>1, <1>4, <1>5, <1>6
<1>8. v \in Versions
  BY <1>4, <1>7 DEF Versions, lengths
<1> QED
  BY <1>8 DEF TreesOf

\* A chunk is a part of its list, and not empty.
LEMMA ChunkProperties ==
    ASSUME NEW list \in Lists, NEW p \in WalletPerTree, NEW v \in TreesOf(list, p)
    PROVE  LET chunk == Chunk(list, p, v)
           IN  /\ chunk \in Seq(DOMAIN HashRank) /\ chunk # <<>>
               /\ ToSet(chunk) \subseteq ToSet(list)
               /\ \A i \in 1..Len(list) :
                    v * p < i /\ i <= v * p + p => list[i] \in ToSet(chunk)
<1> DEFINE L == Len(list)
           from == v * p
           ends == {(v + 1) * p, L}
           end == Min(ends)
           chunk == SubSeq(list, from + 1, end)
<1>1. /\ L \in Nat \ {0} /\ DOMAIN list = 1..L
      /\ \A i \in 1..L : list[i] \in DOMAIN HashRank
  BY ListsAreSequences
<1>2. p \in Nat \ {0} /\ v \in Nat /\ from < L
  <2>1. v \in Versions /\ from < L
    BY DEF TreesOf
  <2>2. v \in Nat
    BY <2>1 DEF Versions
  <2> QED
    BY <2>1, <2>2, WalletPerTreeAssumption
<1>3. from \in Nat /\ (v + 1) * p = from + p
  BY <1>2, SMT
<1>4. Chunk(list, p, v) = chunk
  BY DEF Chunk
<1>5. ends = {from + p, L}
  BY <1>3
<1> HIDE DEF L, from, ends, end
<1>6. /\ end \in Nat /\ from < end /\ end <= L /\ end <= from + p
      /\ end = L \/ end = from + p
  <2>1. from + p \in Nat /\ L \in Nat /\ from < from + p
    BY <1>1, <1>2, <1>3
  <2>2. \E x \in ends : \A y \in ends : x <= y
    <3>1. CASE L <= from + p
      BY <1>5, <2>1, <3>1
    <3>2. CASE from + p <= L
      BY <1>5, <2>1, <3>2
    <3> QED
      BY <2>1, <3>1, <3>2
  <2>3. end \in ends /\ \A y \in ends : end <= y
    BY <2>2 DEF end, Min
  <2> QED
    BY <1>2, <1>5, <2>1, <2>3
<1>7. /\ chunk \in Seq(DOMAIN HashRank) /\ Len(chunk) = end - from
      /\ \A i \in 1..(end - from) : chunk[i] = list[from + i]
  <2>1. \A i \in (from + 1)..end : list[i] \in DOMAIN HashRank
    <3>1. \A i \in (from + 1)..end : i \in 1..L
      BY <1>1, <1>3, <1>6
    <3> QED
      BY <1>1, <3>1
  <2>2. from + 1 \in Int /\ end \in Int
    BY <1>3, <1>6
  <2>3. /\ chunk \in Seq(DOMAIN HashRank)
        /\ Len(chunk) = IF from + 1 <= end THEN end - (from + 1) + 1 ELSE 0
        /\ \A i \in 1..(end - (from + 1) + 1) : chunk[i] = list[from + 1 + i - 1]
    BY <2>1, <2>2, SubSeqProperties
  <2> HIDE DEF chunk
  <2>4. from + 1 <= end /\ end - (from + 1) + 1 = end - from
    BY <1>3, <1>6
  <2>5. \A i \in 1..(end - from) : from + 1 + i - 1 = from + i
    BY <1>3
  <2> QED
    BY <2>3, <2>4, <2>5
<1> HIDE DEF chunk
<1>8. DOMAIN chunk = 1..(end - from)
  BY <1>7, LenProperties
<1>9. chunk # <<>>
  <2>1. 1 \in DOMAIN chunk
    BY <1>3, <1>6, <1>8
  <2> QED
    BY <2>1
<1>10. ToSet(chunk) \subseteq ToSet(list)
  <2> SUFFICES ASSUME NEW i \in 1..(end - from)
               PROVE  \E j \in 1..L : chunk[i] = list[j]
    BY <1>1, <1>8 DEF ToSet
  <2>1. from + i \in 1..L
    BY <1>1, <1>3, <1>6
  <2> QED
    BY <1>7, <2>1
<1>11. ASSUME NEW i \in 1..L, from < i, i <= from + p
       PROVE  list[i] \in ToSet(chunk)
  <2>1. i - from \in 1..(end - from) /\ from + (i - from) = i
    BY <1>1, <1>2, <1>3, <1>6, <1>11
  <2>2. chunk[i - from] = list[i]
    BY <1>7, <2>1
  <2> QED
    BY <1>8, <2>1, <2>2 DEF ToSet
<1> QED
  BY <1>4, <1>7, <1>9, <1>10, <1>11 DEF L, from

\* What a response holds: for a wallet of the key it is for, the cap of the wallet,
\* the tree that the wallet is in, and the wallet's proof in that tree.
Answers(response, key, list, p) ==
    LET chunk == Chunk(list, p, response.version)
    IN  /\ list \in Lists
        /\ response.version \in TreesOf(list, p)
        /\ \E w \in ToSet(chunk) :
             /\ Key(w) = key
             /\ response.depositCap = w.depositCap
             /\ response.proof = GetProof(chunk, w)

LEMMA ProofsOfProperties ==
    ASSUME NEW list \in Lists \cup {<<>>}, NEW p \in WalletPerTree
    PROVE  /\ DOMAIN ProofsOf(list, p) = {Key(w) : w \in ToSet(list)}
           /\ \A key \in DOMAIN ProofsOf(list, p) :
                Answers(ProofsOf(list, p)[key], key, list, p)
<1>1. DOMAIN ProofsOf(list, p) = {Key(w) : w \in ToSet(list)}
  BY DEF ProofsOf
<1>2. ASSUME NEW key \in DOMAIN ProofsOf(list, p)
      PROVE  Answers(ProofsOf(list, p)[key], key, list, p)
  <2> DEFINE positions == {i \in DOMAIN list : Key(list[i]) = key}
             i == Max(positions)
             v == (i - 1) \div p
  <2>1. PICK j \in DOMAIN list : Key(list[j]) = key
    BY <1>1 DEF ToSet
  <2>2. list \in Lists
    <3>1. list # <<>>
      BY <2>1
    <3> QED
      BY <3>1
  <2>3. Len(list) \in Nat \ {0} /\ DOMAIN list = 1..Len(list)
    BY <2>2, ListsAreSequences
  <2>4. positions \in SUBSET Int /\ positions # {} /\ IsFiniteSet(positions)
    <3>1. IsFiniteSet(1..Len(list))
      BY <2>3, FS_Interval
    <3>2. positions \subseteq 1..Len(list) /\ j \in positions
      BY <2>1, <2>3
    <3> QED
      BY <3>1, <3>2, FS_Subset
  <2>5. i \in positions
    <3> HIDE DEF positions
    <3> QED
      BY <2>4, MaxProperties
  <2>6. i \in 1..Len(list) /\ Key(list[i]) = key
    BY <2>3, <2>5
  <2>7. ProofsOf(list, p)[key] =
            [version |-> v, proof |-> GetProof(Chunk(list, p, v), list[i]),
             depositCap |-> list[i].depositCap]
    BY <1>1 DEF ProofsOf, VersionOf
  <2> HIDE DEF i
  <2>8. v \in Nat /\ v * p <= i - 1 /\ i - 1 < v * p + p /\ p \in Nat \ {0}
    <3>1. i - 1 \in Nat /\ p \in Nat \ {0}
      BY <2>6, WalletPerTreeAssumption
    <3> QED
      BY <3>1, DivProperties
  <2> HIDE DEF v
  <2>9. v * p \in Nat
    <3>1. \A a, b \in Nat : a * b \in Nat
      BY SMT
    <3> QED
      BY <2>8, <3>1
  <2> DEFINE from == v * p
  <2>10. from < Len(list) /\ from < i /\ i <= from + p
    <3> HIDE DEF from
    <3>1. from \in Nat /\ from <= i - 1 /\ i - 1 < from + p
      BY <2>8, <2>9 DEF from
    <3> QED
      BY <2>3, <2>6, <2>8, <3>1
  <2>11. v \in TreesOf(list, p)
    BY <2>2, <2>8, <2>10, TreesHaveVersions
  <2>12. list[i] \in ToSet(Chunk(list, p, v))
    BY <2>2, <2>6, <2>10, <2>11, ChunkProperties
  <2> DEFINE response == ProofsOf(list, p)[key]
             w == list[i]
  <2>13. /\ response.version = v /\ response.depositCap = w.depositCap
         /\ response.proof = GetProof(Chunk(list, p, v), w)
    BY <2>7
  <2> HIDE DEF response, w
  <2>14. w \in ToSet(Chunk(list, p, v)) /\ Key(w) = key
    BY <2>6, <2>12 DEF w
  <2>15. /\ list \in Lists
         /\ response.version \in TreesOf(list, p)
         /\ \E x \in ToSet(Chunk(list, p, response.version)) :
              /\ Key(x) = key
              /\ response.depositCap = x.depositCap
              /\ response.proof = GetProof(Chunk(list, p, response.version), x)
    BY <2>2, <2>11, <2>13, <2>14
  <2> QED
    BY <2>15 DEF response, Answers
<1> QED
  BY <1>1, <1>2

---------------------------------------------------------------------------
(* Roots, responses and escrows *)

\* root is that of tree v of the list and tree size in source.
IsRootOf(root, v, source) ==
    /\ source.list \in Lists /\ source.perTree \in WalletPerTree
    /\ v \in TreesOf(source.list, source.perTree)
    /\ root = GetRoot(Chunk(source.list, source.perTree, v))

ConfigsType == configs = [v \in Versions |-> configs[v]]

WalletsInv == wallets \in Lists \cup {<<>>}

BuiltInv == \A tx \in built : IsRootOf(tx.root, tx.version, tx.source)

ConfigsInv ==
    \A v \in Versions : configs[v] # None =>
        IsRootOf(configs[v].root, v, configs[v].source)

ResponsesInv ==
    responses # None =>
        /\ responses.source.list \in Lists \cup {<<>>}
        /\ responses.source.perTree \in WalletPerTree
        /\ responses.proofs = ProofsOf(responses.source.list, responses.source.perTree)

\* Whatever was built, landed or answered was made of one list and one tree size.
WhitelistInv == WalletsInv /\ ConfigsType /\ BuiltInv /\ ConfigsInv /\ ResponsesInv

LEMMA WhitelistInvInit == Init => WhitelistInv
<1> SUFFICES ASSUME Init PROVE WhitelistInv
  OBVIOUS
<1> USE DEF Init
<1>1. WalletsInv
  BY DEF WalletsInv
<1>2. ConfigsType
  BY DEF ConfigsType
<1>3. BuiltInv
  BY DEF BuiltInv
<1>4. ConfigsInv
  BY DEF ConfigsInv
<1>5. ResponsesInv
  BY DEF ResponsesInv
<1> QED
  BY <1>1, <1>2, <1>3, <1>4, <1>5 DEF WhitelistInv

LEMMA WhitelistInvStep == WhitelistInv /\ [Next]_vars => WhitelistInv'
<1> SUFFICES ASSUME WhitelistInv, [Next]_vars PROVE WhitelistInv'
  OBVIOUS
<1>0. WalletsInv /\ ConfigsType /\ BuiltInv /\ ConfigsInv /\ ResponsesInv
  BY DEF WhitelistInv
<1>1. ASSUME NEW n \in WalletPerTree, CreateMerkleRootConfigFromAddresses(n)
      PROVE  WhitelistInv'
  <2> USE <1>1 DEF CreateMerkleRootConfigFromAddresses
  <2>1. UNCHANGED <<wallets, configs, responses>>
    OBVIOUS
  <2>2. wallets \in Lists
    BY <1>0 DEF WalletsInv
  <2>3. BuiltInv'
    <3> SUFFICES ASSUME NEW v \in TreesOf(wallets, n)
                 PROVE  LET tx == [version |-> v, root |-> GetRoot(Chunk(wallets, n, v)),
                                   source |-> [list |-> wallets, perTree |-> n]]
                        IN  IsRootOf(tx.root, tx.version, tx.source)
      BY DEF BuiltInv, IsRootOf
    <3> QED
      BY <2>2 DEF IsRootOf
  <2>4. (WalletsInv /\ ConfigsType /\ ConfigsInv /\ ResponsesInv)'
    BY <1>0, <2>1 DEF WalletsInv, ConfigsType, ConfigsInv, ResponsesInv
  <2> QED
    BY <2>3, <2>4 DEF WhitelistInv
<1>2. ASSUME NEW tx \in built, LandMerkleRootConfig(tx) PROVE WhitelistInv'
  <2> USE <1>2 DEF LandMerkleRootConfig
  <2> DEFINE config == [root |-> tx.root, source |-> tx.source]
  <2>1. IsRootOf(config.root, tx.version, config.source)
    BY <1>0 DEF BuiltInv
  <2>2. /\ configs' = [configs EXCEPT ![tx.version] = config]
        /\ UNCHANGED <<wallets, responses>>
        /\ built' \subseteq built
    OBVIOUS
  <2> HIDE DEF config
  <2>3. ConfigsType'
    BY <1>0, <2>2 DEF ConfigsType
  <2>4. ConfigsInv'
    <3> SUFFICES ASSUME NEW v \in Versions, configs'[v] # None
                 PROVE  IsRootOf(configs'[v].root, v, configs'[v].source)
      BY DEF ConfigsInv, IsRootOf
    <3>1. configs'[v] = IF v = tx.version THEN config ELSE configs[v]
      BY <1>0, <2>2 DEF ConfigsType
    <3> QED
      BY <1>0, <2>1, <3>1 DEF ConfigsInv
  <2>5. (WalletsInv /\ BuiltInv /\ ResponsesInv)'
    BY <1>0, <2>2 DEF WalletsInv, BuiltInv, ResponsesInv
  <2> QED
    BY <2>3, <2>4, <2>5 DEF WhitelistInv
<1>3. ASSUME NEW v \in Versions, CloseMerkleRootConfig(v) PROVE WhitelistInv'
  <2> USE <1>3 DEF CloseMerkleRootConfig
  <2>1. configs' = [configs EXCEPT ![v] = None] /\ UNCHANGED <<wallets, built, responses>>
    OBVIOUS
  <2>2. ConfigsType'
    BY <1>0, <2>1 DEF ConfigsType
  <2>3. ConfigsInv'
    <3> SUFFICES ASSUME NEW u \in Versions, configs'[u] # None
                 PROVE  IsRootOf(configs'[u].root, u, configs'[u].source)
      BY DEF ConfigsInv, IsRootOf
    <3>1. configs'[u] = IF u = v THEN None ELSE configs[u]
      BY <1>0, <2>1 DEF ConfigsType
    <3> QED
      BY <1>0, <3>1 DEF ConfigsInv
  <2>4. (WalletsInv /\ BuiltInv /\ ResponsesInv)'
    BY <1>0, <2>1 DEF WalletsInv, BuiltInv, ResponsesInv
  <2> QED
    BY <2>2, <2>3, <2>4 DEF WhitelistInv
<1>4. ASSUME NEW n \in WalletPerTree, CreateMerkleProofResponse(n) PROVE WhitelistInv'
  <2> USE <1>4 DEF CreateMerkleProofResponse
  <2>1. UNCHANGED <<built, configs>> /\ wallets' = <<>>
    OBVIOUS
  <2>2. ResponsesInv'
    <3>1. wallets \in Lists \cup {<<>>}
      BY <1>0 DEF WalletsInv
    <3>2. /\ responses'.source.list = wallets /\ responses'.source.perTree = n
          /\ responses'.proofs = ProofsOf(wallets, n)
      OBVIOUS
    <3> QED
      BY <3>1, <3>2 DEF ResponsesInv
  <2>3. (WalletsInv /\ ConfigsType /\ BuiltInv /\ ConfigsInv)'
    BY <1>0, <2>1 DEF WalletsInv, ConfigsType, BuiltInv, ConfigsInv
  <2> QED
    BY <2>2, <2>3 DEF WhitelistInv
<1>5. ASSUME NEW list \in Lists, Relist(list) PROVE WhitelistInv'
  <2>1. wallets' = list /\ UNCHANGED <<built, configs, responses>>
    BY <1>5 DEF Relist
  <2> QED
    BY <1>0, <2>1 DEF WhitelistInv, WalletsInv, ConfigsType, BuiltInv, ConfigsInv, ResponsesInv
<1>6. ASSUME NEW key, CreatePermissionedEscrow(key) PROVE WhitelistInv'
  <2>1. UNCHANGED <<wallets, built, configs, responses>>
    BY <1>6 DEF CreatePermissionedEscrow
  <2> QED
    BY <1>0, <2>1 DEF WhitelistInv, WalletsInv, ConfigsType, BuiltInv, ConfigsInv, ResponsesInv
<1>7. CASE UNCHANGED vars
  <2>1. UNCHANGED <<wallets, built, configs, responses>>
    BY <1>7 DEF vars
  <2> QED
    BY <1>0, <2>1 DEF WhitelistInv, WalletsInv, ConfigsType, BuiltInv, ConfigsInv, ResponsesInv
<1> QED
  BY <1>1, <1>2, <1>3, <1>4, <1>5, <1>6, <1>7 DEF Next

\* The inductive invariant: every root config account and every root transaction
\* holds the root of one chunk of one list, and the proof server the proofs of one
\* list, however often the creator builds, closes and changes the array.
THEOREM WhitelistInvTheorem == Spec => []WhitelistInv
<1>1. Init => WhitelistInv
  BY WhitelistInvInit
<1>2. WhitelistInv /\ [Next]_vars => WhitelistInv'
  BY WhitelistInvStep
<1> QED
  BY <1>1, <1>2, PTL DEF Spec

\* What the proof server holds, after whatever happened to the array and the configs.
LEMMA ResponsesAnswer ==
    ASSUME ResponsesInv, responses # None
    PROVE  LET source == responses.source
           IN  /\ DOMAIN responses.proofs = {Key(w) : w \in ToSet(source.list)}
               /\ \A key \in DOMAIN responses.proofs :
                    Answers(responses.proofs[key], key, source.list, source.perTree)
<1>1. \A list \in Lists \cup {<<>>}, p \in WalletPerTree :
        /\ DOMAIN ProofsOf(list, p) = {Key(w) : w \in ToSet(list)}
        /\ \A key \in DOMAIN ProofsOf(list, p) :
             Answers(ProofsOf(list, p)[key], key, list, p)
  BY ProofsOfProperties
<1> DEFINE list == responses.source.list
           p == responses.source.perTree
<1>2. /\ list \in Lists \cup {<<>>} /\ p \in WalletPerTree
      /\ responses.proofs = ProofsOf(list, p)
  BY DEF ResponsesInv
<1> HIDE DEF list, p
<1>3. /\ DOMAIN responses.proofs = {Key(w) : w \in ToSet(list)}
      /\ \A key \in DOMAIN responses.proofs : Answers(responses.proofs[key], key, list, p)
  BY <1>1, <1>2
<1> QED
  BY <1>3 DEF list, p

\* A wallet with a hash is no more than its account, registry and cap.
LEMMA WalletFields ==
    ASSUME NEW w \in DOMAIN HashRank, NEW cap
    PROVE  /\ w = [account |-> w.account, registryIndex |-> w.registryIndex,
                   depositCap |-> w.depositCap]
           /\ [w EXCEPT !.depositCap = cap] =
                [account |-> w.account, registryIndex |-> w.registryIndex,
                 depositCap |-> cap]
<1>1. w = [account |-> w.account, registryIndex |-> w.registryIndex,
           depositCap |-> w.depositCap]
  BY ListsAssumption
<1> DEFINE a == w.account
           r == w.registryIndex
           c == w.depositCap
<1> HIDE DEF a, r, c
<1>2. w = [account |-> a, registryIndex |-> r, depositCap |-> c]
  BY <1>1 DEF a, r, c
<1>3. [w EXCEPT !.depositCap = cap] =
        [account |-> a, registryIndex |-> r, depositCap |-> cap]
  BY <1>2
<1> QED
  BY <1>1, <1>3 DEF a, r

LEMMA ListedWallets ==
    ASSUME NEW list \in Lists, NEW w \in ToSet(list)
    PROVE  w \in DOMAIN HashRank
BY ListsAreSequences DEF ToSet

\* Every listed wallet gets a response for a listed cap, with a proof that the
\* program accepts against the config of its tree: for every list, tree size and
\* order of the calls.
THEOREM ListedWalletsAreAdmittedTheorem == Spec => []ListedWalletsAreAdmitted
<1>1. WhitelistInv => ListedWalletsAreAdmitted
  <2> SUFFICES ASSUME WhitelistInv, responses # None,
                      NEW w \in ToSet(responses.source.list)
               PROVE  LET list == responses.source.list
                          response == responses.proofs[Key(w)]
                          granted == [w EXCEPT !.depositCap = response.depositCap]
                          config == configs[response.version]
                      IN  /\ granted \in ToSet(list)
                          /\ config # None /\ config.source = responses.source
                                => VerifyProof(granted, response.proof, config.root)
    BY DEF ListedWalletsAreAdmitted
  <2> DEFINE list == responses.source.list
             p == responses.source.perTree
             key == Key(w)
             response == responses.proofs[key]
             granted == [w EXCEPT !.depositCap = response.depositCap]
             v == response.version
             config == configs[v]
             chunk == Chunk(list, p, v)
  <2>1. p \in WalletPerTree
    BY DEF WhitelistInv, ResponsesInv
  <2>2. Answers(responses.proofs[key], key, list, p)
    <3>1. key \in DOMAIN responses.proofs
      BY ResponsesAnswer DEF WhitelistInv
    <3> QED
      BY <3>1, ResponsesAnswer DEF WhitelistInv
  <2>3. /\ list \in Lists /\ v \in TreesOf(list, p)
        /\ \E x \in ToSet(chunk) :
             /\ Key(x) = key /\ response.depositCap = x.depositCap
             /\ response.proof = GetProof(chunk, x)
    BY <2>2 DEF Answers
  <2>4. PICK x \in ToSet(chunk) :
             /\ Key(x) = key /\ response.depositCap = x.depositCap
             /\ response.proof = GetProof(chunk, x)
    BY <2>3
  <2>5. chunk \in Seq(DOMAIN HashRank) /\ chunk # <<>> /\ ToSet(chunk) \subseteq ToSet(list)
    BY <2>1, <2>3, ChunkProperties
  <2>6. w \in DOMAIN HashRank /\ x \in DOMAIN HashRank
    BY <2>3, <2>4, <2>5, ListedWallets
  <2>7. granted = x
    <3>1. x.account = w.account /\ x.registryIndex = w.registryIndex
      BY <2>4 DEF Key
    <3> DEFINE cap == response.depositCap
    <3>2. cap = x.depositCap
      BY <2>4
    <3> HIDE DEF cap
    <3>3. [w EXCEPT !.depositCap = cap] =
            [account |-> w.account, registryIndex |-> w.registryIndex, depositCap |-> cap]
      BY <2>6, WalletFields
    <3>4. x = [account |-> x.account, registryIndex |-> x.registryIndex,
               depositCap |-> x.depositCap]
      BY <2>6, WalletFields
    <3>5. [w EXCEPT !.depositCap = cap] = x
      BY <3>1, <3>2, <3>3, <3>4
    <3> QED
      BY <3>5 DEF cap
  <2>8. granted \in ToSet(list)
    BY <2>4, <2>5, <2>7
  <2>9. ASSUME config # None, config.source = responses.source
        PROVE  VerifyProof(granted, response.proof, config.root)
    <3>1. v \in Versions
      BY <2>3 DEF TreesOf
    <3>2. IsRootOf(config.root, v, config.source)
      BY <2>9, <3>1 DEF WhitelistInv, ConfigsInv
    <3>3. config.root = GetRoot(chunk)
      BY <2>9, <3>2 DEF IsRootOf
    <3>4. VerifyProof(x, GetProof(chunk, x), GetRoot(chunk))
      <4> HIDE DEF chunk
      <4> QED
        BY <2>4, <2>5, GetProofVerifies
    <3> HIDE DEF chunk, config, granted, response
    <3> QED
      BY <2>4, <2>7, <3>3, <3>4
  <2> QED
    BY <2>8, <2>9
<1> QED
  BY <1>1, WhitelistInvTheorem, PTL

\* Nobody gets an escrow for a cap that is not listed for them in a list that a
\* landed config was made from, whatever else was built, closed and landed, and
\* from whatever list the proof was made: hashes do not collide.
THEOREM EscrowsWereListedTheorem == Spec => EscrowsWereListed
<1> DEFINE Listed(w) == \E v \in Versions :
                            configs[v] # None /\ w \in ToSet(configs[v].source.list)
           Step == \A w \in escrows' \ escrows : Listed(w)
<1>1. ASSUME WhitelistInv, responses # None,
             NEW key \in DOMAIN responses.proofs, CreatePermissionedEscrow(key)
      PROVE  Step
  <2> DEFINE list == responses.source.list
             p == responses.source.perTree
             response == responses.proofs[key]
             wallet == [account |-> key[1], registryIndex |-> key[2],
                        depositCap |-> response.depositCap]
             v == response.version
             config == configs[v]
             chunk == Chunk(list, p, v)
             source == config.source
             landed == Chunk(source.list, source.perTree, v)
  <2>1. /\ config # None /\ VerifyProof(wallet, response.proof, config.root)
        /\ escrows' = escrows \cup {wallet}
    BY <1>1 DEF CreatePermissionedEscrow
  <2>2. p \in WalletPerTree /\ Answers(responses.proofs[key], key, list, p)
    BY <1>1, ResponsesAnswer DEF WhitelistInv, ResponsesInv
  <2>3. /\ list \in Lists /\ v \in TreesOf(list, p)
        /\ \E x \in ToSet(chunk) :
             /\ Key(x) = key /\ response.depositCap = x.depositCap
             /\ response.proof = GetProof(chunk, x)
    BY <2>2 DEF Answers
  <2>4. PICK x \in ToSet(chunk) :
             /\ Key(x) = key /\ response.depositCap = x.depositCap
             /\ response.proof = GetProof(chunk, x)
    BY <2>3
  <2>5. chunk \in Seq(DOMAIN HashRank) /\ chunk # <<>> /\ ToSet(chunk) \subseteq ToSet(list)
    BY <2>2, <2>3, ChunkProperties
  <2>6. x \in DOMAIN HashRank
    BY <2>3, <2>4, <2>5, ListedWallets
  <2>7. wallet = x
    <3>1. key[1] = x.account /\ key[2] = x.registryIndex
      BY <2>4 DEF Key
    <3>2. x = [account |-> x.account, registryIndex |-> x.registryIndex,
               depositCap |-> x.depositCap]
      BY <2>6, WalletFields
    <3> QED
      BY <2>4, <3>1, <3>2
  <2>8. v \in Versions
    BY <2>3 DEF TreesOf
  <2>9. /\ source.list \in Lists /\ source.perTree \in WalletPerTree
        /\ v \in TreesOf(source.list, source.perTree)
        /\ config.root = GetRoot(landed)
    BY <1>1, <2>1, <2>8 DEF WhitelistInv, ConfigsInv, IsRootOf
  <2>10. /\ landed \in Seq(DOMAIN HashRank) /\ landed # <<>>
         /\ ToSet(landed) \subseteq ToSet(source.list)
    BY <2>9, ChunkProperties
  <2> DEFINE proof == response.proof
  <2>11. Len(proof) \in Nat /\ DOMAIN proof = 1..Len(proof)
    <3>1. proof = GetProof(chunk, x)
      BY <2>4
    <3> HIDE DEF proof, chunk
    <3> QED
      BY <2>4, <2>5, <3>1, GetProofVerifies
  <2>12. VerifyProof(x, proof, GetRoot(landed))
    <3> HIDE DEF landed, config, wallet
    <3> QED
      BY <2>1, <2>7, <2>9
  <2>13. x \in ToSet(landed)
    <3> HIDE DEF proof, landed
    <3> QED
      BY <2>6, <2>10, <2>11, <2>12, OnlyListedVerify
  <2>14. Listed(x)
    BY <2>1, <2>8, <2>10, <2>13
  <2> HIDE DEF Listed, wallet
  <2> QED
    BY <2>1, <2>7, <2>14
<1>2. WhitelistInv /\ [Next]_vars => [Step]_vars
  <2> SUFFICES ASSUME WhitelistInv, Next PROVE Step
    OBVIOUS
  <2>1. CASE UNCHANGED escrows
    BY <2>1
  <2>2. ASSUME responses # None, NEW key \in DOMAIN responses.proofs,
               CreatePermissionedEscrow(key)
        PROVE  Step
    BY <1>1, <2>2
  <2>3. \/ UNCHANGED escrows
        \/ responses # None /\ \E key \in DOMAIN responses.proofs :
                                    CreatePermissionedEscrow(key)
    BY DEF Next, CreateMerkleRootConfigFromAddresses, LandMerkleRootConfig,
           CloseMerkleRootConfig, CreateMerkleProofResponse, Relist
  <2> HIDE DEF Step
  <2> QED
    BY <2>1, <2>2, <2>3
<1> QED
  BY <1>2, WhitelistInvTheorem, PTL DEF Spec, EscrowsWereListed
=============================================================================
