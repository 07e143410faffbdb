-------------------------- MODULE TopographyProofs --------------------------
(***************************************************************************)
(* Theorems about Topography and Deployment.  Of any tree that newChild    *)
(* grows, the chain of the nodes is complete and the codes of a URL        *)
(* identify it: what the proofs use is TreeOK, and the two recursive       *)
(* functions, Chain's and Ancestry's, are followed along the order of      *)
(* creation by a least counterexample.  Of the tree that MappingBuilder    *)
(* grows, the mapping is computed, MappingIs; the modules and processes    *)
(* that main() registers are followed step by step, DevicesOK; and what    *)
(* a command or a process finds there follows from the two.                *)
(***************************************************************************)
EXTENDS Deployment, ListFacts

\* newChild anywhere, with any name and flags; produce at any time
TreeStep ==
    \/ \E p \in 1..Len(nodes) : \E name, flags : newChild(p, name, flags)
    \/ ProduceAll

TreeSpec == Init /\ [][TreeStep]_vars

-----------------------------------------------------------------------------
(***************************************************************************)
(* The tree.                                                               *)
(***************************************************************************)
\* A node is created after its parent ...
ParentsOK ==
    /\ \E S : nodes \in Seq(S)
    /\ Len(nodes) >= 1
    /\ \A i \in 2..Len(nodes) : nodes[i].parent \in 1..(i - 1)

\* ... is linked to the next node to be created ...
LinksOK ==
    /\ next \in Seq(Nat) /\ Len(next) = Len(nodes)
    /\ end = Len(nodes)
    /\ \A i \in 1..Len(nodes) : next[i] = IF i < Len(nodes) THEN i + 1 ELSE 0

\* ... and numbered by its parent, as no other child of it is.
NumbersOK ==
    /\ degree \in Seq(Nat) /\ Len(degree) = Len(nodes)
    /\ \A i \in 2..Len(nodes) : nodes[i].machine \in 1..degree[nodes[i].parent]
    /\ \A i, j \in 2..Len(nodes) :
         /\ nodes[i].parent = nodes[j].parent
         /\ nodes[i].machine = nodes[j].machine
         => i = j

TreeOK == ParentsOK /\ LinksOK /\ NumbersOK

\* The root alone is a tree.
LEMMA TreeInit == Init => TreeOK
<1> SUFFICES ASSUME Init PROVE TreeOK
  OBVIOUS
<1>1. Len(nodes) = 1 /\ Len(next) = 1 /\ Len(degree) = 1 /\ next[1] = 0
  BY DEF Init
<1>2. next \in Seq(Nat) /\ degree \in Seq(Nat)
  BY DEF Init
<1>3. \E S : nodes \in Seq(S)
  <2>1. nodes \in Seq({nodes[1]})
    BY DEF Init
  <2> QED
    BY <2>1
<1>4. end = 1
  BY DEF Init
<1> QED
  BY <1>1, <1>2, <1>3, <1>4 DEF TreeOK, ParentsOK, LinksOK, NumbersOK

\* A node of an existing name is not linked again, as it is linked already or
\* the last of the chain.
LEMMA ExistingStays ==
    ASSUME TreeOK, NEW p, NEW name, NewChildExists(p, name) PROVE UNCHANGED vars
<1>1. PICK child \in ChildOf(p, name) :
        IF next[child] = 0 /\ end # child
          THEN next' = [next EXCEPT ![end] = child] /\ end' = child
          ELSE UNCHANGED <<next, end>>
  BY DEF NewChildExists
<1>2. Len(nodes) \in Nat
  BY LenProperties DEF TreeOK, ParentsOK
<1>3. child \in 1..Len(nodes) /\ ~(next[child] = 0 /\ end # child)
  BY <1>2 DEF ChildOf, TreeOK, LinksOK
<1> QED
  BY <1>1, <1>3 DEF NewChildExists, vars

\* A new child is the last node, and its parent an earlier one.
LEMMA ParentsStep ==
    ASSUME TreeOK, NEW p \in 1..Len(nodes), NEW name, NEW flags, NewChild(p, name, flags)
    PROVE  /\ Len(nodes) \in Nat /\ Len(nodes') = Len(nodes) + 1
           /\ \A i \in 1..Len(nodes) : nodes'[i] = nodes[i]
           /\ nodes'[Len(nodes) + 1] = NewNode(p, name, flags)
           /\ ParentsOK'
<1> DEFINE new == NewNode(p, name, flags)
<1>1. PICK S : nodes \in Seq(S)
  BY DEF TreeOK, ParentsOK
<1>2. nodes \in Seq(S \cup {new}) /\ new \in S \cup {new} /\ nodes' = Append(nodes, new)
  BY <1>1, SeqMonotonic DEF NewChild
<1> HIDE DEF new
<1>3. /\ nodes' \in Seq(S \cup {new}) /\ Len(nodes) \in Nat /\ Len(nodes') = Len(nodes) + 1
      /\ \A i \in 1..Len(nodes) : nodes'[i] = nodes[i]
      /\ nodes'[Len(nodes) + 1] = new
  BY <1>2, AppendProperties, LenProperties
<1>4. new.parent = p
  BY DEF new, NewNode
<1>5. \A i \in 2..Len(nodes') : nodes'[i].parent \in 1..(i - 1)
  BY <1>3, <1>4 DEF TreeOK, ParentsOK
<1> QED
  BY <1>3, <1>5 DEF new, TreeOK, ParentsOK

\* It is linked behind what was the last node.
LEMMA LinksStep ==
    ASSUME TreeOK, NEW p \in 1..Len(nodes), NEW name, NEW flags, NewChild(p, name, flags)
    PROVE  LinksOK'
<1> DEFINE n == Len(nodes)
           linked == [next EXCEPT ![end] = n + 1]
<1>1. n \in Nat /\ n >= 1 /\ Len(nodes') = n + 1
  BY ParentsStep DEF TreeOK, ParentsOK
<1>2. next \in Seq(Nat) /\ Len(next) = n /\ end = n
  BY DEF TreeOK, LinksOK
<1>3. next' = Append(linked, 0) /\ end' = n + 1
  BY DEF NewChild
<1>4. \A i \in 1..n : next[i] = IF i < n THEN i + 1 ELSE 0
  BY DEF TreeOK, LinksOK
<1> HIDE DEF n
<1>5. /\ linked \in Seq(Nat) /\ Len(linked) = n
      /\ \A i \in 1..n : linked[i] = i + 1
  <2>1. end \in 1..Len(next) /\ n + 1 \in Nat
    BY <1>1, <1>2
  <2>2. /\ linked \in Seq(Nat) /\ Len(linked) = Len(next)
        /\ \A i \in 1..Len(next) : linked[i] = IF i = end THEN n + 1 ELSE next[i]
    BY <1>2, <2>1, ExceptSeq
  <2> QED
    BY <1>1, <1>2, <1>4, <2>2
<1> HIDE DEF linked
<1>6. /\ next' \in Seq(Nat) /\ Len(next') = n + 1
      /\ \A i \in 1..n : next'[i] = linked[i]
      /\ next'[n + 1] = 0
  BY <1>3, <1>5, AppendProperties
<1> QED
  BY <1>1, <1>3, <1>5, <1>6 DEF LinksOK

\* It has a number that its parent has given to no other.
LEMMA NumbersStep ==
    ASSUME TreeOK, NEW p \in 1..Len(nodes), NEW name, NEW flags, NewChild(p, name, flags)
    PROVE  NumbersOK'
<1> DEFINE n == Len(nodes)
           new == NewNode(p, name, flags)
           counted == [degree EXCEPT ![p] = degree[p] + 1]
<1>1. /\ n \in Nat /\ n >= 1 /\ Len(nodes') = n + 1
      /\ \A i \in 1..n : nodes'[i] = nodes[i]
      /\ nodes'[n + 1] = new
  BY ParentsStep DEF TreeOK, ParentsOK
<1>2. degree \in Seq(Nat) /\ Len(degree) = n /\ p \in 1..n /\ degree' = Append(counted, 0)
  BY DEF TreeOK, NumbersOK, NewChild
<1>3. \A i \in 2..n : nodes[i].parent \in 1..(i - 1)
  BY DEF TreeOK, ParentsOK
<1>4. new.parent = p /\ new.machine = degree[p] + 1 /\ degree[p] \in Nat
  BY <1>2, ElementOfSeq DEF NewNode
<1>5. /\ \A i \in 2..n : nodes[i].machine \in 1..degree[nodes[i].parent]
      /\ \A i, j \in 2..n :
           nodes[i].parent = nodes[j].parent /\ nodes[i].machine = nodes[j].machine => i = j
  BY DEF TreeOK, NumbersOK
<1> HIDE DEF n, new
<1>6. /\ counted \in Seq(Nat) /\ Len(counted) = n
      /\ \A i \in 1..n : counted[i] = IF i = p THEN degree[p] + 1 ELSE degree[i]
  <2>1. degree[p] + 1 \in Nat
    BY <1>4
  <2> QED
    BY <1>2, <2>1, ExceptSeq
<1> HIDE DEF counted
<1>7. /\ degree' \in Seq(Nat) /\ Len(degree') = n + 1
      /\ \A i \in 1..n : degree'[i] = IF i = p THEN degree[p] + 1 ELSE degree[i]
  <2>1. /\ degree' \in Seq(Nat) /\ Len(degree') = Len(counted) + 1
        /\ \A i \in 1..Len(counted) : degree'[i] = counted[i]
    <3>1. counted \in Seq(Nat) /\ 0 \in Nat /\ degree' = Append(counted, 0)
      BY <1>2, <1>6
    <3> QED
      BY <3>1, AppendProperties
  <2> QED
    BY <1>6, <2>1
<1>8. ASSUME NEW i \in 2..n
      PROVE /\ nodes[i].parent \in 1..n /\ degree[nodes[i].parent] \in Nat
            /\ nodes[i].machine \in Nat
            /\ nodes[i].parent = p => nodes[i].machine # new.machine
            /\ nodes'[i].machine \in 1..degree'[nodes'[i].parent]
  <2>1. nodes[i].parent \in 1..n
    BY <1>1, <1>3
  <2>2. degree[nodes[i].parent] \in Nat
    BY <1>2, <2>1, ElementOfSeq
  <2>3. nodes[i].machine \in 1..degree[nodes[i].parent] /\ nodes'[i] = nodes[i]
    BY <1>1, <1>5
  <2>4. nodes[i].machine \in Nat /\ nodes[i].machine <= degree[nodes[i].parent]
    BY <2>2, <2>3
  <2>5. nodes[i].parent = p => nodes[i].machine # new.machine
    BY <1>4, <2>4
  <2>6. degree'[nodes[i].parent] >= degree[nodes[i].parent] /\ degree'[nodes[i].parent] \in Nat
    <3>1. degree'[nodes[i].parent] = IF nodes[i].parent = p THEN degree[p] + 1
                                     ELSE degree[nodes[i].parent]
      BY <1>7, <2>1
    <3> QED
      BY <1>4, <2>2, <3>1
  <2> QED
    BY <2>1, <2>2, <2>3, <2>4, <2>5, <2>6
<1>9. new.machine \in 1..degree'[p]
  BY <1>2, <1>4, <1>7
<1>10. \A i \in 2..(n + 1) : nodes'[i].machine \in 1..degree'[nodes'[i].parent]
  BY <1>1, <1>4, <1>8, <1>9
<1>11. ASSUME NEW i \in 2..(n + 1), NEW j \in 2..(n + 1),
              nodes'[i].parent = nodes'[j].parent, nodes'[i].machine = nodes'[j].machine
       PROVE i = j
  <2>1. CASE i \in 2..n /\ j \in 2..n
    BY <1>1, <1>5, <1>11, <2>1, SMTT(30)
  <2>2. CASE i = n + 1 /\ j \in 2..n
    BY <1>1, <1>4, <1>8, <1>11, <2>2
  <2>3. CASE i \in 2..n /\ j = n + 1
    BY <1>1, <1>4, <1>8, <1>11, <2>3
  <2> QED
    BY <1>1, <2>1, <2>2, <2>3
<1> QED
  BY <1>1, <1>7, <1>10, <1>11 DEF NumbersOK

\* So what grows is a tree.
LEMMA TreeStays == ASSUME TreeOK, [TreeStep]_vars PROVE TreeOK'
<1>1. ASSUME UNCHANGED <<nodes, degree, next, end>> PROVE TreeOK'
  BY <1>1 DEF TreeOK, ParentsOK, LinksOK, NumbersOK
<1>2. ASSUME NEW p \in 1..Len(nodes), NEW name, NEW flags, newChild(p, name, flags)
      PROVE TreeOK'
  <2>1. CASE NewChild(p, name, flags)
    BY <2>1, ParentsStep, LinksStep, NumbersStep DEF TreeOK
  <2>2. CASE NewChildExists(p, name)
    BY <1>1, <2>2, ExistingStays DEF vars
  <2> QED
    BY <1>2, <2>1, <2>2 DEF newChild
<1> QED
  BY <1>1, <1>2 DEF TreeStep, ProduceAll, vars

-----------------------------------------------------------------------------
(***************************************************************************)
(* The chain.                                                              *)
(***************************************************************************)
\* What the recursive function in Chain is, with its two cases
Places(place) ==
    place = [k \in 1..(Len(nodes) + 1) |->
               IF k = 1 THEN 1
               ELSE LET before == place[k - 1]
                    IN IF before = 0 THEN 0 ELSE next[before]]

\* There is one such function: it walks the nodes in the order of creation.
LEMMA PlacesAreOrdered ==
    ASSUME TreeOK
    PROVE  \A place : Places(place) <=>
             place = [k \in 1..(Len(nodes) + 1) |-> IF k <= Len(nodes) THEN k ELSE 0]
<1> DEFINE n == Len(nodes)
           walk == [k \in 1..(n + 1) |-> IF k <= n THEN k ELSE 0]
<1>1. n \in Nat /\ n >= 1 /\ \A i \in 1..n : next[i] = IF i < n THEN i + 1 ELSE 0
  BY LenProperties DEF TreeOK, ParentsOK, LinksOK
<1>2. Places(walk)
  <2> DEFINE step(k) == IF k = 1 THEN 1
                        ELSE IF walk[k - 1] = 0 THEN 0 ELSE next[walk[k - 1]]
  <2>1. ASSUME NEW k \in 1..(n + 1) PROVE walk[k] = step(k)
    <3>1. CASE k = 1
      BY <1>1, <3>1
    <3>2. CASE k # 1
      <4>1. k - 1 \in 1..n /\ walk[k - 1] = k - 1
        BY <1>1, <3>2
      <4>2. next[k - 1] = IF k - 1 < n THEN k ELSE 0
        BY <1>1, <4>1
      <4> QED
        BY <1>1, <3>2, <4>1, <4>2
    <3> QED
      BY <3>1, <3>2
  <2>2. walk = [k \in 1..(n + 1) |-> step(k)]
    BY <2>1
  <2> QED
    BY <2>2 DEF Places
<1>3. ASSUME NEW place, Places(place) PROVE place = walk
  <2> DEFINE T == {k \in 1..(n + 1) : place[k] # walk[k]}
  <2>1. /\ place = [k \in 1..(n + 1) |-> place[k]]
        /\ \A k \in 1..(n + 1) :
             place[k] = IF k = 1 THEN 1
                        ELSE IF place[k - 1] = 0 THEN 0 ELSE next[place[k - 1]]
    BY <1>3 DEF Places
  <2>2. \A k \in 1..(n + 1) :
             walk[k] = IF k = 1 THEN 1
                       ELSE IF walk[k - 1] = 0 THEN 0 ELSE next[walk[k - 1]]
    BY <1>2 DEF Places
  <2>3. CASE T = {}
    BY <2>1, <2>3
  <2>4. CASE T # {}
    <3>1. T \in SUBSET Nat
      BY <1>1
    <3>2. PICK k \in T : \A m \in T : k <= m
      BY <2>4, <3>1, LeastNat
    <3> HIDE DEF walk
    <3>3. k \in 1..(n + 1) /\ place[k] # walk[k]
      BY <3>2
    <3>4. k # 1
      BY <1>1, <2>1, <2>2, <3>3
    <3>5. k - 1 \in 1..(n + 1) /\ k - 1 \notin T
      BY <1>1, <3>2, <3>3, <3>4
    <3>6. place[k - 1] = walk[k - 1]
      BY <3>5
    <3>7. place[k] = IF place[k - 1] = 0 THEN 0 ELSE next[place[k - 1]]
      BY <2>1, <3>3, <3>4
    <3>8. walk[k] = IF walk[k - 1] = 0 THEN 0 ELSE next[walk[k - 1]]
      BY <2>2, <3>3, <3>4
    <3> QED
      BY <3>3, <3>6, <3>7, <3>8
  <2> QED
    BY <2>3, <2>4
<1> QED
  BY <1>2, <1>3

\* So the chain ends behind the last node, and visits all.
LEMMA ChainIsOrdered == ASSUME TreeOK PROVE ChainIsComplete
<1> DEFINE n == Len(nodes)
           walk == [k \in 1..(n + 1) |-> IF k <= n THEN k ELSE 0]
           place == CHOOSE place : Places(place)
<1>1. n \in Nat /\ n >= 1
  BY LenProperties DEF TreeOK, ParentsOK
<1>2. place = walk
  <2>1. \A f : Places(f) <=> f = walk
    BY PlacesAreOrdered
  <2> HIDE DEF walk
  <2>2. Places(place)
    BY <2>1, Zenon
  <2> QED
    BY <2>1, <2>2
<1>3. Chain = [k \in {j \in 1..(n + 1) : place[j] # 0} |-> place[k]]
  BY DEF Chain, Places
<1> HIDE DEF place
<1>4. {j \in 1..(n + 1) : place[j] # 0} = 1..n
  BY <1>1, <1>2
<1>5. \A k \in 1..n : place[k] = k
  BY <1>1, <1>2
<1> QED
  BY <1>3, <1>4, <1>5 DEF ChainIsComplete

-----------------------------------------------------------------------------
(***************************************************************************)
(* The codes.                                                              *)
(***************************************************************************)
\* What the recursive function in Ancestry is, for the first m nodes
Climbs(up, m) ==
    up = [j \in 1..m |-> IF j = 1 THEN <<>> ELSE Append(up[nodes[j].parent], j)]

\* There is one, as a parent precedes its children.
LEMMA AncestryExists == ASSUME TreeOK PROVE \E up : Climbs(up, Len(nodes))
<1> DEFINE n == Len(nodes)
           T == {m \in 0..n : ~\E up : Climbs(up, m)}
<1>1. n \in Nat /\ n >= 1 /\ \A i \in 2..n : nodes[i].parent \in 1..(i - 1)
  BY LenProperties DEF TreeOK, ParentsOK
<1>2. CASE T = {}
  <2>1. n \in 0..n
    BY <1>1
  <2> QED
    BY <1>2, <2>1
<1>3. CASE T # {}
  <2>1. T \in SUBSET Nat
    BY <1>1
  <2>2. PICK m \in T : \A k \in T : m <= k
    BY <1>3, <2>1, LeastNat
  <2>3. m \in 0..n /\ ~\E up : Climbs(up, m)
    BY <2>2
  <2>4. CASE m = 0
    <3> DEFINE none == [j \in 1..0 |-> <<>>]
    <3>1. Climbs(none, 0)
      BY DEF Climbs
    <3> QED
      BY <2>3, <2>4, <3>1
  <2>5. CASE m # 0
    <3>1. m - 1 \in 0..n /\ m - 1 \notin T
      BY <1>1, <2>2, <2>3, <2>5
    <3>2. PICK up : Climbs(up, m - 1)
      BY <3>1
    <3> DEFINE this == IF m = 1 THEN <<>> ELSE Append(up[nodes[m].parent], m)
               longer == [j \in 1..m |-> IF j = m THEN this ELSE up[j]]
               step(j) == IF j = 1 THEN <<>> ELSE Append(longer[nodes[j].parent], j)
    <3>3. ASSUME NEW j \in 1..m PROVE longer[j] = step(j)
      <4>1. j # 1 => longer[nodes[j].parent] = up[nodes[j].parent]
        BY <1>1, <2>3
      <4>2. CASE j = m
        BY <4>1, <4>2
      <4>3. CASE j # m
        <5>1. j \in 1..(m - 1)
          BY <2>3, <4>3
        <5>2. up[j] = IF j = 1 THEN <<>> ELSE Append(up[nodes[j].parent], j)
          BY <3>2, <5>1 DEF Climbs
        <5> QED
          BY <4>1, <4>3, <5>2
      <4> QED
        BY <4>2, <4>3
    <3>4. longer = [j \in 1..m |-> step(j)]
      BY <3>3
    <3>5. Climbs(longer, m)
      BY <3>4 DEF Climbs
    <3> QED
      BY <2>3, <3>5
  <2> QED
    BY <2>4, <2>5
<1> QED
  BY <1>2, <1>3

\* A node's ancestry is that of its parent, and itself.
LEMMA AncestryClimbs ==
    ASSUME TreeOK
    PROVE  \A i \in 1..Len(nodes) :
             /\ Ancestry(i) = IF i = 1 THEN <<>> ELSE Append(Ancestry(nodes[i].parent), i)
             /\ Ancestry(i) \in Seq(Nat)
<1> DEFINE n == Len(nodes)
           up == CHOOSE up : Climbs(up, n)
           T == {i \in 1..n : Ancestry(i) \notin Seq(Nat)}
<1>1. n \in Nat /\ n >= 1 /\ \A i \in 2..n : nodes[i].parent \in 1..(i - 1)
  BY LenProperties DEF TreeOK, ParentsOK
<1>2. \A i : Ancestry(i) = up[i]
  BY DEF Ancestry, Climbs
<1>3. Climbs(up, n)
  BY AncestryExists, Zenon
<1> HIDE DEF up
<1>4. \A i \in 1..n :
        Ancestry(i) = IF i = 1 THEN <<>> ELSE Append(Ancestry(nodes[i].parent), i)
  <2>1. \A i \in 1..n : up[i] = IF i = 1 THEN <<>> ELSE Append(up[nodes[i].parent], i)
    BY <1>3 DEF Climbs
  <2> QED
    BY <1>2, <2>1
<1>5. T = {}
  <2>1. ASSUME T # {} PROVE FALSE
    <3>1. T \in SUBSET Nat
      BY <1>1
    <3>2. PICK i \in T : \A k \in T : i <= k
      BY <2>1, <3>1, LeastNat
    <3>3. i \in 1..n /\ Ancestry(i) \notin Seq(Nat)
      BY <3>2
    <3>4. i # 1
      BY <1>4, <3>3, EmptySeq
    <3>5. nodes[i].parent \in 1..n /\ nodes[i].parent \notin T
      <4>1. i \in 2..n
        BY <1>1, <3>3, <3>4
      <4>2. nodes[i].parent \in 1..n /\ nodes[i].parent < i /\ i \in Nat
        BY <1>1, <4>1
      <4> QED
        BY <1>1, <3>2, <4>2
    <3>6. Ancestry(nodes[i].parent) \in Seq(Nat) /\ i \in Nat
      BY <1>1, <3>3, <3>5
    <3>7. Append(Ancestry(nodes[i].parent), i) \in Seq(Nat)
      BY <3>6, AppendProperties
    <3> QED
      BY <1>4, <3>3, <3>4, <3>7
  <2> QED
    BY <2>1
<1> QED
  BY <1>4, <1>5

\* The codes of a node are those of its parent and its own.
LEMMA CodesClimb ==
    ASSUME TreeOK, NEW i \in 1..Len(nodes)
    PROVE  \E n \in Nat :
             /\ DOMAIN Codes(i) = 1..n
             /\ i = 1 <=> n = 0
             /\ i # 1 => /\ DOMAIN Codes(nodes[i].parent) = 1..(n - 1)
                         /\ \A k \in 1..(n - 1) : Codes(i)[k] = Codes(nodes[i].parent)[k]
                         /\ Codes(i)[n] = nodes[i].machine
<1> DEFINE p == nodes[i].parent
           n == Len(Ancestry(i))
<1>1. i \in Nat /\ (i # 1 => p \in 1..Len(nodes))
  <2>1. /\ Len(nodes) \in Nat
        /\ \A j \in 2..Len(nodes) : nodes[j].parent \in 1..(j - 1)
    BY LenProperties DEF TreeOK, ParentsOK
  <2>2. i # 1 => i \in 2..Len(nodes)
    BY <2>1
  <2> QED
    BY <2>1, <2>2
<1>2. Ancestry(i) \in Seq(Nat) /\ n \in Nat
  BY AncestryClimbs, LenProperties
<1>3. /\ DOMAIN Codes(i) = 1..n
      /\ \A k \in 1..n : Codes(i)[k] = nodes[Ancestry(i)[k]].machine
  BY DEF Codes
<1>4. CASE i = 1
  <2>1. n = 0
    BY <1>4, AncestryClimbs, EmptySeq
  <2> QED
    BY <1>2, <1>3, <1>4, <2>1
<1>5. CASE i # 1
  <2>1. Ancestry(p) \in Seq(Nat) /\ Ancestry(i) = Append(Ancestry(p), i) /\ i \in Nat
    BY <1>1, <1>5, AncestryClimbs
  <2>2. /\ n = Len(Ancestry(p)) + 1 /\ Len(Ancestry(p)) \in Nat
        /\ \A k \in 1..Len(Ancestry(p)) : Ancestry(i)[k] = Ancestry(p)[k]
        /\ Ancestry(i)[Len(Ancestry(p)) + 1] = i
    BY <2>1, AppendProperties, LenProperties
  <2>3. /\ DOMAIN Codes(p) = 1..Len(Ancestry(p))
        /\ \A k \in 1..Len(Ancestry(p)) : Codes(p)[k] = nodes[Ancestry(p)[k]].machine
    BY DEF Codes
  <2> HIDE DEF n, p
  <2>4. Len(Ancestry(p)) = n - 1 /\ n # 0 /\ n \in 1..n
    BY <1>2, <2>2
  <2>5. ASSUME NEW k \in 1..(n - 1) PROVE Codes(i)[k] = Codes(p)[k]
    <3>1. k \in 1..n /\ k \in 1..Len(Ancestry(p))
      BY <1>2, <2>4
    <3> QED
      BY <1>3, <2>2, <2>3, <3>1
  <2>6. Codes(i)[n] = nodes[i].machine
    BY <1>3, <2>2, <2>4
  <2> QED
    BY <1>2, <1>3, <1>5, <2>3, <2>4, <2>5, <2>6 DEF p
<1> QED
  BY <1>4, <1>5

\* Two intervals that are equal have the same length.
LEMMA SameInterval == ASSUME NEW m \in Nat, NEW n \in Nat, 1..m = 1..n PROVE m = n
<1>1. (m # 0 => m \in 1..n) /\ (n # 0 => n \in 1..m)
  OBVIOUS
<1> QED
  BY <1>1

\* So different nodes have different codes.
LEMMA CodesDiffer ==
    ASSUME TreeOK
    PROVE  \A i, j \in 1..Len(nodes) : Codes(i) = Codes(j) => i = j
<1> DEFINE T == {i \in 1..Len(nodes) :
                   \E j \in 1..Len(nodes) : Codes(i) = Codes(j) /\ i # j}
<1>1. /\ Len(nodes) \in Nat
      /\ \A i \in 2..Len(nodes) : nodes[i].parent \in 1..(i - 1)
  BY LenProperties DEF TreeOK, ParentsOK
<1>2. ASSUME T # {} PROVE FALSE
  <2>1. T \in SUBSET Nat
    BY <1>1
  <2>2. PICK i \in T : \A k \in T : i <= k
    BY <1>2, <2>1, LeastNat
  <2>3. i \in 1..Len(nodes)
    BY <2>2
  <2>4. PICK j \in 1..Len(nodes) : Codes(i) = Codes(j) /\ i # j
    BY <2>2
  <2> HIDE DEF T
  <2>5. PICK n \in Nat :
             /\ DOMAIN Codes(i) = 1..n
             /\ i = 1 <=> n = 0
             /\ i # 1 => /\ DOMAIN Codes(nodes[i].parent) = 1..(n - 1)
                         /\ \A k \in 1..(n - 1) : Codes(i)[k] = Codes(nodes[i].parent)[k]
                         /\ Codes(i)[n] = nodes[i].machine
    BY <2>3, CodesClimb
  <2>6. PICK m \in Nat :
             /\ DOMAIN Codes(j) = 1..m
             /\ j = 1 <=> m = 0
             /\ j # 1 => /\ DOMAIN Codes(nodes[j].parent) = 1..(m - 1)
                         /\ \A k \in 1..(m - 1) : Codes(j)[k] = Codes(nodes[j].parent)[k]
                         /\ Codes(j)[m] = nodes[j].machine
    BY CodesClimb
  <2>7. m = n
    BY <2>4, <2>5, <2>6, SameInterval
  <2>8. i # 1 /\ j # 1
    BY <2>4, <2>5, <2>6, <2>7
  <2>9. nodes[i].machine = nodes[j].machine
    BY <2>4, <2>5, <2>6, <2>7, <2>8
  <2>10. Codes(nodes[i].parent) = Codes(nodes[j].parent)
    <3>1. \A k \in 1..(n - 1) : Codes(nodes[i].parent)[k] = Codes(nodes[j].parent)[k]
      BY <2>4, <2>5, <2>6, <2>7, <2>8
    <3>2. \A p : Codes(p) = [k \in DOMAIN Codes(p) |-> Codes(p)[k]]
      BY DEF Codes
    <3> DEFINE a == Codes(nodes[i].parent)
               b == Codes(nodes[j].parent)
    <3>3. a = [k \in DOMAIN a |-> a[k]] /\ b = [k \in DOMAIN b |-> b[k]]
      BY <3>2
    <3>4. DOMAIN a = 1..(n - 1) /\ DOMAIN b = 1..(n - 1)
      BY <2>5, <2>6, <2>7, <2>8
    <3>5. \A k \in 1..(n - 1) : a[k] = b[k]
      BY <3>1
    <3> HIDE DEF a, b
    <3>6. a = b
      BY <3>3, <3>4, <3>5
    <3> QED
      BY <3>6 DEF a, b
  <2>11. /\ nodes[i].parent \in 1..Len(nodes) /\ nodes[j].parent \in 1..Len(nodes)
         /\ nodes[i].parent \in Nat /\ nodes[i].parent < i
    BY <1>1, <2>3, <2>8
  <2>12. nodes[i].parent = nodes[j].parent
    <3>1. nodes[i].parent \notin T
      BY <2>2, <2>11, <1>1, <2>3
    <3> QED
      BY <2>10, <2>11, <3>1 DEF T
  <2>13. i \in 2..Len(nodes) /\ j \in 2..Len(nodes)
    BY <1>1, <2>3, <2>8
  <2> QED
    BY <2>4, <2>9, <2>12, <2>13 DEF TreeOK, NumbersOK
<1> QED
  BY <1>2

\* produce gives every URL the codes and flags of a node of its name.
LEMMA ProduceMaps ==
    ASSUME TreeOK, Produce
    PROVE  /\ DOMAIN urls' = {Path(i) : i \in 1..Len(nodes)}
           /\ \A u \in DOMAIN urls' : \E i \in 1..Len(nodes) :
                Path(i) = u /\ urls'[u] = [codes |-> Codes(i), flags |-> nodes[i].flags]
<1> DEFINE n == Len(nodes)
           path == [i \in 1..n |-> Path(i)]
           order == [i \in 1..n |-> i]
           first(u) == SelectInSeq(order, LAMBDA j : path[j] = u)
<1>1. n \in Nat
  BY LenProperties DEF TreeOK, ParentsOK
<1>2. Chain = order
  BY ChainIsOrdered DEF ChainIsComplete
<1>3. order \in Seq(Nat) /\ Len(order) = n /\ \A i \in 1..n : order[i] = i
  BY <1>1
<1>4. ToSet(order) = 1..n
  BY DEF ToSet
<1>5. urls' = [u \in {path[i] : i \in 1..n} |->
                 [codes |-> Codes(order[first(u)]), flags |-> nodes[order[first(u)]].flags]]
  BY <1>2, <1>4 DEF Produce
<1>6. ASSUME NEW u \in {path[i] : i \in 1..n}
      PROVE  first(u) \in 1..n /\ path[first(u)] = u /\ order[first(u)] = first(u)
  <2> DEFINE I == {k \in 1..Len(order) : path[order[k]] = u}
  <2>1. first(u) = IF I # {} THEN Min(I) ELSE 0
    BY DEF SelectInSeq
  <2>2. I = {k \in 1..n : path[k] = u}
    BY <1>3
  <2> HIDE DEF I, path, order
  <2>3. I # {} /\ I \in SUBSET Nat
    BY <1>1, <2>2
  <2>4. Min(I) \in I
    BY <2>3, MinIsLeast
  <2> QED
    BY <1>3, <2>1, <2>2, <2>3, <2>4
<1>7. {path[i] : i \in 1..n} = {Path(i) : i \in 1..n} /\ \A i \in 1..n : path[i] = Path(i)
  OBVIOUS
<1> HIDE DEF path, order, first, n
<1>8. DOMAIN urls' = {Path(i) : i \in 1..n}
  BY <1>5, <1>7
<1>9. ASSUME NEW u \in DOMAIN urls'
      PROVE  \E i \in 1..n : Path(i) = u /\ urls'[u] = [codes |-> Codes(i), flags |-> nodes[i].flags]
  <2>1. u \in {path[i] : i \in 1..n}
    BY <1>5
  <2>2. urls'[u] = [codes |-> Codes(order[first(u)]), flags |-> nodes[order[first(u)]].flags]
    BY <1>5, <2>1
  <2>3. first(u) \in 1..n /\ Path(first(u)) = u /\ order[first(u)] = first(u)
    BY <1>6, <1>7, <2>1
  <2> QED
    BY <2>2, <2>3
<1> QED
  BY <1>8, <1>9 DEF n

\* So two URLs with the same codes are of the same node.
LEMMA ProduceIdentifies ==
    ASSUME TreeOK, Produce PROVE CodesIdentifyUrls'
<1>1. \A u \in DOMAIN urls' : \E i \in 1..Len(nodes) :
        Path(i) = u /\ urls'[u] = [codes |-> Codes(i), flags |-> nodes[i].flags]
  BY ProduceMaps
<1>2. ASSUME NEW u \in DOMAIN urls', NEW v \in DOMAIN urls', urls'[u].codes = urls'[v].codes
      PROVE  u = v
  <2>1. PICK i \in 1..Len(nodes) :
          Path(i) = u /\ urls'[u] = [codes |-> Codes(i), flags |-> nodes[i].flags]
    BY <1>1
  <2>2. PICK j \in 1..Len(nodes) :
          Path(j) = v /\ urls'[v] = [codes |-> Codes(j), flags |-> nodes[j].flags]
    BY <1>1
  <2>3. i = j
    BY <1>2, <2>1, <2>2, CodesDiffer
  <2> QED
    BY <2>1, <2>2, <2>3
<1> QED
  BY <1>2 DEF CodesIdentifyUrls

-----------------------------------------------------------------------------
(***************************************************************************)
(* The theorems of the tree.                                               *)
(***************************************************************************)
TreeInv == TreeOK /\ CodesIdentifyUrls

\* The invariant holds of the root, whose URL is not produced yet.
LEMMA TreeInvInit == Init => TreeInv
<1>1. Init => CodesIdentifyUrls
  <2>1. Init => DOMAIN urls = {}
    BY DEF Init
  <2> QED
    BY <2>1 DEF CodesIdentifyUrls
<1> QED
  BY <1>1, TreeInit DEF TreeInv

\* Only produce changes the URLs.
LEMMA TreeInvStep == TreeInv /\ [TreeStep]_vars => TreeInv'
<1> SUFFICES ASSUME TreeInv, [TreeStep]_vars PROVE TreeInv'
  OBVIOUS
<1>1. TreeOK'
  BY TreeStays DEF TreeInv
<1>2. Produce \/ urls' = urls
  BY DEF TreeStep, ProduceAll, newChild, NewChild, NewChildExists, vars
<1>3. CodesIdentifyUrls'
  BY <1>2, ProduceIdentifies DEF TreeInv, CodesIdentifyUrls
<1> QED
  BY <1>1, <1>3 DEF TreeInv

\* Any tree that newChild grows, whatever the names, is chained completely
\* (MapNode.cpp, MapTree.cpp:18).
THEOREM AnyChainIsComplete == TreeSpec => []ChainIsComplete
<1>1. TreeInv => ChainIsComplete
  BY ChainIsOrdered DEF TreeInv
<1> QED
  BY <1>1, TreeInvInit, TreeInvStep, PTL DEF TreeSpec

\* In any such tree two URLs differ in their codes (URLFactory.cpp:27-92).
THEOREM AnyCodesIdentify == TreeSpec => []CodesIdentifyUrls
<1>1. TreeInv => CodesIdentifyUrls
  BY DEF TreeInv
<1> QED
  BY <1>1, TreeInvInit, TreeInvStep, PTL DEF TreeSpec

\* The start-up of the program does nothing else to its tree.
LEMMA StartUpGrowsATree == DSpec => TreeSpec
<1>1. DInit => Init
  BY DEF DInit
<1>2. [DNext]_allVars => [TreeStep]_vars
  <2> SUFFICES ASSUME [DNext]_allVars PROVE [TreeStep]_vars
    OBVIOUS
  <2>1. CASE Grow
    BY <2>1 DEF Grow, TreeStep
  <2>2. CASE Map
    BY <2>2 DEF Map, TreeStep
  <2>3. CASE openSysNode \/ loadNode \/ newModule \/ newControlProcess
    BY <2>3 DEF openSysNode, loadNode, newModule, newControlProcess, TreeStep
  <2>4. CASE Started \/ UNCHANGED allVars
    BY <2>4 DEF Started, allVars
  <2> QED
    BY <2>1, <2>2, <2>3, <2>4 DEF DNext
<1> QED
  BY <1>1, <1>2, PTL DEF DSpec, TreeSpec

\* So the program's own chain is complete, at every moment of the start-up
\* (MappingBuilder.cpp, MapTree.cpp:18).
THEOREM ChainOfTheProgram == DSpec => []ChainIsComplete
BY StartUpGrowsATree, AnyChainIsComplete, PTL

\* And its URLs are told apart (MappingBuilder.cpp, URLFactory.cpp:27-92).
THEOREM CodesOfTheProgram == DSpec => []CodesIdentifyUrls
BY StartUpGrowsATree, AnyCodesIdentify, PTL

-----------------------------------------------------------------------------
(***************************************************************************)
(* What build names, and how it numbers it: the children of a node have the *)
(* numbers of their places in Names, as the blocks of build list them in   *)
(* that order.                                                             *)
(***************************************************************************)
\* The children that a node of the tree is to get, by its path
ParamNames == <<"desc", "sp", "kp", "ki", "kd", "ts">>
Names(parent) ==
    CASE parent = <<>> -> <<"device", "process">>
      [] parent = <<"device">> -> moduleList
      [] parent = <<"process">> -> [p \in 1..Len(processList) |-> processList[p][1]]
      [] Len(parent) = 2 /\ parent[1] = "device" -> Cached
      [] OTHER -> ParamNames

\* A process has parameters if its class is a PIDProcess (addProc).
HasParams(p) == processList[p][2] \in PIDProcesses

\* The node that a module does not have, by its place
Inactive == <<"none", "element", "pump">>

\* The modules, the processes and the blocks of build are so many, and no two
\* of a name.
LEMMA ListsAre ==
    /\ Len(moduleList) = 3 /\ Len(processList) = 18 /\ Len(trees) = 23
    /\ \A m, n \in 1..3 : moduleList[m] = moduleList[n] => m = n
    /\ \A p, q \in 1..18 : processList[p][1] = processList[q][1] => p = q
<1>1. Len(moduleList) = 3 /\ Len(processList) = 18 /\ Len(trees) = 23
  BY DEF moduleList, processList, trees
<1>2. \A m, n \in 1..3 : moduleList[m] = moduleList[n] => m = n
  BY DEF moduleList
<1>3. \A p, q \in 1..18 : processList[p][1] = processList[q][1] => p = q
  BY DEF processList
<1> QED
  BY <1>1, <1>2, <1>3

\* The blocks of build, by the place of their module or process
LEMMA Blocks ==
    /\ trees[1] = <<Child(<<>>, "device", {})>>
    /\ trees[5] = <<Child(<<>>, "process", {})>>
    /\ \A m \in 1..3 : trees[m + 1] = ModuleTree(moduleList[m], Inactive[m])
    /\ \A p \in 1..18 :
         trees[p + 5] = IF HasParams(p) THEN WithParams(processList[p][1])
                        ELSE Runnable(processList[p][1])
<1>1. trees[1] = <<Child(<<>>, "device", {})>> /\ trees[5] = <<Child(<<>>, "process", {})>>
  BY DEF trees
<1>2. \A m \in 1..3 : trees[m + 1] = ModuleTree(moduleList[m], Inactive[m])
  BY DEF trees, moduleList, Inactive
<1>3. \A p \in 1..18 :
         trees[p + 5] = IF HasParams(p) THEN WithParams(processList[p][1])
                        ELSE Runnable(processList[p][1])
  <2> DEFINE Bare == {1, 4, 5, 8, 11, 13, 17}
  <2>1. \A p \in 1..18 : HasParams(p) <=> p \notin Bare
    BY DEF processList, HasParams, PIDProcesses
  <2>2. \A p \in 1..18 :
          trees[p + 5] = IF p \notin Bare THEN WithParams(processList[p][1])
                         ELSE Runnable(processList[p][1])
    BY SMTT(30) DEF trees, processList
  <2> QED
    BY <2>1, <2>2
<1> QED
  BY <1>1, <1>2, <1>3

\* The names of the tree
AllNames ==
    {"device", "process"} \cup {moduleList[m] : m \in 1..3}
    \cup {Cached[c] : c \in 1..4} \cup {processList[p][1] : p \in 1..18}
    \cup {ParamNames[c] : c \in 1..6}
Entries == [parent : Seq(AllNames), name : AllNames, flags : SUBSET Flags]

\* The nodes of a module that are not active, and the description of a process,
\* are flagged otherwise.
ModuleFlags(m, c) == IF Cached[c] = Inactive[m] THEN {} ELSE {"read"}
ParamFlags(c) == IF ParamNames[c] = "desc" THEN {"read"} ELSE {"read", "write"}

\* The block of a module: itself, and its four nodes
LEMMA ModuleTreeIs ==
    ASSUME NEW m \in 1..3
    PROVE  /\ trees[m + 1] \in Seq(Entries) /\ Len(trees[m + 1]) = 5
           /\ trees[m + 1][1] = Child(<<"device">>, moduleList[m], {})
           /\ \A c \in 1..4 :
                trees[m + 1][c + 1] = Child(<<"device", moduleList[m]>>, Cached[c], ModuleFlags(m, c))
<1> DEFINE x == Child(<<"device">>, moduleList[m], {})
           s == [c \in 1..4 |-> Child(<<"device", moduleList[m]>>, Cached[c], ModuleFlags(m, c))]
<1>1. trees[m + 1] = <<x>> \o s
  BY Blocks DEF ModuleTree, Cached, ModuleFlags
<1>2. moduleList[m] \in AllNames /\ "device" \in AllNames /\ \A c \in 1..4 : Cached[c] \in AllNames
  BY DEF AllNames
<1>3. x \in Entries
  BY <1>2 DEF Child, Entries, Flags
<1>4. s \in Seq(Entries) /\ Len(s) = 4
  <2>1. <<"device", moduleList[m]>> \in Seq(AllNames)
    BY <1>2
  <2>2. \A c \in 1..4 : ModuleFlags(m, c) \in SUBSET Flags
    BY DEF ModuleFlags, Flags
  <2>3. \A c \in 1..4 : Child(<<"device", moduleList[m]>>, Cached[c], ModuleFlags(m, c)) \in Entries
    BY <1>2, <2>1, <2>2 DEF Child, Entries
  <2> QED
    BY <2>3
<1>5. \A c \in 1..4 : s[c] = Child(<<"device", moduleList[m]>>, Cached[c], ModuleFlags(m, c))
  OBVIOUS
<1> HIDE DEF x, s
<1> DEFINE one == <<x>>
<1>6. one \in Seq(Entries) /\ Len(one) = 1 /\ one[1] = x
  BY <1>3
<1> HIDE DEF one
<1>7. one \in Seq(Entries) /\ s \in Seq(Entries) /\ Len(one) = 1
  BY <1>4, <1>6
<1>8. /\ one \o s \in Seq(Entries) /\ Len(one \o s) = Len(s) + 1
      /\ (one \o s)[1] = one[1]
      /\ \A k \in 1..Len(s) : (one \o s)[k + 1] = s[k]
  BY <1>7, Prefixed
<1> QED
  BY <1>1, <1>4, <1>5, <1>6, <1>8 DEF x, one

\* The block of a process: itself, and its parameters if it has any
LEMMA ProcessTreeIs ==
    ASSUME NEW p \in 1..18
    PROVE  /\ trees[p + 5] \in Seq(Entries)
           /\ Len(trees[p + 5]) = IF HasParams(p) THEN 7 ELSE 1
           /\ trees[p + 5][1] = Child(<<"process">>, processList[p][1], {"run"})
           /\ HasParams(p) =>
                \A c \in 1..6 :
                  trees[p + 5][c + 1] =
                    Child(<<"process", processList[p][1]>>, ParamNames[c], ParamFlags(c))
<1> DEFINE name == processList[p][1]
           x == Child(<<"process">>, name, {"run"})
           s == [c \in 1..6 |-> Child(<<"process", name>>, ParamNames[c], ParamFlags(c))]
<1>1. name \in AllNames /\ "process" \in AllNames
  BY DEF AllNames
<1>2. x \in Entries
  BY <1>1 DEF Child, Entries, Flags
<1>3. CASE ~HasParams(p)
  <2>1. trees[p + 5] = <<x>>
    BY <1>3, Blocks DEF Runnable
  <2> HIDE DEF x
  <2>2. <<x>> \in Seq(Entries) /\ Len(<<x>>) = 1 /\ <<x>>[1] = x
    BY <1>2
  <2> QED
    BY <1>3, <2>1, <2>2 DEF x
<1>4. CASE HasParams(p)
  <2>1. trees[p + 5] = <<x>> \o s
    BY <1>4, Blocks DEF WithParams, Runnable, ParamNames, ParamFlags
  <2>2. \A c \in 1..6 : ParamNames[c] \in AllNames
    BY DEF AllNames
  <2>3. s \in Seq(Entries) /\ Len(s) = 6
    <3>1. <<"process", name>> \in Seq(AllNames)
      BY <1>1
    <3>2. \A c \in 1..6 : ParamFlags(c) \in SUBSET Flags
      BY DEF ParamFlags, Flags
    <3>3. ASSUME NEW c \in 1..6
          PROVE  Child(<<"process", name>>, ParamNames[c], ParamFlags(c)) \in Entries
      <4>1. ParamNames[c] \in AllNames /\ ParamFlags(c) \in SUBSET Flags
        BY <2>2, <3>2
      <4> QED
        BY <3>1, <4>1 DEF Child, Entries
    <3> QED
      BY <3>3
  <2>4. \A c \in 1..6 : s[c] = Child(<<"process", name>>, ParamNames[c], ParamFlags(c))
    OBVIOUS
  <2> HIDE DEF x, s
  <2> DEFINE one == <<x>>
  <2>5. one \in Seq(Entries) /\ Len(one) = 1 /\ one[1] = x
    BY <1>2
  <2> HIDE DEF one
  <2>6. one \in Seq(Entries) /\ s \in Seq(Entries) /\ Len(one) = 1
    BY <2>3, <2>5
  <2>7. /\ one \o s \in Seq(Entries) /\ Len(one \o s) = Len(s) + 1
        /\ (one \o s)[1] = one[1]
        /\ \A k \in 1..Len(s) : (one \o s)[k + 1] = s[k]
    BY <2>6, Prefixed
  <2> QED
    BY <1>4, <2>1, <2>3, <2>4, <2>5, <2>7 DEF x, one
<1> QED
  BY <1>3, <1>4

\* The number of an entry among the children of its parent
Number(c) == CHOOSE n \in DOMAIN Names(c.parent) : Names(c.parent)[n] = c.name

\* How many nodes are in a block
Size(b) == Len(trees[b])

\* The first entry of a block and its number, and the parent of the others
RootParent(b) == IF b \in {1, 5} THEN <<>> ELSE IF b < 5 THEN <<"device">> ELSE <<"process">>
LeafParent(b) == IF b < 5 THEN <<"device", moduleList[b - 1]>>
                 ELSE <<"process", processList[b - 5][1]>>
RootNumber(b) == IF b = 1 THEN 1 ELSE IF b = 5 THEN 2 ELSE IF b < 5 THEN b - 1 ELSE b - 5

\* The names of the children of a module, and of a process, are numbered alike.
LEMMA ListNames ==
    /\ Names(<<>>) = <<"device", "process">>
    /\ Names(<<"device">>) = moduleList
    /\ Names(<<"process">>) = [p \in 1..18 |-> processList[p][1]]
    /\ \A x : Names(<<"device", x>>) = Cached
    /\ \A x : Names(<<"process", x>>) = ParamNames
BY ListsAre DEF Names

\* A name is numbered by its place.
LEMMA NumberIs ==
    ASSUME NEW c, NEW n \in DOMAIN Names(c.parent), Names(c.parent)[n] = c.name,
           \A i, j \in DOMAIN Names(c.parent) : Names(c.parent)[i] = Names(c.parent)[j] => i = j
    PROVE  Number(c) = n
BY DEF Number

\* The first entry of each block
LEMMA RootsAre ==
    ASSUME NEW b \in 1..23
    PROVE  /\ trees[b] \in Seq(Entries) /\ Size(b) \in {1, 5, 7}
           /\ b \in {1, 5} => Size(b) = 1
           /\ trees[b][1].parent = RootParent(b)
           /\ Number(trees[b][1]) = RootNumber(b)
           /\ Names(RootParent(b))[RootNumber(b)] = trees[b][1].name
<1>1. CASE b \in {1, 5}
  <2> DEFINE c == trees[b][1]
             pair == <<"device", "process">>
  <2>1. /\ Len(trees[b]) = 1 /\ trees[b] = <<c>>
        /\ c = Child(<<>>, IF b = 1 THEN "device" ELSE "process", {})
    <3>1. CASE b = 1
      BY <3>1, Blocks
    <3>2. CASE b = 5
      BY <3>2, Blocks
    <3> QED
      BY <1>1, <3>1, <3>2
  <2>2. c \in Entries
    <3>1. "device" \in AllNames /\ "process" \in AllNames
      BY DEF AllNames
    <3> QED
      BY <1>1, <2>1, <3>1 DEF Child, Entries
  <2>3. Names(c.parent) = pair /\ RootParent(b) = <<>> /\ c.parent = <<>>
    BY <1>1, <2>1, ListNames DEF Child, RootParent
  <2>4. /\ RootNumber(b) \in DOMAIN pair /\ pair[RootNumber(b)] = c.name
        /\ \A i, j \in DOMAIN pair : pair[i] = pair[j] => i = j
    BY <1>1, <2>1 DEF Child, RootNumber
  <2> HIDE DEF c, pair
  <2>5. Number(c) = RootNumber(b)
    BY <2>3, <2>4, NumberIs
  <2>6. <<c>> \in Seq(Entries)
    BY <2>2
  <2> QED
    BY <2>1, <2>3, <2>4, <2>5, <2>6 DEF c, Size
<1>2. CASE b \in 2..4
  <2> DEFINE m == b - 1
             c == trees[b][1]
  <2>1. m \in 1..3 /\ b = m + 1 /\ b \notin {1, 5} /\ b < 5
    BY <1>2
  <2> HIDE DEF m
  <2>2. trees[b] \in Seq(Entries) /\ Len(trees[b]) = 5
    BY <2>1, ModuleTreeIs
  <2>3. c = Child(<<"device">>, moduleList[m], {})
    BY <2>1, ModuleTreeIs
  <2> HIDE DEF c
  <2>4. Names(c.parent) = moduleList /\ RootParent(b) = <<"device">> /\ c.parent = <<"device">>
        /\ RootNumber(b) = m
    BY <2>1, <2>3, ListNames DEF Child, RootParent, RootNumber
  <2>5. /\ m \in DOMAIN moduleList /\ moduleList[m] = c.name
        /\ \A i, j \in DOMAIN moduleList : moduleList[i] = moduleList[j] => i = j
    BY <2>1, <2>3 DEF Child, moduleList
  <2>6. Number(c) = m
    BY <2>4, <2>5, NumberIs
  <2> QED
    BY <2>1, <2>2, <2>4, <2>5, <2>6 DEF c, Size
<1>3. CASE b \in 6..23
  <2> DEFINE p == b - 5
             c == trees[b][1]
             names == [q \in 1..18 |-> processList[q][1]]
  <2>1. p \in 1..18 /\ b = p + 5 /\ b \notin {1, 5} /\ ~(b < 5)
    BY <1>3
  <2> HIDE DEF p
  <2>2. trees[b] \in Seq(Entries) /\ Len(trees[b]) \in {1, 7}
    BY <2>1, ProcessTreeIs
  <2>3. c = Child(<<"process">>, processList[p][1], {"run"})
    BY <2>1, ProcessTreeIs
  <2> HIDE DEF c
  <2>4. Names(c.parent) = names /\ RootParent(b) = <<"process">> /\ c.parent = <<"process">>
        /\ RootNumber(b) = p
    BY <2>1, <2>3, ListNames DEF Child, RootParent, RootNumber
  <2>5. /\ p \in DOMAIN names /\ names[p] = c.name
        /\ \A i, j \in DOMAIN names : names[i] = names[j] => i = j
    BY <2>1, <2>3, ListsAre DEF Child
  <2> HIDE DEF names
  <2>6. Number(c) = p
    BY <2>4, <2>5, NumberIs
  <2> QED
    BY <2>1, <2>2, <2>4, <2>5, <2>6 DEF c, Size
<1> QED
  BY <1>1, <1>2, <1>3

\* The other entries of each block: children of the first
LEMMA LeavesAre ==
    ASSUME NEW b \in 1..23, NEW r \in 2..Size(b)
    PROVE  /\ b \notin {1, 5}
           /\ trees[b][r].parent = LeafParent(b)
           /\ Number(trees[b][r]) = r - 1
           /\ Names(LeafParent(b))[r - 1] = trees[b][r].name
<1>1. b \notin {1, 5}
  <2>1. b \in {1, 5} => Size(b) = 1
    BY RootsAre, Zenon
  <2>2. Size(b) # 1
    OBVIOUS
  <2> QED
    BY <2>1, <2>2, Zenon
<1>2. CASE b \in 2..4
  <2> DEFINE m == b - 1
             c == trees[b][r]
             k == r - 1
  <2>1. m \in 1..3 /\ b = m + 1 /\ b < 5
    BY <1>2
  <2> HIDE DEF m
  <2>2. k \in 1..4 /\ r = k + 1
    <3>1. Size(b) = 5
      BY <2>1, ModuleTreeIs DEF Size
    <3> QED
      BY <3>1
  <2> HIDE DEF k
  <2>3. c = Child(<<"device", moduleList[m]>>, Cached[k], ModuleFlags(m, k))
    BY <2>1, <2>2, ModuleTreeIs
  <2> HIDE DEF c
  <2>4. /\ c.parent = <<"device", moduleList[m]>> /\ LeafParent(b) = <<"device", moduleList[m]>>
        /\ c.name = Cached[k]
    BY <2>1, <2>3 DEF Child, LeafParent, m
  <2>5. Names(c.parent) = Cached
    BY <2>4, ListNames
  <2>6. /\ k \in DOMAIN Cached
        /\ \A i, j \in DOMAIN Cached : Cached[i] = Cached[j] => i = j
    BY <2>2 DEF Cached
  <2>7. Number(c) = k
    BY <2>4, <2>5, <2>6, NumberIs
  <2> QED
    BY <1>1, <2>4, <2>5, <2>7 DEF c, k
<1>3. CASE b \in 6..23
  <2> DEFINE p == b - 5
             c == trees[b][r]
             k == r - 1
  <2>1. p \in 1..18 /\ b = p + 5 /\ ~(b < 5)
    BY <1>3
  <2> HIDE DEF p
  <2>2. k \in 1..6 /\ r = k + 1 /\ HasParams(p)
    <3>1. Size(b) = IF HasParams(p) THEN 7 ELSE 1
      BY <2>1, ProcessTreeIs DEF Size
    <3> QED
      BY <3>1
  <2> HIDE DEF k
  <2>3. c = Child(<<"process", processList[p][1]>>, ParamNames[k], ParamFlags(k))
    BY <2>1, <2>2, ProcessTreeIs
  <2> HIDE DEF c
  <2>4. /\ c.parent = <<"process", processList[p][1]>>
        /\ LeafParent(b) = <<"process", processList[p][1]>>
        /\ c.name = ParamNames[k]
    BY <2>1, <2>3 DEF Child, LeafParent, p
  <2>5. Names(c.parent) = ParamNames
    BY <2>4, ListNames
  <2>6. /\ k \in DOMAIN ParamNames
        /\ \A i, j \in DOMAIN ParamNames : ParamNames[i] = ParamNames[j] => i = j
    BY <2>2 DEF ParamNames
  <2>7. Number(c) = k
    BY <2>4, <2>5, <2>6, NumberIs
  <2> QED
    BY <1>1, <2>4, <2>5, <2>7 DEF c, k
<1> QED
  BY <1>1, <1>2, <1>3

\* An entry's block and place in it come before another's.
Before(c, s, b, r) == c < b \/ (c = b /\ s < r)

\* No block is empty.
LEMMA BlockLengths ==
    \A b \in 1..23 : Size(b) \in Nat /\ Size(b) >= 1
<1> SUFFICES ASSUME NEW b \in 1..23 PROVE Size(b) \in Nat /\ Size(b) >= 1
  OBVIOUS
<1>1. Size(b) \in {1, 5, 7}
  BY RootsAre, Zenon
<1> QED
  BY <1>1

\* Of two children of one parent the later has the greater number.
LEMMA SiblingsAreOrdered ==
    ASSUME NEW b \in 1..23, NEW r \in 1..Size(b),
           NEW c \in 1..23, NEW s \in 1..Size(c),
           trees[c][s].parent = trees[b][r].parent, Before(c, s, b, r)
    PROVE  Number(trees[c][s]) < Number(trees[b][r])
<1>1. b \in Nat /\ c \in Nat /\ Size(b) \in Nat /\ Size(c) \in Nat
  BY BlockLengths
<1>2. CASE r = 1 /\ s = 1
  <2>1. RootParent(b) = RootParent(c) /\ c < b
    <3>1. trees[b][1].parent = RootParent(b) /\ trees[c][1].parent = RootParent(c)
      BY RootsAre, Zenon
    <3> QED
      BY <1>2, <3>1 DEF Before
  <2>2. RootNumber(c) < RootNumber(b)
    BY <2>1 DEF RootParent, RootNumber
  <2>3. Number(trees[b][1]) = RootNumber(b) /\ Number(trees[c][1]) = RootNumber(c)
    BY RootsAre, Zenon
  <2> QED
    BY <1>2, <2>2, <2>3
<1>3. CASE r # 1 /\ s # 1
  <2>1. r \in 2..Size(b) /\ s \in 2..Size(c)
    BY <1>1, <1>3
  <2>2. LeafParent(b) = LeafParent(c) /\ b \notin {1, 5} /\ c \notin {1, 5}
    <3>1. trees[b][r].parent = LeafParent(b) /\ b \notin {1, 5}
      BY <2>1, LeavesAre, Zenon
    <3>2. trees[c][s].parent = LeafParent(c) /\ c \notin {1, 5}
      BY <2>1, LeavesAre, Zenon
    <3> QED
      BY <3>1, <3>2
  <2>3. b = c
    <3>1. CASE b < 5 /\ c < 5
      <4>1. b - 1 \in 1..3 /\ c - 1 \in 1..3
        BY <2>2, <3>1
      <4>2. moduleList[b - 1] = moduleList[c - 1]
        BY <2>2, <3>1 DEF LeafParent
      <4> QED
        BY <4>1, <4>2, ListsAre
    <3>2. CASE ~(b < 5) /\ ~(c < 5)
      <4>1. b - 5 \in 1..18 /\ c - 5 \in 1..18
        BY <2>2, <3>2
      <4>2. processList[b - 5][1] = processList[c - 5][1]
        BY <2>2, <3>2 DEF LeafParent
      <4>3. b - 5 = c - 5
        BY <4>1, <4>2, ListsAre
      <4> QED
        BY <4>3
    <3>3. ~(b < 5 /\ ~(c < 5)) /\ ~(~(b < 5) /\ c < 5)
      BY <2>2 DEF LeafParent
    <3> QED
      BY <3>1, <3>2, <3>3
  <2>4. s < r
    BY <2>3 DEF Before
  <2>5. Number(trees[b][r]) = r - 1 /\ Number(trees[c][s]) = s - 1
    BY <2>1, LeavesAre, Zenon
  <2> QED
    BY <1>1, <2>4, <2>5
<1>4. CASE r # 1 /\ s = 1
  <2>1. r \in 2..Size(b)
    BY <1>1, <1>4
  <2>2. LeafParent(b) = RootParent(c)
    <3>1. trees[b][r].parent = LeafParent(b)
      BY <2>1, LeavesAre, Zenon
    <3>2. trees[c][1].parent = RootParent(c)
      BY RootsAre, Zenon
    <3> QED
      BY <1>4, <3>1, <3>2
  <2> QED
    BY <2>2 DEF LeafParent, RootParent
<1>5. CASE r = 1 /\ s # 1
  <2>1. s \in 2..Size(c)
    BY <1>1, <1>5
  <2>2. LeafParent(c) = RootParent(b)
    <3>1. trees[c][s].parent = LeafParent(c)
      BY <2>1, LeavesAre, Zenon
    <3>2. trees[b][1].parent = RootParent(b)
      BY RootsAre, Zenon
    <3> QED
      BY <1>5, <3>1, <3>2
  <2> QED
    BY <2>2 DEF LeafParent, RootParent
<1> QED
  BY <1>2, <1>3, <1>4, <1>5

\* A child with a number greater than 1 has one before it.
LEMMA SiblingBefore ==
    ASSUME NEW b \in 1..23, NEW r \in 1..Size(b), Number(trees[b][r]) # 1
    PROVE  \E c \in 1..23 : \E s \in 1..Size(c) :
             /\ trees[c][s].parent = trees[b][r].parent /\ Before(c, s, b, r)
             /\ Number(trees[c][s]) = Number(trees[b][r]) - 1
<1>1. Size(b) \in Nat
  BY BlockLengths
<1>2. CASE r = 1
  <2>1. Number(trees[b][1]) = RootNumber(b) /\ trees[b][1].parent = RootParent(b)
    BY RootsAre
  <2> DEFINE c == IF b = 5 THEN 1 ELSE b - 1
  <2>2. c \in 1..23 /\ c < b /\ RootParent(c) = RootParent(b) /\ RootNumber(c) = RootNumber(b) - 1
    BY <1>2, <2>1 DEF RootParent, RootNumber
  <2> HIDE DEF c
  <2>3. /\ Number(trees[c][1]) = RootNumber(c) /\ trees[c][1].parent = RootParent(c)
    BY <2>2, RootsAre, Zenon
  <2>4. 1 \in 1..Size(c)
    BY <2>2, BlockLengths
  <2> QED
    BY <1>2, <2>1, <2>2, <2>3, <2>4 DEF Before
<1>3. CASE r # 1
  <2>1. r \in 2..Size(b) /\ r - 1 \in 1..Size(b)
    BY <1>1, <1>3
  <2>2. Number(trees[b][r]) = r - 1 /\ trees[b][r].parent = LeafParent(b)
    BY <2>1, LeavesAre, Zenon
  <2>3. r - 1 \in 2..Size(b)
    BY <2>1, <2>2
  <2>4. Number(trees[b][r - 1]) = (r - 1) - 1 /\ trees[b][r - 1].parent = LeafParent(b)
    BY <2>3, LeavesAre, Zenon
  <2> QED
    BY <2>1, <2>2, <2>4 DEF Before
<1> QED
  BY <1>2, <1>3

-----------------------------------------------------------------------------
(***************************************************************************)
(* Where the blocks are in build, and so in which order its entries come.  *)
(***************************************************************************)
\* Where the blocks are in build, and so what its entries are.
LEMMA BuildPlaces ==
    /\ build \in Seq(Entries)
    /\ \E offset \in [1..23 -> Nat] :
         /\ \A b \in 1..23 : \A r \in 1..Size(b) :
              offset[b] + r \in 1..Len(build) /\ build[offset[b] + r] = trees[b][r]
         /\ \A k \in 1..Len(build) : \E b \in 1..23 : \E r \in 1..Size(b) : k = offset[b] + r
         /\ \A b, c \in 1..23 : b < c => offset[b] + Size(b) <= offset[c]
<1>1. trees \in Seq(Seq(Entries)) /\ Len(trees) = 23 /\ Len(trees) >= 1
  <2>1. \A b \in 1..23 : trees[b] \in Seq(Entries)
    BY RootsAre, Zenon
  <2>2. trees = [b \in 1..23 |-> trees[b]]
    BY DEF trees
  <2>3. Len(trees) = 23
    BY ListsAre
  <2>6. Len(trees) >= 1
    BY DEF trees
  <2> DEFINE t == trees
  <2> HIDE DEF t
  <2>4. t = [b \in 1..23 |-> t[b]] /\ \A b \in 1..23 : t[b] \in Seq(Entries)
    BY <2>1, <2>2 DEF t
  <2>5. t \in Seq(Seq(Entries))
    BY <2>4
  <2> QED
    BY <2>3, <2>5, <2>6 DEF t
<1>2. /\ FlattenSeq(trees) \in Seq(Entries)
      /\ \E offset \in [1..Len(trees) -> Nat] :
           Flattened(FlattenSeq(trees), trees, offset, Len(trees))
  BY <1>1, FlattenSeqPlaces, Zenon
<1>3. PICK offset \in [1..23 -> Nat] : Flattened(build, trees, offset, 23)
  BY <1>1, <1>2 DEF build
<1>4. \A b \in 1..23 : \A r \in 1..Size(b) :
        offset[b] + r \in 1..Len(build) /\ build[offset[b] + r] = trees[b][r]
  BY <1>3 DEF Flattened, PlacedAt, Size
<1>5. \A k \in 1..Len(build) : \E b \in 1..23 : \E r \in 1..Size(b) : k = offset[b] + r
  BY <1>3 DEF Flattened, Size
<1>6. \A b, c \in 1..23 : b < c => offset[b] + Size(b) <= offset[c]
  BY <1>3 DEF Flattened, Size
<1> QED
  BY <1>2, <1>4, <1>5, <1>6 DEF build

\* An entry that comes first comes from an earlier block, or earlier in its own.
LEMMA PlacesAreBefore ==
    ASSUME NEW offset \in [1..23 -> Nat],
           \A b, c \in 1..23 : b < c => offset[b] + Size(b) <= offset[c],
           NEW b \in 1..23, NEW r \in 1..Size(b), NEW c \in 1..23, NEW s \in 1..Size(c)
    PROVE  Before(c, s, b, r) <=> offset[c] + s < offset[b] + r
<1>1. /\ b \in Nat /\ c \in Nat /\ Size(b) \in Nat /\ Size(c) \in Nat
      /\ offset[b] \in Nat /\ offset[c] \in Nat
  BY BlockLengths
<1>2. CASE b = c
  BY <1>1, <1>2 DEF Before
<1>3. CASE c < b
  <2>1. offset[c] + Size(c) <= offset[b]
    BY <1>3
  <2> QED
    BY <1>1, <1>3, <2>1 DEF Before
<1>4. CASE b < c
  <2>1. offset[b] + Size(b) <= offset[c]
    BY <1>4
  <2> QED
    BY <1>1, <1>4, <2>1 DEF Before
<1> QED
  BY <1>1, <1>2, <1>3, <1>4

\* So it is in build: of two children of one parent the later has the greater
\* number, and a child with a number greater than 1 has one before it.
LEMMA BuildIsOrdered ==
    /\ \A b \in 1..23 : \A r \in 1..Size(b) : \E k \in 1..Len(build) : build[k] = trees[b][r]
    /\ \A k \in 1..Len(build) : \E b \in 1..23 : \E r \in 1..Size(b) : build[k] = trees[b][r]
    /\ \A k \in 1..Len(build) : Number(build[k]) \in Nat \ {0}
    /\ \A k \in 1..Len(build) : \A j \in 1..(k - 1) :
         build[j].parent = build[k].parent => Number(build[j]) < Number(build[k])
    /\ \A k \in 1..Len(build) :
         Number(build[k]) # 1 =>
           \E j \in 1..(k - 1) : /\ build[j].parent = build[k].parent
                                 /\ Number(build[j]) = Number(build[k]) - 1
<1> DEFINE n == Len(build)
<1> HIDE DEF n
<1>1. PICK offset \in [1..23 -> Nat] :
         /\ \A b \in 1..23 : \A r \in 1..Size(b) :
              offset[b] + r \in 1..n /\ build[offset[b] + r] = trees[b][r]
         /\ \A k \in 1..n : \E b \in 1..23 : \E r \in 1..Size(b) : k = offset[b] + r
         /\ \A b, c \in 1..23 : b < c => offset[b] + Size(b) <= offset[c]
  BY BuildPlaces DEF n
<1>2. n \in Nat
  BY BuildPlaces, LenProperties DEF n
<1>3. \A b \in 1..23 : \A r \in 1..Size(b) : \E k \in 1..n : build[k] = trees[b][r]
  BY <1>1
<1>4. ASSUME NEW k \in 1..n
      PROVE  \E b \in 1..23 : \E r \in 1..Size(b) : build[k] = trees[b][r]
  <2>1. PICK b \in 1..23 : \E r \in 1..Size(b) : k = offset[b] + r
    BY <1>1
  <2>2. PICK r \in 1..Size(b) : k = offset[b] + r
    BY <2>1
  <2>3. build[k] = trees[b][r]
    BY <1>1, <2>2
  <2> QED
    BY <2>3
<1>5. ASSUME NEW b \in 1..23, NEW r \in 1..Size(b) PROVE Number(trees[b][r]) \in Nat \ {0}
  <2>1. Size(b) \in Nat
    BY BlockLengths
  <2>2. CASE r = 1
    <3>1. Number(trees[b][1]) = RootNumber(b)
      BY RootsAre, Zenon
    <3>2. RootNumber(b) \in Nat \ {0}
      BY DEF RootNumber
    <3> QED
      BY <2>2, <3>1, <3>2
  <2>3. CASE r # 1
    <3>1. r \in 2..Size(b)
      BY <2>1, <2>3
    <3>2. Number(trees[b][r]) = r - 1
      BY <3>1, LeavesAre, Zenon
    <3> QED
      BY <2>1, <3>1, <3>2
  <2> QED
    BY <2>2, <2>3
<1>6. \A k \in 1..n : Number(build[k]) \in Nat \ {0}
  BY <1>4, <1>5, Zenon
<1>7. ASSUME NEW k \in 1..n, NEW j \in 1..(k - 1), build[j].parent = build[k].parent
      PROVE  Number(build[j]) < Number(build[k])
  <2>1. PICK b \in 1..23 : \E r \in 1..Size(b) : k = offset[b] + r
    BY <1>1
  <2>2. PICK r \in 1..Size(b) : k = offset[b] + r
    BY <2>1
  <2>3. j \in 1..n /\ j < k
    BY <1>2
  <2>4. PICK c \in 1..23 : \E s \in 1..Size(c) : j = offset[c] + s
    BY <1>1, <2>3
  <2>5. PICK s \in 1..Size(c) : j = offset[c] + s
    BY <2>4
  <2>6. Before(c, s, b, r)
    BY <1>1, <2>2, <2>3, <2>5, PlacesAreBefore
  <2>7. build[k] = trees[b][r] /\ build[j] = trees[c][s]
    BY <1>1, <2>2, <2>5
  <2> QED
    BY <1>7, <2>6, <2>7, SiblingsAreOrdered
<1>8. ASSUME NEW k \in 1..n, Number(build[k]) # 1
      PROVE  \E j \in 1..(k - 1) : /\ build[j].parent = build[k].parent
                                   /\ Number(build[j]) = Number(build[k]) - 1
  <2>1. PICK b \in 1..23 : \E r \in 1..Size(b) : k = offset[b] + r
    BY <1>1
  <2>2. PICK r \in 1..Size(b) : k = offset[b] + r
    BY <2>1
  <2>3. build[k] = trees[b][r]
    BY <1>1, <2>2
  <2>4. PICK c \in 1..23 : \E s \in 1..Size(c) :
             /\ trees[c][s].parent = trees[b][r].parent /\ Before(c, s, b, r)
             /\ Number(trees[c][s]) = Number(trees[b][r]) - 1
    BY <1>8, <2>3, SiblingBefore
  <2>8. PICK s \in 1..Size(c) :
             /\ trees[c][s].parent = trees[b][r].parent /\ Before(c, s, b, r)
             /\ Number(trees[c][s]) = Number(trees[b][r]) - 1
    BY <2>4
  <2>5. offset[c] + s < k
    BY <1>1, <2>2, <2>8, PlacesAreBefore
  <2>6. offset[c] + s \in 1..n /\ build[offset[c] + s] = trees[c][s]
    BY <1>1
  <2>7. offset[c] + s \in 1..(k - 1)
    BY <1>2, <2>5, <2>6
  <2> QED
    BY <2>3, <2>8, <2>6, <2>7
<1> QED
  BY <1>3, <1>4, <1>6, <1>7, <1>8 DEF n

-----------------------------------------------------------------------------
(***************************************************************************)
(* The paths of a tree that grows.                                         *)
(***************************************************************************)
\* The names and the codes of a node are those of its parent, and its own.
PathsClimb ==
    /\ Path(1) = <<>> /\ Codes(1) = <<>>
    /\ \A i \in 2..Len(nodes) : \A p \in 1..(i - 1) :
         p = nodes[i].parent =>
           /\ Path(i) = Append(Path(p), nodes[i].name)
           /\ Codes(i) = Append(Codes(p), nodes[i].machine)

\* They do in any tree.
LEMMA PathsDoClimb == TreeOK => PathsClimb
<1> SUFFICES ASSUME TreeOK PROVE PathsClimb
  OBVIOUS
<1>1. Path(1) = <<>> /\ Codes(1) = <<>>
  <2>1. 1 \in 1..Len(nodes)
    BY LenProperties DEF TreeOK, ParentsOK
  <2>2. Ancestry(1) = <<>>
    BY <2>1, AncestryClimbs
  <2> QED
    BY <2>2 DEF Path, Codes
<1>2. ASSUME NEW i \in 2..Len(nodes), NEW p \in 1..(i - 1), p = nodes[i].parent
      PROVE  /\ Path(i) = Append(Path(p), nodes[i].name)
             /\ Codes(i) = Append(Codes(p), nodes[i].machine)
  <2> DEFINE a == Ancestry(p)
             name == [x \in Nat |-> nodes[x].name]
             code == [x \in Nat |-> nodes[x].machine]
  <2>1. Len(nodes) \in Nat
    BY LenProperties DEF TreeOK, ParentsOK
  <2>2. p \in 1..Len(nodes) /\ i \in Nat /\ i \in 1..Len(nodes) /\ i # 1
    BY <2>1
  <2>3. a \in Seq(Nat) /\ Ancestry(i) = Append(a, i)
    BY <1>2, <2>2, AncestryClimbs
  <2>4. \A k \in 1..Len(a) : a[k] \in Nat
    BY <2>3, ElementOfSeq
  <2>5. Ancestry(i) \in Seq(Nat)
    BY <2>2, AncestryClimbs
  <2>6. \A k \in 1..Len(Ancestry(i)) : Ancestry(i)[k] \in Nat
    BY <2>5, ElementOfSeq
  <2> HIDE DEF a
  <2>7. [k \in 1..Len(Append(a, i)) |-> name[Append(a, i)[k]]] =
             Append([k \in 1..Len(a) |-> name[a[k]]], name[i])
    BY <2>2, <2>3, MapAppends
  <2>8. [k \in 1..Len(Append(a, i)) |-> code[Append(a, i)[k]]] =
             Append([k \in 1..Len(a) |-> code[a[k]]], code[i])
    BY <2>2, <2>3, MapAppends
  <2>9. Path(p) = [k \in 1..Len(a) |-> name[a[k]]] /\ Codes(p) = [k \in 1..Len(a) |-> code[a[k]]]
    BY <2>4 DEF Path, Codes, a
  <2>10. /\ Path(i) = [k \in 1..Len(Append(a, i)) |-> name[Append(a, i)[k]]]
         /\ Codes(i) = [k \in 1..Len(Append(a, i)) |-> code[Append(a, i)[k]]]
    BY <2>3, <2>6 DEF Path, Codes
  <2>11. name[i] = nodes[i].name /\ code[i] = nodes[i].machine
    BY <2>2
  <2> HIDE DEF name, code
  <2> QED
    BY <2>7, <2>8, <2>9, <2>10, <2>11
<1> QED
  BY <1>1, <1>2 DEF PathsClimb

\* A new child leaves the names of the other nodes as they are.
LEMMA PathsStay ==
    ASSUME TreeOK, NEW p \in 1..Len(nodes), NEW name, NEW flags, NewChild(p, name, flags)
    PROVE  /\ \A i \in 1..Len(nodes) : Path(i)' = Path(i)
           /\ \A i : i = Len(nodes) + 1 => Path(i)' = Append(Path(p), name)
<1> DEFINE n == Len(nodes)
           T == {i \in 1..n : Path(i)' # Path(i)}
<1>1. /\ n \in Nat /\ Len(nodes') = n + 1 /\ n >= 1
      /\ \A i \in 1..n : nodes'[i] = nodes[i]
      /\ nodes'[n + 1] = NewNode(p, name, flags)
      /\ \A i \in 2..n : nodes[i].parent \in 1..(i - 1)
  BY ParentsStep DEF TreeOK, ParentsOK
<1>2. TreeOK'
  BY ParentsStep, LinksStep, NumbersStep DEF TreeOK
<1>3. PathsClimb
  BY PathsDoClimb
<1>4. PathsClimb'
  <2>1. (TreeOK => PathsClimb)'
    BY PathsDoClimb, PTL
  <2> QED
    BY <1>2, <2>1
<1>5. /\ Path(1) = <<>>
      /\ \A i \in 2..n : \A q \in 1..(i - 1) :
           q = nodes[i].parent => Path(i) = Append(Path(q), nodes[i].name)
  BY <1>3 DEF PathsClimb
<1>6. /\ Path(1)' = <<>>
      /\ \A i \in 2..(n + 1) : \A q \in 1..(i - 1) :
           q = nodes'[i].parent => Path(i)' = Append(Path(q)', nodes'[i].name)
  BY <1>1, <1>4 DEF PathsClimb
<1> HIDE DEF n
<1>7. T = {}
  <2>1. ASSUME T # {} PROVE FALSE
    <3>1. T \in SUBSET Nat
      BY <1>1
    <3>2. PICK i \in T : \A k \in T : i <= k
      BY <2>1, <3>1, LeastNat
    <3>3. i \in 1..n /\ Path(i)' # Path(i)
      BY <1>1, <3>2
    <3>4. i \in 2..n /\ i \in 2..(n + 1) /\ nodes'[i] = nodes[i]
      BY <1>1, <1>5, <1>6, <3>3
    <3>5. PICK q \in 1..(i - 1) : q = nodes[i].parent
      BY <1>1, <3>4
    <3>6. q \in 1..n /\ q < i /\ i \in Nat /\ q \in Nat
      BY <1>1, <3>4
    <3>7. q \notin T
      BY <1>1, <3>2, <3>6
    <3>8. Path(q)' = Path(q)
      BY <3>6, <3>7
    <3> HIDE DEF T
    <3> QED
      BY <1>5, <1>6, <3>3, <3>4, <3>5, <3>8
  <2> QED
    BY <2>1
<1>8. ASSUME NEW i, i = n + 1 PROVE Path(i)' = Append(Path(p)', name)
  <2>1. i \in 2..(n + 1) /\ p \in 1..(i - 1)
    BY <1>1, <1>8 DEF n
  <2>2. nodes'[i].parent = p /\ nodes'[i].name = name
    BY <1>1, <1>8 DEF NewNode
  <2> QED
    BY <1>6, <2>1, <2>2
<1>9. p \in 1..n
  BY DEF n
<1> QED
  BY <1>7, <1>8, <1>9 DEF n

-----------------------------------------------------------------------------
(***************************************************************************)
(* The tree that build grows: its nodes are the entries of build, and the  *)
(* numbers newChild counts are those of Names.                             *)
(***************************************************************************)
\* No two entries are the same child.
LEMMA EntriesDiffer ==
    ASSUME NEW j \in 1..Len(build), NEW k \in 1..Len(build),
           build[j].parent = build[k].parent, build[j].name = build[k].name
    PROVE  j = k
<1> DEFINE n == Len(build)
<1> HIDE DEF n
<1>1. n \in Nat /\ j \in 1..n /\ k \in 1..n
  BY BuildPlaces, LenProperties DEF n
<1>2. Number(build[j]) = Number(build[k])
  BY DEF Number
<1>3. Number(build[j]) \in Nat
  BY BuildIsOrdered
<1>4. \A a \in 1..n : \A b \in 1..(a - 1) :
         build[b].parent = build[a].parent => Number(build[b]) < Number(build[a])
  BY BuildIsOrdered DEF n
<1>5. ~(j < k)
  <2>1. j < k => j \in 1..(k - 1)
    BY <1>1
  <2>2. j \in 1..(k - 1) => Number(build[j]) < Number(build[k])
    BY <1>1, <1>4
  <2> QED
    BY <1>2, <1>3, <2>1, <2>2
<1>6. ~(k < j)
  <2>1. k < j => k \in 1..(j - 1)
    BY <1>1
  <2>2. k \in 1..(j - 1) => Number(build[k]) < Number(build[j])
    BY <1>1, <1>4
  <2> QED
    BY <1>2, <1>3, <2>1, <2>2
<1> QED
  BY <1>1, <1>5, <1>6

\* The nodes are those of the entries, each numbered as its name is.
EntryOf(i) == build[i - 1]
NodesAreEntries ==
    /\ nodes[1].parent = 0 /\ nodes[1].flags = {}
    /\ \A i \in 2..Len(nodes) :
         /\ nodes[i].name = EntryOf(i).name
         /\ nodes[i].flags = EntryOf(i).flags
         /\ nodes[i].machine = Number(EntryOf(i))
         /\ \A p \in 1..(i - 1) : p = nodes[i].parent => Path(p) = EntryOf(i).parent

\* A node that has been a parent counts to the number of its last child.
DegreesOK ==
    \A p \in 1..Len(nodes) :
      degree[p] # 0 =>
        \E i \in 2..Len(nodes) : nodes[i].parent = p /\ nodes[i].machine = degree[p]

\* As many entries of build as the start-up is at are nodes.
GrownOK ==
    /\ done \in Nat
    /\ Len(nodes) = (IF done < Len(build) THEN done ELSE Len(build)) + 1
    /\ NodesAreEntries /\ DegreesOK

\* There are no entries yet.
LEMMA GrownInit == DInit => GrownOK
<1> SUFFICES ASSUME DInit PROVE GrownOK
  OBVIOUS
<1>1. Len(nodes) = 1 /\ degree[1] = 0 /\ nodes[1].parent = 0 /\ nodes[1].flags = {}
  BY DEF DInit, Init
<1>2. done = 0 /\ Len(build) \in Nat
  BY BuildPlaces, LenProperties DEF DInit
<1>3. Len(nodes) = (IF done < Len(build) THEN done ELSE Len(build)) + 1
  BY <1>1, <1>2
<1>4. NodesAreEntries
  BY <1>1 DEF NodesAreEntries
<1>5. DegreesOK
  BY <1>1 DEF DegreesOK
<1> QED
  BY <1>2, <1>3, <1>4, <1>5 DEF GrownOK

\* The names of a node are those of its entry, so different nodes have
\* different ones.
LEMMA PathsAre ==
    ASSUME TreeOK, GrownOK
    PROVE  /\ Path(1) = <<>> /\ Len(nodes) \in Nat /\ Len(nodes) >= 1
           /\ \A i \in 2..Len(nodes) :
                /\ i - 1 \in 1..Len(build)
                /\ EntryOf(i) \in Entries
                /\ Path(i) = Append(EntryOf(i).parent, EntryOf(i).name)
                /\ Path(i) # <<>>
           /\ \A i, j \in 1..Len(nodes) : Path(i) = Path(j) => i = j
<1> DEFINE n == Len(build)
           l == Len(nodes)
<1>1. l \in Nat /\ l >= 1 /\ \A i \in 2..l : nodes[i].parent \in 1..(i - 1)
  BY LenProperties DEF TreeOK, ParentsOK
<1>2. n \in Nat /\ build \in Seq(Entries)
  BY BuildPlaces, LenProperties
<1>3. l <= n + 1
  <2>1. done \in Nat /\ l = (IF done < n THEN done ELSE n) + 1
    BY DEF GrownOK
  <2> HIDE DEF l, n
  <2> QED
    BY <1>1, <1>2, <2>1
<1>4. PathsClimb
  BY PathsDoClimb
<1>5. NodesAreEntries
  BY DEF GrownOK
<1>6. /\ Path(1) = <<>>
      /\ \A i \in 2..l : \A p \in 1..(i - 1) :
           p = nodes[i].parent => Path(i) = Append(Path(p), nodes[i].name)
  BY <1>4 DEF PathsClimb
<1>7. \A i \in 2..l :
        /\ nodes[i].name = EntryOf(i).name
        /\ \A p \in 1..(i - 1) : p = nodes[i].parent => Path(p) = EntryOf(i).parent
  BY <1>5 DEF NodesAreEntries
<1>a. \A k \in 1..n : build[k] \in Entries
  BY <1>2, ElementOfSeq
<1> HIDE DEF l, n
<1>8. ASSUME NEW i \in 2..l
      PROVE  /\ i - 1 \in 1..n /\ EntryOf(i) \in Entries
             /\ EntryOf(i).parent \in Seq(AllNames) /\ EntryOf(i).name \in AllNames
             /\ Path(i) = Append(EntryOf(i).parent, EntryOf(i).name)
             /\ Path(i) # <<>>
  <2>1. i - 1 \in 1..n
    BY <1>1, <1>2, <1>3
  <2>2. EntryOf(i) \in Entries
    BY <1>a, <2>1 DEF EntryOf
  <2>3. EntryOf(i).parent \in Seq(AllNames) /\ EntryOf(i).name \in AllNames
    BY <2>2 DEF Entries
  <2>4. PICK p \in 1..(i - 1) : p = nodes[i].parent
    BY <1>1
  <2>5. Path(i) = Append(EntryOf(i).parent, EntryOf(i).name)
    BY <1>6, <1>7, <2>4
  <2>6. Path(i) # <<>>
    <3> DEFINE a == EntryOf(i).parent
               x == EntryOf(i).name
    <3>1. a \in Seq(AllNames) /\ x \in AllNames
      BY <2>3
    <3> HIDE DEF a, x
    <3>2. Append(a, x) # <<>>
      BY <3>1
    <3> QED
      BY <2>5, <3>2 DEF a, x
  <2> QED
    BY <2>1, <2>2, <2>3, <2>5, <2>6
<1>9. ASSUME NEW i \in 1..l, NEW j \in 1..l, Path(i) = Path(j)
      PROVE  i = j
  <2>1. (i = 1 \/ i \in 2..l) /\ (j = 1 \/ j \in 2..l)
    BY <1>1
  <2>2. CASE i \in 2..l /\ j \in 2..l
    <3>1. Append(EntryOf(i).parent, EntryOf(i).name) = Append(EntryOf(j).parent, EntryOf(j).name)
      BY <1>8, <1>9, <2>2, Zenon
    <3>2. /\ EntryOf(i).parent \in Seq(AllNames) /\ EntryOf(i).name \in AllNames
          /\ EntryOf(j).parent \in Seq(AllNames) /\ EntryOf(j).name \in AllNames
          /\ i - 1 \in 1..n /\ j - 1 \in 1..n
      BY <1>8, <2>2, Zenon
    <3>3. EntryOf(i).parent = EntryOf(j).parent /\ EntryOf(i).name = EntryOf(j).name
      <4> DEFINE a == EntryOf(i).parent
                 x == EntryOf(i).name
                 b == EntryOf(j).parent
                 y == EntryOf(j).name
      <4>1. a \in Seq(AllNames) /\ b \in Seq(AllNames) /\ x \in AllNames /\ y \in AllNames
        BY <3>2
      <4>2. Append(a, x) = Append(b, y)
        BY <3>1
      <4> HIDE DEF a, b, x, y
      <4>3. a = b /\ x = y
        BY <4>1, <4>2, AppendsDiffer
      <4> QED
        BY <4>3 DEF a, b, x, y
    <3>4. i - 1 = j - 1
      BY <3>2, <3>3, EntriesDiffer, Zenon DEF EntryOf, n
    <3> QED
      BY <3>2, <3>4
  <2> QED
    BY <1>6, <1>8, <1>9, <2>1, <2>2
<1> QED
  BY <1>1, <1>6, <1>8, <1>9 DEF l, n

\* The next entry becomes a new node ...
LEMMA EntryIsNew ==
    ASSUME TreeOK, GrownOK, done < Len(build), NEW p \in 1..Len(nodes),
           Path(p) = build[done + 1].parent
    PROVE  /\ ChildOf(p, build[done + 1].name) = {}
           /\ degree[p] + 1 = Number(build[done + 1])
<1> DEFINE n == Len(build)
           l == Len(nodes)
           c == build[done + 1]
<1>1. n \in Nat /\ l \in Nat /\ done \in Nat /\ l = done + 1 /\ done + 1 \in 1..n
  <2>1. n \in Nat /\ done \in Nat /\ done < n /\ l = (IF done < n THEN done ELSE n) + 1
    BY BuildPlaces, LenProperties DEF GrownOK
  <2> HIDE DEF n, l
  <2> QED
    BY <2>1
<1>2. \A i \in 2..l : nodes[i].parent \in 1..(i - 1)
  BY DEF TreeOK, ParentsOK
<1>3. /\ nodes[1].parent = 0
      /\ \A i \in 2..l :
           /\ nodes[i].name = EntryOf(i).name /\ nodes[i].machine = Number(EntryOf(i))
           /\ \A q \in 1..(i - 1) : q = nodes[i].parent => Path(q) = EntryOf(i).parent
  BY DEF GrownOK, NodesAreEntries
<1>4. \A i, j \in 1..l : Path(i) = Path(j) => i = j
  BY PathsAre
<1>5. /\ degree[p] \in Nat
      /\ \A i \in 2..l : nodes[i].machine \in 1..degree[nodes[i].parent]
      /\ degree[p] # 0 => \E i \in 2..l : nodes[i].parent = p /\ nodes[i].machine = degree[p]
  <2>1. degree \in Seq(Nat) /\ Len(degree) = l
    BY DEF TreeOK, NumbersOK
  <2>2. degree[p] \in Nat
    BY <2>1, ElementOfSeq
  <2> QED
    BY <2>2 DEF TreeOK, NumbersOK, GrownOK, DegreesOK
<1>6. /\ Number(c) \in Nat \ {0}
      /\ \A j \in 1..done : build[j].parent = c.parent => Number(build[j]) < Number(c)
      /\ Number(c) # 1 =>
           \E j \in 1..done : build[j].parent = c.parent /\ Number(build[j]) = Number(c) - 1
      /\ \A j \in 1..n : build[j].parent = c.parent /\ build[j].name = c.name => j = done + 1
  <2>1. done + 1 \in 1..n /\ (done + 1) - 1 = done
    BY <1>1
  <2>2. /\ \A k \in 1..n : Number(build[k]) \in Nat \ {0}
        /\ \A k \in 1..n : \A j \in 1..(k - 1) :
             build[j].parent = build[k].parent => Number(build[j]) < Number(build[k])
        /\ \A k \in 1..n :
             Number(build[k]) # 1 =>
               \E j \in 1..(k - 1) : /\ build[j].parent = build[k].parent
                                     /\ Number(build[j]) = Number(build[k]) - 1
    BY BuildIsOrdered
  <2>3. \A j \in 1..n : build[j].parent = c.parent /\ build[j].name = c.name => j = done + 1
    BY <2>1, EntriesDiffer
  <2> HIDE DEF n
  <2> QED
    BY <2>1, <2>2, <2>3
<1> HIDE DEF n, l
<1>7. \A i \in 2..l : i - 1 \in 1..done /\ i - 1 \in 1..n /\ i \in 1..l
  BY <1>1
<1>8. Path(p) = c.parent /\ p \in 1..l
  BY DEF l
<1> HIDE DEF c
<1>9. ASSUME NEW i \in 2..l, nodes[i].parent = p PROVE EntryOf(i).parent = c.parent
  <2>1. PICK q \in 1..(i - 1) : q = nodes[i].parent
    BY <1>2
  <2>2. Path(q) = EntryOf(i).parent
    BY <1>3, <2>1
  <2>3. q = p
    BY <1>9, <2>1
  <2> QED
    BY <1>8, <2>2, <2>3
<1>10. ChildOf(p, c.name) = {}
  <2>1. ASSUME NEW i \in ChildOf(p, c.name) PROVE FALSE
    <3>1. i \in 1..l /\ nodes[i].parent = p /\ nodes[i].name = c.name
      BY DEF ChildOf, l
    <3>2. i # 1
      BY <1>1, <1>3, <1>8, <3>1
    <3>3. i \in 2..l
      BY <1>1, <3>1, <3>2
    <3>4. EntryOf(i).parent = c.parent /\ EntryOf(i).name = c.name
      BY <1>3, <1>9, <3>1, <3>3
    <3>5. i - 1 = done + 1
      BY <1>6, <1>7, <3>3, <3>4 DEF EntryOf
    <3> QED
      BY <1>1, <1>7, <3>3, <3>5
  <2> QED
    BY <2>1
<1>11. degree[p] < Number(c)
  <2>1. CASE degree[p] = 0
    BY <1>6, <2>1
  <2>2. CASE degree[p] # 0
    <3>1. PICK i \in 2..l : nodes[i].parent = p /\ nodes[i].machine = degree[p]
      BY <1>5, <2>2
    <3>2. build[i - 1].parent = c.parent /\ i - 1 \in 1..done
      BY <1>7, <1>9, <3>1 DEF EntryOf
    <3>3. Number(build[i - 1]) < Number(c)
      BY <1>6, <3>2
    <3> QED
      BY <1>3, <3>1, <3>3 DEF EntryOf
  <2> QED
    BY <2>1, <2>2
<1>12. Number(c) # 1 => Number(c) - 1 <= degree[p]
  <2>1. ASSUME Number(c) # 1 PROVE Number(c) - 1 <= degree[p]
    <3>1. PICK j \in 1..done : build[j].parent = c.parent /\ Number(build[j]) = Number(c) - 1
      BY <1>6, <2>1
    <3>2. PICK i \in 2..l : i - 1 = j
      <4>1. j + 1 \in 2..l /\ (j + 1) - 1 = j
        BY <1>1
      <4> QED
        BY <4>1
    <3>3. EntryOf(i) = build[j]
      BY <3>2 DEF EntryOf
    <3>4. PICK q \in 1..(i - 1) : q = nodes[i].parent
      BY <1>2
    <3>5. Path(q) = c.parent /\ q \in 1..l
      BY <1>1, <1>3, <3>1, <3>3, <3>4, SMTT(30)
    <3>6. q = p
      BY <1>4, <1>8, <3>5 DEF l
    <3>7. nodes[i].machine \in 1..degree[p]
      BY <1>5, <3>4, <3>6
    <3>8. nodes[i].machine = Number(c) - 1
      BY <1>3, <3>1, <3>3
    <3> QED
      BY <1>5, <3>7, <3>8
  <2> QED
    BY <2>1
<1>13. degree[p] + 1 = Number(c)
  BY <1>5, <1>6, <1>11, <1>12
<1> QED
  BY <1>10, <1>13 DEF c

\* A step of build adds the next entry, and no other.
LEMMA GrownGrows ==
    ASSUME TreeOK, GrownOK, Grow
    PROVE  GrownOK'
<1> DEFINE n == Len(build)
           l == Len(nodes)
           c == build[done + 1]
<1>1. PICK p \in 1..l : Path(p) = c.parent /\ newChild(p, c.name, c.flags)
  BY DEF Grow
<1>2. done < n /\ done' = done + 1
  BY DEF Grow
<1>3. NewChild(p, c.name, c.flags)
  BY <1>1, <1>2, EntryIsNew DEF newChild, NewChildExists
<1>4. degree[p] + 1 = Number(c)
  BY <1>1, <1>2, EntryIsNew
<1>5. /\ l \in Nat /\ Len(nodes') = l + 1 /\ l >= 1
      /\ \A i \in 1..l : nodes'[i] = nodes[i]
      /\ nodes'[l + 1] = NewNode(p, c.name, c.flags)
  BY <1>1, <1>3, ParentsStep DEF TreeOK, ParentsOK
<1>6. \A i \in 1..l : Path(i)' = Path(i)
  BY <1>1, <1>3, PathsStay
<1>7. /\ n \in Nat /\ done \in Nat /\ l = done + 1
  <2>1. n \in Nat /\ done \in Nat /\ done < n /\ l = (IF done < n THEN done ELSE n) + 1
    BY <1>2, BuildPlaces, LenProperties DEF GrownOK
  <2> HIDE DEF n, l
  <2> QED
    BY <2>1
<1>8. /\ nodes[1].parent = 0 /\ nodes[1].flags = {}
      /\ \A i \in 2..l :
           /\ nodes[i].name = EntryOf(i).name
           /\ nodes[i].flags = EntryOf(i).flags
           /\ nodes[i].machine = Number(EntryOf(i))
           /\ \A q \in 1..(i - 1) : q = nodes[i].parent => Path(q) = EntryOf(i).parent
  BY DEF GrownOK, NodesAreEntries
<1>9. /\ nodes'[l + 1].parent = p /\ nodes'[l + 1].name = c.name
      /\ nodes'[l + 1].flags = c.flags /\ nodes'[l + 1].machine = Number(c)
  BY <1>4, <1>5 DEF NewNode
<1>10. c = EntryOf(l + 1)
  BY <1>7 DEF EntryOf
<1>11. degree \in Seq(Nat) /\ Len(degree) = l
  BY DEF TreeOK, NumbersOK
<1>12. degree' = Append([degree EXCEPT ![p] = degree[p] + 1], 0)
  BY <1>3 DEF NewChild
<1>13. \A q \in 1..l :
         degree[q] # 0 => \E i \in 2..l : nodes[i].parent = q /\ nodes[i].machine = degree[q]
  BY DEF GrownOK, DegreesOK
<1>14. p \in 1..l /\ Path(p) = c.parent
  BY <1>1
<1> HIDE DEF l, n, c
<1>15. /\ Len(nodes') = (IF done' < n THEN done' ELSE n) + 1 /\ done' \in Nat
  <2>1. done + 1 <= n
    BY <1>2, <1>7
  <2>2. Len(nodes') = (done + 1) + 1
    BY <1>5, <1>7
  <2> QED
    BY <1>2, <1>7, <2>1, <2>2
<1>16. NodesAreEntries'
  <2>1. nodes'[1] = nodes[1]
    BY <1>5
  <2>2. ASSUME NEW i \in 2..(l + 1)
        PROVE  /\ nodes'[i].name = EntryOf(i).name
               /\ nodes'[i].flags = EntryOf(i).flags
               /\ nodes'[i].machine = Number(EntryOf(i))
               /\ \A q \in 1..(i - 1) : q = nodes'[i].parent => Path(q)' = EntryOf(i).parent
    <3>1. CASE i = l + 1
      <4>1. i - 1 = l
        BY <1>5, <3>1
      <4>2. ASSUME NEW q \in 1..(i - 1), q = nodes'[i].parent PROVE Path(q)' = EntryOf(i).parent
        <5>1. q = p
          BY <1>9, <3>1, <4>2
        <5> QED
          BY <1>6, <1>10, <1>14, <3>1, <5>1
      <4> QED
        BY <1>9, <1>10, <3>1, <4>2
    <3>2. CASE i # l + 1
      <4>1. i \in 2..l /\ i \in 1..l /\ 1..(i - 1) \subseteq 1..l
        BY <1>5, <3>2
      <4>2. nodes'[i] = nodes[i]
        BY <1>5, <4>1
      <4>3. ASSUME NEW q \in 1..(i - 1), q = nodes'[i].parent PROVE Path(q)' = EntryOf(i).parent
        <5>1. Path(q) = EntryOf(i).parent
          BY <1>8, <4>1, <4>2, <4>3
        <5>2. Path(q)' = Path(q)
          BY <1>6, <4>1
        <5> QED
          BY <5>1, <5>2
      <4> QED
        BY <1>8, <4>1, <4>2, <4>3
    <3> QED
      BY <3>1, <3>2
  <2> QED
    BY <1>5, <1>8, <2>1, <2>2 DEF NodesAreEntries, EntryOf
<1>17. DegreesOK'
  <2> DEFINE counted == [degree EXCEPT ![p] = degree[p] + 1]
  <2>1. degree[p] + 1 \in Nat
    BY <1>11, <1>14, ElementOfSeq
  <2>2. /\ counted \in Seq(Nat) /\ Len(counted) = l
        /\ \A q \in 1..l : counted[q] = IF q = p THEN degree[p] + 1 ELSE degree[q]
    BY <1>11, <1>14, <2>1, ExceptSeq
  <2> HIDE DEF counted
  <2>3. /\ Len(degree') = l + 1 /\ degree'[l + 1] = 0
        /\ \A q \in 1..l : degree'[q] = counted[q]
    <3>1. counted \in Seq(Nat) /\ 0 \in Nat /\ degree' = Append(counted, 0)
      BY <1>12, <2>2 DEF counted
    <3>2. /\ Len(degree') = Len(counted) + 1 /\ degree'[Len(counted) + 1] = 0
          /\ \A q \in 1..Len(counted) : degree'[q] = counted[q]
      BY <3>1, AppendProperties
    <3> QED
      BY <2>2, <3>2
  <2>4. ASSUME NEW q \in 1..(l + 1), degree'[q] # 0
        PROVE  \E i \in 2..(l + 1) : nodes'[i].parent = q /\ nodes'[i].machine = degree'[q]
    <3>1. q \in 1..l
      BY <1>5, <2>3, <2>4
    <3>2. degree'[q] = IF q = p THEN degree[p] + 1 ELSE degree[q]
      BY <2>2, <2>3, <3>1
    <3>3. CASE q = p
      <4>1. l + 1 \in 2..(l + 1)
        BY <1>5
      <4> QED
        BY <1>4, <1>9, <3>2, <3>3, <4>1
    <3>4. CASE q # p
      <4>1. PICK i \in 2..l : nodes[i].parent = q /\ nodes[i].machine = degree[q]
        BY <1>13, <2>4, <3>1, <3>2, <3>4
      <4>2. i \in 2..(l + 1) /\ i \in 1..l
        BY <1>5
      <4> QED
        BY <1>5, <3>2, <3>4, <4>1, <4>2
    <3> QED
      BY <3>3, <3>4
  <2> QED
    BY <1>5, <2>4 DEF DegreesOK
<1> QED
  BY <1>15, <1>16, <1>17 DEF GrownOK, n

\* Once all are grown, the tree stays as it is.
LEMMA GrownStays ==
    ASSUME GrownOK, UNCHANGED <<nodes, degree>>,
           done' = done \/ (done' = done + 1 /\ ~(done < Len(build)))
    PROVE  GrownOK'
<1> DEFINE n == Len(build)
<1>1. n \in Nat /\ done \in Nat /\ Len(nodes) = (IF done < n THEN done ELSE n) + 1
  BY BuildPlaces, LenProperties DEF GrownOK
<1>2. done' = done \/ (done' = done + 1 /\ ~(done < n))
  OBVIOUS
<1> HIDE DEF n
<1>3. done' \in Nat /\ Len(nodes) = (IF done' < n THEN done' ELSE n) + 1
  BY <1>1, <1>2
<1>4. \A p : Path(p)' = Path(p)
  BY DEF Path, Ancestry
<1>5. NodesAreEntries' /\ DegreesOK'
  BY <1>4 DEF GrownOK, NodesAreEntries, DegreesOK
<1> QED
  BY <1>3, <1>5 DEF GrownOK, n

-----------------------------------------------------------------------------
(***************************************************************************)
(* The mapping that is produced of it.                                     *)
(***************************************************************************)
\* What the mapping says of a URL
MapsTo(u, codes, flags) ==
    u \in DOMAIN urls /\ urls[u] = [codes |-> codes, flags |-> flags]

\* The URLs that can be said, and their codes: the numbers of the modules and
\* processes are their places in main()'s lists, and those of the nodes and
\* parameters theirs in Cached and ParamNames.
ModuleUrl(m) == <<"device", moduleList[m]>>
NodeUrl(m, c) == <<"device", moduleList[m], Cached[c]>>
ProcessUrl(p) == <<"process", processList[p][1]>>
ParamUrl(p, c) == <<"process", processList[p][1], ParamNames[c]>>

\* The mapping has these URLs, and no others.
MappingIs ==
    /\ MapsTo(<<>>, <<>>, {})
    /\ MapsTo(<<"device">>, <<1>>, {}) /\ MapsTo(<<"process">>, <<2>>, {})
    /\ \A m \in 1..3 : MapsTo(ModuleUrl(m), <<1, m>>, {})
    /\ \A m \in 1..3 : \A c \in 1..4 : MapsTo(NodeUrl(m, c), <<1, m, c>>, ModuleFlags(m, c))
    /\ \A p \in 1..18 : MapsTo(ProcessUrl(p), <<2, p>>, {"run"})
    /\ \A p \in 1..18 : \A c \in 1..6 :
         HasParams(p) => MapsTo(ParamUrl(p, c), <<2, p, c>>, ParamFlags(c))
    /\ \A u \in DOMAIN urls :
         \/ u \in {<<>>, <<"device">>, <<"process">>}
         \/ \E m \in 1..3 : u = ModuleUrl(m)
         \/ \E m \in 1..3 : \E c \in 1..4 : u = NodeUrl(m, c)
         \/ \E p \in 1..18 : u = ProcessUrl(p)
         \/ \E p \in 1..18 : \E c \in 1..6 : HasParams(p) /\ u = ParamUrl(p, c)

\* A node of these names, codes and flags
NodeHas(path, codes, flags) ==
    \E i \in 1..Len(nodes) : Path(i) = path /\ Codes(i) = codes /\ nodes[i].flags = flags

\* An entry's node has those of its parent, and its own.
LEMMA EntryHas ==
    ASSUME TreeOK, GrownOK, Len(nodes) = Len(build) + 1,
           NEW path, NEW codes, NEW flags, NodeHas(path, codes, flags),
           NEW k \in 1..Len(build), build[k].parent = path
    PROVE  NodeHas(Append(path, build[k].name), Append(codes, Number(build[k])), build[k].flags)
<1> DEFINE n == Len(build)
           l == Len(nodes)
           i == k + 1
<1>1. n \in Nat /\ l = n + 1
  BY BuildPlaces, LenProperties
<1>2. PICK q \in 1..l : Path(q) = path /\ Codes(q) = codes
  BY DEF NodeHas
<1>3. \A a \in 2..l : nodes[a].parent \in 1..(a - 1)
  BY DEF TreeOK, ParentsOK
<1>4. \A a, b \in 1..l : Path(a) = Path(b) => a = b
  BY PathsAre
<1>5. \A a \in 2..l : \A p \in 1..(a - 1) :
         p = nodes[a].parent =>
           /\ Path(a) = Append(Path(p), nodes[a].name)
           /\ Codes(a) = Append(Codes(p), nodes[a].machine)
  BY PathsDoClimb DEF PathsClimb
<1>6. \A a \in 2..l :
         /\ nodes[a].name = EntryOf(a).name
         /\ nodes[a].flags = EntryOf(a).flags
         /\ nodes[a].machine = Number(EntryOf(a))
         /\ \A p \in 1..(a - 1) : p = nodes[a].parent => Path(p) = EntryOf(a).parent
  BY DEF GrownOK, NodesAreEntries
<1>7. k \in 1..n
  OBVIOUS
<1> HIDE DEF n, l
<1>8. i \in 2..l /\ i \in 1..l /\ i - 1 = k
  BY <1>1, <1>7
<1> HIDE DEF i
<1>9. EntryOf(i) = build[k]
  BY <1>8 DEF EntryOf
<1>10. PICK p \in 1..(i - 1) : p = nodes[i].parent
  BY <1>3, <1>8
<1>11. p \in 1..l /\ Path(p) = path
  BY <1>1, <1>6, <1>8, <1>9, <1>10
<1>12. p = q
  BY <1>2, <1>4, <1>11
<1>13. Path(i) = Append(path, build[k].name) /\ Codes(i) = Append(codes, Number(build[k]))
  BY <1>2, <1>5, <1>6, <1>8, <1>9, <1>10, <1>11, <1>12
<1>14. nodes[i].flags = build[k].flags
  BY <1>6, <1>8, <1>9
<1> QED
  BY <1>8, <1>13, <1>14 DEF NodeHas, l

\* The same, by the entry's block
LEMMA BlockHas ==
    ASSUME TreeOK, GrownOK, Len(nodes) = Len(build) + 1,
           NEW codes, NEW flags, NEW b \in 1..23, NEW r \in 1..Size(b),
           NodeHas(trees[b][r].parent, codes, flags)
    PROVE  NodeHas(Append(trees[b][r].parent, trees[b][r].name),
                   Append(codes, Number(trees[b][r])), trees[b][r].flags)
<1>1. PICK k \in 1..Len(build) : build[k] = trees[b][r]
  BY BuildIsOrdered, Zenon
<1> QED
  BY <1>1, EntryHas

\* Every node that is to be there is there, with its codes and flags.
LEMMA TreeHas ==
    ASSUME TreeOK, GrownOK, Len(nodes) = Len(build) + 1
    PROVE  /\ NodeHas(<<>>, <<>>, {})
           /\ NodeHas(<<"device">>, <<1>>, {}) /\ NodeHas(<<"process">>, <<2>>, {})
           /\ \A m \in 1..3 : NodeHas(ModuleUrl(m), <<1, m>>, {})
           /\ \A m \in 1..3 : \A c \in 1..4 :
                NodeHas(NodeUrl(m, c), <<1, m, c>>, ModuleFlags(m, c))
           /\ \A p \in 1..18 : NodeHas(ProcessUrl(p), <<2, p>>, {"run"})
           /\ \A p \in 1..18 : \A c \in 1..6 :
                HasParams(p) => NodeHas(ParamUrl(p, c), <<2, p, c>>, ParamFlags(c))
<1>1. NodeHas(<<>>, <<>>, {})
  <2>1. 1 \in 1..Len(nodes)
    BY LenProperties DEF TreeOK, ParentsOK
  <2>2. Path(1) = <<>> /\ Codes(1) = <<>>
    BY PathsDoClimb DEF PathsClimb
  <2>3. nodes[1].flags = {}
    BY DEF GrownOK, NodesAreEntries
  <2> QED
    BY <2>1, <2>2, <2>3 DEF NodeHas
<1>2. ASSUME NEW b \in 1..23
      PROVE  1 \in 1..Size(b) /\ Number(trees[b][1]) = RootNumber(b)
  <2>1. Size(b) \in Nat /\ Size(b) >= 1
    BY BlockLengths
  <2>2. Number(trees[b][1]) = RootNumber(b)
    BY RootsAre
  <2> QED
    BY <2>1, <2>2
<1>3. NodeHas(<<"device">>, <<1>>, {}) /\ NodeHas(<<"process">>, <<2>>, {})
  <2>1. /\ trees[1][1] = Child(<<>>, "device", {}) /\ Number(trees[1][1]) = 1
        /\ trees[5][1] = Child(<<>>, "process", {}) /\ Number(trees[5][1]) = 2
    <3>1. Number(trees[1][1]) = RootNumber(1) /\ Number(trees[5][1]) = RootNumber(5)
      BY RootsAre
    <3> QED
      BY <3>1, Blocks DEF RootNumber
  <2> DEFINE d == trees[1][1]
             e == trees[5][1]
  <2>2. /\ d.parent = <<>> /\ d.name = "device" /\ d.flags = {}
        /\ e.parent = <<>> /\ e.name = "process" /\ e.flags = {}
    BY <2>1 DEF Child
  <2>3. /\ NodeHas(Append(d.parent, d.name), Append(<<>>, Number(d)), d.flags)
        /\ NodeHas(Append(e.parent, e.name), Append(<<>>, Number(e)), e.flags)
    <3>1. 1 \in 1..23 /\ 5 \in 1..23 /\ 1 \in 1..Size(1) /\ 1 \in 1..Size(5)
      BY <1>2
    <3>2. NodeHas(d.parent, <<>>, {}) /\ NodeHas(e.parent, <<>>, {})
      BY <1>1, <2>2
    <3> QED
      BY <3>1, <3>2, BlockHas
  <2>4. /\ Append(<<>>, "device") = <<"device">> /\ Append(<<>>, "process") = <<"process">>
        /\ Append(<<>>, 1) = <<1>> /\ Append(<<>>, 2) = <<2>>
    OBVIOUS
  <2> QED
    BY <2>1, <2>2, <2>3, <2>4
<1>4. ASSUME NEW m \in 1..3 PROVE NodeHas(ModuleUrl(m), <<1, m>>, {})
  <2> DEFINE d == trees[m + 1][1]
  <2>1. d = Child(<<"device">>, moduleList[m], {})
    BY ModuleTreeIs
  <2>2. m + 1 \in 1..23 /\ Number(d) = RootNumber(m + 1) /\ 1 \in 1..Size(m + 1)
    <3>1. m + 1 \in 1..23
      OBVIOUS
    <3> QED
      BY <1>2, <3>1
  <2>3. Number(d) = m
    BY <2>2 DEF RootNumber
  <2>4. d.parent = <<"device">> /\ d.name = moduleList[m] /\ d.flags = {}
    BY <2>1 DEF Child
  <2>5. NodeHas(Append(d.parent, d.name), Append(<<1>>, Number(d)), d.flags)
    BY <1>3, <2>2, <2>4, BlockHas
  <2>6. Append(<<"device">>, moduleList[m]) = ModuleUrl(m) /\ Append(<<1>>, m) = <<1, m>>
    BY AppendsAre DEF ModuleUrl
  <2> HIDE DEF d
  <2> QED
    BY <2>3, <2>4, <2>5, <2>6
<1>5. ASSUME NEW m \in 1..3, NEW c \in 1..4
      PROVE  NodeHas(NodeUrl(m, c), <<1, m, c>>, ModuleFlags(m, c))
  <2> DEFINE d == trees[m + 1][c + 1]
  <2>1. d = Child(<<"device", moduleList[m]>>, Cached[c], ModuleFlags(m, c))
    BY ModuleTreeIs
  <2>2. Size(m + 1) = 5
    BY ModuleTreeIs DEF Size
  <2>3. m + 1 \in 1..23 /\ c + 1 \in 2..Size(m + 1) /\ c + 1 \in 1..Size(m + 1)
    BY <2>2
  <2>4. Number(d) = (c + 1) - 1
    BY <2>3, LeavesAre
  <2>5. d.parent = ModuleUrl(m) /\ d.name = Cached[c] /\ d.flags = ModuleFlags(m, c)
    BY <2>1 DEF Child, ModuleUrl
  <2>6. NodeHas(Append(d.parent, d.name), Append(<<1, m>>, Number(d)), d.flags)
    BY <1>4, <2>3, <2>5, BlockHas
  <2>7. Append(ModuleUrl(m), Cached[c]) = NodeUrl(m, c) /\ Append(<<1, m>>, c) = <<1, m, c>>
    BY AppendsAre DEF ModuleUrl, NodeUrl
  <2>8. Number(d) = c
    BY <2>4
  <2> HIDE DEF d
  <2> QED
    BY <2>5, <2>6, <2>7, <2>8
<1>6. ASSUME NEW p \in 1..18 PROVE NodeHas(ProcessUrl(p), <<2, p>>, {"run"})
  <2> DEFINE d == trees[p + 5][1]
  <2>1. d = Child(<<"process">>, processList[p][1], {"run"})
    BY ProcessTreeIs
  <2>2. p + 5 \in 1..23 /\ Number(d) = RootNumber(p + 5) /\ 1 \in 1..Size(p + 5)
    <3>1. p + 5 \in 1..23
      OBVIOUS
    <3> QED
      BY <1>2, <3>1
  <2>3. Number(d) = p
    BY <2>2 DEF RootNumber
  <2>4. d.parent = <<"process">> /\ d.name = processList[p][1] /\ d.flags = {"run"}
    BY <2>1 DEF Child
  <2>5. NodeHas(Append(d.parent, d.name), Append(<<2>>, Number(d)), d.flags)
    BY <1>3, <2>2, <2>4, BlockHas
  <2>6. Append(<<"process">>, processList[p][1]) = ProcessUrl(p) /\ Append(<<2>>, p) = <<2, p>>
    BY AppendsAre DEF ProcessUrl
  <2> HIDE DEF d
  <2> QED
    BY <2>3, <2>4, <2>5, <2>6
<1>7. ASSUME NEW p \in 1..18, NEW c \in 1..6, HasParams(p)
      PROVE  NodeHas(ParamUrl(p, c), <<2, p, c>>, ParamFlags(c))
  <2> DEFINE d == trees[p + 5][c + 1]
  <2>1. d = Child(<<"process", processList[p][1]>>, ParamNames[c], ParamFlags(c))
    BY <1>7, ProcessTreeIs
  <2>2. Size(p + 5) = 7
    BY <1>7, ProcessTreeIs DEF Size
  <2>3. p + 5 \in 1..23 /\ c + 1 \in 2..Size(p + 5) /\ c + 1 \in 1..Size(p + 5)
    BY <2>2
  <2>4. Number(d) = (c + 1) - 1
    BY <2>3, LeavesAre
  <2>5. d.parent = ProcessUrl(p) /\ d.name = ParamNames[c] /\ d.flags = ParamFlags(c)
    BY <2>1 DEF Child, ProcessUrl
  <2>6. NodeHas(Append(d.parent, d.name), Append(<<2, p>>, Number(d)), d.flags)
    BY <1>6, <2>3, <2>5, BlockHas
  <2>7. Append(ProcessUrl(p), ParamNames[c]) = ParamUrl(p, c) /\ Append(<<2, p>>, c) = <<2, p, c>>
    BY AppendsAre DEF ProcessUrl, ParamUrl
  <2>8. Number(d) = c
    BY <2>4
  <2> HIDE DEF d
  <2> QED
    BY <2>5, <2>6, <2>7, <2>8
<1> QED
  BY <1>1, <1>3, <1>4, <1>5, <1>6, <1>7

\* No node has another name than those of the URLs.
LEMMA NodesAreNamed ==
    ASSUME TreeOK, GrownOK, NEW i \in 1..Len(nodes)
    PROVE  \/ Path(i) \in {<<>>, <<"device">>, <<"process">>}
           \/ \E m \in 1..3 : Path(i) = ModuleUrl(m)
           \/ \E m \in 1..3 : \E c \in 1..4 : Path(i) = NodeUrl(m, c)
           \/ \E p \in 1..18 : Path(i) = ProcessUrl(p)
           \/ \E p \in 1..18 : \E c \in 1..6 : HasParams(p) /\ Path(i) = ParamUrl(p, c)
<1>1. CASE i = 1
  BY <1>1, PathsAre
<1>2. CASE i # 1
  <2>1. i \in 2..Len(nodes)
    <3>1. Len(nodes) \in Nat
      BY PathsAre
    <3> QED
      BY <1>2, <3>1
  <2>2. i - 1 \in 1..Len(build) /\ Path(i) = Append(build[i - 1].parent, build[i - 1].name)
    BY <2>1, PathsAre DEF EntryOf
  <2>3. PICK b \in 1..23 : \E r \in 1..Size(b) : build[i - 1] = trees[b][r]
    BY <2>2, BuildIsOrdered
  <2>4. PICK r \in 1..Size(b) : build[i - 1] = trees[b][r]
    BY <2>3
  <2> DEFINE d == trees[b][r]
  <2>5. Path(i) = Append(d.parent, d.name) /\ Size(b) \in Nat
    BY <2>2, <2>4, BlockLengths
  <2>6. CASE b = 1
    <3>1. Size(b) = 1
      BY <2>6, RootsAre
    <3>2. r = 1
      BY <3>1
    <3>3. d = Child(<<>>, "device", {})
      BY <2>6, <3>2, Blocks
    <3>4. d.parent = <<>> /\ d.name = "device"
      BY <3>3 DEF Child
    <3> HIDE DEF d
    <3> QED
      BY <2>5, <3>4, AppendsAre
  <2>7. CASE b = 5
    <3>1. Size(b) = 1
      BY <2>7, RootsAre
    <3>2. r = 1
      BY <3>1
    <3>3. d = Child(<<>>, "process", {})
      BY <2>7, <3>2, Blocks
    <3>4. d.parent = <<>> /\ d.name = "process"
      BY <3>3 DEF Child
    <3> HIDE DEF d
    <3> QED
      BY <2>5, <3>4, AppendsAre
  <2>8. CASE b \in 2..4
    <3>1. PICK m \in 1..3 : b = m + 1
      <4>1. b - 1 \in 1..3 /\ b = (b - 1) + 1
        BY <2>8
      <4> QED
        BY <4>1
    <3>2. CASE r = 1
      <4>1. d = Child(<<"device">>, moduleList[m], {})
        BY <3>1, <3>2, ModuleTreeIs
      <4>2. d.parent = <<"device">> /\ d.name = moduleList[m]
        BY <4>1 DEF Child
      <4> HIDE DEF d
      <4>3. Path(i) = ModuleUrl(m)
        BY <2>5, <4>2, AppendsAre DEF ModuleUrl
      <4> QED
        BY <4>3
    <3>3. CASE r # 1
      <4>1. Size(b) = 5
        BY <3>1, ModuleTreeIs DEF Size
      <4>2. PICK c \in 1..4 : r = c + 1
        <5>1. r - 1 \in 1..4 /\ r = (r - 1) + 1
          BY <3>3, <4>1
        <5> QED
          BY <5>1
      <4>3. d = Child(<<"device", moduleList[m]>>, Cached[c], ModuleFlags(m, c))
        BY <3>1, <4>2, ModuleTreeIs
      <4>4. d.parent = <<"device", moduleList[m]>> /\ d.name = Cached[c]
        BY <4>3 DEF Child
      <4> HIDE DEF d
      <4>5. Path(i) = NodeUrl(m, c)
        <5>1. Append(<<"device", moduleList[m]>>, Cached[c]) = NodeUrl(m, c)
          BY AppendsAre DEF NodeUrl
        <5> QED
          BY <2>5, <4>4, <5>1, Zenon
      <4> QED
        BY <4>5
    <3> QED
      BY <3>2, <3>3
  <2>9. CASE b \in 6..23
    <3>1. PICK p \in 1..18 : b = p + 5
      <4>1. b - 5 \in 1..18 /\ b = (b - 5) + 5
        BY <2>9
      <4> QED
        BY <4>1
    <3>2. CASE r = 1
      <4>1. d = Child(<<"process">>, processList[p][1], {"run"})
        BY <3>1, <3>2, ProcessTreeIs
      <4>2. d.parent = <<"process">> /\ d.name = processList[p][1]
        BY <4>1 DEF Child
      <4> HIDE DEF d
      <4>3. Path(i) = ProcessUrl(p)
        BY <2>5, <4>2, AppendsAre DEF ProcessUrl
      <4> QED
        BY <4>3
    <3>3. CASE r # 1
      <4>1. Size(b) = IF HasParams(p) THEN 7 ELSE 1
        BY <3>1, ProcessTreeIs DEF Size
      <4>2. r - 1 \in 1..6 /\ r = (r - 1) + 1 /\ HasParams(p)
        BY <3>3, <4>1
      <4>3. PICK c \in 1..6 : r = c + 1
        BY <4>2
      <4>4. d = Child(<<"process", processList[p][1]>>, ParamNames[c], ParamFlags(c))
        BY <3>1, <4>2, <4>3, ProcessTreeIs
      <4>5. d.parent = <<"process", processList[p][1]>> /\ d.name = ParamNames[c]
        BY <4>4 DEF Child
      <4> HIDE DEF d
      <4>6. Path(i) = ParamUrl(p, c)
        <5>1. Append(<<"process", processList[p][1]>>, ParamNames[c]) = ParamUrl(p, c)
          BY AppendsAre DEF ParamUrl
        <5> QED
          BY <2>5, <4>5, <5>1, Zenon
      <4> QED
        BY <4>2, <4>6
    <3> QED
      BY <3>2, <3>3
  <2> QED
    BY <2>6, <2>7, <2>8, <2>9
<1> QED
  BY <1>1, <1>2

\* So the mapping that main() goes on with is as said.
LEMMA MapMaps ==
    ASSUME TreeOK, GrownOK, done = Len(build), Produce
    PROVE  MappingIs'
<1>1. Len(nodes) = Len(build) + 1
  <2> DEFINE n == Len(build)
  <2>1. n \in Nat /\ done = n /\ Len(nodes) = (IF done < n THEN done ELSE n) + 1
    BY BuildPlaces, LenProperties DEF GrownOK
  <2> HIDE DEF n
  <2>2. Len(nodes) = n + 1
    BY <2>1
  <2> QED
    BY <2>2 DEF n
<1>2. /\ DOMAIN urls' = {Path(i) : i \in 1..Len(nodes)}
      /\ \A u \in DOMAIN urls' : \E i \in 1..Len(nodes) :
           Path(i) = u /\ urls'[u] = [codes |-> Codes(i), flags |-> nodes[i].flags]
  BY ProduceMaps
<1>3. \A i, j \in 1..Len(nodes) : Path(i) = Path(j) => i = j
  BY PathsAre
<1>4. ASSUME NEW u, NEW codes, NEW flags, NodeHas(u, codes, flags)
      PROVE  MapsTo(u, codes, flags)'
  <2>1. PICK i \in 1..Len(nodes) : Path(i) = u /\ Codes(i) = codes /\ nodes[i].flags = flags
    BY <1>4 DEF NodeHas
  <2>2. u \in DOMAIN urls'
    BY <1>2, <2>1
  <2>3. PICK j \in 1..Len(nodes) :
          Path(j) = u /\ urls'[u] = [codes |-> Codes(j), flags |-> nodes[j].flags]
    BY <1>2, <2>2
  <2>4. i = j
    BY <1>3, <2>1, <2>3
  <2> QED
    BY <2>1, <2>2, <2>3, <2>4 DEF MapsTo
<1>5. /\ MapsTo(<<>>, <<>>, {})'
      /\ MapsTo(<<"device">>, <<1>>, {})' /\ MapsTo(<<"process">>, <<2>>, {})'
      /\ \A m \in 1..3 : MapsTo(ModuleUrl(m), <<1, m>>, {})'
      /\ \A m \in 1..3 : \A c \in 1..4 : MapsTo(NodeUrl(m, c), <<1, m, c>>, ModuleFlags(m, c))'
      /\ \A p \in 1..18 : MapsTo(ProcessUrl(p), <<2, p>>, {"run"})'
      /\ \A p \in 1..18 : \A c \in 1..6 :
           HasParams(p) => MapsTo(ParamUrl(p, c), <<2, p, c>>, ParamFlags(c))'
  <2>1. \A u, codes, flags : NodeHas(u, codes, flags) => MapsTo(u, codes, flags)'
    BY <1>4
  <2> QED
    BY <1>1, <2>1, TreeHas
<1>6. ASSUME NEW u \in DOMAIN urls'
      PROVE  \/ u \in {<<>>, <<"device">>, <<"process">>}
             \/ \E m \in 1..3 : u = ModuleUrl(m)
             \/ \E m \in 1..3 : \E c \in 1..4 : u = NodeUrl(m, c)
             \/ \E p \in 1..18 : u = ProcessUrl(p)
             \/ \E p \in 1..18 : \E c \in 1..6 : HasParams(p) /\ u = ParamUrl(p, c)
  <2>1. PICK i \in 1..Len(nodes) : Path(i) = u
    BY <1>2
  <2> QED
    BY <2>1, NodesAreNamed
<1> QED
  BY <1>5, <1>6 DEF MappingIs

-----------------------------------------------------------------------------
(***************************************************************************)
(* The files of the modules: which there are, and that none comes twice.   *)
(***************************************************************************)
\* The nodes of the m-th module, and the attributes of the i-th of them
List(m) == moduleNodes[moduleList[m]]
Attrs(m, i) == Attributes[List(m)[i].prefix]
PlaceFile(m, i, k) == File(List(m)[i], Attrs(m, i)[k])
PlaceKey(m, i) == Key(List(m)[i])
Count(m) == IF m = 1 THEN 4 ELSE 3
Width(m, i) == IF List(m)[i].prefix = "probe" THEN 3 ELSE 1

\* The nodes of the three modules, spelled out
LEMMA ListsOfNodes ==
    /\ List(1) = <<Node("primary", "probe", 0), Node("primary", "load_cell", 0),
                   Node("element", "switch", 0), Node("pump", "switch", 1)>>
    /\ List(2) = <<Node("primary", "probe", 1), Node("primary", "load_cell", 1),
                   Node("pump", "switch", 2)>>
    /\ List(3) = <<Node("primary", "probe", 2), Node("primary", "load_cell", 2),
                   Node("element", "switch", 3)>>
<1>1. List(1) = Vessel(0, <<Node("element", "switch", 0), Node("pump", "switch", 1)>>)
  BY ConcatsAre DEF List, moduleNodes, moduleList, Element, Pump
<1>2. List(2) = Vessel(1, <<Node("pump", "switch", 2)>>)
  BY DEF List, moduleNodes, moduleList, Pump
<1>3. List(3) = Vessel(2, <<Node("element", "switch", 3)>>)
  BY DEF List, moduleNodes, moduleList, Element
<1> QED
  BY <1>1, <1>2, <1>3, ConcatsAre DEF Vessel

\* The same, by place
LEMMA PlacesHave ==
    /\ Len(List(1)) = 4 /\ Len(List(2)) = 3 /\ Len(List(3)) = 3
    /\ \A m \in 1..3 : /\ List(m)[1].prefix = "probe" /\ List(m)[1].label = "primary"
                       /\ List(m)[2].prefix = "load_cell" /\ List(m)[2].label = "primary"
                       /\ List(m)[3].prefix = "switch"
                       /\ List(m)[1].number = m - 1 /\ List(m)[2].number = m - 1
    /\ List(1)[4].prefix = "switch"
    /\ List(1)[3].label = "element" /\ List(1)[4].label = "pump"
    /\ List(2)[3].label = "pump" /\ List(3)[3].label = "element"
    /\ List(1)[3].number = 0 /\ List(1)[4].number = 1
    /\ List(2)[3].number = 2 /\ List(3)[3].number = 3
<1>1. \A m \in 1..3 : m = 1 \/ m = 2 \/ m = 3
  OBVIOUS
<1>2. Len(List(1)) = 4 /\ Len(List(2)) = 3 /\ Len(List(3)) = 3
  BY ListsOfNodes
<1>3. \A m \in 1..3 : /\ List(m)[1].prefix = "probe" /\ List(m)[1].label = "primary"
                      /\ List(m)[2].prefix = "load_cell" /\ List(m)[2].label = "primary"
                      /\ List(m)[3].prefix = "switch"
                      /\ List(m)[1].number = m - 1 /\ List(m)[2].number = m - 1
  BY <1>1, ListsOfNodes DEF Node
<1>4. /\ List(1)[4].prefix = "switch"
      /\ List(1)[3].label = "element" /\ List(1)[4].label = "pump"
      /\ List(2)[3].label = "pump" /\ List(3)[3].label = "element"
      /\ List(1)[3].number = 0 /\ List(1)[4].number = 1
      /\ List(2)[3].number = 2 /\ List(3)[3].number = 3
  BY ListsOfNodes DEF Node
<1> QED
  BY <1>2, <1>3, <1>4

\* The places of a module
LEMMA CountIs ==
    ASSUME NEW m \in 1..3, NEW i \in 1..Count(m)
    PROVE  i = 1 \/ i = 2 \/ i = 3 \/ (i = 4 /\ m = 1)
BY DEF Count

\* A place has one of three prefixes, and the attributes of it.
LEMMA PlaceIs ==
    ASSUME NEW m \in 1..3, NEW i \in 1..Count(m)
    PROVE  /\ List(m)[i].prefix \in {"probe", "load_cell", "switch"}
           /\ Len(Attrs(m, i)) = Width(m, i)
<1>1. List(m)[i].prefix \in {"probe", "load_cell", "switch"}
  BY CountIs, PlacesHave
<1> DEFINE x == List(m)[i].prefix
<1>2. Attrs(m, i) = Attributes[x] /\ Width(m, i) = IF x = "probe" THEN 3 ELSE 1
  BY DEF Attrs, Width
<1> HIDE DEF x
<1>3. /\ Len(Attributes["probe"]) = 3 /\ Len(Attributes["load_cell"]) = 1
      /\ Len(Attributes["switch"]) = 1
  BY DEF Attributes
<1>4. Len(Attrs(m, i)) = Width(m, i)
  BY <1>1, <1>2, <1>3 DEF x
<1> QED
  BY <1>1, <1>4

\* There are so many places in a module's list.
LEMMA LengthIs == \A m \in 1..3 : Len(List(m)) = Count(m)
<1>1. \A m \in 1..3 : m = 1 \/ m = 2 \/ m = 3
  OBVIOUS
<1> QED
  BY <1>1, PlacesHave DEF Count

\* No key comes twice in a module.
LEMMA KeysAreDifferent ==
    ASSUME NEW m \in 1..3, NEW i \in 1..Count(m), NEW j \in 1..Count(m),
           PlaceKey(m, i) = PlaceKey(m, j)
    PROVE  i = j
<1>1. List(m)[i].prefix = List(m)[j].prefix /\ List(m)[i].label = List(m)[j].label
  BY DEF PlaceKey, Key
<1>2. (i = 1 \/ i = 2 \/ i = 3 \/ (i = 4 /\ m = 1)) /\ (j = 1 \/ j = 2 \/ j = 3 \/ (j = 4 /\ m = 1))
  BY CountIs
<1>3. CASE i = 1 \/ i = 2 \/ j = 1 \/ j = 2
  BY <1>1, <1>2, <1>3, PlacesHave
<1>4. CASE i \in {3, 4} /\ j \in {3, 4}
  BY <1>1, <1>2, <1>4, PlacesHave
<1> QED
  BY <1>2, <1>3, <1>4

\* No two places are of one file.
LEMMA FilesAreDifferent ==
    ASSUME NEW m \in 1..3, NEW i \in 1..Count(m), NEW k \in 1..Width(m, i),
           NEW n \in 1..3, NEW j \in 1..Count(n), NEW h \in 1..Width(n, j),
           PlaceFile(m, i, k) = PlaceFile(n, j, h)
    PROVE  m = n /\ i = j /\ k = h
<1>1. /\ List(m)[i].prefix = List(n)[j].prefix /\ List(m)[i].number = List(n)[j].number
      /\ Attrs(m, i)[k] = Attrs(n, j)[h]
  BY DEF PlaceFile, File
<1>2. m = n /\ i = j
  <2>1. (i = 1 \/ i = 2 \/ i = 3 \/ (i = 4 /\ m = 1)) /\ (j = 1 \/ j = 2 \/ j = 3 \/ (j = 4 /\ n = 1))
    BY CountIs
  <2>2. CASE i = 1 \/ i = 2
    <3>1. i = j
      BY <1>1, <2>1, <2>2, PlacesHave
    <3>2. m - 1 = n - 1
      BY <1>1, <2>2, <3>1, PlacesHave
    <3> QED
      BY <3>1, <3>2
  <2>3. CASE i = 3 \/ i = 4
    <3>1. j = 3 \/ j = 4
      BY <1>1, <2>1, <2>3, PlacesHave
    <3>2. (m = 1 \/ m = 2 \/ m = 3) /\ (n = 1 \/ n = 2 \/ n = 3)
      OBVIOUS
    <3> QED
      BY <1>1, <2>1, <2>3, <3>1, <3>2, PlacesHave
  <2> QED
    BY <2>1, <2>2, <2>3
<1>3. k = h
  <2> DEFINE x == List(m)[i].prefix
  <2>1. x \in {"probe", "load_cell", "switch"} /\ Attrs(m, i) = Attributes[x]
        /\ Width(m, i) = IF x = "probe" THEN 3 ELSE 1
    BY PlaceIs DEF Attrs, Width
  <2> HIDE DEF x
  <2>2. Attributes[x][k] = Attributes[x][h] /\ h \in 1..Width(m, i)
    BY <1>1, <1>2, <2>1
  <2>3. CASE x = "probe"
    <3>1. \A a, b \in 1..3 : Attributes["probe"][a] = Attributes["probe"][b] => a = b
      BY DEF Attributes
    <3>2. k \in 1..3 /\ h \in 1..3
      BY <2>1, <2>2, <2>3
    <3> QED
      BY <2>2, <2>3, <3>1, <3>2
  <2>4. CASE x # "probe"
    BY <2>1, <2>2, <2>4
  <2> QED
    BY <2>3, <2>4
<1> QED
  BY <1>2, <1>3

\* As no key comes twice, every node is loaded.
LEMMA AllAreLoaded ==
    ASSUME NEW m \in 1..3, NEW i \in 1..Count(m)
    PROVE  AttributesOf(List(m), i) = Attrs(m, i)
<1>1. Count(m) \in Nat
  BY DEF Count
<1>2. ASSUME NEW j \in 1..(i - 1) PROVE Key(List(m)[j]) # Key(List(m)[i])
  <2>1. j \in 1..Count(m) /\ j # i
    BY <1>1
  <2> QED
    BY <2>1, KeysAreDifferent DEF PlaceKey
<1> QED
  BY <1>2 DEF AttributesOf, Attrs

-----------------------------------------------------------------------------
(***************************************************************************)
(* The devices, as far as main() has come.                                 *)
(***************************************************************************)
\* How many modules and processes are registered
Built == IF done < Mapped THEN 0 ELSE IF done < WithModules THEN done - Mapped ELSE 3
Running == IF done < WithModules THEN 0 ELSE done - WithModules

\* What a table of descriptors is, as far as it is filled: of each attribute's
\* file, or of the standard input.
TableIs(m, i, t, open, miss) ==
    /\ t \in Seq(Nat) /\ Len(t) <= Width(m, i)
    /\ \A k \in 1..Len(t) :
         IF PlaceFile(m, i, k) \in miss THEN t[k] = 0
         ELSE t[k] - 2 \in 1..Len(open) /\ open[t[k] - 2] = PlaceFile(m, i, k)

\* The first nodes of a module are loaded, completely.
NodesAre(m, map, count, open, miss) ==
    /\ DOMAIN map = {PlaceKey(m, i) : i \in 1..count}
    /\ \A i \in 1..count : /\ TableIs(m, i, map[PlaceKey(m, i)], open, miss)
                           /\ Len(map[PlaceKey(m, i)]) = Width(m, i)

\* The k-th attribute of the i-th node of the m-th module is dealt with.
Passed(m, i, k, built, at, len) ==
    m <= built \/ (m = built + 1 /\ (i < at \/ (i = at /\ k <= len)))

\* A file of which this is so
Placed(f, built, at, len) ==
    \E m \in 1..3 : \E i \in 1..Count(m) : \E k \in 1..Width(m, i) :
      f = PlaceFile(m, i, k) /\ Passed(m, i, k, built, at, len)

\* All files of the deployment
AllFiles == {PlaceFile(m, i, k) : m \in 1..3, i \in 1..4, k \in 1..3}

\* What is open, and what is missing, is dealt with; nothing is both, and nothing
\* is opened twice.
FilesOK(open, miss, built, at, len) ==
    /\ open \in Seq(AllFiles)
    /\ \A j \in 1..Len(open) : Placed(open[j], built, at, len) /\ open[j] \notin miss
    /\ \A f \in miss : Placed(f, built, at, len)
    /\ \A j, h \in 1..Len(open) : open[j] = open[h] => j = h

\* The modules registered so far have their names, and all their nodes.
ModulesOK ==
    /\ DOMAIN brewModules = 0..Built
    /\ \A m \in 1..Built : /\ brewModules[m].name = moduleList[m]
                           /\ NodesAre(m, brewModules[m].nodes, Count(m), opened, missing)

\* The processes registered so far have their names.
ProcessesOK ==
    /\ DOMAIN controlProcesses = 0..Running
    /\ \A p \in 1..Running : controlProcesses[p] = processList[p][1]

\* The module that is being constructed has the nodes before the next one.
ConstructionOK ==
    Built < 3 =>
      /\ loading \in 1..(Count(Built + 1) + 1)
      /\ NodesAre(Built + 1, loaded, loading - 1, opened, missing)
      /\ TableIs(Built + 1, loading, table, opened, missing)
      /\ loading = Count(Built + 1) + 1 => table = <<>>

\* The devices, as far as the start-up has come
DevicesOK ==
    /\ done \in 0..Ready
    /\ ModulesOK /\ ProcessesOK /\ ConstructionOK
    /\ Built = 3 => loading = 1 /\ table = <<>>
    /\ FilesOK(opened, missing, Built, loading, Len(table))
    /\ OnlyProbesStopStartUp

\* The steps of the start-up are so many.
LEMMA StepsAre ==
    Mapped \in Nat /\ Mapped = Len(build) + 1 /\ WithModules = Mapped + 3 /\ Ready = Mapped + 21
<1>1. Len(build) \in Nat
  BY BuildPlaces, LenProperties
<1>2. WithModules = Mapped + 3 /\ Ready = WithModules + 18
  BY ListsAre DEF WithModules, Ready
<1>3. Mapped \in Nat /\ Mapped = Len(build) + 1
  <2> DEFINE n == Len(build)
  <2>1. n \in Nat
    BY <1>1
  <2> HIDE DEF n
  <2>2. n + 1 \in Nat
    BY <2>1
  <2> QED
    BY <2>2 DEF Mapped, n
<1> QED
  BY <1>2, <1>3

\* There are no devices yet.
LEMMA DevicesInit == DInit => DevicesOK
<1> SUFFICES ASSUME DInit PROVE DevicesOK
  OBVIOUS
<1>1. done = 0 /\ Built = 0 /\ Running = 0 /\ done \in 0..Ready
  BY StepsAre DEF DInit, Built, Running
<1>2. /\ DOMAIN brewModules = {0} /\ DOMAIN controlProcesses = {0} /\ loaded = <<>> /\ loading = 1
      /\ table = <<>> /\ opened = <<>> /\ missing = {} /\ terminated = FALSE
  BY DEF DInit
<1>3. 0..0 = {0} /\ 1..0 = {}
  OBVIOUS
<1>4. ModulesOK /\ ProcessesOK
  BY <1>1, <1>2, <1>3 DEF ModulesOK, ProcessesOK
<1>5. ConstructionOK
  <2>1. Count(1) = 4 /\ Width(1, 1) \in Nat
    BY DEF Count, Width
  <2>2. NodesAre(1, <<>>, 0, opened, missing)
    BY <1>3 DEF NodesAre
  <2>3. TableIs(1, 1, <<>>, opened, missing)
    <3>1. <<>> \in Seq(Nat) /\ Len(<<>>) = 0
      BY EmptySeq
    <3> QED
      BY <1>3, <2>1, <3>1 DEF TableIs
  <2> QED
    BY <1>1, <1>2, <2>1, <2>2, <2>3 DEF ConstructionOK
<1>6. FilesOK(opened, missing, Built, loading, Len(table))
  <2>1. opened \in Seq(AllFiles) /\ Len(opened) = 0 /\ missing = {}
    BY <1>2, EmptySeq
  <2> QED
    BY <1>3, <2>1 DEF FilesOK
<1>7. OnlyProbesStopStartUp
  BY <1>2 DEF OnlyProbesStopStartUp
<1> QED
  BY <1>1, <1>2, <1>4, <1>5, <1>6, <1>7 DEF DevicesOK

\* A file that is opened, or found missing, after them leaves tables as they are.
LEMMA TableStays ==
    ASSUME NEW open \in Seq(AllFiles), NEW miss, NEW open2, NEW miss2, NEW f \in AllFiles,
           \/ open2 = Append(open, f) /\ miss2 = miss
           \/ open2 = open /\ miss2 = miss \cup {f},
           NEW m, NEW i, NEW t, TableIs(m, i, t, open, miss),
           \A k \in 1..Len(t) : PlaceFile(m, i, k) # f
    PROVE  TableIs(m, i, t, open2, miss2)
<1>1. t \in Seq(Nat) /\ Len(t) <= Width(m, i)
  BY DEF TableIs
<1>2. Len(open) \in Nat
  BY LenProperties
<1>3. open2 = Append(open, f) =>
        /\ Len(open2) = Len(open) + 1 /\ \A j \in 1..Len(open) : open2[j] = open[j]
  BY AppendProperties
<1>4. ASSUME NEW k \in 1..Len(t)
      PROVE  IF PlaceFile(m, i, k) \in miss2 THEN t[k] = 0
             ELSE t[k] - 2 \in 1..Len(open2) /\ open2[t[k] - 2] = PlaceFile(m, i, k)
  <2>1. PlaceFile(m, i, k) # f
    OBVIOUS
  <2>2. IF PlaceFile(m, i, k) \in miss THEN t[k] = 0
        ELSE t[k] - 2 \in 1..Len(open) /\ open[t[k] - 2] = PlaceFile(m, i, k)
    BY DEF TableIs
  <2>3. PlaceFile(m, i, k) \in miss2 <=> PlaceFile(m, i, k) \in miss
    BY <2>1
  <2>4. \A j : j \in 1..Len(open) => j \in 1..Len(open2) /\ open2[j] = open[j]
    BY <1>2, <1>3
  <2> QED
    BY <2>2, <2>3, <2>4
<1> QED
  BY <1>1, <1>4 DEF TableIs

-----------------------------------------------------------------------------
(***************************************************************************)
(* The steps of main() after the mapping.                                  *)
(***************************************************************************)
\* main()'s modules and processes have the numbers of their places.
LEMMA MachinesAre ==
    ASSUME MappingIs
    PROVE  /\ Machine(<<"device">>) = 1 /\ Machine(<<"process">>) = 2
           /\ \A m \in 1..3 : Machine(ModuleUrl(m)) = m
           /\ \A p \in 1..18 : Machine(ProcessUrl(p)) = p
<1>1. \A u, codes, flags : MapsTo(u, codes, flags) => urls[u].codes = codes
  BY DEF MapsTo
<1>2. /\ urls[<<"device">>].codes = <<1>> /\ urls[<<"process">>].codes = <<2>>
      /\ \A m \in 1..3 : urls[ModuleUrl(m)].codes = <<1, m>>
      /\ \A p \in 1..18 : urls[ProcessUrl(p)].codes = <<2, p>>
  BY <1>1 DEF MappingIs
<1>3. \A a, b : Last(<<a, b>>) = b /\ Last(<<a>>) = a
  BY DEF Last
<1>4. Machine(<<"device">>) = 1 /\ Machine(<<"process">>) = 2
  BY <1>2, <1>3 DEF Machine
<1>5. ASSUME NEW m \in 1..3 PROVE Machine(ModuleUrl(m)) = m
  <2>1. urls[ModuleUrl(m)].codes = <<1, m>>
    BY <1>2
  <2> QED
    BY <1>3, <2>1, Zenon DEF Machine
<1>6. ASSUME NEW p \in 1..18 PROVE Machine(ProcessUrl(p)) = p
  <2>1. urls[ProcessUrl(p)].codes = <<2, p>>
    BY <1>2
  <2> QED
    BY <1>3, <2>1, Zenon DEF Machine
<1> QED
  BY <1>4, <1>5, <1>6

\* What main() is constructing
LEMMA ConstructingIs ==
    ASSUME DevicesOK, Constructing
    PROVE  /\ Built \in 0..2 /\ done \in Nat /\ done = Mapped + Built
           /\ Module = moduleList[Built + 1] /\ NodeList = List(Built + 1)
           /\ Len(NodeList) = Count(Built + 1)
<1>1. Mapped \in Nat /\ WithModules = Mapped + 3 /\ done \in Mapped..(WithModules - 1)
  BY StepsAre DEF Constructing
<1> HIDE DEF Mapped, WithModules
<1>2. Built = done - Mapped /\ Built \in 0..2 /\ done \in Nat /\ done = Mapped + Built
  BY <1>1 DEF Built
<1>3. done - Mapped + 1 = Built + 1
  BY <1>2
<1>4. Module = moduleList[Built + 1]
  BY <1>3, Zenon DEF Module
<1>5. Len(List(Built + 1)) = Count(Built + 1)
  BY <1>2, LengthIs
<1> QED
  BY <1>2, <1>4, <1>5 DEF NodeList, List

\* A file that is next is not dealt with yet.
LEMMA NextIsNew ==
    ASSUME NEW built \in 0..2, NEW at \in 1..Count(built + 1),
           NEW len \in 0..(Width(built + 1, at) - 1),
           NEW m \in 1..3, NEW i \in 1..Count(m), NEW k \in 1..Width(m, i),
           Passed(m, i, k, built, at, len)
    PROVE  PlaceFile(m, i, k) # PlaceFile(built + 1, at, len + 1)
<1> SUFFICES ASSUME PlaceFile(m, i, k) = PlaceFile(built + 1, at, len + 1) PROVE FALSE
  OBVIOUS
<1> DEFINE b == built + 1
           h == len + 1
<1>1. b \in 1..3 /\ at \in 1..Count(b) /\ Width(b, at) \in Nat
  BY DEF Width
<1>2. h \in 1..Width(b, at)
  BY <1>1
<1>3. PlaceFile(m, i, k) = PlaceFile(b, at, h)
  OBVIOUS
<1> HIDE DEF b, h
<1>4. m = b /\ i = at /\ k = h
  BY <1>1, <1>2, <1>3, FilesAreDifferent
<1>5. Count(b) \in Nat
  BY DEF Count
<1> QED
  BY <1>1, <1>2, <1>4, <1>5 DEF Passed, b, h

\* What is dealt with once stays so.
LEMMA FilesPass ==
    ASSUME NEW open, NEW miss, NEW built, NEW at, NEW len, FilesOK(open, miss, built, at, len),
           NEW built2, NEW at2, NEW len2,
           \A m \in 1..3 : \A i \in 1..Count(m) : \A k \in 1..Width(m, i) :
             Passed(m, i, k, built, at, len) => Passed(m, i, k, built2, at2, len2)
    PROVE  FilesOK(open, miss, built2, at2, len2)
<1>1. \A f : Placed(f, built, at, len) => Placed(f, built2, at2, len2)
  BY Zenon DEF Placed
<1> QED
  BY <1>1 DEF FilesOK

\* The next file is opened, or found missing.
LEMMA FilesStep ==
    ASSUME NEW open, NEW miss, NEW open2, NEW miss2,
           NEW built \in 0..2, NEW at \in 1..Count(built + 1),
           NEW len \in 0..(Width(built + 1, at) - 1),
           FilesOK(open, miss, built, at, len),
           NEW f, f = PlaceFile(built + 1, at, len + 1),
           \/ open2 = Append(open, f) /\ miss2 = miss
           \/ open2 = open /\ miss2 = miss \cup {f}
    PROVE  f \in AllFiles /\ FilesOK(open2, miss2, built, at, len + 1)
<1> DEFINE b == built + 1
           h == len + 1
<1>1. b \in 1..3 /\ at \in 1..Count(b) /\ Width(b, at) \in 1..3 /\ Count(b) \in 1..4
  BY DEF Width, Count
<1>2. h \in 1..Width(b, at) /\ h \in 1..3 /\ at \in 1..4
  BY <1>1
<1>3. f \in AllFiles
  BY <1>1, <1>2 DEF AllFiles
<1>4. ASSUME NEW g, Placed(g, built, at, len) PROVE g # f /\ Placed(g, built, at, len + 1)
  <2>1. PICK m \in 1..3 : \E i \in 1..Count(m) : \E k \in 1..Width(m, i) :
          g = PlaceFile(m, i, k) /\ Passed(m, i, k, built, at, len)
    BY <1>4 DEF Placed
  <2>2. PICK i \in 1..Count(m) : \E k \in 1..Width(m, i) :
          g = PlaceFile(m, i, k) /\ Passed(m, i, k, built, at, len)
    BY <2>1
  <2>3. PICK k \in 1..Width(m, i) : g = PlaceFile(m, i, k) /\ Passed(m, i, k, built, at, len)
    BY <2>2
  <2>4. g # f
    BY <2>3, NextIsNew
  <2>5. Passed(m, i, k, built, at, len + 1)
    <3>1. Width(m, i) \in Nat
      BY DEF Width
    <3> QED
      BY <2>3, <3>1 DEF Passed
  <2> QED
    BY <2>3, <2>4, <2>5, Zenon DEF Placed
<1>5. Placed(f, built, at, len + 1)
  <2>1. Passed(b, at, h, built, at, len + 1)
    BY <1>2 DEF Passed
  <2>2. f = PlaceFile(b, at, h)
    OBVIOUS
  <2> HIDE DEF b, h
  <2> QED
    BY <1>1, <1>2, <2>1, <2>2 DEF Placed
<1> HIDE DEF b, h
<1>6. /\ open \in Seq(AllFiles)
      /\ \A j \in 1..Len(open) : Placed(open[j], built, at, len) /\ open[j] \notin miss
      /\ \A g \in miss : Placed(g, built, at, len)
      /\ \A j, g \in 1..Len(open) : open[j] = open[g] => j = g
  BY DEF FilesOK
<1>7. Len(open) \in Nat
  BY <1>6, LenProperties
<1>8. f \notin miss /\ \A j \in 1..Len(open) : open[j] # f
  BY <1>4, <1>6
<1>9. CASE open2 = Append(open, f) /\ miss2 = miss
  <2>1. /\ open2 \in Seq(AllFiles) /\ Len(open2) = Len(open) + 1
        /\ \A j \in 1..Len(open) : open2[j] = open[j]
        /\ open2[Len(open) + 1] = f
    BY <1>3, <1>6, <1>9, AppendProperties
  <2>2. \A j \in 1..Len(open2) : j \in 1..Len(open) \/ j = Len(open) + 1
    BY <1>7, <2>1
  <2>3. \A j \in 1..Len(open2) : Placed(open2[j], built, at, len + 1) /\ open2[j] \notin miss2
    BY <1>4, <1>5, <1>6, <1>8, <1>9, <2>1, <2>2
  <2>4. \A j, g \in 1..Len(open2) : open2[j] = open2[g] => j = g
    BY <1>6, <1>8, <2>1, <2>2
  <2>5. \A g \in miss2 : Placed(g, built, at, len + 1)
    BY <1>4, <1>6, <1>9
  <2> QED
    BY <1>3, <2>1, <2>3, <2>4, <2>5 DEF FilesOK
<1>10. CASE open2 = open /\ miss2 = miss \cup {f}
  BY <1>3, <1>4, <1>5, <1>6, <1>8, <1>10 DEF FilesOK
<1> QED
  BY <1>9, <1>10

\* It leaves the nodes that are loaded as they are.
LEMMA NodesStay ==
    ASSUME NEW open \in Seq(AllFiles), NEW miss, NEW open2, NEW miss2, NEW f \in AllFiles,
           \/ open2 = Append(open, f) /\ miss2 = miss
           \/ open2 = open /\ miss2 = miss \cup {f},
           NEW m, NEW map, NEW count, NodesAre(m, map, count, open, miss),
           \A i \in 1..count : \A k \in 1..Width(m, i) : PlaceFile(m, i, k) # f
    PROVE  NodesAre(m, map, count, open2, miss2)
<1>1. ASSUME NEW i \in 1..count
      PROVE  /\ TableIs(m, i, map[PlaceKey(m, i)], open2, miss2)
             /\ Len(map[PlaceKey(m, i)]) = Width(m, i)
  <2> DEFINE t == map[PlaceKey(m, i)]
  <2>1. TableIs(m, i, t, open, miss) /\ Len(t) = Width(m, i)
    BY DEF NodesAre
  <2> HIDE DEF t
  <2>2. \A k \in 1..Len(t) : PlaceFile(m, i, k) # f
    BY <2>1
  <2>3. TableIs(m, i, t, open2, miss2)
    BY <2>1, <2>2, TableStays
  <2> QED
    BY <2>1, <2>3 DEF t
<1> QED
  BY <1>1 DEF NodesAre

\* Until the tree is mapped, there are no devices.
LEMMA GrowingStays ==
    ASSUME DevicesOK, done < Mapped, done' = done + 1,
           UNCHANGED <<devices, construction, files, terminated>>
    PROVE  DevicesOK'
<1>1. Mapped \in Nat /\ WithModules = Mapped + 3 /\ Ready = Mapped + 21 /\ done \in 0..Ready
  BY StepsAre DEF DevicesOK
<1> HIDE DEF Mapped, WithModules, Ready
<1>2. Built' = Built /\ Running' = Running /\ done' \in 0..Ready
  BY <1>1 DEF Built, Running
<1>3. ~terminated
  BY <1>1 DEF DevicesOK, OnlyProbesStopStartUp
<1> QED
  BY <1>2, <1>3 DEF DevicesOK, ModulesOK, ProcessesOK, ConstructionOK,
                    OnlyProbesStopStartUp, devices, construction, files

\* addSysNode and openSysNode
LEMMA OpenStays ==
    ASSUME DevicesOK, openSysNode
    PROVE  DevicesOK'
<1> DEFINE f == File(NodeList[loading], AttributesOf(NodeList, loading)[Len(table) + 1])
           m == Built + 1
           len == Len(table)
<1>1. Built \in 0..2 /\ m \in 1..3 /\ NodeList = List(m) /\ Len(NodeList) = Count(m)
  BY ConstructingIs DEF openSysNode
<1>2. Built' = Built /\ Running' = Running /\ done' = done
  BY DEF openSysNode, Built, Running
<1>3. UNCHANGED <<brewModules, controlProcesses, loaded, loading, terminated>>
  BY DEF openSysNode, devices
<1>4. /\ loading \in 1..(Count(m) + 1) /\ NodesAre(m, loaded, loading - 1, opened, missing)
      /\ TableIs(m, loading, table, opened, missing)
  BY <1>1 DEF DevicesOK, ConstructionOK
<1>5. Count(m) \in Nat /\ loading \in 1..Count(m)
  <2>1. Count(m) \in Nat
    BY DEF Count
  <2>2. loading <= Count(m)
    BY <1>1 DEF openSysNode
  <2> QED
    BY <1>4, <2>1, <2>2
<1>6. AttributesOf(NodeList, loading) = Attrs(m, loading) /\ Len(Attrs(m, loading)) = Width(m, loading)
  BY <1>1, <1>5, AllAreLoaded, PlaceIs
<1>7. len \in Nat /\ len < Width(m, loading) /\ Width(m, loading) \in Nat
  <2>1. table \in Seq(Nat)
    BY <1>4 DEF TableIs
  <2> QED
    BY <1>6, <2>1, LenProperties DEF openSysNode, Width
<1>8. f = PlaceFile(m, loading, len + 1)
  BY <1>1, <1>6 DEF PlaceFile
<1>9. \/ opened' = Append(opened, f) /\ missing' = missing /\ table' = Append(table, 3 + Len(opened))
      \/ opened' = opened /\ missing' = missing \cup {f} /\ table' = Append(table, 0)
  BY DEF openSysNode
<1> HIDE DEF f
<1>10. FilesOK(opened, missing, Built, loading, len)
  BY DEF DevicesOK
<1>11. m = Built + 1
  OBVIOUS
<1> HIDE DEF m, len
<1>12. len \in 0..(Width(m, loading) - 1)
  BY <1>7
<1>13. f \in AllFiles /\ FilesOK(opened', missing', Built, loading, len + 1)
  <2>1. \/ opened' = Append(opened, f) /\ missing' = missing
        \/ opened' = opened /\ missing' = missing \cup {f}
    BY <1>9
  <2>2. /\ loading \in 1..Count(Built + 1) /\ len \in 0..(Width(Built + 1, loading) - 1)
        /\ f = PlaceFile(Built + 1, loading, len + 1)
    BY <1>5, <1>8, <1>11, <1>12
  <2>3. Built \in 0..2 /\ FilesOK(opened, missing, Built, loading, len)
    BY <1>1, <1>10
  <2> QED
    BY <2>1, <2>2, <2>3, FilesStep, ZenonT(60)
<1>14. ASSUME NEW n \in 1..3, NEW i \in 1..Count(n), NEW k \in 1..Width(n, i),
              Passed(n, i, k, Built, loading, len)
       PROVE  PlaceFile(n, i, k) # f
  <2>1. /\ loading \in 1..Count(Built + 1) /\ len \in 0..(Width(Built + 1, loading) - 1)
        /\ f = PlaceFile(Built + 1, loading, len + 1)
    BY <1>5, <1>8, <1>11, <1>12
  <2> QED
    BY <1>1, <1>14, <2>1, NextIsNew
<1>15. opened \in Seq(AllFiles) /\ opened' \in Seq(AllFiles) /\ Len(opened) \in Nat
  BY <1>10, <1>13, LenProperties DEF FilesOK
<1>16. \/ opened' = Append(opened, f) /\ missing' = missing
       \/ opened' = opened /\ missing' = missing \cup {f}
  BY <1>9
<1>17. ASSUME NEW n \in 1..Built
       PROVE  NodesAre(n, brewModules[n].nodes, Count(n), opened', missing')
  <2>1. NodesAre(n, brewModules[n].nodes, Count(n), opened, missing)
    BY DEF DevicesOK, ModulesOK
  <2>2. n \in 1..3
    BY <1>1
  <2>3. \A i \in 1..Count(n) : \A k \in 1..Width(n, i) : PlaceFile(n, i, k) # f
    BY <1>14, <2>2 DEF Passed
  <2> QED
    BY <1>13, <1>15, <1>16, <2>1, <2>3, NodesStay
<1>18. NodesAre(m, loaded, loading - 1, opened', missing')
  <2>1. ASSUME NEW i \in 1..(loading - 1), NEW k \in 1..Width(m, i) PROVE PlaceFile(m, i, k) # f
    <3>1. i \in 1..Count(m) /\ Passed(m, i, k, Built, loading, len)
      BY <1>1, <1>5, <1>11 DEF Passed
    <3> QED
      BY <1>1, <1>14, <3>1
  <2> QED
    BY <1>4, <1>13, <1>15, <1>16, <2>1, NodesStay
<1>19. TableIs(m, loading, table', opened', missing')
  <2>1. ASSUME NEW k \in 1..Len(table) PROVE PlaceFile(m, loading, k) # f
    <3>1. k \in 1..Width(m, loading) /\ Passed(m, loading, k, Built, loading, len)
      BY <1>1, <1>7, <1>11 DEF Passed, len
    <3> QED
      BY <1>1, <1>5, <1>14, <3>1
  <2>2. TableIs(m, loading, table, opened', missing')
    BY <1>4, <1>13, <1>15, <1>16, <2>1, TableStays
  <2>3. table \in Seq(Nat) /\ Len(table) = len /\ Len(opened') \in Nat
    BY <1>4, <1>15, LenProperties DEF TableIs, len
  <2>4. \A k \in 1..len : IF PlaceFile(m, loading, k) \in missing' THEN table[k] = 0
                          ELSE /\ table[k] - 2 \in 1..Len(opened')
                               /\ opened'[table[k] - 2] = PlaceFile(m, loading, k)
    BY <2>2, <2>3 DEF TableIs
  <2>5. PICK fd \in Nat :
          /\ table' = Append(table, fd)
          /\ IF f \in missing' THEN fd = 0
             ELSE fd - 2 \in 1..Len(opened') /\ opened'[fd - 2] = f
    <3>1. CASE opened' = Append(opened, f) /\ missing' = missing /\ table' = Append(table, 3 + Len(opened))
      <4>1. Len(opened') = Len(opened) + 1 /\ opened'[Len(opened) + 1] = f
        BY <1>13, <1>15, <3>1, AppendProperties
      <4>2. f \notin missing'
        <5>1. Len(opened) + 1 \in 1..Len(opened')
          BY <1>15, <4>1
        <5> QED
          BY <1>13, <4>1, <5>1 DEF FilesOK
      <4>3. 3 + Len(opened) \in Nat /\ (3 + Len(opened)) - 2 = Len(opened) + 1
            /\ Len(opened) + 1 \in 1..Len(opened')
        BY <1>15, <4>1
      <4> QED
        BY <3>1, <4>1, <4>2, <4>3
    <3>2. CASE opened' = opened /\ missing' = missing \cup {f} /\ table' = Append(table, 0)
      BY <3>2
    <3> QED
      BY <1>9, <3>1, <3>2
  <2>6. /\ table' \in Seq(Nat) /\ Len(table') = len + 1
        /\ \A k \in 1..len : table'[k] = table[k]
        /\ table'[len + 1] = fd
    BY <2>3, <2>5, AppendProperties
  <2>7. ASSUME NEW k \in 1..(len + 1)
        PROVE  IF PlaceFile(m, loading, k) \in missing' THEN table'[k] = 0
               ELSE /\ table'[k] - 2 \in 1..Len(opened')
                    /\ opened'[table'[k] - 2] = PlaceFile(m, loading, k)
    <3>1. CASE k \in 1..len
      BY <2>4, <2>6, <3>1
    <3>2. CASE k = len + 1
      <4>1. PlaceFile(m, loading, k) = f
        BY <1>8, <3>2
      <4> QED
        BY <2>5, <2>6, <3>2, <4>1
    <3> QED
      BY <1>7, <3>1, <3>2
  <2>8. len + 1 <= Width(m, loading)
    BY <1>7
  <2> QED
    BY <2>6, <2>7, <2>8 DEF TableIs
<1>20. ModulesOK' /\ ProcessesOK'
  BY <1>2, <1>3, <1>17 DEF DevicesOK, ModulesOK, ProcessesOK
<1>21. ConstructionOK'
  <2>1. loading # Count(m) + 1
    BY <1>5
  <2> QED
    BY <1>2, <1>3, <1>4, <1>11, <1>18, <1>19, <2>1 DEF ConstructionOK
<1>22. FilesOK(opened', missing', Built', loading', Len(table'))
  <2>1. Len(table') = len + 1
    <3>1. table \in Seq(Nat) /\ 3 + Len(opened) \in Nat /\ 0 \in Nat
      BY <1>4, <1>15 DEF TableIs
    <3> QED
      BY <1>9, <3>1, AppendProperties DEF len
  <2> QED
    BY <1>2, <1>3, <1>13, <2>1
<1>23. OnlyProbesStopStartUp'
  BY <1>3 DEF OnlyProbesStopStartUp, openSysNode, Constructing
<1>24. Built' # 3 /\ done' \in 0..Ready'
  BY <1>1, <1>2 DEF DevicesOK, Ready, WithModules, Mapped
<1> QED
  BY <1>20, <1>21, <1>22, <1>23, <1>24 DEF DevicesOK

\* The end of a node's loading
LEMMA LoadStays ==
    ASSUME DevicesOK, loadNode
    PROVE  DevicesOK'
<1> DEFINE m == Built + 1
           key == Key(NodeList[loading])
<1>1. Built \in 0..2 /\ m \in 1..3 /\ NodeList = List(m) /\ Len(NodeList) = Count(m)
  BY ConstructingIs DEF loadNode
<1>2. Built' = Built /\ Running' = Running /\ done' = done
  BY DEF loadNode, Built, Running
<1>3. /\ UNCHANGED <<brewModules, controlProcesses, opened, missing>>
      /\ table' = <<>> /\ loading' = loading + 1 /\ loaded' = Insert(loaded, key, table)
      /\ ~terminated /\ (MayThrow \/ terminated' = terminated)
  BY DEF loadNode, Constructing, devices, files
<1>4. /\ loading \in 1..(Count(m) + 1) /\ NodesAre(m, loaded, loading - 1, opened, missing)
      /\ TableIs(m, loading, table, opened, missing)
  BY <1>1 DEF DevicesOK, ConstructionOK
<1>5. Count(m) \in Nat /\ loading \in 1..Count(m) /\ key = PlaceKey(m, loading)
  <2>1. Count(m) \in Nat
    BY DEF Count
  <2>2. loading <= Count(m)
    BY <1>1 DEF loadNode
  <2> QED
    BY <1>1, <1>4, <2>1, <2>2 DEF PlaceKey
<1>6. Len(table) = Width(m, loading) /\ Width(m, loading) \in Nat
  <2>1. AttributesOf(NodeList, loading) = Attrs(m, loading) /\ Len(Attrs(m, loading)) = Width(m, loading)
    BY <1>1, <1>5, AllAreLoaded, PlaceIs
  <2> QED
    BY <2>1 DEF loadNode, Width
<1>7. m = Built + 1
  OBVIOUS
<1> HIDE DEF m, key
<1>8. \A i \in 1..(loading - 1) : PlaceKey(m, i) # key
  <2>1. \A i, j \in 1..Count(m) : PlaceKey(m, i) = PlaceKey(m, j) => i = j
    BY <1>1, KeysAreDifferent
  <2> QED
    BY <1>5, <2>1
<1>9. NodesAre(m, loaded', loading, opened, missing)
  <2>1. DOMAIN loaded = {PlaceKey(m, i) : i \in 1..(loading - 1)} /\ key \notin DOMAIN loaded
    BY <1>4, <1>8 DEF NodesAre
  <2>2. /\ DOMAIN loaded' = DOMAIN loaded \cup {key}
        /\ loaded'[key] = table
        /\ \A k \in DOMAIN loaded : loaded'[k] = loaded[k]
    BY <1>3, <2>1 DEF Insert
  <2>3. \A i : i \in 1..loading <=> i \in 1..(loading - 1) \/ i = loading
    BY <1>5
  <2>4. DOMAIN loaded' = {PlaceKey(m, i) : i \in 1..loading}
    BY <1>5, <2>1, <2>2, <2>3
  <2>5. ASSUME NEW i \in 1..loading
        PROVE  /\ TableIs(m, i, loaded'[PlaceKey(m, i)], opened, missing)
               /\ Len(loaded'[PlaceKey(m, i)]) = Width(m, i)
    <3>1. CASE i = loading
      BY <1>4, <1>5, <1>6, <2>2, <3>1
    <3>2. CASE i \in 1..(loading - 1)
      <4>1. loaded'[PlaceKey(m, i)] = loaded[PlaceKey(m, i)]
        BY <2>1, <2>2, <3>2
      <4> QED
        BY <1>4, <3>2, <4>1 DEF NodesAre
    <3> QED
      BY <2>3, <3>1, <3>2
  <2> QED
    BY <2>4, <2>5 DEF NodesAre
<1>10. ConstructionOK'
  <2>1. TableIs(m, loading + 1, <<>>, opened, missing)
    <3>1. <<>> \in Seq(Nat) /\ Len(<<>>) = 0 /\ 1..0 = {} /\ 0 <= Width(m, loading + 1)
      BY EmptySeq DEF Width
    <3> QED
      BY <3>1 DEF TableIs
  <2>2. loading + 1 \in 1..(Count(m) + 1) /\ (loading + 1) - 1 = loading
    BY <1>5
  <2> QED
    BY <1>2, <1>3, <1>7, <1>9, <2>1, <2>2 DEF ConstructionOK
<1>11. FilesOK(opened', missing', Built', loading', Len(table'))
  <2>1. ASSUME NEW n \in 1..3, NEW i \in 1..Count(n), NEW k \in 1..Width(n, i),
               Passed(n, i, k, Built, loading, Len(table))
        PROVE  Passed(n, i, k, Built, loading + 1, 0)
    <3>1. Count(n) \in Nat
      BY DEF Count
    <3> QED
      BY <1>1, <1>5, <2>1, <3>1 DEF Passed
  <2>2. FilesOK(opened, missing, Built, loading + 1, 0)
    BY <2>1, FilesPass DEF DevicesOK
  <2> QED
    BY <1>2, <1>3, <2>2, EmptySeq
<1>12. ModulesOK' /\ ProcessesOK'
  BY <1>2, <1>3 DEF DevicesOK, ModulesOK, ProcessesOK
<1>13. OnlyProbesStopStartUp'
  <2>1. done \in Mapped..(WithModules - 1)
    BY DEF loadNode, Constructing
  <2>2. /\ Mapped' = Mapped /\ WithModules' = WithModules
        /\ NodeList' = NodeList
    BY <1>2 DEF Mapped, WithModules, NodeList, Module
  <2>3. loading' > 1 /\ loading' - 1 = loading
    BY <1>3, <1>5
  <2> QED
    BY <1>2, <1>3, <2>1, <2>2, <2>3 DEF OnlyProbesStopStartUp, MayThrow
<1>14. Built' # 3 /\ done' \in 0..Ready'
  BY <1>1, <1>2 DEF DevicesOK, Ready, WithModules, Mapped
<1> QED
  BY <1>10, <1>11, <1>12, <1>13, <1>14 DEF DevicesOK

\* A module is registered under the number of its place.
LEMMA ModuleStays ==
    ASSUME DevicesOK, MappingIs, newModule
    PROVE  DevicesOK'
<1> DEFINE b == Built
<1>1. /\ b \in 0..2 /\ done \in Nat /\ done = Mapped + b
      /\ Module = moduleList[b + 1] /\ NodeList = List(b + 1)
      /\ Len(NodeList) = Count(b + 1)
  BY ConstructingIs DEF newModule
<1>2. Mapped \in Nat /\ WithModules = Mapped + 3 /\ Ready = Mapped + 21
  BY StepsAre
<1>3. Machine(<<"device", Module>>) = b + 1
  <2>1. b + 1 \in 1..3
    BY <1>1
  <2>2. Machine(ModuleUrl(b + 1)) = b + 1
    BY <2>1, MachinesAre
  <2> QED
    BY <1>1, <2>2 DEF ModuleUrl
<1>4. /\ brewModules' = Insert(brewModules, b + 1, [name |-> moduleList[b + 1], nodes |-> loaded])
      /\ terminated' = (b + 1 \in DOMAIN brewModules)
      /\ loaded' = <<>> /\ loading' = 1 /\ done' = done + 1
      /\ UNCHANGED <<controlProcesses, table, opened, missing>>
  BY <1>1, <1>3 DEF newModule, files
<1>5. done' \in Nat /\ Built' = b + 1 /\ Running' = 0 /\ Running = 0 /\ done' \in 0..Ready'
  <2>1. Mapped' = Mapped /\ WithModules' = WithModules /\ Ready' = Ready
    BY DEF Mapped, WithModules, Ready
  <2>2. done' = Mapped + b + 1
    BY <1>1, <1>2, <1>4
  <2> HIDE DEF Mapped, WithModules, Ready, b
  <2> QED
    BY <1>1, <1>2, <2>1, <2>2 DEF Built, Running
<1>6. /\ DOMAIN brewModules = 0..b
      /\ \A n \in 1..b : /\ brewModules[n].name = moduleList[n]
                         /\ NodesAre(n, brewModules[n].nodes, Count(n), opened, missing)
  BY DEF DevicesOK, ModulesOK
<1>7. /\ loading \in 1..(Count(b + 1) + 1) /\ NodesAre(b + 1, loaded, loading - 1, opened, missing)
      /\ loading = Count(b + 1) + 1 => table = <<>>
  BY <1>1 DEF DevicesOK, ConstructionOK
<1>8. Count(b + 1) \in Nat /\ loading = Count(b + 1) + 1 /\ loading - 1 = Count(b + 1) /\ table = <<>>
  <2>1. Count(b + 1) \in Nat /\ loading > Count(b + 1)
    BY <1>1 DEF newModule, Count
  <2> QED
    BY <1>7, <2>1
<1>9. FilesOK(opened, missing, b, loading, Len(table))
  BY DEF DevicesOK
<1> HIDE DEF b
<1>10. terminated' = FALSE
  BY <1>1, <1>4, <1>6
<1>11. ModulesOK'
  <2>1. b + 1 \notin DOMAIN brewModules
    BY <1>1, <1>6
  <2>2. /\ DOMAIN brewModules' = (0..b) \cup {b + 1}
        /\ brewModules'[b + 1] = [name |-> moduleList[b + 1], nodes |-> loaded]
        /\ \A n \in 0..b : brewModules'[n] = brewModules[n]
    BY <1>4, <1>6, <2>1 DEF Insert
  <2>3. (0..b) \cup {b + 1} = 0..(b + 1) /\ 1..b \subseteq 0..b
    BY <1>1
  <2>4. ASSUME NEW n \in 1..(b + 1)
        PROVE  /\ brewModules'[n].name = moduleList[n]
               /\ NodesAre(n, brewModules'[n].nodes, Count(n), opened, missing)
    <3>1. CASE n = b + 1
      BY <1>7, <1>8, <2>2, <3>1
    <3>2. CASE n \in 1..b
      BY <1>6, <2>2, <2>3, <3>2
    <3> QED
      BY <1>1, <3>1, <3>2
  <2> QED
    BY <1>4, <1>5, <2>2, <2>3, <2>4 DEF ModulesOK
<1>12. ProcessesOK'
  BY <1>4, <1>5 DEF DevicesOK, ProcessesOK
<1>13. ConstructionOK' /\ (Built' = 3 => loading' = 1 /\ table' = <<>>)
  <2>1. ASSUME NEW n \in 1..3 PROVE Count(n) \in 1..4 /\ Width(n, 1) \in Nat
    BY DEF Count, Width
  <2>2. \A n : NodesAre(n, <<>>, 0, opened, missing)
    <3>1. 1..0 = {}
      OBVIOUS
    <3> QED
      BY <3>1 DEF NodesAre
  <2>3. ASSUME NEW n \in 1..3 PROVE TableIs(n, 1, <<>>, opened, missing)
    <3>1. <<>> \in Seq(Nat) /\ Len(<<>>) = 0 /\ 1..0 = {} /\ 0 <= Width(n, 1)
      BY <2>1, EmptySeq
    <3> QED
      BY <3>1 DEF TableIs
  <2>4. Built' < 3 => /\ Built' + 1 \in 1..3 /\ 1 \in 1..(Count(Built' + 1) + 1)
                      /\ 1 - 1 = 0 /\ 1 # Count(Built' + 1) + 1
    <3>1. Built' < 3 => Built' + 1 \in 1..3
      BY <1>1, <1>5
    <3>2. \A n \in 1..3 : 1 \in 1..(Count(n) + 1) /\ 1 # Count(n) + 1
      BY <2>1
    <3> QED
      BY <3>1, <3>2
  <2>5. loaded' = <<>> /\ loading' = 1 /\ table' = <<>> /\ opened' = opened /\ missing' = missing
    BY <1>4, <1>8
  <2>6. ASSUME Built' < 3
        PROVE  /\ loading' \in 1..(Count(Built' + 1) + 1)
               /\ NodesAre(Built' + 1, loaded', loading' - 1, opened', missing')
               /\ TableIs(Built' + 1, loading', table', opened', missing')
               /\ loading' = Count(Built' + 1) + 1 => table' = <<>>
    BY <2>2, <2>3, <2>4, <2>5, <2>6
  <2> QED
    BY <2>5, <2>6 DEF ConstructionOK
<1>14. FilesOK(opened', missing', Built', loading', Len(table'))
  <2>1. ASSUME NEW n \in 1..3, NEW i \in 1..Count(n), NEW k \in 1..Width(n, i),
               Passed(n, i, k, b, loading, Len(table))
        PROVE  Passed(n, i, k, b + 1, 1, 0)
    BY <1>1, <2>1 DEF Passed
  <2>2. FilesOK(opened, missing, b + 1, 1, 0)
    BY <1>9, <2>1, FilesPass
  <2> QED
    BY <1>4, <1>5, <1>8, <2>2, EmptySeq
<1>15. OnlyProbesStopStartUp'
  BY <1>10 DEF OnlyProbesStopStartUp
<1> QED
  BY <1>5, <1>11, <1>12, <1>13, <1>14, <1>15 DEF DevicesOK

\* A process is registered under the number of its place.
LEMMA ProcessStays ==
    ASSUME DevicesOK, MappingIs, newControlProcess
    PROVE  DevicesOK'
<1> DEFINE r == Running
<1>1. Mapped \in Nat /\ WithModules = Mapped + 3 /\ Ready = Mapped + 21
  BY StepsAre
<1>2. done \in WithModules..(Ready - 1) /\ done' = done + 1 /\ ~terminated
  BY DEF newControlProcess
<1>3. UNCHANGED <<brewModules, loaded, loading, table, opened, missing, terminated>>
  BY DEF newControlProcess, construction, files
<1>4. /\ Built = 3 /\ Built' = 3 /\ r \in 0..17 /\ r = done - WithModules /\ Running' = r + 1
      /\ done' \in 0..Ready'
  <2>1. Mapped' = Mapped /\ WithModules' = WithModules /\ Ready' = Ready
    BY DEF Mapped, WithModules, Ready
  <2> HIDE DEF Mapped, WithModules, Ready
  <2> QED
    BY <1>1, <1>2, <2>1 DEF Built, Running
<1>5. DOMAIN controlProcesses = 0..r /\ \A p \in 1..r : controlProcesses[p] = processList[p][1]
  BY DEF DevicesOK, ProcessesOK
<1>6. controlProcesses' = Insert(controlProcesses, r + 1, processList[r + 1][1])
  <2>1. Machine(ProcessUrl(r + 1)) = r + 1
    BY <1>4, MachinesAre
  <2>2. done - WithModules + 1 = r + 1
    BY <1>4
  <2> HIDE DEF r
  <2> QED
    BY <2>1, <2>2 DEF newControlProcess, ProcessUrl
<1> HIDE DEF r
<1>7. ProcessesOK'
  <2>1. r + 1 \notin DOMAIN controlProcesses
    BY <1>4, <1>5
  <2>2. /\ DOMAIN controlProcesses' = (0..r) \cup {r + 1}
        /\ controlProcesses'[r + 1] = processList[r + 1][1]
        /\ \A p \in 0..r : controlProcesses'[p] = controlProcesses[p]
    BY <1>5, <1>6, <2>1 DEF Insert
  <2>3. (0..r) \cup {r + 1} = 0..(r + 1) /\ \A p \in 1..(r + 1) : p \in 1..r \/ p = r + 1
    BY <1>4
  <2>4. 1..r \subseteq 0..r
    BY <1>4
  <2> QED
    BY <1>4, <1>5, <2>2, <2>3, <2>4 DEF ProcessesOK
<1> QED
  BY <1>2, <1>3, <1>4, <1>7
     DEF DevicesOK, ModulesOK, ConstructionOK, OnlyProbesStopStartUp

-----------------------------------------------------------------------------
(***************************************************************************)
(* The start-up as a whole.                                                *)
(***************************************************************************)
\* The inductive invariant of the start-up
MappedOK == done >= Mapped => MappingIs
StartUpInv == TreeOK /\ GrownOK /\ MappedOK /\ DevicesOK

\* The invariant holds at the start ...
LEMMA StartUpInit == DInit => StartUpInv
<1> SUFFICES ASSUME DInit PROVE StartUpInv
  OBVIOUS
<1>1. done = 0
  BY DEF DInit
<1>2. Len(build) \in Nat /\ Mapped = Len(build) + 1
  BY StepsAre, BuildPlaces, LenProperties
<1>3. ~(0 >= Mapped)
  <2> DEFINE n == Len(build)
  <2>1. n \in Nat /\ Mapped = n + 1
    BY <1>2
  <2> HIDE DEF n, Mapped
  <2> QED
    BY <2>1
<1>4. TreeOK
  BY TreeInit DEF DInit
<1> QED
  BY <1>1, <1>3, <1>4, GrownInit, DevicesInit DEF StartUpInv, MappedOK

\* A step that leaves the tree alone keeps what is known of it.
LEMMA TreesStay ==
    ASSUME StartUpInv, UNCHANGED vars, done' = done \/ (done' = done + 1 /\ done >= Mapped)
    PROVE  GrownOK' /\ MappedOK' /\ TreeOK'
<1>1. Mapped \in Nat /\ Mapped = Len(build) + 1 /\ done \in Nat
  BY StepsAre DEF StartUpInv, GrownOK
<1>2. done' = done \/ (done' = done + 1 /\ ~(done < Len(build)))
  <2> DEFINE n == Len(build)
  <2>1. n \in Nat /\ Mapped = n + 1
    BY <1>1, BuildPlaces, LenProperties
  <2> HIDE DEF n, Mapped
  <2>2. done' = done \/ (done' = done + 1 /\ ~(done < n))
    BY <1>1, <2>1
  <2> QED
    BY <2>2 DEF n
<1>3. GrownOK'
  BY <1>2, GrownStays DEF StartUpInv, vars
<1>4. MappedOK'
  <2>1. Mapped' = Mapped
    BY DEF Mapped
  <2>2. MappingIs => MappingIs'
    BY DEF MappingIs, MapsTo, vars
  <2> HIDE DEF Mapped
  <2> QED
    BY <1>1, <2>1, <2>2 DEF StartUpInv, MappedOK
<1>5. TreeOK'
  BY TreeStays DEF StartUpInv
<1> QED
  BY <1>3, <1>4, <1>5

\* ... and every step of the start-up keeps it.
LEMMA StartUpStep == StartUpInv /\ [DNext]_allVars => StartUpInv'
<1> SUFFICES ASSUME StartUpInv, [DNext]_allVars PROVE StartUpInv'
  OBVIOUS
<1>1. Mapped \in Nat /\ Mapped = Len(build) + 1 /\ done \in Nat /\ WithModules = Mapped + 3 /\ Ready = Mapped + 21
  BY StepsAre DEF StartUpInv, GrownOK
<1>2. Len(build) \in Nat
  BY BuildPlaces, LenProperties
<1>3. Mapped' = Mapped
  BY DEF Mapped
<1>4. CASE Grow
  <2> DEFINE n == Len(build)
  <2>1. n \in Nat /\ Mapped = n + 1 /\ done < n /\ done' = done + 1
    BY <1>1, <1>2, <1>4 DEF Grow
  <2> HIDE DEF n, Mapped
  <2>2. done < Mapped /\ ~(done' >= Mapped')
    BY <1>1, <1>3, <2>1
  <2>3. TreeOK'
    BY <1>4, TreeStays DEF StartUpInv, Grow, TreeStep
  <2>4. GrownOK'
    BY <1>4, GrownGrows DEF StartUpInv
  <2>5. DevicesOK'
    BY <1>4, <2>1, <2>2, GrowingStays DEF StartUpInv, Grow
  <2> QED
    BY <2>2, <2>3, <2>4, <2>5 DEF StartUpInv, MappedOK
<1>5. CASE Map
  <2> DEFINE n == Len(build)
  <2>1. n \in Nat /\ Mapped = n + 1 /\ done = n /\ done' = done + 1
    BY <1>1, <1>2, <1>5 DEF Map
  <2>2. ~(done < Len(build))
    BY <2>1
  <2> HIDE DEF n, Mapped
  <2>3. done < Mapped
    BY <1>1, <2>1
  <2>4. TreeOK'
    BY <1>5, TreeStays DEF StartUpInv, Map, TreeStep
  <2>5. GrownOK'
    BY <1>5, <2>1, <2>2, GrownStays DEF StartUpInv, Map, ProduceAll
  <2>6. MappingIs'
    BY <1>5, MapMaps DEF StartUpInv, Map, ProduceAll
  <2>7. DevicesOK'
    BY <1>5, <2>1, <2>3, GrowingStays DEF StartUpInv, Map
  <2> QED
    BY <2>4, <2>5, <2>6, <2>7 DEF StartUpInv, MappedOK
<1>6. CASE openSysNode
  <2>1. UNCHANGED vars /\ done' = done
    BY <1>6 DEF openSysNode
  <2> QED
    BY <1>6, <2>1, TreesStay, OpenStays DEF StartUpInv
<1>7. CASE loadNode
  <2>1. UNCHANGED vars /\ done' = done
    BY <1>7 DEF loadNode
  <2> QED
    BY <1>7, <2>1, TreesStay, LoadStays DEF StartUpInv
<1>8. CASE newModule
  <2>1. UNCHANGED vars /\ done' = done + 1 /\ done >= Mapped
    <3>1. done \in Mapped..(WithModules - 1)
      BY <1>8 DEF newModule, Constructing
    <3> QED
      BY <1>1, <1>8, <3>1 DEF newModule
  <2>2. DevicesOK'
    BY <1>8, <2>1, ModuleStays DEF StartUpInv, MappedOK
  <2> QED
    BY <2>1, <2>2, TreesStay DEF StartUpInv
<1>9. CASE newControlProcess
  <2>1. UNCHANGED vars /\ done' = done + 1
    BY <1>9 DEF newControlProcess
  <2>2. done >= Mapped
    <3>1. done \in WithModules..(Ready - 1)
      BY <1>9 DEF newControlProcess
    <3> HIDE DEF Mapped, WithModules, Ready
    <3> QED
      BY <1>1, <3>1
  <2>3. DevicesOK'
    BY <1>9, <2>2, ProcessStays DEF StartUpInv, MappedOK
  <2> QED
    BY <2>1, <2>2, <2>3, TreesStay DEF StartUpInv
<1>10. CASE Started \/ UNCHANGED allVars
  <2>1. UNCHANGED allVars
    BY <1>10 DEF Started
  <2>2. UNCHANGED vars /\ done' = done
    BY <2>1 DEF allVars
  <2>3. DevicesOK'
    BY <2>1 DEF StartUpInv, allVars, devices, construction, files, DevicesOK, ModulesOK, ProcessesOK,
                ConstructionOK, OnlyProbesStopStartUp, NodeList, Module, Built, Running
  <2> QED
    BY <2>2, <2>3, TreesStay DEF StartUpInv
<1> QED
  BY <1>4, <1>5, <1>6, <1>7, <1>8, <1>9, <1>10 DEF DNext

-----------------------------------------------------------------------------
(***************************************************************************)
(* What follows once the program is ready.                                 *)
(***************************************************************************)
\* Once the program is ready, all is registered.
LEMMA ReadyIs ==
    ASSUME StartUpInv, done = Ready
    PROVE  /\ MappingIs
           /\ DOMAIN brewModules = 0..3 /\ DOMAIN controlProcesses = 0..18
           /\ \A m \in 1..3 : /\ brewModules[m].name = moduleList[m]
                              /\ NodesAre(m, brewModules[m].nodes, Count(m), opened, missing)
           /\ \A p \in 1..18 : controlProcesses[p] = processList[p][1]
<1>1. Mapped \in Nat /\ WithModules = Mapped + 3 /\ Ready = Mapped + 21
  BY StepsAre
<1> HIDE DEF Mapped, WithModules, Ready
<1>2. Built = 3 /\ Running = 18 /\ done >= Mapped
  BY <1>1 DEF Built, Running
<1> QED
  BY <1>2 DEF StartUpInv, MappedOK, DevicesOK, ModulesOK, ProcessesOK

\* The descriptors are in the order of the attributes, which the indices follow.
LEMMA IndicesFind == StartUpInv => IndicesFindTheirFiles
<1> SUFFICES ASSUME StartUpInv, done = Ready, NEW id \in DOMAIN brewModules \ {0},
                    NEW node \in ToSet(moduleNodes[brewModules[id].name]),
                    NEW a \in ToSet(Attributes[node.prefix])
             PROVE  FileOf(brewModules[id].nodes[Key(node)][IndexOf[a] + 1]) =
                      IF File(node, a) \in missing THEN StandardInput ELSE File(node, a)
  BY DEF IndicesFindTheirFiles
<1>1. id \in 1..3 /\ moduleNodes[brewModules[id].name] = List(id)
      /\ NodesAre(id, brewModules[id].nodes, Count(id), opened, missing)
  BY ReadyIs DEF List
<1>2. Len(List(id)) = Count(id) /\ Count(id) \in Nat
  BY <1>1, LengthIs DEF Count
<1>3. PICK i \in 1..Count(id) : node = List(id)[i]
  <2>1. PICK i \in DOMAIN List(id) : node = List(id)[i]
    BY <1>1 DEF ToSet
  <2>2. DOMAIN List(id) = 1..Count(id)
    <3>1. id = 1 \/ id = 2 \/ id = 3
      BY <1>1
    <3>2. DOMAIN List(1) = 1..4 /\ DOMAIN List(2) = 1..3 /\ DOMAIN List(3) = 1..3
      BY ListsOfNodes
    <3> QED
      BY <3>1, <3>2 DEF Count
  <2>3. i \in 1..Count(id)
    BY <2>1, <2>2
  <2> QED
    BY <2>1, <2>3
<1> DEFINE x == node.prefix
<1>4. x \in {"probe", "load_cell", "switch"} /\ Attrs(id, i) = Attributes[x]
      /\ Width(id, i) = IF x = "probe" THEN 3 ELSE 1
  BY <1>1, <1>3, PlaceIs DEF Attrs, Width
<1>5. a \in ToSet(Attributes[x])
  OBVIOUS
<1> HIDE DEF x
<1>6. IndexOf[a] + 1 \in 1..Width(id, i) /\ Attributes[x][IndexOf[a] + 1] = a
  <2>1. CASE x = "probe"
    <3>1. ToSet(Attributes["probe"]) = {"rtd_impedence", "ref_impedence", "pga_gain"}
      BY DEF ToSet, Attributes
    <3> QED
      BY <1>4, <1>5, <2>1, <3>1 DEF Attributes, IndexOf
  <2>2. CASE x = "load_cell"
    <3>1. ToSet(Attributes["load_cell"]) = {"raw"}
      BY DEF ToSet, Attributes
    <3> QED
      BY <1>4, <1>5, <2>2, <3>1 DEF Attributes, IndexOf
  <2>3. CASE x = "switch"
    <3>1. ToSet(Attributes["switch"]) = {"power_level"}
      BY DEF ToSet, Attributes
    <3> QED
      BY <1>4, <1>5, <2>3, <3>1 DEF Attributes, IndexOf
  <2> QED
    BY <1>4, <2>1, <2>2, <2>3
<1> DEFINE k == IndexOf[a] + 1
           t == brewModules[id].nodes[PlaceKey(id, i)]
<1>7. Key(node) = PlaceKey(id, i) /\ File(node, a) = PlaceFile(id, i, k)
  BY <1>3, <1>4, <1>6 DEF PlaceKey, PlaceFile
<1>8. TableIs(id, i, t, opened, missing) /\ Len(t) = Width(id, i)
  BY <1>1 DEF NodesAre
<1>9. k \in 1..Len(t)
  BY <1>6, <1>8
<1>10. brewModules[id].nodes[Key(node)][IndexOf[a] + 1] = t[k]
  BY <1>7
<1> HIDE DEF k, t
<1>11. IF PlaceFile(id, i, k) \in missing THEN t[k] = 0
       ELSE t[k] - 2 \in 1..Len(opened) /\ opened[t[k] - 2] = PlaceFile(id, i, k)
  BY <1>8, <1>9 DEF TableIs
<1>12. t[k] \in Nat
  BY <1>8, <1>9, ElementOfSeq DEF TableIs
<1>13. FileOf(t[k]) = IF PlaceFile(id, i, k) \in missing THEN StandardInput ELSE PlaceFile(id, i, k)
  BY <1>11, <1>12 DEF FileOf
<1> QED
  BY <1>7, <1>10, <1>13

\* The classes of a module's processes fit the switches it has.
LEMMA ClassesFit ==
    \A p \in 1..18 :
      /\ \E m \in 1..3 : processList[p][3] = moduleList[m]
      /\ processList[p][2] \in DOMAIN NodesUsed
      /\ processList[p][2] \in {"SwitchElement", "ControlTemperature", "Boil"} =>
           processList[p][3] # "mash"
      /\ processList[p][2] = "SwitchPump" => processList[p][3] # "kettle"
<1>1. moduleList[1] = "hlt" /\ moduleList[2] = "mash" /\ moduleList[3] = "kettle"
  BY DEF moduleList
<1>2. \A p \in 1..18 : processList[p][3] \in {"hlt", "mash", "kettle"}
  BY DEF processList
<1>3. \A p \in 1..18 : processList[p][2] \in DOMAIN NodesUsed
  BY DEF processList, NodesUsed
<1>4. \A p \in 1..18 :
        /\ processList[p][2] \in {"SwitchElement", "ControlTemperature", "Boil"} =>
             processList[p][3] # "mash"
        /\ processList[p][2] = "SwitchPump" => processList[p][3] # "kettle"
  BY DEF processList
<1>5. \A p \in 1..18 : \E m \in 1..3 : processList[p][3] = moduleList[m]
  BY <1>1, <1>2
<1> QED
  BY <1>3, <1>4, <1>5

\* Each module has its probe and load cell, and the switches it is to have.
LEMMA KeysAre ==
    /\ \A m \in 1..3 : Probe \in {PlaceKey(m, i) : i \in 1..Count(m)}
                       /\ LoadCell \in {PlaceKey(m, i) : i \in 1..Count(m)}
    /\ \A m \in {1, 3} : Switch("element") \in {PlaceKey(m, i) : i \in 1..Count(m)}
    /\ \A m \in {1, 2} : Switch("pump") \in {PlaceKey(m, i) : i \in 1..Count(m)}
<1>1. /\ PlaceKey(1, 1) = Probe /\ PlaceKey(1, 2) = LoadCell
      /\ PlaceKey(1, 3) = Switch("element") /\ PlaceKey(1, 4) = Switch("pump")
      /\ PlaceKey(2, 1) = Probe /\ PlaceKey(2, 2) = LoadCell /\ PlaceKey(2, 3) = Switch("pump")
      /\ PlaceKey(3, 1) = Probe /\ PlaceKey(3, 2) = LoadCell /\ PlaceKey(3, 3) = Switch("element")
  BY ListsOfNodes DEF PlaceKey, Key, Node, Probe, LoadCell, Switch
<1>2. \A m \in 1..3 : m = 1 \/ m = 2 \/ m = 3
  OBVIOUS
<1>3. Count(1) = 4 /\ Count(2) = 3 /\ Count(3) = 3
  BY DEF Count
<1> HIDE DEF Probe, LoadCell, Switch
<1>4. \A m \in 1..3 : Probe \in {PlaceKey(m, i) : i \in 1..Count(m)}
                       /\ LoadCell \in {PlaceKey(m, i) : i \in 1..Count(m)}
  BY <1>1, <1>2, <1>3
<1>5. \A m \in {1, 3} : Switch("element") \in {PlaceKey(m, i) : i \in 1..Count(m)}
  BY <1>1, <1>3
<1>6. \A m \in {1, 2} : Switch("pump") \in {PlaceKey(m, i) : i \in 1..Count(m)}
  BY <1>1, <1>3
<1> QED
  BY <1>4, <1>5, <1>6

\* So every process finds the nodes it uses.
LEMMA ProcessesFind == StartUpInv => ProcessesFindTheirNodes
<1> SUFFICES ASSUME StartUpInv, done = Ready, NEW p \in 1..18
             PROVE  LET e == processList[p]
                        id == Machine(<<"device", e[3]>>)
                    IN  /\ id \in DOMAIN brewModules
                        /\ brewModules[id].name = e[3]
                        /\ NodesUsed[e[2]] \subseteq DOMAIN brewModules[id].nodes
                        /\ e[2] = "CalibrateScale" => id \in Calibrated
  <2>1. ToSet(processList) = {processList[p] : p \in 1..18}
    BY DEF ToSet, processList
  <2> QED
    BY <2>1 DEF ProcessesFindTheirNodes
<1>1. PICK m \in 1..3 : processList[p][3] = moduleList[m]
  BY ClassesFit
<1>2. Machine(<<"device", processList[p][3]>>) = m
  <2>1. Machine(ModuleUrl(m)) = m
    BY ReadyIs, MachinesAre
  <2> QED
    BY <1>1, <2>1 DEF ModuleUrl
<1>3. /\ m \in DOMAIN brewModules /\ brewModules[m].name = processList[p][3]
      /\ DOMAIN brewModules[m].nodes = {PlaceKey(m, i) : i \in 1..Count(m)}
  BY <1>1, ReadyIs DEF NodesAre
<1> DEFINE class == processList[p][2]
           keys == {PlaceKey(m, i) : i \in 1..Count(m)}
<1>4. /\ class \in DOMAIN NodesUsed
      /\ class \in {"SwitchElement", "ControlTemperature", "Boil"} => m # 2
      /\ class = "SwitchPump" => m # 3
  BY <1>1, ClassesFit DEF moduleList
<1>5. /\ Probe \in keys /\ LoadCell \in keys
      /\ m # 2 => Switch("element") \in keys
      /\ m # 3 => Switch("pump") \in keys
  BY KeysAre
<1> HIDE DEF class, keys
<1>6. NodesUsed[class] \subseteq keys
  BY <1>4, <1>5 DEF NodesUsed
<1> QED
  BY <1>2, <1>3, <1>6 DEF class, keys, Calibrated

\* A command finds a process by the name that its number stands for.
LEMMA EntryIs ==
    ASSUME NEW p \in 1..18
    PROVE  Entry(processList[p][1]) = processList[p]
<1>1. ToSet(processList) = {processList[q] : q \in 1..18}
  BY DEF ToSet, processList
<1>2. \A q \in 1..18 : processList[q][1] = processList[p][1] => q = p
  BY ListsAre
<1>3. \A e \in ToSet(processList) : e[1] = processList[p][1] <=> e = processList[p]
  BY <1>1, <1>2
<1>4. processList[p] \in ToSet(processList)
  BY <1>1
<1> QED
  BY <1>3, <1>4, Zenon DEF Entry

\* What the mapping says of a URL, as Controller asks
LEMMA CanIs ==
    ASSUME NEW u, NEW codes, NEW flags, MapsTo(u, codes, flags)
    PROVE  \A flag : Can(u, flag) <=> flag \in flags
BY DEF MapsTo, Can

\* The codes of a URL of three levels
LEMMA CodeIs ==
    ASSUME NEW u, NEW d \in Nat, NEW m \in Nat, NEW c \in Nat, NEW flags, MapsTo(u, <<d, m, c>>, flags)
    PROVE  DeviceCode(u) = d /\ ModuleCode(u) = m /\ NodeCode(u) = c
<1>1. urls[u].codes = <<d, m, c>>
  BY DEF MapsTo
<1> QED
  BY <1>1 DEF DeviceCode, ModuleCode, NodeCode, Code

\* A readable node reads the value that its name stands for.
LEMMA NodeReads ==
    ASSUME StartUpInv, done = Ready, NEW m \in 1..3, NEW c \in 1..4, Can(NodeUrl(m, c), "read")
    PROVE  read(NodeUrl(m, c)) = Found(moduleList[m], Cached[c])
<1> DEFINE u == NodeUrl(m, c)
<1>1. MapsTo(u, <<1, m, c>>, ModuleFlags(m, c))
  BY ReadyIs DEF MappingIs
<1> HIDE DEF u
<1>2. DeviceCode(u) = 1 /\ ModuleCode(u) = m /\ NodeCode(u) = c
  BY <1>1, CodeIs
<1>3. Cached[c] # Inactive[m] /\ Can(u, "read")
  BY <1>1, CanIs DEF ModuleFlags, u
<1>4. Machine(<<"device">>) = 1
  BY ReadyIs, MachinesAre
<1>5. /\ m \in DOMAIN brewModules /\ brewModules[m].name = moduleList[m]
      /\ DOMAIN brewModules[m].nodes = {PlaceKey(m, i) : i \in 1..Count(m)}
  BY ReadyIs, SMTT(30) DEF NodesAre
<1>6. CachedNodes[c] \in {PlaceKey(m, i) : i \in 1..Count(m)}
  <2>1. CachedNodes[1] = Probe /\ CachedNodes[2] = LoadCell
        /\ CachedNodes[3] = Switch("element") /\ CachedNodes[4] = Switch("pump")
    BY DEF CachedNodes
  <2>2. Cached[3] = "element" /\ Cached[4] = "pump"
        /\ Inactive[2] = "element" /\ Inactive[3] = "pump"
    BY DEF Cached, Inactive
  <2>3. (c = 3 => m # 2) /\ (c = 4 => m # 3)
    BY <1>3, <2>2
  <2>4. (c = 1 \/ c = 2 \/ c = 3 \/ c = 4) /\ (m = 1 \/ m = 2 \/ m = 3)
    OBVIOUS
  <2> HIDE DEF Probe, LoadCell, Switch
  <2>5. CASE c = 1 \/ c = 2
    BY <2>1, <2>5, KeysAre
  <2>6. CASE c = 3
    <3>1. m \in {1, 3}
      BY <2>3, <2>4, <2>6
    <3> QED
      BY <2>1, <2>6, <3>1, KeysAre
  <2>7. CASE c = 4
    <3>1. m \in {1, 2}
      BY <2>3, <2>4, <2>7
    <3> QED
      BY <2>1, <2>7, <3>1, KeysAre
  <2> QED
    BY <2>4, <2>5, <2>6, <2>7
<1>7. c \in DOMAIN Cached
  BY DEF Cached
<1>8. readModule(m, c) = Found(moduleList[m], Cached[c])
  BY <1>5, <1>6, <1>7, Zenon DEF readModule
<1>9. read(u) = readModule(m, c)
  BY <1>2, <1>3, <1>4 DEF read
<1> QED
  BY <1>8, <1>9 DEF u

\* A parameter, to read and to write
LEMMA ParameterIs ==
    ASSUME StartUpInv, done = Ready, NEW p \in 1..18, HasParams(p), NEW c \in 1..6
    PROVE  /\ read(ParamUrl(p, c)) =
                IF c = 1 THEN Error(3) ELSE Found(processList[p][1], ParamNames[c])
           /\ c # 1 => write(ParamUrl(p, c)) = Found(processList[p][1], ParamNames[c])
           /\ Can(ParamUrl(p, c), "write") => c # 1
<1> DEFINE u == ParamUrl(p, c)
           name == processList[p][1]
<1>1. MapsTo(u, <<2, p, c>>, ParamFlags(c))
  BY ReadyIs DEF MappingIs
<1> HIDE DEF u
<1>2. DeviceCode(u) = 2 /\ ModuleCode(u) = p /\ NodeCode(u) = c
  BY <1>1, CodeIs
<1>3. Can(u, "read") /\ (Can(u, "write") => c # 1)
  <2>1. ParamNames[1] = "desc"
    BY DEF ParamNames
  <2> QED
    BY <1>1, <2>1, CanIs DEF ParamFlags
<1>4. Machine(<<"device">>) = 1 /\ Machine(<<"process">>) = 2
  BY ReadyIs, MachinesAre
<1>5. p \in DOMAIN controlProcesses \ {0} /\ controlProcesses[p] = name
  BY ReadyIs
<1>6. Entry(name)[2] \in PIDProcesses
  BY EntryIs DEF HasParams
<1> HIDE DEF name
<1>7. Parameter(p, c) = IF c \notin 2..6 THEN Error(3) ELSE Found(name, Parameters[c])
  BY <1>5, <1>6, Zenon DEF Parameter
<1>8. c \in 2..6 <=> c # 1
  OBVIOUS
<1>9. c # 1 => Parameters[c] = ParamNames[c]
  BY DEF Parameters, ParamNames
<1>10. Parameter(p, c) = IF c = 1 THEN Error(3) ELSE Found(name, ParamNames[c])
  BY <1>7, <1>8, <1>9
<1>11. read(u) = Parameter(p, c) /\ write(u) = Parameter(p, c)
  BY <1>2, <1>3, <1>4 DEF read, write
<1> QED
  BY <1>3, <1>10, <1>11 DEF u, name

\* So every access finds what its URL names ...
LEMMA AccessesAre == StartUpInv => AccessesWhatItNames
<1> SUFFICES ASSUME StartUpInv, done = Ready, NEW u \in DOMAIN urls
             PROVE  /\ Can(u, "read") =>
                         read(u) = IF Last(u) = "desc" THEN Error(3) ELSE Found(u[2], u[3])
                    /\ Can(u, "write") => write(u) = Found(u[2], u[3])
  BY DEF AccessesWhatItNames
<1>1. MappingIs
  BY ReadyIs
<1>2. ASSUME NEW codes, MapsTo(u, codes, {}) \/ MapsTo(u, codes, {"run"})
      PROVE  ~Can(u, "read") /\ ~Can(u, "write")
  <2>1. \A flag : Can(u, flag) => flag = "run"
    BY <1>2, CanIs
  <2> QED
    BY <2>1
<1>3. CASE \/ u \in {<<>>, <<"device">>, <<"process">>}
           \/ \E m \in 1..3 : u = ModuleUrl(m)
           \/ \E p \in 1..18 : u = ProcessUrl(p)
  <2>1. CASE u \in {<<>>, <<"device">>, <<"process">>}
    <3>1. MapsTo(u, <<>>, {}) \/ MapsTo(u, <<1>>, {}) \/ MapsTo(u, <<2>>, {})
      BY <1>1, <2>1 DEF MappingIs
    <3> QED
      BY <1>2, <3>1
  <2>2. ASSUME NEW m \in 1..3, u = ModuleUrl(m) PROVE ~Can(u, "read") /\ ~Can(u, "write")
    <3>1. MapsTo(u, <<1, m>>, {})
      BY <1>1, <2>2 DEF MappingIs
    <3> QED
      BY <1>2, <3>1
  <2>3. ASSUME NEW p \in 1..18, u = ProcessUrl(p) PROVE ~Can(u, "read") /\ ~Can(u, "write")
    <3>1. MapsTo(u, <<2, p>>, {"run"})
      BY <1>1, <2>3 DEF MappingIs
    <3> QED
      BY <1>2, <3>1
  <2> QED
    BY <1>3, <2>1, <2>2, <2>3
<1>4. ASSUME NEW m \in 1..3, NEW c \in 1..4, u = NodeUrl(m, c)
      PROVE  /\ Can(u, "read") =>
                  read(u) = IF Last(u) = "desc" THEN Error(3) ELSE Found(u[2], u[3])
             /\ ~Can(u, "write")
  <2>1. u[2] = moduleList[m] /\ u[3] = Cached[c] /\ Last(u) = Cached[c]
    BY <1>4 DEF NodeUrl, Last
  <2>2. Cached[c] # "desc"
    BY DEF Cached
  <2>3. MapsTo(u, <<1, m, c>>, ModuleFlags(m, c))
    BY <1>1, <1>4 DEF MappingIs
  <2>4. ~Can(u, "write")
    BY <2>3, CanIs DEF ModuleFlags
  <2> QED
    BY <1>4, <2>1, <2>2, <2>4, NodeReads
<1>5. ASSUME NEW p \in 1..18, NEW c \in 1..6, HasParams(p), u = ParamUrl(p, c)
      PROVE  /\ read(u) = IF Last(u) = "desc" THEN Error(3) ELSE Found(u[2], u[3])
             /\ Can(u, "write") => write(u) = Found(u[2], u[3])
  <2>1. u[2] = processList[p][1] /\ u[3] = ParamNames[c] /\ Last(u) = ParamNames[c]
    BY <1>5 DEF ParamUrl, Last
  <2>2. ParamNames[c] = "desc" <=> c = 1
    BY DEF ParamNames
  <2> QED
    BY <1>5, <2>1, <2>2, ParameterIs
<1>6. \/ u \in {<<>>, <<"device">>, <<"process">>}
      \/ \E m \in 1..3 : u = ModuleUrl(m)
      \/ \E m \in 1..3 : \E c \in 1..4 : u = NodeUrl(m, c)
      \/ \E p \in 1..18 : u = ProcessUrl(p)
      \/ \E p \in 1..18 : \E c \in 1..6 : HasParams(p) /\ u = ParamUrl(p, c)
  BY <1>1 DEF MappingIs
<1> QED
  BY <1>3, <1>4, <1>5, <1>6

\* ... and every start and stop the process its URL names.
LEMMA RunsAre == StartUpInv => RunsWhatItNames
<1> SUFFICES ASSUME StartUpInv, done = Ready PROVE RunsWhatItNames
  BY DEF RunsWhatItNames
<1>1. MappingIs
  BY ReadyIs
<1>2. ASSUME NEW p \in 1..18
      PROVE  /\ Can(ProcessUrl(p), "run") /\ Machine(ProcessUrl(p)) = p
             /\ p \in DOMAIN controlProcesses /\ controlProcesses[p] = processList[p][1]
             /\ ProcessUrl(p)[2] = processList[p][1]
  <2>1. MapsTo(ProcessUrl(p), <<2, p>>, {"run"})
    BY <1>1 DEF MappingIs
  <2>2. Can(ProcessUrl(p), "run")
    BY <2>1, CanIs
  <2>3. Machine(ProcessUrl(p)) = p /\ ProcessUrl(p)[2] = processList[p][1]
    BY <1>1, MachinesAre DEF ProcessUrl
  <2> QED
    BY <2>2, <2>3, ReadyIs
<1>3. ASSUME NEW u \in DOMAIN urls, Can(u, "run") PROVE \E p \in 1..18 : u = ProcessUrl(p)
  <2>1. ASSUME NEW codes, NEW flags, MapsTo(u, codes, flags) PROVE "run" \in flags
    BY <1>3, <2>1, CanIs
  <2>2. "run" \notin {} /\ (\A m, c : "run" \notin ModuleFlags(m, c)) /\ \A c : "run" \notin ParamFlags(c)
    BY DEF ModuleFlags, ParamFlags
  <2>3. u \notin {<<>>, <<"device">>, <<"process">>}
    <3>1. MapsTo(<<>>, <<>>, {}) /\ MapsTo(<<"device">>, <<1>>, {}) /\ MapsTo(<<"process">>, <<2>>, {})
      BY <1>1 DEF MappingIs
    <3>2. ~\E codes : MapsTo(u, codes, {})
      BY <2>1, <2>2
    <3> QED
      BY <3>1, <3>2
  <2>4. ~\E m \in 1..3 : u = ModuleUrl(m)
    BY <1>1, <2>1, <2>2 DEF MappingIs
  <2>5. ~\E m \in 1..3 : \E c \in 1..4 : u = NodeUrl(m, c)
    BY <1>1, <2>1, <2>2 DEF MappingIs
  <2>6. ~\E p \in 1..18 : \E c \in 1..6 : HasParams(p) /\ u = ParamUrl(p, c)
    <3>1. \A p \in 1..18 : \A c \in 1..6 :
            HasParams(p) => MapsTo(ParamUrl(p, c), <<2, p, c>>, ParamFlags(c))
      BY <1>1 DEF MappingIs
    <3> QED
      BY <2>1, <2>2, <3>1, SMTT(30)
  <2> QED
    BY <1>1, <2>3, <2>4, <2>5, <2>6 DEF MappingIs
<1>4. ToSet(processList) = {processList[p] : p \in 1..18}
  BY DEF ToSet, processList
<1>5. \A u \in {v \in DOMAIN urls : Can(v, "run")} :
        Machine(u) \in DOMAIN controlProcesses /\ controlProcesses[Machine(u)] = u[2]
  BY <1>2, <1>3
<1>6. \A e \in ToSet(processList) : Can(<<"process", e[1]>>, "run")
  BY <1>2, <1>4 DEF ProcessUrl
<1> QED
  BY <1>5, <1>6 DEF RunsWhatItNames

\* The invariant holds at every moment of the start-up.
LEMMA StartUpAlways == DSpec => []StartUpInv
BY StartUpInit, StartUpStep, PTL DEF DSpec

-----------------------------------------------------------------------------
(***************************************************************************)
(* The theorems of the start-up, for every bound of the missing files.     *)
(***************************************************************************)
\* Once produced, the mapping gives every module and process the number of its
\* place in main()'s lists, and every node and parameter that of its place in the
\* lists that BrewModule.hpp:149-153 and Process.hpp:19-25 number, with the flags
\* that MappingBuilder.cpp gives it, and has no other URLs.
THEOREM AnyMappingIs == DSpec => [](done >= Mapped => MappingIs)
<1>1. StartUpInv => (done >= Mapped => MappingIs)
  BY DEF StartUpInv, MappedOK
<1> QED
  BY <1>1, StartUpAlways, PTL

\* Whichever files are missing: once the program is ready, a readable or
\* writeable URL reaches the node or parameter it names, of the module or process
\* it names (Controller.cpp:46-174, BrewModule.hpp:149-153, Process.hpp:19-25).
THEOREM AnyAccess == DSpec => []AccessesWhatItNames
BY AccessesAre, StartUpAlways, PTL

\* Whichever files are missing: a runnable URL starts and stops the process it
\* names, and every process of main() has one (Main.cpp:76-127, Process.cpp:11).
THEOREM AnyRun == DSpec => []RunsWhatItNames
BY RunsAre, StartUpAlways, PTL

\* Whichever files are missing: every process finds the module in its context,
\* with the nodes its run() uses (Main.cpp:49-127, DevProc.cpp).
THEOREM AnyProcessFinds == DSpec => []ProcessesFindTheirNodes
BY ProcessesFind, StartUpAlways, PTL

\* Whichever files are missing, and however many: the index that a node's code
\* passes finds the file of the attribute it means, or the standard input if that
\* file is missing (BrewModule.cpp:82-154, SysHandler.cpp:34-94).
THEOREM AnyIndexFinds == DSpec => []IndicesFindTheirFiles
BY IndicesFind, StartUpAlways, PTL

\* At every moment of the start-up, no file is open twice (Main.cpp:49-74,
\* SysHandler.cpp:73-94).
THEOREM NeverShared == DSpec => []DevicesAreNotShared
<1>1. StartUpInv => DevicesAreNotShared
  <2>1. StartUpInv => opened \in Seq(AllFiles) /\ \A j, h \in 1..Len(opened) : opened[j] = opened[h] => j = h
    BY DEF StartUpInv, DevicesOK, FilesOK
  <2> QED
    BY <2>1 DEF DevicesAreNotShared, IsInjective
<1> QED
  BY <1>1, StartUpAlways, PTL

\* Whichever files are missing and whatever is read of the others: Device refuses
\* no module, and nothing but the loading of a probe ends the start-up early
\* (BrewModule.cpp:156-160, Device.cpp:48-64).
THEOREM NoModuleRefused == DSpec => []OnlyProbesStopStartUp
<1>1. StartUpInv => OnlyProbesStopStartUp
  BY DEF StartUpInv, DevicesOK
<1> QED
  BY <1>1, StartUpAlways, PTL
=============================================================================
