----------------------------- MODULE Topography -----------------------------
(***************************************************************************)
(* How names become machine codes: the tree of MapNodes that newChild      *)
(* grows (src/src/topography/MapNode.cpp, MapTree.cpp) and the Mapping of  *)
(* URLs that URLFactory::produce derives from it (URLFactory.cpp,          *)
(* src/src/core/URL.cpp, Mapping.cpp).                                     *)
(*                                                                         *)
(* A MapNode is its index in nodes, the order of creation; 1 is the root   *)
(* and 0 the null pointer.  All nodes are also chained by _next, and that  *)
(* chain, not the tree, is what produce walks.                             *)
(***************************************************************************)
EXTENDS Integers, SequencesExt

VARIABLES
    nodes,  \* the MapNodes: parent, name, machine, level, flags
    degree, \* MapNode::_degree
    next,   \* MapNode::_next
    end,    \* MapTree::_end
    urls    \* Mapping::_URLs, from the names of a URL to its codes and flags

vars == <<nodes, degree, next, end, urls>>

Flags == {"run", "read", "write"}
DeepestLevel == 5       \* Level::TAG, with Level::ROOT = 1

\* The root's own _next is set by the first child.
Init ==
    /\ nodes = <<[parent |-> 0, name |-> "root", machine |-> 0, level |-> 1,
                  flags |-> {}]>>
    /\ degree = <<0>>
    /\ next = <<0>>
    /\ end = 1
    /\ urls = <<>>

\* MapNode::newChild returns an existing child of that name.
ChildOf(p, name) ==
    {i \in 1..Len(nodes) : nodes[i].parent = p /\ nodes[i].name = name}

\* Mutant: numbered from 0
MutNewNode(p, name, flags) ==
    [parent |-> p, name |-> name, machine |-> degree[p],
     level |-> nodes[p].level + 1, flags |-> flags]

NewNode(p, name, flags) ==
    [parent |-> p, name |-> name, machine |-> degree[p] + 1,
     level |-> nodes[p].level + 1, flags |-> flags]

\* Mutant: _degree is not counted.
MutNewChildUncounted(p, name, flags) ==
    LET child == Len(nodes) + 1
    IN  /\ nodes[p].level < DeepestLevel
        /\ ChildOf(p, name) = {}
        /\ nodes' = Append(nodes, NewNode(p, name, flags))
        /\ degree' = Append(degree, 0)
        /\ next' = Append([next EXCEPT ![end] = child], 0)
        /\ end' = child
        /\ UNCHANGED urls

\* MapTree::newChild; below a tag newChild throws.
NewChild(p, name, flags) ==
    LET child == Len(nodes) + 1
    IN  /\ nodes[p].level < DeepestLevel
        /\ ChildOf(p, name) = {}
        /\ nodes' = Append(nodes, NewNode(p, name, flags))
        /\ degree' = Append([degree EXCEPT ![p] = @ + 1], 0)
        /\ next' = Append([next EXCEPT ![end] = child], 0)
        /\ end' = child
        /\ UNCHANGED urls

\* Mutant: _end is linked to itself.
MutNewChildExists(p, name) ==
    /\ nodes[p].level < DeepestLevel
    /\ \E child \in ChildOf(p, name) :
         IF next[child] = 0
           THEN next' = [next EXCEPT ![end] = child] /\ end' = child
           ELSE UNCHANGED <<next, end>>
    /\ UNCHANGED <<nodes, degree, urls>>

\* An existing child other than the last node of the chain is linked already.
NewChildExists(p, name) ==
    /\ nodes[p].level < DeepestLevel
    /\ \E child \in ChildOf(p, name) :
         IF next[child] = 0 /\ end # child
           THEN next' = [next EXCEPT ![end] = child] /\ end' = child
           ELSE UNCHANGED <<next, end>>
    /\ UNCHANGED <<nodes, degree, urls>>

newChild(p, name, flags) == NewChild(p, name, flags) \/ NewChildExists(p, name)

\* The nodes from the root to node i, the root left out.
Ancestry(i) ==
    LET up[j \in 1..Len(nodes)] ==
          IF j = 1 THEN <<>> ELSE Append(up[nodes[j].parent], j)
    IN  up[i]

Path(i) == [k \in 1..Len(Ancestry(i)) |-> nodes[Ancestry(i)[k]].name]
Codes(i) == [k \in 1..Len(Ancestry(i)) |-> nodes[Ancestry(i)[k]].machine]

\* The chain from MapTree::begin to end, where the null pointer is; a cycle
\* would show as one place more than there are nodes.
Chain ==
    LET place[k \in 1..(Len(nodes) + 1)] ==
          IF k = 1 THEN 1
          ELSE LET before == place[k - 1] IN IF before = 0 THEN 0 ELSE next[before]
        chained == {k \in 1..(Len(nodes) + 1) : place[k] # 0}
    IN  [k \in chained |-> place[k]]

\* URLFactory::produce: a URL for every node of the chain; the first one with
\* a name keeps it.
Produce ==
    LET path == [i \in 1..Len(nodes) |-> Path(i)]
        chain == Chain
    IN  urls' = [u \in {path[i] : i \in ToSet(chain)} |->
                   LET i == chain[SelectInSeq(chain, LAMBDA j : path[j] = u)]
                   IN  [codes |-> Codes(i), flags |-> nodes[i].flags]]

ProduceAll == Produce /\ UNCHANGED <<nodes, degree, next, end>>

\* The machine code of a level of a URL, 0 when the URL ends above it; and
\* Mapping::machine, the code of its last level.
Code(u, level) == IF level <= Len(urls[u].codes) THEN urls[u].codes[level] ELSE 0
DeviceCode(u) == Code(u, 1)
ModuleCode(u) == Code(u, 2)
NodeCode(u) == Code(u, 3)
Machine(u) == Last(urls[u].codes)

Can(u, flag) == flag \in urls[u].flags

-----------------------------------------------------------------------------
\* The flags and the shape of the mapping; the tree has at least its root.
TypeOK ==
    /\ \A i \in 1..Len(nodes) :
         /\ nodes[i].parent \in 0..(i - 1)
         /\ nodes[i].machine \in Nat
         /\ nodes[i].level \in 1..DeepestLevel
         /\ nodes[i].flags \subseteq Flags
    /\ degree \in Seq(Nat) /\ Len(degree) = Len(nodes)
    /\ next \in Seq(0..Len(nodes)) /\ Len(next) = Len(nodes)
    /\ end \in 1..Len(nodes)
    /\ \A u \in DOMAIN urls : urls[u].flags \subseteq Flags

\* The chain visits every node once, in the order of creation: an existing
\* child that is asked for again is not linked a second time (MapTree.cpp:18).
ChainIsComplete == Chain = [i \in 1..Len(nodes) |-> i]

\* Two different URLs differ in the codes of their levels as well, so a command
\* cannot reach another node than the one it names (URLFactory.cpp:27-92).
CodesIdentifyUrls ==
    \A u, v \in DOMAIN urls : urls[u].codes = urls[v].codes => u = v
=============================================================================
