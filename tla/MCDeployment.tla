---------------------------- MODULE MCDeployment ----------------------------
(***************************************************************************)
(* The program's start-up, and any other use of newChild, then produce,    *)
(* for trees of a few nodes.                                               *)
(***************************************************************************)
EXTENDS Deployment

CONSTANTS
    Names,      \* names given to children of any tree
    MaxNodes    \* bound: nodes of any tree

VARIABLE any    \* any tree, or the program's

Produced == DOMAIN urls # {}

AnyChild ==
    /\ ~Produced
    /\ \E p \in 1..Len(nodes), name \in Names :
         /\ Len(nodes) < MaxNodes \/ ChildOf(p, name) # {}
         /\ newChild(p, name, {"read"})

AnyTree ==
    /\ \/ AnyChild
       \/ ~Produced /\ Len(nodes) > 1 /\ ProduceAll   \* the root has no _next yet
       \/ Produced /\ UNCHANGED vars
    /\ UNCHANGED <<done, devices, construction, files, terminated>>

MCInit == DInit /\ any \in BOOLEAN
MCNext ==
    /\ \/ any /\ AnyTree
       \/ ~any /\ DNext
    /\ UNCHANGED any

MCSpec == MCInit /\ [][MCNext]_<<allVars, any>>
=============================================================================
