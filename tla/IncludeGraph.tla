---------------------------- MODULE IncludeGraph ----------------------------
(***************************************************************************)
(* The include graph of a script: BuildBlockDirectGraph                     *)
(* (LegitScript/source/LegitScript.cpp) resolves the names blocks include,  *)
(* and FlattenGraph (LegitScript/source/IncludeGraph.h) lists for every     *)
(* block what has to come before it.                                        *)
(*                                                                         *)
(* The recursion of FlattenNode is a stack of frames [node, next]: next is  *)
(* the position in the node's includes the loop has reached.  A frame's     *)
(* depth is its position in the stack minus one.  Blocks count from 1.      *)
(***************************************************************************)
EXTENDS Naturals, Sequences

CONSTANTS
    Scripts,   \* sequences of blocks [names, includes]: names is {} or {name}
    MaxDepth   \* 1024 in the code

ASSUME ScriptsAssumption ==
    \A blocks \in Scripts :
        /\ blocks \in Seq([names : {blocks[i].names : i \in DOMAIN blocks},
                           includes : {blocks[i].includes : i \in DOMAIN blocks}])
        /\ \A i \in DOMAIN blocks : blocks[i].includes \in Seq(STRING)

ASSUME MaxDepthAssumption == MaxDepth \in Nat

VARIABLES
    pc,          \* "direct", "flatten", "done" or "throw"
    blocks,
    graph,       \* graph[i]: the blocks block i includes, in order
    node_idx,    \* the block whose includes are being flattened
    stack,       \* the active calls of FlattenNode
    dst_node,    \* what they have listed so far
    res_graph    \* the lists of the blocks before node_idx

vars == <<pc, blocks, graph, node_idx, stack, dst_node, res_graph>>

-----------------------------------------------------------------------------
\* Of two blocks that declare one name, the later one is included.
Declaring(script, name) == {i \in DOMAIN script : name \in script[i].names}

NameToIdx(script, name) ==
    CHOOSE i \in Declaring(script, name) : \A j \in Declaring(script, name) : j <= i

AllIncludesExist(script) ==
    \A i \in DOMAIN script : \A k \in DOMAIN script[i].includes :
        Declaring(script, script[i].includes[k]) # {}

DirectGraph(script) ==
    [i \in DOMAIN script |->
        [k \in DOMAIN script[i].includes |-> NameToIdx(script, script[i].includes[k])]]

Top == stack[Len(stack)]

\* The call FlattenNode(node, depth + 1) from the frame on top.
CallStack(node) ==
    Append([stack EXCEPT ![Len(stack)].next = @ + 1], [node |-> node, next |-> 1])

HasNextInclude == stack # <<>> /\ Top.next <= Len(graph[Top.node])

-----------------------------------------------------------------------------
Init ==
    /\ pc = "direct"
    /\ blocks \in Scripts
    /\ graph = <<>>
    /\ node_idx = 1
    /\ stack = <<>>
    /\ dst_node = <<>>
    /\ res_graph = <<>>

MissingIncludeThrows ==
    /\ pc = "direct"
    /\ ~AllIncludesExist(blocks)
    /\ pc' = "throw"
    /\ UNCHANGED <<blocks, graph, node_idx, stack, dst_node, res_graph>>

BuildBlockDirectGraph ==
    /\ pc = "direct"
    /\ AllIncludesExist(blocks)
    /\ graph' = DirectGraph(blocks)
    /\ pc' = "flatten"
    /\ UNCHANGED <<blocks, node_idx, stack, dst_node, res_graph>>

\* Variant: one list is used for all blocks.
StartNodeKeepingList ==
    /\ pc = "flatten"
    /\ stack = <<>>
    /\ node_idx <= Len(graph)
    /\ stack' = <<[node |-> node_idx, next |-> 1]>>
    /\ UNCHANGED <<pc, blocks, graph, node_idx, dst_node, res_graph>>

StartNode ==
    /\ pc = "flatten"
    /\ stack = <<>>
    /\ node_idx <= Len(graph)
    /\ stack' = <<[node |-> node_idx, next |-> 1]>>
    /\ dst_node' = <<>>
    /\ UNCHANGED <<pc, blocks, graph, node_idx, res_graph>>

\* Variant: the depth is not checked before the call.
FlattenIncludeUnchecked ==
    /\ pc = "flatten"
    /\ HasNextInclude
    /\ stack' = CallStack(graph[Top.node][Top.next])
    /\ UNCHANGED <<pc, blocks, graph, node_idx, dst_node, res_graph>>

FlattenInclude ==
    /\ pc = "flatten"
    /\ HasNextInclude
    /\ Len(stack) <= MaxDepth
    /\ stack' = CallStack(graph[Top.node][Top.next])
    /\ UNCHANGED <<pc, blocks, graph, node_idx, dst_node, res_graph>>

\* Variant: an include that is too deep is left out.
DepthSkips ==
    /\ pc = "flatten"
    /\ HasNextInclude
    /\ Len(stack) > MaxDepth
    /\ stack' = [stack EXCEPT ![Len(stack)].next = @ + 1]
    /\ UNCHANGED <<pc, blocks, graph, node_idx, dst_node, res_graph>>

\* Variant: the limit is one call too low.
DepthThrowsEarly ==
    /\ pc = "flatten"
    /\ HasNextInclude
    /\ Len(stack) >= MaxDepth
    /\ pc' = "throw"
    /\ UNCHANGED <<blocks, graph, node_idx, stack, dst_node, res_graph>>

\* Variant: a block that is too deep is abandoned without going on to the next.
DepthAbandons ==
    /\ pc = "flatten"
    /\ HasNextInclude
    /\ Len(stack) > MaxDepth
    /\ stack' = <<>>
    /\ UNCHANGED <<pc, blocks, graph, node_idx, dst_node, res_graph>>

\* The only defence against a cycle of includes.
DepthThrows ==
    /\ pc = "flatten"
    /\ HasNextInclude
    /\ Len(stack) > MaxDepth
    /\ pc' = "throw"
    /\ UNCHANGED <<blocks, graph, node_idx, stack, dst_node, res_graph>>

\* Variant: the lists are built from the back.
PushIncludedFront ==
    /\ pc = "flatten"
    /\ Len(stack) > 1
    /\ ~HasNextInclude
    /\ dst_node' = <<Top.node>> \o dst_node
    /\ stack' = SubSeq(stack, 1, Len(stack) - 1)
    /\ UNCHANGED <<pc, blocks, graph, node_idx, res_graph>>

PushIncluded ==
    /\ pc = "flatten"
    /\ Len(stack) > 1
    /\ ~HasNextInclude
    /\ dst_node' = Append(dst_node, Top.node)
    /\ stack' = SubSeq(stack, 1, Len(stack) - 1)
    /\ UNCHANGED <<pc, blocks, graph, node_idx, res_graph>>

FinishNode ==
    /\ pc = "flatten"
    /\ Len(stack) = 1
    /\ ~HasNextInclude
    /\ res_graph' = Append(res_graph, dst_node)
    /\ node_idx' = node_idx + 1
    /\ stack' = <<>>
    /\ UNCHANGED <<pc, blocks, graph, dst_node>>

FlattenGraphReturns ==
    /\ pc = "flatten"
    /\ node_idx > Len(graph)
    /\ pc' = "done"
    /\ UNCHANGED <<blocks, graph, node_idx, stack, dst_node, res_graph>>

Finished == pc \in {"done", "throw"} /\ UNCHANGED vars

Next ==
    \/ MissingIncludeThrows \/ BuildBlockDirectGraph
    \/ StartNode \/ FlattenInclude \/ DepthThrows \/ PushIncluded \/ FinishNode
    \/ FlattenGraphReturns
    \/ Finished

Spec == Init /\ [][Next]_vars

\* A sequential function: it goes on as long as it can.
FairSpec == Spec /\ WF_vars(Next)

-----------------------------------------------------------------------------
(* Properties *)

Includes(node) == {graph[node][k] : k \in DOMAIN graph[node]}

Listed(list) == {list[p] : p \in DOMAIN list}

\* Type invariant: indices stay inside the graph and the recursion inside its
\* limit.
TypeOK ==
    /\ pc \in {"direct", "flatten", "done", "throw"}
    /\ blocks \in Scripts
    /\ graph \in Seq(Seq(DOMAIN graph))
    /\ node_idx \in 1..(Len(graph) + 1)
    /\ stack \in Seq([node : DOMAIN graph, next : Nat \ {0}])
    /\ Len(stack) <= MaxDepth + 1
    /\ dst_node \in Seq(DOMAIN graph)
    /\ res_graph \in Seq(Seq(DOMAIN graph))

\* What the source of a render graph block relies on: in the list of a block
\* every block comes after all the blocks it includes itself, so that the
\* concatenated text declares before it uses; and nothing is left out.
IncludesComeFirst(list) ==
    \A p \in DOMAIN list : \A node \in Includes(list[p]) :
        \E q \in 1..(p - 1) : list[q] = node

ListsComplete ==
    \A n \in DOMAIN res_graph :
        /\ IncludesComeFirst(res_graph[n])
        /\ Includes(n) \subseteq Listed(res_graph[n])

\* A list holds no block that is not included, directly or not.  Everything
\* reachable from n is in every set that holds its includes and is closed.
Reachable(n) ==
    {m \in DOMAIN graph :
        \A S \in SUBSET DOMAIN graph :
            Includes(n) \subseteq S /\ (\A node \in S : Includes(node) \subseteq S)
                => m \in S}

ListsNothingElse ==
    \A n \in DOMAIN res_graph : Listed(res_graph[n]) \subseteq Reachable(n)

\* Every set of blocks has one that includes none of the set.
Acyclic == \A C \in SUBSET DOMAIN graph : C # {} => \E n \in C : Includes(n) \cap C = {}

\* A text with a cycle of includes is never accepted, wherever the cycle is and
\* whether or not a render graph block reaches it.
NoCycleIsAccepted == pc = "done" => Acyclic

\* The depth limit rejects nothing but cycles as long as it is not smaller than
\* the number of blocks; a missing name is found before anything is flattened.
RejectsOnlyCycles ==
    pc = "throw" /\ graph # <<>> /\ Len(graph) <= MaxDepth + 1 => ~Acyclic

\* However the blocks include each other, flattening ends.
FlatteningEnds == <>(pc \in {"done", "throw"})
=============================================================================
