------------------------ MODULE IncludeGraphProofs ------------------------
(***************************************************************************)
(* Proofs about IncludeGraph.tla for every set of scripts and every depth   *)
(* limit.                                                                   *)
(*                                                                         *)
(* The inductive invariant describes the recursion in progress: the stack   *)
(* is a walk in the graph that starts at node_idx (Walk); an include a      *)
(* frame has passed is listed already, except the one the next frame is     *)
(* working on (Passed); and what is listed lists its includes before it     *)
(* (Lists) and can be reached from node_idx (Reached).  A walk longer than  *)
(* the graph has blocks goes round a circle, so the depth limit throws on   *)
(* nothing else (Thrown).                                                   *)
(***************************************************************************)
EXTENDS IncludeGraph, SequenceTheorems, FiniteSetTheorems, WellFoundedInduction, TLAPS

Frames == [node : DOMAIN graph, next : Nat \ {0}]

Fresh == pc = "direct" => graph = <<>> /\ stack = <<>> /\ res_graph = <<>> /\ dst_node = <<>>

Walk ==
    /\ stack # <<>> => stack[1].node = node_idx
    /\ \A k \in DOMAIN stack : stack[k].next <= Len(graph[stack[k].node]) + 1
    /\ \A k \in 1..(Len(stack) - 1) :
          /\ stack[k].next - 1 \in DOMAIN graph[stack[k].node]
          /\ stack[k + 1].node = graph[stack[k].node][stack[k].next - 1]

Passed ==
    \A k \in DOMAIN stack : \A j \in 1..(stack[k].next - 1) :
        \/ k < Len(stack) /\ j = stack[k].next - 1
        \/ graph[stack[k].node][j] \in Listed(dst_node)

Lists ==
    /\ Len(res_graph) = node_idx - 1
    /\ pc = "done" => node_idx > Len(graph)
    /\ IncludesComeFirst(dst_node)
    /\ ListsComplete

Reached ==
    /\ stack # <<>> =>
          /\ Listed(dst_node) \subseteq Reachable(node_idx)
          /\ \A k \in 2..Len(stack) : stack[k].node \in Reachable(node_idx)
    /\ ListsNothingElse

Inv == TypeOK /\ Fresh /\ Walk /\ Passed /\ Lists /\ Reached

USE ScriptsAssumption, MaxDepthAssumption

-----------------------------------------------------------------------------
(* Facts about numbers and about the operators of the model.                *)

LEMMA Least ==
    ASSUME NEW T \in SUBSET Nat, T # {}
    PROVE  \E x \in T : \A y \in T : x <= y
<1> DEFINE R == OpToRel(<, Nat)
<1>1. IsWellFoundedOn(R, Nat)
  BY NatLessThanWellFounded
<1>2. \A x, y \in Nat : x < y => <<x, y>> \in R
  BY DEF OpToRel
<1> HIDE DEF R
<1>3. PICK x \in T : \A y \in T : ~(<<y, x>> \in R)
  BY <1>1, WFMin
<1>4. ASSUME NEW y \in T
      PROVE  x <= y
  <2>1. ~(y < x)
    BY <1>2, <1>3
  <2> QED
    BY <2>1
<1> QED
  BY <1>4

LEMMA Greatest ==
    ASSUME NEW n \in Nat, NEW T \in SUBSET (1..n), T # {}
    PROVE  \E x \in T : \A y \in T : y <= x
<1> DEFINE D == {n - i : i \in T}
<1>1. \A i \in T : n - i \in Nat /\ i \in 1..n
  OBVIOUS
<1>2. D \in SUBSET Nat /\ D # {}
  BY <1>1
<1>3. PICK d \in D : \A e \in D : d <= e
  BY <1>2, Least
<1>4. PICK x \in T : d = n - x
  OBVIOUS
<1>5. \A y \in T : n - x <= n - y
  BY <1>3, <1>4
<1>6. \A y \in T : y <= x
  BY <1>1, <1>5
<1> QED
  BY <1>6

LEMMA SeqElement ==
    ASSUME NEW S, NEW s \in Seq(S), NEW i \in DOMAIN s
    PROVE  s[i] \in S
OBVIOUS

\* Every name that some block declares is resolved to one of the blocks.
LEMMA DirectGraphType ==
    ASSUME NEW script \in Scripts, AllIncludesExist(script)
    PROVE  DirectGraph(script) \in Seq(Seq(DOMAIN DirectGraph(script)))
<1>1. Len(script) \in Nat /\ DOMAIN script = 1..Len(script)
  OBVIOUS
<1>2. \A i \in DOMAIN script : script[i].includes \in Seq(STRING)
  OBVIOUS
<1>3. ASSUME NEW name, Declaring(script, name) # {}
      PROVE  NameToIdx(script, name) \in DOMAIN script
  <2>1. Declaring(script, name) \in SUBSET (1..Len(script))
    BY <1>1 DEF Declaring
  <2>2. \E i \in Declaring(script, name) : \A j \in Declaring(script, name) : j <= i
    BY <1>1, <1>3, <2>1, Greatest
  <2>3. NameToIdx(script, name) \in Declaring(script, name)
    BY <2>2 DEF NameToIdx
  <2> QED
    BY <2>3 DEF Declaring
<1>4. ASSUME NEW i \in DOMAIN script
      PROVE  DirectGraph(script)[i] \in Seq(DOMAIN script)
  <2>1. DirectGraph(script)[i] = [k \in DOMAIN script[i].includes |->
                                     NameToIdx(script, script[i].includes[k])]
    BY DEF DirectGraph
  <2>2. \A k \in DOMAIN script[i].includes :
            NameToIdx(script, script[i].includes[k]) \in DOMAIN script
    BY <1>3 DEF AllIncludesExist
  <2>3. PICK n \in Nat : DOMAIN script[i].includes = 1..n
    BY <1>2
  <2> QED
    BY <2>1, <2>2, <2>3
<1>5. DOMAIN DirectGraph(script) = DOMAIN script
  BY DEF DirectGraph
<1>6. DirectGraph(script) \in [1..Len(script) -> Seq(DOMAIN script)]
  BY <1>1, <1>4 DEF DirectGraph
<1>7. DirectGraph(script) \in Seq(Seq(DOMAIN script))
  BY <1>1, <1>6
<1> QED
  BY <1>5, <1>7

\* What Reachable(n) holds: the includes of n, and the includes of what it holds.
LEMMA ReachableClosed ==
    ASSUME NEW n \in DOMAIN graph, graph \in Seq(Seq(DOMAIN graph))
    PROVE  /\ Includes(n) \subseteq Reachable(n)
           /\ \A m \in Reachable(n) : Includes(m) \subseteq Reachable(n)
<1>1. \A m \in DOMAIN graph : Includes(m) \subseteq DOMAIN graph
  <2> TAKE m \in DOMAIN graph
  <2>1. graph[m] \in Seq(DOMAIN graph)
    OBVIOUS
  <2> QED
    BY <2>1 DEF Includes
<1> QED
  BY <1>1 DEF Reachable

\* The stack after a call.
LEMMA CallStackShape ==
    ASSUME stack \in Seq(Frames), stack # <<>>, NEW node \in DOMAIN graph
    PROVE  /\ CallStack(node) \in Seq(Frames)
           /\ Len(CallStack(node)) = Len(stack) + 1
           /\ \A k \in 1..(Len(stack) - 1) : CallStack(node)[k] = stack[k]
           /\ CallStack(node)[Len(stack)] = [node |-> Top.node, next |-> Top.next + 1]
           /\ CallStack(node)[Len(stack) + 1] = [node |-> node, next |-> 1]
<1> DEFINE caller == [stack EXCEPT ![Len(stack)].next = @ + 1]
<1>1. Len(stack) \in Nat \ {0} /\ Top \in Frames
  BY DEF Top
<1>2. /\ caller \in Seq(Frames) /\ Len(caller) = Len(stack)
      /\ \A k \in 1..(Len(stack) - 1) : caller[k] = stack[k]
      /\ caller[Len(stack)] = [node |-> Top.node, next |-> Top.next + 1]
  BY <1>1 DEF Top, Frames
<1>3. [node |-> node, next |-> 1] \in Frames
  BY DEF Frames
<1>4. CallStack(node) = Append(caller, [node |-> node, next |-> 1])
  BY DEF CallStack
<1> HIDE DEF caller
<1> QED
  BY <1>1, <1>2, <1>3, <1>4, AppendProperties

\* A block may be listed once all it includes is.
LEMMA AppendListed ==
    ASSUME NEW list \in Seq(DOMAIN graph), NEW node \in DOMAIN graph
    PROVE  /\ Append(list, node) \in Seq(DOMAIN graph)
           /\ Listed(Append(list, node)) = Listed(list) \cup {node}
           /\ IncludesComeFirst(list) /\ Includes(node) \subseteq Listed(list)
                 => IncludesComeFirst(Append(list, node))
<1> DEFINE longer == Append(list, node)
<1>1. /\ longer \in Seq(DOMAIN graph)
      /\ Len(list) \in Nat /\ Len(longer) = Len(list) + 1
      /\ DOMAIN list = 1..Len(list) /\ DOMAIN longer = 1..(Len(list) + 1)
      /\ \A p \in 1..Len(list) : longer[p] = list[p]
      /\ longer[Len(list) + 1] = node
  BY AppendProperties
<1> HIDE DEF longer
<1>2. Listed(longer) = Listed(list) \cup {node}
  <2>1. \A p \in DOMAIN longer : p \in 1..Len(list) \/ p = Len(list) + 1
    BY <1>1
  <2>2. Len(list) + 1 \in DOMAIN longer /\ \A p \in DOMAIN list : p \in DOMAIN longer
    BY <1>1
  <2> QED
    BY <1>1, <2>1, <2>2 DEF Listed
<1>3. ASSUME IncludesComeFirst(list), Includes(node) \subseteq Listed(list),
             NEW p \in DOMAIN longer, NEW m \in Includes(longer[p])
      PROVE  \E q \in 1..(p - 1) : longer[q] = m
  <2>1. CASE p \in 1..Len(list)
    <3>1. PICK q \in 1..(p - 1) : list[q] = m
      BY <1>1, <1>3, <2>1 DEF IncludesComeFirst
    <3>2. q \in 1..Len(list)
      BY <1>1, <2>1
    <3> QED
      BY <1>1, <3>1, <3>2
  <2>2. CASE p = Len(list) + 1
    <3>1. PICK q \in 1..Len(list) : list[q] = m
      BY <1>1, <1>3, <2>2 DEF Listed
    <3>2. q \in 1..(p - 1)
      BY <1>1, <2>2
    <3> QED
      BY <1>1, <3>1, <3>2
  <2>3. p \in 1..Len(list) \/ p = Len(list) + 1
    BY <1>1
  <2> QED
    BY <2>1, <2>2, <2>3
<1> QED
  BY <1>1, <1>2, <1>3 DEF longer, IncludesComeFirst

-----------------------------------------------------------------------------
(* One lemma per action.                                                    *)

\* What every step of the flattening knows about the state it starts in.
LEMMA FlattenFacts ==
    ASSUME Inv, stack # <<>>
    PROVE  /\ graph \in Seq(Seq(DOMAIN graph)) /\ DOMAIN graph = 1..Len(graph)
           /\ Len(graph) \in Nat
           /\ stack \in Seq(Frames) /\ Len(stack) \in Nat \ {0}
           /\ DOMAIN stack = 1..Len(stack)
           /\ Top \in Frames /\ Top.node \in DOMAIN graph /\ Top.next \in Nat \ {0}
           /\ graph[Top.node] \in Seq(DOMAIN graph)
           /\ DOMAIN graph[Top.node] = 1..Len(graph[Top.node])
           /\ Len(graph[Top.node]) \in Nat
           /\ node_idx \in DOMAIN graph
<1>1. /\ graph \in Seq(Seq(DOMAIN graph)) /\ stack \in Seq(Frames)
  BY DEF Inv, TypeOK, Frames
<1>2. Len(stack) \in Nat \ {0} /\ DOMAIN stack = 1..Len(stack) /\ DOMAIN graph = 1..Len(graph)
  BY <1>1
<1>3. Top \in Frames
  BY <1>1, <1>2 DEF Top
<1>4. Top.node \in DOMAIN graph /\ Top.next \in Nat \ {0}
  BY <1>3 DEF Frames
<1>5. graph[Top.node] \in Seq(DOMAIN graph)
  BY <1>1, <1>4
<1>6. stack[1] \in Frames /\ stack[1].node = node_idx
  BY <1>1, <1>2 DEF Inv, Walk
<1> QED
  BY <1>1, <1>2, <1>3, <1>4, <1>5, <1>6 DEF Frames

\* What depends on the graph alone stays as it is.
LEMMA SameGraph ==
    ASSUME graph' = graph
    PROVE  /\ \A list : IncludesComeFirst(list)' = IncludesComeFirst(list)
           /\ \A n : Includes(n)' = Includes(n) /\ Reachable(n)' = Reachable(n)
BY DEF IncludesComeFirst, Reachable, Includes

\* What depends on the graph and the finished lists stays as it is.
LEMMA GraphKept ==
    ASSUME UNCHANGED <<graph, res_graph>>
    PROVE  /\ ListsComplete => ListsComplete'
           /\ ListsNothingElse => ListsNothingElse'
           /\ \A list : IncludesComeFirst(list) => IncludesComeFirst(list)'
<1>1. graph' = graph /\ res_graph' = res_graph
  OBVIOUS
<1>2. ListsComplete' = ListsComplete
  BY <1>1 DEF ListsComplete, IncludesComeFirst, Includes, Listed
<1>3. ListsNothingElse' = ListsNothingElse
  BY <1>1 DEF ListsNothingElse, Reachable, Includes, Listed
<1> QED
  BY <1>1, <1>2, <1>3, SameGraph

LEMMA FlattenIncludeInv ==
    ASSUME Inv, FlattenInclude
    PROVE  Inv'
<1> DEFINE node == graph[Top.node][Top.next]
<1>1. /\ pc = "flatten" /\ stack # <<>> /\ Top.next <= Len(graph[Top.node])
      /\ Len(stack) <= MaxDepth /\ stack' = CallStack(node)
      /\ pc' = pc /\ blocks' = blocks /\ graph' = graph /\ node_idx' = node_idx
      /\ dst_node' = dst_node /\ res_graph' = res_graph
  BY DEF FlattenInclude, HasNextInclude
<1>2. /\ graph \in Seq(Seq(DOMAIN graph)) /\ DOMAIN graph = 1..Len(graph)
      /\ Len(graph) \in Nat
      /\ stack \in Seq(Frames) /\ Len(stack) \in Nat \ {0}
      /\ DOMAIN stack = 1..Len(stack)
      /\ Top \in Frames /\ Top.node \in DOMAIN graph /\ Top.next \in Nat \ {0}
      /\ graph[Top.node] \in Seq(DOMAIN graph)
      /\ DOMAIN graph[Top.node] = 1..Len(graph[Top.node])
      /\ Len(graph[Top.node]) \in Nat
      /\ node_idx \in DOMAIN graph
  BY <1>1, FlattenFacts
<1>w. /\ stack[1].node = node_idx
      /\ \A k \in 1..Len(stack) : stack[k].next <= Len(graph[stack[k].node]) + 1
      /\ \A k \in 1..(Len(stack) - 1) :
            /\ stack[k].next - 1 \in DOMAIN graph[stack[k].node]
            /\ stack[k + 1].node = graph[stack[k].node][stack[k].next - 1]
  BY <1>1, <1>2 DEF Inv, Walk
<1>p. \A k \in 1..Len(stack) : \A j \in 1..(stack[k].next - 1) :
          \/ k < Len(stack) /\ j = stack[k].next - 1
          \/ graph[stack[k].node][j] \in Listed(dst_node)
  BY <1>2 DEF Inv, Passed
<1>3. Top.next \in DOMAIN graph[Top.node] /\ node \in DOMAIN graph
  <2>1. Top.next \in DOMAIN graph[Top.node]
    BY <1>1, <1>2
  <2> QED
    BY <1>2, <2>1, SeqElement, Zenon
<1> HIDE DEF node
<1>4. /\ stack' \in Seq(Frames) /\ Len(stack') = Len(stack) + 1
      /\ DOMAIN stack' = 1..Len(stack')
      /\ \A k \in 1..(Len(stack) - 1) : stack'[k] = stack[k]
      /\ stack'[Len(stack)] = [node |-> Top.node, next |-> Top.next + 1]
      /\ stack'[Len(stack) + 1] = [node |-> node, next |-> 1]
  <2>1. /\ stack' \in Seq(Frames) /\ Len(stack') = Len(stack) + 1
        /\ \A k \in 1..(Len(stack) - 1) : stack'[k] = stack[k]
        /\ stack'[Len(stack)] = [node |-> Top.node, next |-> Top.next + 1]
        /\ stack'[Len(stack) + 1] = [node |-> node, next |-> 1]
    BY <1>1, <1>2, <1>3, CallStackShape, Zenon
  <2>2. DOMAIN stack' = 1..Len(stack')
    BY <2>1
  <2> QED
    BY <2>1, <2>2, Zenon
<1>n. Len(stack) \in Nat \ {0} /\ Len(stack') = Len(stack) + 1
  BY <1>2, <1>4, Zenon
<1>s. \A k \in 1..(Len(stack) - 1) :
          k \in 1..Len(stack) /\ k < Len(stack') /\ stack'[k] = stack[k]
  BY <1>n, <1>4
<1>c. \A k \in 1..Len(stack') :
          k \in 1..(Len(stack) - 1) \/ k = Len(stack) \/ k = Len(stack) + 1
  BY <1>n
<1>5. TypeOK'
  <2>1. stack' \in Seq([node : DOMAIN graph', next : Nat \ {0}])
    BY <1>1, <1>4 DEF Frames
  <2>2. Len(stack') <= MaxDepth + 1
    BY <1>1, <1>2, <1>4
  <2> QED
    BY <1>1, <2>1, <2>2 DEF Inv, TypeOK
<1>6. Walk'
  <2>1. stack'[1].node = node_idx
    <3>1. CASE Len(stack) = 1
      BY <3>1, <1>4, <1>w DEF Top
    <3>2. CASE Len(stack) > 1
      <4>1. 1 \in 1..(Len(stack) - 1)
        BY <3>2, <1>2
      <4> QED
        BY <4>1, <1>4, <1>w
    <3> QED
      BY <1>2, <3>1, <3>2
  <2>2. ASSUME NEW k \in 1..Len(stack')
        PROVE  stack'[k].next <= Len(graph[stack'[k].node]) + 1
    <3>1. CASE k \in 1..(Len(stack) - 1)
      <4>1. k \in 1..Len(stack) /\ stack'[k] = stack[k]
        BY <3>1, <1>s
      <4> QED
        BY <4>1, <1>w
    <3>2. CASE k = Len(stack)
      <4>1. stack'[k].node = Top.node /\ stack'[k].next = Top.next + 1
        BY <3>2, <1>4
      <4> QED
        BY <4>1, <1>1, <1>2
    <3>3. CASE k = Len(stack) + 1
      <4>1. graph[node] \in Seq(DOMAIN graph)
        BY <1>2, <1>3
      <4> QED
        BY <3>3, <4>1, <1>4
    <3> QED
      BY <1>c, <3>1, <3>2, <3>3
  <2>3. ASSUME NEW k \in 1..(Len(stack') - 1)
        PROVE  /\ stack'[k].next - 1 \in DOMAIN graph[stack'[k].node]
               /\ stack'[k + 1].node = graph[stack'[k].node][stack'[k].next - 1]
    <3>1. CASE k = Len(stack)
      <4>1. /\ stack'[k].node = Top.node /\ stack'[k].next = Top.next + 1
            /\ stack'[k + 1].node = node
        BY <3>1, <1>4
      <4>2. (Top.next + 1) - 1 = Top.next
        BY <1>2
      <4> QED
        BY <4>1, <4>2, <1>3 DEF node
    <3>2. CASE k = Len(stack) - 1
      <4>1. /\ k \in 1..(Len(stack) - 1) /\ k + 1 = Len(stack)
            /\ stack'[k] = stack[k] /\ stack'[k + 1].node = stack[k + 1].node
        BY <3>2, <1>2, <1>4 DEF Top
      <4> QED
        BY <4>1, <1>w
    <3>3. CASE k \in 1..(Len(stack) - 2)
      <4>1. /\ k \in 1..(Len(stack) - 1)
            /\ stack'[k] = stack[k] /\ stack'[k + 1] = stack[k + 1]
        BY <3>3, <1>2, <1>4
      <4> QED
        BY <4>1, <1>w
    <3>4. k = Len(stack) \/ k = Len(stack) - 1 \/ k \in 1..(Len(stack) - 2)
      BY <1>n
    <3> QED
      BY <3>1, <3>2, <3>3, <3>4
  <2> QED
    BY <1>1, <1>4, <2>1, <2>2, <2>3 DEF Walk
<1>7. Passed'
  <2>1. ASSUME NEW k \in 1..Len(stack'), NEW j \in 1..(stack'[k].next - 1)
        PROVE  \/ k < Len(stack') /\ j = stack'[k].next - 1
               \/ graph[stack'[k].node][j] \in Listed(dst_node)
    <3>1. CASE k \in 1..(Len(stack) - 1)
      <4>1. k \in 1..Len(stack) /\ stack'[k] = stack[k] /\ k < Len(stack')
        BY <3>1, <1>s
      <4> QED
        BY <4>1, <1>p
    <3>2. CASE k = Len(stack)
      <4>1. stack'[k].node = Top.node /\ stack'[k].next = Top.next + 1
        BY <3>2, <1>4
      <4>2. CASE j = Top.next
        BY <3>2, <4>1, <4>2, <1>2, <1>4
      <4>3. CASE j \in 1..(Top.next - 1)
        <5>1. graph[stack[Len(stack)].node][j] \in Listed(dst_node)
          <6>1. Len(stack) \in 1..Len(stack) /\ ~(Len(stack) < Len(stack))
            BY <1>2
          <6> QED
            BY <4>3, <6>1, <1>p DEF Top
        <5> QED
          BY <5>1, <4>1 DEF Top
      <4> QED
        BY <4>1, <4>2, <4>3, <1>2
    <3>3. CASE k = Len(stack) + 1
      <4>1. stack'[k].next = 1
        BY <3>3, <1>4
      <4> QED
        BY <4>1
    <3> QED
      BY <1>c, <3>1, <3>2, <3>3
  <2>3. DOMAIN stack' = 1..Len(stack')
    BY <1>4
  <2>4. \A k \in DOMAIN stack' : \A j \in 1..(stack'[k].next - 1) :
            \/ k < Len(stack') /\ j = stack'[k].next - 1
            \/ graph'[stack'[k].node][j] \in Listed(dst_node')
    BY <1>1, <2>1, <2>3
  <2> QED
    BY <2>4 DEF Passed
<1>8. Lists' /\ Fresh'
  <2>1. ListsComplete' /\ IncludesComeFirst(dst_node)'
    BY <1>1, GraphKept DEF Inv, Lists
  <2> QED
    BY <1>1, <2>1 DEF Inv, Lists, Fresh
<1>9. Reached'
  <2>1. Reachable(node_idx)' = Reachable(node_idx)
    BY <1>1 DEF Reachable, Includes
  <2>2. node \in Reachable(node_idx)
    <3>1. node \in Includes(Top.node)
      BY <1>3 DEF Includes, node
    <3>2. CASE Len(stack) = 1
      <4>1. Top.node = node_idx
        BY <3>2, <1>w DEF Top
      <4> QED
        BY <3>1, <4>1, <1>2, ReachableClosed
    <3>3. CASE Len(stack) > 1
      <4>0. Len(stack) \in 2..Len(stack)
        BY <3>3, <1>n
      <4>1. Top.node \in Reachable(node_idx)
        BY <4>0, <1>1, Zenon DEF Inv, Reached, Top
      <4> QED
        BY <3>1, <4>1, <1>2, ReachableClosed
    <3> QED
      BY <1>2, <3>2, <3>3
  <2>3. ASSUME NEW k \in 2..Len(stack')
        PROVE  stack'[k].node \in Reachable(node_idx)
    <3>1. CASE k \in 1..(Len(stack) - 1)
      BY <3>1, <1>1, <1>2, <1>4 DEF Inv, Reached
    <3>2. CASE k = Len(stack)
      BY <3>2, <1>1, <1>2, <1>4 DEF Inv, Reached, Top
    <3>3. CASE k = Len(stack) + 1
      BY <3>3, <1>4, <2>2
    <3> QED
      BY <1>2, <1>4, <3>1, <3>2, <3>3
  <2>4. ListsNothingElse'
    BY <1>1, GraphKept DEF Inv, Reached
  <2>5. Listed(dst_node)' \subseteq Reachable(node_idx)
    BY <1>1 DEF Inv, Reached, Listed
  <2> QED
    BY <1>1, <2>1, <2>3, <2>4, <2>5 DEF Reached
<1> QED
  BY <1>5, <1>6, <1>7, <1>8, <1>9 DEF Inv

LEMMA StartNodeInv ==
    ASSUME Inv, StartNode
    PROVE  Inv'
<1>1. /\ pc = "flatten" /\ node_idx <= Len(graph)
      /\ stack' = <<[node |-> node_idx, next |-> 1]>> /\ dst_node' = <<>>
      /\ pc' = pc /\ blocks' = blocks /\ graph' = graph /\ node_idx' = node_idx
      /\ res_graph' = res_graph
  BY DEF StartNode
<1>2. /\ graph \in Seq(Seq(DOMAIN graph)) /\ node_idx \in 1..(Len(graph) + 1)
      /\ Len(res_graph) = node_idx - 1 /\ ListsComplete /\ ListsNothingElse
  BY DEF Inv, TypeOK, Lists, Reached
<1>3. node_idx \in DOMAIN graph /\ graph[node_idx] \in Seq(DOMAIN graph)
  BY <1>1, <1>2
<1>4. /\ Len(stack') = 1 /\ DOMAIN stack' = {1}
      /\ stack'[1].node = node_idx /\ stack'[1].next = 1
      /\ stack' \in Seq([node : DOMAIN graph, next : Nat \ {0}])
  BY <1>1, <1>3
<1>5. TypeOK'
  BY <1>1, <1>4 DEF Inv, TypeOK
<1>6. Walk' /\ Passed'
  BY <1>1, <1>3, <1>4 DEF Walk, Passed
<1>7. ListsComplete' /\ ListsNothingElse'
  BY <1>1, <1>2, GraphKept
<1>8. Lists'
  BY <1>1, <1>2, <1>7 DEF Lists, IncludesComeFirst
<1>9. Reached'
  BY <1>1, <1>4, <1>7 DEF Reached, Listed
<1> QED
  BY <1>1, <1>5, <1>6, <1>8, <1>9 DEF Inv, Fresh

\* A frame at the end of its loop has everything its node includes listed.
LEMMA LoopDone ==
    ASSUME Inv, stack # <<>>, ~HasNextInclude
    PROVE  Includes(Top.node) \subseteq Listed(dst_node)
<1>1. /\ DOMAIN graph[Top.node] = 1..Len(graph[Top.node])
      /\ Len(graph[Top.node]) \in Nat /\ Top.next \in Nat \ {0}
      /\ Len(stack) \in Nat \ {0} /\ DOMAIN stack = 1..Len(stack)
  BY FlattenFacts
<1>2. ~(Top.next <= Len(graph[Top.node]))
  BY DEF HasNextInclude
<1>3. ASSUME NEW j \in DOMAIN graph[Top.node]
      PROVE  graph[Top.node][j] \in Listed(dst_node)
  <2>1. Len(stack) \in DOMAIN stack /\ ~(Len(stack) < Len(stack))
    BY <1>1
  <2>2. j \in 1..(Top.next - 1)
    BY <1>1, <1>2
  <2> QED
    BY <2>1, <2>2 DEF Inv, Passed, Top
<1> QED
  BY <1>3 DEF Includes

LEMMA PushIncludedInv ==
    ASSUME Inv, PushIncluded
    PROVE  Inv'
<1>1. /\ pc = "flatten" /\ Len(stack) > 1 /\ ~HasNextInclude
      /\ dst_node' = Append(dst_node, Top.node)
      /\ stack' = SubSeq(stack, 1, Len(stack) - 1)
      /\ pc' = pc /\ blocks' = blocks /\ graph' = graph /\ node_idx' = node_idx
      /\ res_graph' = res_graph
  BY DEF PushIncluded
<1>2. stack # <<>>
  BY <1>1
<1>3. /\ stack \in Seq(Frames) /\ Len(stack) \in Nat \ {0}
      /\ DOMAIN stack = 1..Len(stack) /\ Top.node \in DOMAIN graph
      /\ node_idx \in DOMAIN graph
  BY <1>2, FlattenFacts
<1>t. dst_node \in Seq(DOMAIN graph) /\ Len(stack) <= MaxDepth + 1
  BY DEF Inv, TypeOK
<1>4. /\ stack' \in Seq(Frames) /\ Len(stack') = Len(stack) - 1
      /\ DOMAIN stack' = 1..(Len(stack) - 1)
      /\ \A k \in 1..(Len(stack) - 1) : stack'[k] = stack[k]
  BY <1>1, <1>3
<1>5. /\ dst_node' \in Seq(DOMAIN graph)
      /\ Listed(dst_node') = Listed(dst_node) \cup {Top.node}
      /\ IncludesComeFirst(dst_node')
  <2>1. Includes(Top.node) \subseteq Listed(dst_node) /\ IncludesComeFirst(dst_node)
    BY <1>1, <1>2, LoopDone DEF Inv, Lists
  <2> QED
    BY <1>1, <1>3, <1>t, <2>1, AppendListed
<1>6. TypeOK'
  <2>1. stack' \in Seq([node : DOMAIN graph', next : Nat \ {0}])
    BY <1>1, <1>4 DEF Frames
  <2>2. Len(stack') <= MaxDepth + 1
    BY <1>t, <1>3, <1>4
  <2> QED
    BY <1>1, <1>5, <2>1, <2>2 DEF Inv, TypeOK
<1>w. /\ stack[1].node = node_idx
      /\ \A k \in 1..Len(stack) : stack[k].next <= Len(graph[stack[k].node]) + 1
      /\ \A k \in 1..(Len(stack) - 1) :
            /\ stack[k].next - 1 \in DOMAIN graph[stack[k].node]
            /\ stack[k + 1].node = graph[stack[k].node][stack[k].next - 1]
  BY <1>2, <1>3 DEF Inv, Walk
<1>7. Walk'
  <2>1. 1 \in 1..(Len(stack) - 1) /\ \A k \in 1..(Len(stack) - 1) : k \in 1..Len(stack)
    BY <1>1, <1>3
  <2>2. \A k \in 1..(Len(stack') - 1) :
            k \in 1..(Len(stack) - 1) /\ k + 1 \in 1..(Len(stack) - 1)
    BY <1>3, <1>4
  <2>3. stack'[1].node = node_idx
    BY <1>4, <1>w, <2>1
  <2>4. \A k \in 1..(Len(stack) - 1) : stack'[k].next <= Len(graph[stack'[k].node]) + 1
    BY <1>4, <1>w, <2>1
  <2>5. \A k \in 1..(Len(stack') - 1) :
            /\ stack'[k].next - 1 \in DOMAIN graph[stack'[k].node]
            /\ stack'[k + 1].node = graph[stack'[k].node][stack'[k].next - 1]
    BY <1>4, <1>w, <2>2
  <2> QED
    BY <1>1, <1>4, <2>3, <2>4, <2>5 DEF Walk
<1>8. Passed'
  <2>1. ASSUME NEW k \in 1..(Len(stack) - 1), NEW j \in 1..(stack[k].next - 1)
        PROVE  \/ k < Len(stack) - 1 /\ j = stack[k].next - 1
               \/ graph[stack[k].node][j] \in Listed(dst_node')
    <3>1. \/ j = stack[k].next - 1
          \/ graph[stack[k].node][j] \in Listed(dst_node)
      BY <1>3 DEF Inv, Passed
    <3>2. CASE j = stack[k].next - 1 /\ k = Len(stack) - 1
      <4>1. stack[k + 1] = Top
        BY <1>3, <3>2 DEF Top
      <4> QED
        BY <1>5, <1>w, <3>2, <4>1
    <3>3. k = Len(stack) - 1 \/ k < Len(stack) - 1
      BY <1>3
    <3> QED
      BY <1>5, <3>1, <3>2, <3>3
  <2>2. \A k \in DOMAIN stack' : \A j \in 1..(stack'[k].next - 1) :
            \/ k < Len(stack') /\ j = stack'[k].next - 1
            \/ graph'[stack'[k].node][j] \in Listed(dst_node')
    BY <1>1, <1>4, <2>1
  <2> QED
    BY <2>2 DEF Passed
<1>9. ListsComplete' /\ ListsNothingElse' /\ IncludesComeFirst(dst_node)'
  <2>1. ListsComplete /\ ListsNothingElse
    BY DEF Inv, Lists, Reached
  <2>2. ListsComplete' /\ ListsNothingElse'
    BY <1>1, <2>1, GraphKept
  <2>3. IncludesComeFirst(dst_node)'
    BY <1>1, <1>5, SameGraph
  <2> QED
    BY <2>2, <2>3
<1>10. Lists'
  BY <1>1, <1>9 DEF Inv, Lists
<1>11. Reached'
  <2>1. Reachable(node_idx)' = Reachable(node_idx)
    BY <1>1 DEF Reachable, Includes
  <2>2. /\ Listed(dst_node) \subseteq Reachable(node_idx)
        /\ \A k \in 2..Len(stack) : stack[k].node \in Reachable(node_idx)
    BY <1>2 DEF Inv, Reached
  <2>3. Top.node \in Reachable(node_idx)
    BY <1>1, <1>3, <2>2 DEF Top
  <2>4. Listed(dst_node') \subseteq Reachable(node_idx)
    BY <1>5, <2>2, <2>3
  <2>5. \A k \in 2..Len(stack') : stack'[k].node \in Reachable(node_idx)
    <3>1. \A k \in 2..Len(stack') : k \in 2..Len(stack) /\ k \in 1..(Len(stack) - 1)
      BY <1>3, <1>4
    <3> QED
      BY <1>4, <2>2, <3>1
  <2> QED
    BY <1>1, <1>9, <2>1, <2>4, <2>5 DEF Reached
<1> QED
  BY <1>1, <1>6, <1>7, <1>8, <1>10, <1>11 DEF Inv, Fresh

LEMMA FinishNodeInv ==
    ASSUME Inv, FinishNode
    PROVE  Inv'
<1>1. /\ pc = "flatten" /\ Len(stack) = 1 /\ ~HasNextInclude
      /\ res_graph' = Append(res_graph, dst_node) /\ node_idx' = node_idx + 1
      /\ stack' = <<>>
      /\ pc' = pc /\ blocks' = blocks /\ graph' = graph /\ dst_node' = dst_node
  BY DEF FinishNode
<1>2. stack # <<>>
  BY <1>1
<1>3. /\ DOMAIN graph = 1..Len(graph) /\ Len(graph) \in Nat
      /\ node_idx \in DOMAIN graph /\ Top.node = node_idx
  BY <1>1, <1>2, FlattenFacts DEF Inv, Walk, Top
<1>4. /\ dst_node \in Seq(DOMAIN graph) /\ res_graph \in Seq(Seq(DOMAIN graph))
      /\ Len(res_graph) = node_idx - 1
      /\ IncludesComeFirst(dst_node) /\ ListsComplete /\ ListsNothingElse
      /\ Listed(dst_node) \subseteq Reachable(node_idx)
  BY <1>2 DEF Inv, TypeOK, Lists, Reached
<1>5. Includes(node_idx) \subseteq Listed(dst_node)
  BY <1>1, <1>2, <1>3, LoopDone
<1>6. /\ res_graph' \in Seq(Seq(DOMAIN graph)) /\ Len(res_graph') = node_idx
      /\ \A n \in DOMAIN res_graph' : n \in DOMAIN res_graph \/ n = node_idx
      /\ \A n \in DOMAIN res_graph : res_graph'[n] = res_graph[n]
      /\ res_graph'[node_idx] = dst_node
  BY <1>1, <1>3, <1>4
<1>7. \A n \in DOMAIN res_graph' :
          /\ IncludesComeFirst(res_graph'[n])
          /\ Includes(n) \subseteq Listed(res_graph'[n])
          /\ Listed(res_graph'[n]) \subseteq Reachable(n)
  BY <1>4, <1>5, <1>6 DEF ListsComplete, ListsNothingElse
<1>8. ListsComplete'
  BY <1>1, <1>7, SameGraph DEF ListsComplete
<1>9. ListsNothingElse'
  BY <1>1, <1>7, SameGraph DEF ListsNothingElse
<1>10. IncludesComeFirst(dst_node)'
  BY <1>1, <1>4, SameGraph
<1>11. TypeOK'
  BY <1>1, <1>3, <1>6 DEF Inv, TypeOK
<1>12. Walk' /\ Passed'
  BY <1>1 DEF Walk, Passed
<1>13. Lists'
  BY <1>1, <1>3, <1>6, <1>8, <1>10 DEF Lists
<1>14. Reached'
  BY <1>1, <1>9 DEF Reached
<1> QED
  BY <1>1, <1>11, <1>12, <1>13, <1>14 DEF Inv, Fresh

LEMMA BuildBlockDirectGraphInv ==
    ASSUME Inv, BuildBlockDirectGraph
    PROVE  Inv'
<1>1. /\ pc = "direct" /\ AllIncludesExist(blocks)
      /\ graph' = DirectGraph(blocks) /\ pc' = "flatten"
      /\ blocks' = blocks /\ node_idx' = node_idx /\ stack' = stack
      /\ dst_node' = dst_node /\ res_graph' = res_graph
  BY DEF BuildBlockDirectGraph
<1>2. /\ blocks \in Scripts /\ node_idx = 1
      /\ graph = <<>> /\ stack = <<>> /\ res_graph = <<>> /\ dst_node = <<>>
  BY <1>1 DEF Inv, TypeOK, Fresh
<1>3. graph' \in Seq(Seq(DOMAIN graph'))
  BY <1>1, <1>2, DirectGraphType
<1>4. Len(graph') \in Nat
  BY <1>3
<1>5. TypeOK'
  BY <1>1, <1>2, <1>3, <1>4 DEF TypeOK
<1>6. Walk' /\ Passed' /\ Lists' /\ Reached'
  BY <1>1, <1>2 DEF Walk, Passed, Lists, ListsComplete, IncludesComeFirst, Reached,
                    ListsNothingElse
<1> QED
  BY <1>1, <1>5, <1>6 DEF Inv, Fresh

-----------------------------------------------------------------------------
(* The inductive invariant.                                                 *)

LEMMA InitInv == Init => Inv
BY DEF Init, Inv, TypeOK, Fresh, Walk, Passed, Lists, ListsComplete, IncludesComeFirst,
       Reached, ListsNothingElse

\* A step that moves only pc keeps the invariant, if done means all are listed.
LEMMA PcStepInv ==
    ASSUME Inv, UNCHANGED <<blocks, graph, node_idx, stack, dst_node, res_graph>>,
           pc' \in {pc, "done", "throw"}, pc' = "done" => node_idx > Len(graph)
    PROVE  Inv'
<1>1. /\ blocks' = blocks /\ graph' = graph /\ node_idx' = node_idx /\ stack' = stack
      /\ dst_node' = dst_node /\ res_graph' = res_graph
  OBVIOUS
<1>2. TypeOK' /\ Fresh'
  BY <1>1 DEF Inv, TypeOK, Fresh
<1>3. Walk'
  BY <1>1 DEF Inv, Walk
<1>4. Passed'
  BY <1>1 DEF Inv, Passed, Listed
<1>5. ListsComplete' /\ ListsNothingElse' /\ IncludesComeFirst(dst_node)'
  BY <1>1, GraphKept DEF Inv, Lists, Reached
<1>6. Lists'
  BY <1>1, <1>5 DEF Inv, Lists
<1>7. Reached'
  <2>1. Reachable(node_idx)' = Reachable(node_idx)
    BY <1>1 DEF Reachable, Includes
  <2>2. Listed(dst_node)' = Listed(dst_node)
    BY <1>1 DEF Listed
  <2> QED
    BY <1>1, <1>5, <2>1, <2>2 DEF Inv, Reached
<1> QED
  BY <1>2, <1>3, <1>4, <1>6, <1>7 DEF Inv

LEMMA NextInv ==
    ASSUME Inv, [Next]_vars
    PROVE  Inv'
<1>1. CASE MissingIncludeThrows
  BY <1>1, PcStepInv DEF MissingIncludeThrows
<1>2. CASE BuildBlockDirectGraph
  BY <1>2, BuildBlockDirectGraphInv
<1>3. CASE StartNode
  BY <1>3, StartNodeInv
<1>4. CASE FlattenInclude
  BY <1>4, FlattenIncludeInv
<1>5. CASE DepthThrows
  BY <1>5, PcStepInv DEF DepthThrows
<1>6. CASE PushIncluded
  BY <1>6, PushIncludedInv
<1>7. CASE FinishNode
  BY <1>7, FinishNodeInv
<1>8. CASE FlattenGraphReturns
  BY <1>8, PcStepInv DEF FlattenGraphReturns
<1>9. CASE UNCHANGED vars
  BY <1>9, PcStepInv DEF vars, Inv, Lists
<1> QED
  BY <1>1, <1>2, <1>3, <1>4, <1>5, <1>6, <1>7, <1>8, <1>9 DEF Next, Finished

\* The recursion of FlattenNode is as Inv describes it in every state.
THEOREM Invariance == Spec => []Inv
<1>1. Init => Inv
  BY InitInv
<1>2. Inv /\ [Next]_vars => Inv'
  BY NextInv
<1> QED
  BY <1>1, <1>2, PTL DEF Spec

-----------------------------------------------------------------------------
(* What follows from it.                                                    *)

\* Indices stay inside the graph and the recursion inside its limit, however
\* the blocks include each other.
THEOREM TypeCorrect == Spec => []TypeOK
<1>1. Inv => TypeOK
  BY DEF Inv
<1> QED
  BY <1>1, Invariance, PTL

\* Every list FlattenGraph returns puts a block after all it includes, and
\* misses nothing its block includes.
THEOREM ListsAlwaysComplete == Spec => []ListsComplete
<1>1. Inv => ListsComplete
  BY DEF Inv, Lists
<1> QED
  BY <1>1, Invariance, PTL

\* Every list FlattenGraph returns holds only what its block includes, directly
\* or through others.
THEOREM ListsHoldNothingElse == Spec => []ListsNothingElse
<1>1. Inv => ListsNothingElse
  BY DEF Inv, Reached
<1> QED
  BY <1>1, Invariance, PTL

\* Let each block of a set include one of the set.  In a list that holds one of
\* them, the first of them comes after another of them: there is no such list.
LEMMA DoneMeansAcyclic ==
    ASSUME Inv
    PROVE  NoCycleIsAccepted
<1> SUFFICES ASSUME pc = "done", NEW C \in SUBSET DOMAIN graph, C # {},
                    \A n \in C : Includes(n) \cap C # {}
             PROVE  FALSE
  BY DEF NoCycleIsAccepted, Acyclic
<1>1. PICK n \in C : TRUE
  OBVIOUS
<1>2. /\ graph \in Seq(Seq(DOMAIN graph)) /\ res_graph \in Seq(Seq(DOMAIN graph))
      /\ node_idx \in 1..(Len(graph) + 1)
      /\ Len(res_graph) = node_idx - 1 /\ node_idx > Len(graph) /\ ListsComplete
  BY DEF Inv, TypeOK, Lists
<1>3. n \in DOMAIN res_graph
  BY <1>1, <1>2
<1> DEFINE list == res_graph[n]
<1>4. list \in Seq(DOMAIN graph)
  BY <1>2, <1>3
<1>5. IncludesComeFirst(list) /\ Includes(n) \subseteq Listed(list)
  BY <1>2, <1>3 DEF ListsComplete
<1> HIDE DEF list
<1> DEFINE hits == {p \in DOMAIN list : list[p] \in C}
<1>6. hits \in SUBSET Nat /\ hits # {}
  BY <1>1, <1>4, <1>5 DEF Listed
<1>7. PICK p \in hits : \A q \in hits : p <= q
  BY <1>6, Least
<1>8. PICK m \in C : m \in Includes(list[p])
  OBVIOUS
<1>9. PICK q \in 1..(p - 1) : list[q] = m
  BY <1>5, <1>8 DEF IncludesComeFirst
<1>10. q \in hits /\ q < p
  BY <1>4, <1>8, <1>9
<1> QED
  BY <1>4, <1>6, <1>7, <1>10

\* LoadScript never goes on with blocks that include each other in a circle,
\* for any limit on the depth of the recursion.
THEOREM NoCycleAccepted == Spec => []NoCycleIsAccepted
BY Invariance, DoneMeansAcyclic, PTL

-----------------------------------------------------------------------------
(* The depth limit.                                                         *)

\* What FlattenNode throws on: a frame of the last depth allowed that has another
\* include.
Thrown == pc = "throw" => graph = <<>> \/ (HasNextInclude /\ Len(stack) > MaxDepth)

LEMMA ThrownStep ==
    ASSUME Inv, Thrown, [Next]_vars
    PROVE  Thrown'
<1>1. CASE MissingIncludeThrows
  BY <1>1 DEF MissingIncludeThrows, Inv, Fresh, Thrown
<1>2. CASE DepthThrows
  <2>1. HasNextInclude' = HasNextInclude
    BY <1>2 DEF DepthThrows, HasNextInclude, Top
  <2> QED
    BY <1>2, <2>1 DEF DepthThrows, Thrown
<1>3. CASE \/ BuildBlockDirectGraph \/ StartNode \/ FlattenInclude \/ PushIncluded
           \/ FinishNode \/ FlattenGraphReturns
  BY <1>3 DEF BuildBlockDirectGraph, StartNode, FlattenInclude, PushIncluded, FinishNode,
              FlattenGraphReturns, Thrown
<1>4. CASE UNCHANGED vars
  <2>1. HasNextInclude' = HasNextInclude
    BY <1>4 DEF vars, HasNextInclude, Top
  <2> QED
    BY <1>4, <2>1 DEF vars, Thrown
<1> QED
  BY <1>1, <1>2, <1>3, <1>4 DEF Next, Finished

\* A walk that visits a block twice goes round a circle.
LEMMA WalkWithRepetition ==
    ASSUME NEW n \in Nat, NEW walk \in [1..n -> DOMAIN graph],
           \A k \in 1..(n - 1) : walk[k + 1] \in Includes(walk[k]),
           NEW i \in 1..n, NEW j \in 1..n, i < j, walk[i] = walk[j]
    PROVE  ~Acyclic
<1> DEFINE C == {walk[k] : k \in i..(j - 1)}
<1>1. \A k \in i..(j - 1) : k \in 1..n /\ k \in 1..(n - 1)
  OBVIOUS
<1>2. C \in SUBSET DOMAIN graph
  BY <1>1
<1>3. i \in i..(j - 1)
  OBVIOUS
<1>4. walk[i] \in C
  BY <1>3
<1>5. ASSUME NEW k \in i..(j - 1)
      PROVE  Includes(walk[k]) \cap C # {}
  <2>1. walk[k + 1] \in Includes(walk[k])
    BY <1>1
  <2>2. CASE k + 1 \in i..(j - 1)
    BY <2>1, <2>2
  <2>3. CASE k + 1 = j
    BY <2>1, <2>3, <1>4
  <2>4. k + 1 \in i..(j - 1) \/ k + 1 = j
    OBVIOUS
  <2> QED
    BY <2>2, <2>3, <2>4
<1>6. \A m \in C : Includes(m) \cap C # {}
  BY <1>5
<1> QED
  BY <1>2, <1>4, <1>6 DEF Acyclic

\* The stack that is too deep, and the include that would make it deeper, are a
\* walk of more blocks than there are.
LEMMA ThrownMeansCycle ==
    ASSUME Inv, Thrown
    PROVE  RejectsOnlyCycles
<1> SUFFICES ASSUME pc = "throw", graph # <<>>, Len(graph) <= MaxDepth + 1
             PROVE  ~Acyclic
  BY DEF RejectsOnlyCycles
<1>1. HasNextInclude /\ Len(stack) > MaxDepth /\ stack # <<>>
  BY DEF Thrown, HasNextInclude
<1>2. /\ DOMAIN graph = 1..Len(graph) /\ Len(graph) \in Nat
      /\ stack \in Seq(Frames) /\ Len(stack) \in Nat \ {0}
      /\ DOMAIN stack = 1..Len(stack)
      /\ Top.node \in DOMAIN graph /\ Top.next \in Nat \ {0}
      /\ graph[Top.node] \in Seq(DOMAIN graph)
      /\ DOMAIN graph[Top.node] = 1..Len(graph[Top.node])
      /\ Len(graph[Top.node]) \in Nat
  BY <1>1, FlattenFacts
<1> DEFINE n == Len(stack) + 1
           last == graph[Top.node][Top.next]
           walk == [k \in 1..n |-> IF k = n THEN last ELSE stack[k].node]
<1>3. Top.next \in DOMAIN graph[Top.node]
  BY <1>1, <1>2 DEF HasNextInclude
<1>4. last \in DOMAIN graph /\ last \in Includes(Top.node)
  <2>1. last \in DOMAIN graph
    BY <1>2, <1>3, SeqElement, Zenon
  <2>2. last \in Includes(Top.node)
    BY <1>3 DEF Includes
  <2> QED
    BY <2>1, <2>2
<1> HIDE DEF last
<1>5. n \in Nat /\ n > Len(graph) /\ \A k \in 1..n : k # n => k \in 1..Len(stack)
  <2>1. /\ Len(stack) \in Nat /\ Len(graph) \in Nat
        /\ Len(stack) > MaxDepth /\ Len(graph) <= MaxDepth + 1
    BY <1>1, <1>2
  <2>2. n > Len(graph)
    BY <2>1
  <2> QED
    BY <2>1, <2>2
<1>6. ASSUME NEW k \in 1..Len(stack)
      PROVE  stack[k].node \in DOMAIN graph
  <2>1. stack[k] \in Frames
    BY <1>2, SeqElement, Zenon
  <2> QED
    BY <2>1 DEF Frames
<1>7. walk \in [1..n -> DOMAIN graph]
  BY <1>4, <1>5, <1>6
<1>8. ASSUME NEW k \in 1..(n - 1)
      PROVE  walk[k + 1] \in Includes(walk[k])
  <2>1. k \in 1..Len(stack) /\ k \in 1..n /\ k + 1 \in 1..n /\ k # n
    BY <1>2
  <2>2. CASE k = Len(stack)
    <3>1. walk[k] = Top.node /\ walk[k + 1] = last
      BY <2>1, <2>2, <1>2 DEF Top
    <3> QED
      BY <3>1, <1>4
  <2>3. CASE k \in 1..(Len(stack) - 1)
    <3>1. walk[k] = stack[k].node /\ walk[k + 1] = stack[k + 1].node
      <4>1. k + 1 # n
        BY <2>3, <1>2
      <4> QED
        BY <2>1, <4>1
    <3>2. /\ stack[k].next - 1 \in DOMAIN graph[stack[k].node]
          /\ stack[k + 1].node = graph[stack[k].node][stack[k].next - 1]
      BY <2>3 DEF Inv, Walk
    <3> QED
      BY <3>1, <3>2 DEF Includes
  <2>4. k = Len(stack) \/ k \in 1..(Len(stack) - 1)
    <3>1. Len(stack) \in Nat
      BY <1>2
    <3> QED
      BY <2>1, <3>1
  <2> QED
    BY <2>2, <2>3, <2>4
<1> HIDE DEF walk, n
<1>9. /\ IsFiniteSet(1..n) /\ Cardinality(1..n) = n
      /\ IsFiniteSet(1..Len(graph)) /\ Cardinality(1..Len(graph)) = Len(graph)
  <2>1. n \in Int /\ Len(graph) \in Int /\ 1 \in Int
    BY <1>2, <1>5
  <2>2. /\ IsFiniteSet(1..n) /\ Cardinality(1..n) = IF 1 > n THEN 0 ELSE n - 1 + 1
        /\ IsFiniteSet(1..Len(graph))
        /\ Cardinality(1..Len(graph)) = IF 1 > Len(graph) THEN 0 ELSE Len(graph) - 1 + 1
    BY <2>1, FS_Interval
  <2> QED
    BY <2>2, <1>2, <1>5
<1>10. PICK i, j \in 1..n : i # j /\ walk[i] = walk[j]
  <2>1. walk \in [1..n -> 1..Len(graph)]
    BY <1>2, <1>7
  <2>2. Cardinality(1..Len(graph)) < Cardinality(1..n)
    BY <1>2, <1>5, <1>9
  <2> QED
    BY <1>9, <2>1, <2>2, FS_PigeonHole, Zenon
<1>11. CASE i < j
  BY <1>5, <1>7, <1>8, <1>10, <1>11, WalkWithRepetition
<1>12. CASE j < i
  BY <1>5, <1>7, <1>8, <1>10, <1>12, WalkWithRepetition
<1> QED
  BY <1>5, <1>10, <1>11, <1>12

\* LoadScript throws on no includes but circular ones, while a script has no more
\* blocks than the limit on the depth allows.
THEOREM OnlyCyclesRejected == Spec => []RejectsOnlyCycles
<1>1. Init => Thrown
  BY DEF Init, Thrown
<1>2. Inv /\ Thrown /\ [Next]_vars => Thrown'
  BY ThrownStep
<1>3. Inv /\ Thrown => RejectsOnlyCycles
  BY ThrownMeansCycle
<1> QED
  BY <1>1, <1>2, <1>3, Invariance, PTL DEF Spec
=============================================================================
