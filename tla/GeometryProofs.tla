--------------------------- MODULE GeometryProofs ---------------------------
(***************************************************************************)
(* Theorems about Dwindle and about Geometry, which extends it, for any    *)
(* finite tree, areas, gaps and boxes.                                     *)
(*                                                                         *)
(* First the tree: its pointers form a tree that holds every cell in use,  *)
(* each view has one leaf, and the focus is one of the leaves.  Then the   *)
(* boxes: the searches and the drops over them only take steps that        *)
(* Dwindle has, so the tree stays a tree.  Every step that changes it ends *)
(* in server_arrange, so what that leaves, Laid, holds whatever the boxes  *)
(* were; from Laid follow the tiling and where a dropped window lands.     *)
(* Then the keys: where every node has its gap, the search from the window *)
(* in the corner of a node finds one beyond the split.  Last the order of  *)
(* the windows, which splitting and removing a leaf keep.                  *)
(***************************************************************************)
EXTENDS Geometry, FiniteSetTheorems, WellFoundedInduction, TLAPS

USE GeometryAssumption, NodesAssumption, NoViewAssumption

\* A set of cells that no child pointer leaves.
Closed(S) == \A n \in S : {left[n], right[n]} \ {NoNode} \subseteq S

\* NoLeak, without the walk: no set of cells that is closed and holds the root
\* misses a cell in use.
Reach == IF root = NoNode THEN alloc = {}
         ELSE \A S \in SUBSET Nodes : root \in S /\ Closed(S) => alloc \subseteq S

\* A free cell points nowhere.
Clean == \A n \in Nodes \ alloc :
           view[n] = NoView /\ {parent[n], left[n], right[n]} = {NoNode}

\* The inductive invariant.  Where the focus goes when its leaf is removed
\* depends on the tree below the sibling, so FocusIsLeaf needs the tree to have
\* no cycle, and that is Reach.
IInv == TypeOK /\ TreeShape /\ Clean /\ Reach /\ OneLeafPerView /\ FocusIsLeaf

-----------------------------------------------------------------------------
(* The tree                                                                *)

\* The types, one by one.
LEMMA Types ==
    ASSUME TypeOK
    PROVE  /\ alloc \subseteq Nodes
           /\ view \in [Nodes -> Views \cup {NoView}]
           /\ parent \in [Nodes -> Nodes \cup {NoNode}]
           /\ left \in [Nodes -> Nodes \cup {NoNode}]
           /\ right \in [Nodes -> Nodes \cup {NoNode}]
           /\ root \in Nodes \cup {NoNode}
           /\ focused \in Nodes \cup {NoNode}
BY DEF TypeOK

\* Every child hangs under the one node that points to it.
LEMMA Child ==
    ASSUME TypeOK, TreeShape, Clean,
           NEW n \in Nodes, NEW c \in {left[n], right[n]}, c # NoNode
    PROVE  /\ n \in alloc /\ c \in alloc
           /\ view[n] = NoView
           /\ parent[c] = n
           /\ c # root
BY Types DEF TreeShape, Clean

\* Going up from any node leads to the root: only the empty set of nodes
\* without the root holds the parents of its members.
LEMMA NoCycle ==
    ASSUME TypeOK, TreeShape, Clean, Reach, root # NoNode,
           NEW X \in SUBSET alloc, root \notin X,
           \A x \in X : parent[x] \in X
    PROVE  X = {}
<1> DEFINE S == alloc \ X
<1>1. S \in SUBSET Nodes /\ root \in S
  BY Types DEF TreeShape
<1>2. Closed(S)
  <2> SUFFICES ASSUME NEW n \in S, NEW c \in {left[n], right[n]}, c # NoNode
               PROVE  c \in S
    BY DEF Closed
  <2>1. c \in alloc /\ parent[c] = n
    BY <1>1, Child
  <2> QED  BY <2>1
<1>3. alloc \subseteq S
  BY <1>1, <1>2 DEF Reach
<1> QED  BY <1>3

\* The walk stays in every closed set it starts in.
LEMMA BelowClosed ==
    ASSUME NEW n \in Nodes, NEW S \in SUBSET Nodes, n \in S, Closed(S)
    PROVE  Below(n) \subseteq S
<1> DEFINE next == [k \in Nodes |-> {left[k], right[k]} \ {NoNode}]
<1>1. \A k \in S : next[k] \subseteq S
  BY DEF Closed
<1>2. Walk(n, next) \subseteq S
  BY <1>1 DEF Walk
<1> QED  BY <1>2 DEF Below

\* What is below a node is closed, and holds the node.
LEMMA BelowIsClosed ==
    ASSUME TypeOK, NEW n \in Nodes
    PROVE  n \in Below(n) /\ Closed(Below(n)) /\ Below(n) \in SUBSET Nodes
<1> DEFINE next == [k \in Nodes |-> {left[k], right[k]} \ {NoNode}]
<1>1. Below(n) = Walk(n, next) /\ Below(n) \in SUBSET Nodes /\ n \in Below(n)
  BY DEF Below, Walk
<1>2. ASSUME NEW k \in Below(n), NEW c \in {left[k], right[k]}, c # NoNode
      PROVE  c \in Below(n)
  <2>1. k \in Nodes /\ c \in Nodes
    BY <1>1, <1>2, Types
  <2>2. ASSUME NEW S \in SUBSET Nodes, n \in S, \A m \in S : next[m] \subseteq S
        PROVE  c \in S
    <3>1. k \in S
      BY <1>1, <2>2, <1>2 DEF Walk
    <3>2. c \in next[k]
      BY <2>1, <1>2
    <3> QED  BY <3>1, <3>2, <2>2
  <2> QED  BY <1>1, <2>1, <2>2 DEF Walk
<1> QED  BY <1>1, <1>2 DEF Closed

\* The two ways to say that every cell in use hangs in the tree.
LEMMA ReachIsNoLeak ==
    ASSUME TypeOK, TreeShape, Clean
    PROVE  Reach => NoLeak
<1> SUFFICES ASSUME Reach PROVE alloc = Below(root)
  BY DEF NoLeak
<1>1. CASE root = NoNode
  BY <1>1 DEF Reach, Below
<1>2. CASE root # NoNode
  <2>1. root \in Nodes /\ root \in alloc /\ alloc \in SUBSET Nodes
    BY <1>2, Types DEF TreeShape
  <2>2. Closed(alloc)
    BY <2>1, Child DEF Closed
  <2>3. Below(root) \subseteq alloc
    BY <2>1, <2>2, BelowClosed
  <2>4. alloc \subseteq Below(root)
    BY <1>2, <2>1, BelowIsClosed DEF Reach
  <2> QED  BY <2>3, <2>4
<1> QED  BY <1>1, <1>2

\* The sibling of a leaf does not lead back to the leaf.
LEMMA SiblingApart ==
    ASSUME TypeOK, TreeShape, Clean, Reach,
           NEW leaf \in alloc, NEW sibling \in alloc, leaf # sibling,
           leaf # root, sibling # root, parent[leaf] = parent[sibling]
    PROVE  leaf \notin Below(sibling)
<1> DEFINE B == Below(sibling)
           p == parent[leaf]
<1>1. /\ B \in SUBSET Nodes /\ sibling \in B /\ Closed(B)
      /\ alloc \in SUBSET Nodes /\ Closed(alloc)
  <2>1. alloc \in SUBSET Nodes
    BY Types
  <2>2. Closed(alloc)
    BY <2>1, Child DEF Closed
  <2> QED  BY <2>1, <2>2, BelowIsClosed
<1>2. B \subseteq alloc
  BY <1>1, BelowClosed
<1>3. ASSUME NEW x \in B, x # sibling PROVE x # root /\ parent[x] \in B
  <2> DEFINE S == B \ {x}
  <2>1. ~ Closed(S)
    BY <1>1, <1>3, BelowClosed
  <2>2. PICK n \in S : x \in {left[n], right[n]} /\ x # NoNode
    BY <2>1, <1>1 DEF Closed
  <2> QED  BY <2>2, <1>1, Child
<1>4. ASSUME p \in B PROVE FALSE
  <2>1. B \in SUBSET alloc /\ root \notin B /\ \A x \in B : parent[x] \in B
    BY <1>2, <1>3, <1>4
  <2>2. root # NoNode
    BY DEF Reach
  <2> QED  BY <1>1, <2>1, <2>2, NoCycle
<1> QED  BY <1>3, <1>4
-----------------------------------------------------------------------------
(* The steps                                                               *)

LEMMA InitInv == Init => IInv
BY DEF Init, IInv, TypeOK, TreeShape, Clean, Reach, OneLeafPerView, FocusIsLeaf, Leaves

\* A step that changes the focus alone.
LEMMA FocusInv ==
    ASSUME IInv, UNCHANGED tree, focused' \in Leaves
    PROVE  IInv'
<1>1. UNCHANGED <<alloc, view, parent, left, right, root>>
  BY DEF tree
<1>2. TypeOK'
  BY <1>1 DEF IInv, TypeOK, Leaves
<1>3. TreeShape' /\ Clean' /\ OneLeafPerView'
  BY <1>1 DEF IInv, TreeShape, Clean, OneLeafPerView, Leaves
<1>4. Reach'
  BY <1>1 DEF IInv, Reach, Closed
<1>5. FocusIsLeaf'
  BY <1>1 DEF IInv, FocusIsLeaf, Leaves, Reach
<1> QED  BY <1>2, <1>3, <1>4, <1>5 DEF IInv

\* The first view of a layout.
LEMMA PlantInv ==
    ASSUME IInv, NEW v \in Views, ~ InTree(v), root = NoNode, Plant(v)
    PROVE  IInv'
<1> DEFINE leaf == Fresh(alloc)
<1>1. leaf \in Nodes /\ leaf \notin alloc /\ alloc = {}
  BY DEF Plant, Fresh, IInv, Reach
<1>2. /\ alloc' = {leaf} /\ root' = leaf /\ focused' = leaf
      /\ view' = [view EXCEPT ![leaf] = v]
      /\ UNCHANGED <<parent, left, right>>
  BY <1>1 DEF Plant
<1>3. TypeOK'
  BY <1>1, <1>2 DEF IInv, TypeOK
<1>4. view'[leaf] = v /\ {parent'[leaf], left'[leaf], right'[leaf]} = {NoNode}
  BY <1>1, <1>2, Types DEF IInv, Clean
<1>5. TreeShape'
  BY <1>1, <1>2, <1>4 DEF TreeShape
<1>6. Clean'
  BY <1>1, <1>2, Types DEF IInv, Clean
<1>7. Reach'
  BY <1>1, <1>2, <1>4 DEF Reach
<1>8. OneLeafPerView' /\ FocusIsLeaf'
  BY <1>1, <1>2, <1>4 DEF OneLeafPerView, FocusIsLeaf, Leaves
<1> QED  BY <1>3, <1>5, <1>6, <1>7, <1>8 DEF IInv

\* A leaf is split.
LEMMA SplitInv ==
    ASSUME IInv, NEW v \in Views, ~ InTree(v), NEW target \in Leaves,
           NEW before \in BOOLEAN, Split(v, target, before)
    PROVE  IInv'
<1>1. PICK leaf \in Nodes \ alloc, p \in Nodes \ alloc :
        /\ p # leaf
        /\ alloc' = alloc \cup {leaf, p}
        /\ view' = [view EXCEPT ![leaf] = v]
        /\ parent' = [n \in Nodes |-> IF n \in {target, leaf} THEN p
                                      ELSE IF n = p THEN parent[target]
                                      ELSE parent[n]]
        /\ left' = [Replaced(left, target, p) EXCEPT
                      ![p] = IF before THEN leaf ELSE target]
        /\ right' = [Replaced(right, target, p) EXCEPT
                      ![p] = IF before THEN target ELSE leaf]
        /\ root' = IF target = root THEN p ELSE root
        /\ focused' = leaf
  BY DEF Split
<1>2. /\ TypeOK /\ TreeShape /\ Clean /\ Reach /\ OneLeafPerView /\ FocusIsLeaf
      /\ target \in alloc /\ target \in Nodes /\ view[target] # NoView
      /\ left[target] = NoNode /\ right[target] = NoNode
      /\ target # leaf /\ target # p
  BY <1>1, Types DEF IInv, Leaves, TreeShape
<1>3. /\ \A n \in Nodes : view'[n] = IF n = leaf THEN v ELSE view[n]
      /\ view[p] = NoView
  BY <1>1, <1>2, Types DEF Clean
<1>4. /\ {left'[p], right'[p]} = {leaf, target} /\ left'[p] # right'[p]
      /\ \A n \in Nodes \ {p} :
           /\ left'[n] = IF n \in alloc /\ left[n] = target THEN p ELSE left[n]
           /\ right'[n] = IF n \in alloc /\ right[n] = target THEN p ELSE right[n]
  BY <1>1, <1>2 DEF Replaced
<1>5. left[leaf] = NoNode /\ right[leaf] = NoNode /\ leaf # root /\ p # root
  <2>1. left[leaf] = NoNode /\ right[leaf] = NoNode
    <3>1. leaf \in Nodes \ alloc /\ Clean
      BY <1>1, <1>2
    <3> QED  BY <3>1 DEF Clean
  <2>2. root = NoNode \/ root \in alloc
    BY <1>2 DEF TreeShape
  <2>3. leaf \notin alloc \cup {NoNode} /\ p \notin alloc \cup {NoNode}
    OBVIOUS
  <2> QED  BY <2>1, <2>2, <2>3
<1>6. TypeOK'
  <2>1. Replaced(left, target, p) \in [Nodes -> Nodes \cup {NoNode}]
    BY <1>1, <1>2, Types DEF Replaced
  <2>2. Replaced(right, target, p) \in [Nodes -> Nodes \cup {NoNode}]
    BY <1>1, <1>2, Types DEF Replaced
  <2>3. left' \in [Nodes -> Nodes \cup {NoNode}] /\ right' \in [Nodes -> Nodes \cup {NoNode}]
    BY <1>1, <1>2, <2>1, <2>2
  <2>4. parent' \in [Nodes -> Nodes \cup {NoNode}] /\ view' \in [Nodes -> Views \cup {NoView}]
    BY <1>1, <1>2, Types
  <2> QED  BY <1>1, <1>2, <2>3, <2>4, Types DEF TypeOK
<1>7. TreeShape'
  <2>1. ASSUME NEW n \in alloc'
        PROVE  IF view'[n] # NoView THEN left'[n] = NoNode /\ right'[n] = NoNode
               ELSE /\ {left'[n], right'[n]} \subseteq alloc'
                    /\ left'[n] # right'[n]
                    /\ parent'[left'[n]] = n /\ parent'[right'[n]] = n
    <3>1. CASE n = leaf
      BY <3>1, <1>1, <1>3, <1>4, <1>5
    <3>2. CASE n = p
      BY <3>2, <1>1, <1>2, <1>3, <1>4
    <3>3. CASE n \in alloc
      <4>1. n \in Nodes /\ n # leaf /\ n # p /\ view'[n] = view[n]
        BY <3>3, <1>1, <1>2, <1>3, Types
      <4>2. CASE view[n] # NoView
        BY <4>1, <4>2, <3>3, <1>2, <1>4 DEF TreeShape
      <4>3. CASE view[n] = NoView
        <5>1. /\ left[n] \in alloc /\ right[n] \in alloc /\ left[n] # right[n]
              /\ parent[left[n]] = n /\ parent[right[n]] = n
          BY <4>3, <3>3, <1>2 DEF TreeShape
        <5>2. \A c \in {left[n], right[n]} :
                c \in Nodes /\ c # leaf /\ c # p /\ (c # target => parent'[c] = n)
          BY <5>1, <1>1, <1>2, Types
        <5>3. target \in {left[n], right[n]} => parent'[p] = n
          BY <5>1, <1>1, <1>2
        <5> QED  BY <4>1, <4>3, <5>1, <5>2, <5>3, <1>1, <1>4, <3>3
      <4> QED  BY <4>2, <4>3
    <3> QED  BY <3>1, <3>2, <3>3, <1>1
  <2>2. ASSUME NEW n \in alloc' \ {root'}
        PROVE  parent'[n] \in alloc' /\ n \in {left'[parent'[n]], right'[parent'[n]]}
    <3>1. CASE n \in {leaf, target}
      BY <3>1, <1>1, <1>2, <1>4
    <3>2. CASE n = p
      <4>1. target # root
        BY <3>2, <1>1
      <4>2. parent[target] \in alloc /\ target \in {left[parent[target]], right[parent[target]]}
        BY <4>1, <1>2 DEF TreeShape
      <4> QED  BY <3>2, <4>2, <1>1, <1>2, <1>4, Types
    <3>3. CASE n \in alloc \ {target}
      <4>1. n # root /\ n # leaf /\ n # p /\ n \in Nodes
        BY <3>3, <1>1, <1>2, Types
      <4>2. parent[n] \in alloc /\ n \in {left[parent[n]], right[parent[n]]}
        BY <4>1, <3>3, <1>2 DEF TreeShape
      <4>3. parent[n] \in Nodes \ {p} /\ parent'[n] = parent[n]
        BY <4>1, <4>2, <3>3, <1>1, <1>2, Types
      <4> QED  BY <4>2, <4>3, <3>3, <1>1, <1>4
    <3> QED  BY <3>1, <3>2, <3>3, <1>1
  <2>3. root' # NoNode => root' \in alloc' /\ parent'[root'] = NoNode
    BY <1>1, <1>2, <1>5, Types DEF TreeShape
  <2> QED  BY <2>1, <2>2, <2>3 DEF TreeShape
<1>8. Clean'
  <2> SUFFICES ASSUME NEW n \in Nodes \ alloc'
               PROVE  view'[n] = NoView /\ {parent'[n], left'[n], right'[n]} = {NoNode}
    BY DEF Clean
  <2>1. n \notin alloc /\ n # leaf /\ n # p /\ n # target
    BY <1>1, <1>2
  <2> QED  BY <2>1, <1>1, <1>2, <1>3, <1>4 DEF Clean
<1>9. Reach'
  <2>1. root # NoNode /\ root' # NoNode
    BY <1>1, <1>2 DEF Reach
  <2>2. ASSUME NEW S \in SUBSET Nodes, root' \in S, Closed(S)'
        PROVE  alloc' \subseteq S
    <3> DEFINE T == S \cap alloc
    <3>1. \A n \in S : \A c \in {left'[n], right'[n]} : c # NoNode => c \in S
      BY <2>2 DEF Closed
    <3>2. p \in S => target \in S /\ leaf \in S
      BY <3>1, <1>2, <1>1, <1>4
    <3>3. root \in T
      BY <3>2, <2>1, <2>2, <1>1, <1>2 DEF TreeShape
    <3>4. Closed(T)
      <4> SUFFICES ASSUME NEW n \in T, NEW c \in {left[n], right[n]}, c # NoNode
                   PROVE  c \in T
        BY DEF Closed
      <4>1. c \in alloc
        BY <1>2, Child
      <4>2. n # p /\ n \in alloc /\ n \in Nodes /\ n \in S
        BY <1>1
      <4>3. c # target => c \in {left'[n], right'[n]}
        BY <4>2, <1>4
      <4>4. c = target => p \in {left'[n], right'[n]}
        BY <4>2, <1>4
      <4> QED  BY <4>1, <4>2, <4>3, <4>4, <3>1, <3>2, <1>1
    <3>5. alloc \subseteq T
      BY <2>1, <3>3, <3>4, <1>2 DEF Reach
    <3>6. p \in S
      <4>1. CASE target = root
        BY <4>1, <2>2, <1>1
      <4>2. CASE target # root
        <5>1. parent[target] \in alloc /\ target \in {left[parent[target]], right[parent[target]]}
          BY <4>2, <1>2 DEF TreeShape
        <5>2. parent[target] \in S /\ p \in {left'[parent[target]], right'[parent[target]]}
          BY <5>1, <3>5, <1>1, <1>4
        <5> QED  BY <5>2, <3>1, <1>1
      <4> QED  BY <4>1, <4>2
    <3> QED  BY <3>2, <3>5, <3>6, <1>1
  <2> QED  BY <2>1, <2>2 DEF Reach
<1>10. OneLeafPerView'
  <2>1. \A n \in alloc : view[n] # v
    BY DEF InTree, LeafOf
  <2> QED  BY <2>1, <1>1, <1>2, <1>3, Types DEF OneLeafPerView, Leaves
<1>11. FocusIsLeaf'
  BY <1>1, <1>2, <1>3 DEF FocusIsLeaf, Leaves, Reach
<1> QED  BY <1>6, <1>7, <1>8, <1>9, <1>10, <1>11 DEF IInv

\* Two leaves trade their views, and the focus is on a leaf.
LEMMA ExchangeInv ==
    ASSUME IInv, NEW m \in Leaves, NEW n \in Leaves, Exchange(m, n),
           focused' \in Leaves, UNCHANGED <<alloc, parent, left, right, root>>
    PROVE  IInv'
<1>1. /\ TypeOK /\ TreeShape /\ Clean /\ Reach /\ OneLeafPerView
      /\ m \in alloc /\ n \in alloc /\ alloc \subseteq Nodes
  BY Types DEF IInv, Leaves
<1>2. \A k \in Nodes : view'[k] = IF k = n THEN view[m] ELSE IF k = m THEN view[n] ELSE view[k]
  BY <1>1, Types DEF Exchange
<1>3. \A k \in Nodes : view'[k] # NoView <=> view[k] # NoView
  BY <1>1, <1>2 DEF Leaves
<1>4. TypeOK'
  <2>1. view' \in [Nodes -> Views \cup {NoView}]
    BY <1>1, Types DEF Exchange
  <2> QED  BY <2>1, <1>1 DEF TypeOK, Leaves
<1>5. TreeShape'
  BY <1>1, <1>3, Types DEF TreeShape
<1>6. Clean'
  BY <1>1, <1>3 DEF Clean
<1>7. Reach'
  BY <1>1 DEF Reach, Closed
<1>8. OneLeafPerView'
  BY <1>1, <1>2, <1>3 DEF OneLeafPerView, Leaves
<1>9. FocusIsLeaf'
  BY <1>1, <1>3 DEF IInv, FocusIsLeaf, Leaves, Reach
<1> QED  BY <1>4, <1>5, <1>6, <1>7, <1>8, <1>9 DEF IInv

\* Two siblings trade places.
LEMMA SiblingsInv ==
    ASSUME IInv, NEW p \in Nodes, NEW leaf \in Leaves, parent[leaf] = p,
           focused' \in Leaves, left[p] = focused', right[p] = leaf,
           left' = [left EXCEPT ![p] = leaf],
           right' = [right EXCEPT ![p] = focused'],
           UNCHANGED <<alloc, view, parent, root>>
    PROVE  IInv'
<1>1. /\ TypeOK /\ TreeShape /\ Clean /\ Reach /\ OneLeafPerView /\ FocusIsLeaf
      /\ leaf \in alloc /\ focused' \in alloc /\ alloc \subseteq Nodes
  BY Types DEF IInv, Leaves
<1>2. \A k \in Nodes : /\ left'[k] = IF k = p THEN right[k] ELSE left[k]
                       /\ right'[k] = IF k = p THEN left[k] ELSE right[k]
  BY <1>1, Types
<1>3. p \in alloc /\ view[p] = NoView
  BY <1>1, Child
<1>4. TypeOK'
  <2>1. left' \in [Nodes -> Nodes \cup {NoNode}] /\ right' \in [Nodes -> Nodes \cup {NoNode}]
    BY <1>1, Types
  <2> QED  BY <2>1, <1>1 DEF TypeOK
<1>5. TreeShape'
  BY <1>1, <1>2, <1>3, Types DEF TreeShape
<1>6. Clean'
  BY <1>1, <1>2, <1>3 DEF Clean
<1>7. Reach'
  BY <1>1, <1>2 DEF Reach, Closed
<1>8. OneLeafPerView' /\ FocusIsLeaf'
  BY <1>1 DEF OneLeafPerView, FocusIsLeaf, Leaves, Reach
<1> QED  BY <1>4, <1>5, <1>6, <1>7, <1>8 DEF IInv

\* The last view of a layout leaves.
LEMMA UprootInv ==
    ASSUME IInv, NEW leaf \in Leaves, Uproot(leaf)
    PROVE  IInv'
<1>1. /\ TypeOK /\ TreeShape /\ Clean /\ Reach
      /\ leaf = root /\ leaf \in alloc /\ leaf \in Nodes /\ leaf # NoNode
      /\ left[leaf] = NoNode /\ right[leaf] = NoNode /\ parent[leaf] = NoNode
  BY Types DEF IInv, Leaves, TreeShape, Uproot
<1>2. alloc = {leaf}
  <2>1. Closed({leaf})
    BY <1>1 DEF Closed
  <2> QED  BY <1>1, <2>1 DEF Reach
<1>3. /\ alloc' = {} /\ root' = NoNode /\ focused' = NoNode
      /\ view' = [n \in Nodes |-> IF n = leaf THEN NoView ELSE view[n]]
      /\ UNCHANGED <<parent, left, right>>
  BY <1>1, <1>2 DEF Uproot, Free
<1>4. TypeOK'
  <2>1. view' \in [Nodes -> Views \cup {NoView}]
    BY <1>1, <1>3, Types
  <2> QED  BY <2>1, <1>1, <1>3 DEF TypeOK
<1>5. Clean'
  BY <1>1, <1>2, <1>3 DEF Clean
<1>6. TreeShape' /\ Reach' /\ OneLeafPerView' /\ FocusIsLeaf'
  BY <1>3 DEF TreeShape, Reach, OneLeafPerView, FocusIsLeaf, Leaves
<1> QED  BY <1>4, <1>5, <1>6 DEF IInv

\* A leaf is removed and its sibling takes the place of their parent.
LEMMA PromoteInv ==
    ASSUME IInv, NEW leaf \in Leaves, Promote(leaf)
    PROVE  IInv'
<1> DEFINE p  == parent[leaf]
           gp == parent[p]
           sibling == IF left[p] = leaf THEN right[p] ELSE left[p]
<1>1. /\ TypeOK /\ TreeShape /\ Clean /\ Reach /\ OneLeafPerView /\ FocusIsLeaf
      /\ leaf \in alloc /\ leaf # root /\ view[leaf] # NoView
      /\ left[leaf] = NoNode /\ right[leaf] = NoNode
  BY DEF IInv, Leaves, TreeShape, Promote
<1>2. /\ p \in alloc /\ leaf \in {left[p], right[p]} /\ view[p] = NoView /\ p # leaf
      /\ left[p] \in alloc /\ right[p] \in alloc /\ left[p] # right[p]
      /\ parent[left[p]] = p /\ parent[right[p]] = p
      /\ alloc \subseteq Nodes
  BY <1>1, Types DEF TreeShape
<1>3. /\ sibling \in alloc /\ sibling # leaf /\ parent[sibling] = p
      /\ {left[p], right[p]} = {leaf, sibling}
      /\ sibling # root
  BY <1>1, <1>2, Types DEF TreeShape
<1>4. sibling # p /\ gp # sibling /\ gp # leaf /\ gp # p
  <2>1. root # NoNode
    BY <1>1 DEF Reach
  <2>2. ASSUME gp \in {p, sibling} \/ sibling = p PROVE FALSE
    <3> DEFINE X == {p, sibling}
    <3>1. gp \in X
      BY <2>2, <1>3
    <3>2. gp \in Nodes
      BY <3>1, <1>2, <1>3
    <3>3. p # root
      BY <3>2, <1>1, <2>1, Types DEF TreeShape
    <3>4. X \in SUBSET alloc /\ root \notin X /\ \A x \in X : parent[x] \in X
      BY <1>2, <1>3, <3>1, <3>3
    <3> QED  BY <1>1, <2>1, <3>4, NoCycle
  <2>3. gp # leaf
    BY <1>1, <1>2, Types DEF TreeShape
  <2> QED  BY <2>2, <2>3
<1>5. /\ alloc' = alloc \ {leaf, p}
      /\ view' = [n \in Nodes |-> IF n \in {leaf, p} THEN NoView ELSE view[n]]
      /\ parent' = [parent EXCEPT ![leaf] = NoNode, ![p] = NoNode, ![sibling] = gp]
      /\ left' = [Replaced(left, p, sibling) EXCEPT ![p] = NoNode]
      /\ right' = [Replaced(right, p, sibling) EXCEPT ![p] = NoNode]
      /\ root' = IF gp = NoNode THEN sibling ELSE root
      /\ Refocus(leaf, sibling)
  BY DEF Promote, Free
<1>6. /\ left'[p] = NoNode /\ right'[p] = NoNode
      /\ \A n \in Nodes \ {p} :
           /\ left'[n] = IF n \in alloc /\ left[n] = p THEN sibling ELSE left[n]
           /\ right'[n] = IF n \in alloc /\ right[n] = p THEN sibling ELSE right[n]
  BY <1>2, <1>5 DEF Replaced
<1>7. /\ alloc' = alloc \ {leaf, p}
      /\ \A n \in Nodes : /\ view'[n] = IF n \in {leaf, p} THEN NoView ELSE view[n]
                          /\ parent'[n] = IF n = sibling THEN gp
                                          ELSE IF n \in {leaf, p} THEN NoNode
                                          ELSE parent[n]
  BY <1>1, <1>2, <1>3, <1>4, <1>5, Types
<1> HIDE DEF sibling, gp
<1>8. gp = NoNode <=> p = root
  BY <1>1, <1>2, Types DEF TreeShape, gp
<1>9. root' \in alloc' /\ root' \in Nodes /\ root' # NoNode
  BY <1>1, <1>2, <1>3, <1>4, <1>5, <1>8, Types DEF TreeShape, Reach
<1>10. \A n \in alloc' : \A c \in {left[n], right[n]} :
          c # NoNode => /\ c \in alloc /\ parent[c] = n /\ c # leaf /\ c # sibling
  BY <1>1, <1>2, <1>3, <1>5, Child
<1>11. focused' \in alloc' /\ view'[focused'] # NoView /\ focused' \in Nodes
  <2>1. CASE focused = leaf
    <3>1. focused' \in FirstLeaf(sibling)
      BY <2>1, <1>5 DEF Refocus
    <3>2. leaf \notin Below(sibling)
      BY <1>1, <1>2, <1>3, SiblingApart
    <3>3. FirstLeaf(sibling) \subseteq Leaves \cap Below(sibling)
      <4> DEFINE next == [k \in Nodes |-> IF left[k] # NoNode THEN {left[k]}
                                          ELSE {right[k]} \ {NoNode}]
                 B == Below(sibling)
      <4>1. sibling \in B /\ Closed(B) /\ B \in SUBSET Nodes
        BY <1>1, <1>2, <1>3, BelowIsClosed
      <4>2. \A k \in B : next[k] \subseteq B
        BY <4>1 DEF Closed
      <4>3. Walk(sibling, next) \subseteq B
        BY <4>1, <4>2 DEF Walk
      <4> QED  BY <4>3 DEF FirstLeaf
    <3>4. focused' \in Leaves /\ focused' # leaf
      BY <3>1, <3>2, <3>3
    <3> QED  BY <3>4, <1>2, <1>5 DEF Leaves
  <2>2. CASE focused # leaf
    <3>1. focused' = focused /\ focused \in Leaves
      BY <2>2, <1>1, <1>5 DEF Refocus, FocusIsLeaf, Reach
    <3> QED  BY <2>2, <3>1, <1>2, <1>5 DEF Leaves
  <2> QED  BY <2>1, <2>2
<1>12. TypeOK'
  <2>1. /\ Replaced(left, p, sibling) \in [Nodes -> Nodes \cup {NoNode}]
        /\ Replaced(right, p, sibling) \in [Nodes -> Nodes \cup {NoNode}]
    BY <1>1, <1>2, <1>3, Types DEF Replaced
  <2>2. left' \in [Nodes -> Nodes \cup {NoNode}] /\ right' \in [Nodes -> Nodes \cup {NoNode}]
    BY <2>1, <1>2, <1>5
  <2>3. gp \in Nodes \cup {NoNode}
    BY <1>1, <1>2, Types DEF gp
  <2>4. parent' \in [Nodes -> Nodes \cup {NoNode}]
    BY <2>3, <1>1, <1>2, <1>3, <1>5, Types
  <2>5. view' \in [Nodes -> Views \cup {NoView}]
    BY <1>1, <1>5, Types
  <2>6. alloc' \subseteq Nodes
    BY <1>2, <1>5
  <2> QED  BY <2>2, <2>4, <2>5, <2>6, <1>9, <1>11 DEF TypeOK
<1>13. TreeShape'
  <2>1. ASSUME NEW n \in alloc'
        PROVE  IF view'[n] # NoView THEN left'[n] = NoNode /\ right'[n] = NoNode
               ELSE /\ {left'[n], right'[n]} \subseteq alloc'
                    /\ left'[n] # right'[n]
                    /\ parent'[left'[n]] = n /\ parent'[right'[n]] = n
    <3>1. n \in alloc /\ n \in Nodes /\ n # leaf /\ n # p /\ view'[n] = view[n]
      BY <1>2, <1>5
    <3>2. CASE view[n] # NoView
      BY <3>1, <3>2, <1>1, <1>2, <1>6 DEF TreeShape
    <3>3. CASE view[n] = NoView
      <4>1. left[n] \in alloc /\ right[n] \in alloc /\ left[n] # right[n]
        BY <3>1, <3>3, <1>1 DEF TreeShape
      <4>2. \A c \in {left[n], right[n]} :
              /\ c \in Nodes /\ c # leaf /\ c # sibling /\ parent[c] = n
              /\ c # p => c \in alloc' /\ parent'[c] = n
              /\ c = p => sibling \in alloc' /\ parent'[sibling] = n
        <5> TAKE c \in {left[n], right[n]}
        <5>1. c \in Nodes /\ c \in alloc /\ c # NoNode
          BY <4>1, <1>2
        <5>2. c # leaf /\ c # sibling /\ parent[c] = n
          BY <5>1, <1>10
        <5>3. c # p => c \in alloc' /\ parent'[c] = n
          BY <5>1, <5>2, <1>7
        <5>4. c = p => sibling \in alloc' /\ parent'[sibling] = n
          BY <5>2, <1>2, <1>3, <1>4, <1>7 DEF gp
        <5> QED  BY <5>1, <5>2, <5>3, <5>4
      <4> QED  BY <3>1, <3>3, <4>1, <4>2, <1>6
    <3> QED  BY <3>2, <3>3
  <2>2. ASSUME NEW n \in alloc' \ {root'}
        PROVE  parent'[n] \in alloc' /\ n \in {left'[parent'[n]], right'[parent'[n]]}
    <3>1. n \in alloc /\ n \in Nodes /\ n # leaf /\ n # p
      BY <1>2, <1>5
    <3>2. CASE n = sibling
      <4>1. p # root
        BY <3>2, <1>5, <1>8
      <4>2. gp \in alloc /\ p \in {left[gp], right[gp]}
        BY <4>1, <1>1, <1>2 DEF TreeShape, gp
      <4> QED  BY <3>2, <4>2, <1>2, <1>3, <1>4, <1>6, <1>7
    <3>3. CASE n # sibling
      <4>1. n # root
        BY <3>1, <1>5, <1>8, <1>1, <1>2
      <4>2. parent[n] \in alloc /\ n \in {left[parent[n]], right[parent[n]]}
        BY <4>1, <3>1, <1>1 DEF TreeShape
      <4>3. parent[n] # leaf /\ parent[n] # p /\ parent[n] \in Nodes /\ n # NoNode
        BY <4>2, <3>1, <3>3, <1>1, <1>2, <1>3
      <4> QED  BY <3>1, <3>3, <4>2, <4>3, <1>6, <1>7
    <3> QED  BY <3>2, <3>3
  <2>3. root' # NoNode => root' \in alloc' /\ parent'[root'] = NoNode
    BY <1>1, <1>2, <1>3, <1>5, <1>7, <1>8, <1>9, Types DEF TreeShape
  <2> QED  BY <2>1, <2>2, <2>3 DEF TreeShape
<1>14. Clean'
  <2> SUFFICES ASSUME NEW n \in Nodes \ alloc'
               PROVE  view'[n] = NoView /\ {parent'[n], left'[n], right'[n]} = {NoNode}
    BY DEF Clean
  <2>1. CASE n = p
    BY <2>1, <1>2, <1>4, <1>6, <1>7
  <2>2. CASE n = leaf
    BY <2>2, <1>1, <1>2, <1>3, <1>6, <1>7
  <2>3. CASE n \notin alloc
    BY <2>3, <1>1, <1>2, <1>3, <1>6, <1>7 DEF Clean
  <2> QED  BY <2>1, <2>2, <2>3, <1>5
<1>15. Reach'
  <2>1. ASSUME NEW S \in SUBSET Nodes, root' \in S, Closed(S)'
        PROVE  alloc' \subseteq S
    <3> DEFINE T == (S \cap alloc') \cup IF sibling \in S THEN {p, leaf} ELSE {}
    <3>1. \A n \in S : \A c \in {left'[n], right'[n]} : c # NoNode => c \in S
      BY <2>1 DEF Closed
    <3>2. root \in T
      BY <2>1, <1>1, <1>5, <1>8, <1>9
    <3>3. Closed(T)
      <4> SUFFICES ASSUME NEW n \in T, NEW c \in {left[n], right[n]}, c # NoNode
                   PROVE  c \in T
        BY DEF Closed
      <4>1. CASE n = p
        <5>1. sibling \in S /\ sibling \in alloc'
          BY <4>1, <1>3, <1>4, <1>5
        <5> QED  BY <4>1, <5>1, <1>3
      <4>2. CASE n = leaf
        BY <4>2, <1>1
      <4>3. CASE n \in S \cap alloc' /\ n # p /\ n # leaf
        <5>1. n \in Nodes /\ c \in alloc /\ c # leaf /\ n \in alloc
          BY <4>3, <1>2, <1>5, <1>10
        <5>2. CASE c = p
          <6>1. sibling \in {left'[n], right'[n]}
            BY <5>1, <5>2, <4>3, <1>6
          <6>2. sibling \in S
            BY <6>1, <4>3, <3>1, <1>2, <1>3
          <6> QED  BY <5>2, <6>2
        <5>3. CASE c # p
          <6>1. c \in {left'[n], right'[n]} /\ c \in alloc'
            BY <5>1, <5>3, <4>3, <1>5, <1>6
          <6> QED  BY <6>1, <4>3, <3>1
        <5> QED  BY <5>2, <5>3
      <4> QED  BY <4>1, <4>2, <4>3
    <3>4. T \in SUBSET Nodes
      BY <1>2, <2>1
    <3>5. alloc \subseteq T
      BY <1>1, <3>2, <3>3, <3>4 DEF Reach
    <3> QED  BY <3>5, <1>5
  <2> QED  BY <2>1, <1>9 DEF Reach
<1>16. OneLeafPerView'
  BY <1>1, <1>2, <1>5 DEF OneLeafPerView, Leaves
<1>17. FocusIsLeaf'
  BY <1>9, <1>11 DEF FocusIsLeaf, Leaves
<1> QED  BY <1>12, <1>13, <1>14, <1>15, <1>16, <1>17 DEF IInv

\* The leaf that is split: the focused one, as there is one.
LEMMA TargetIsLeaf ==
    ASSUME IInv, root # NoNode, NEW t \in Target
    PROVE  t \in Leaves
BY DEF IInv, Target, FocusIsLeaf

\* A view that joins.
LEMMA AddViewInv ==
    ASSUME IInv, NEW v \in Views, AddView(v)
    PROVE  IInv'
<1>1. CASE root = NoNode
  BY <1>1, PlantInv DEF AddView
<1>2. CASE root # NoNode
  <2>1. PICK t \in Target : Split(v, t, FALSE)
    BY <1>2 DEF AddView
  <2> QED  BY <1>2, <2>1, TargetIsLeaf, SplitInv DEF AddView
<1> QED  BY <1>1, <1>2

\* The leaf of a view is a leaf.
LEMMA LeafOfView ==
    ASSUME NEW v \in Views
    PROVE  /\ LeafOf(v) \subseteq Leaves
           /\ \A n \in LeafOf(v) : view[n] = v
BY DEF LeafOf, Leaves

\* The focus is a leaf wherever it is a node.
LEMMA FocusedLeaf ==
    ASSUME IInv, NEW m \in Leaves
    PROVE  focused \in Leaves
BY DEF IInv, FocusIsLeaf, Reach, Leaves

LEMMA SwapViewsInv ==
    ASSUME IInv, NEW a \in Views, NEW b \in Views, SwapViews(a, b)
    PROVE  IInv'
<1>1. PICK m \in LeafOf(a), n \in LeafOf(b) :
        /\ Exchange(m, n)
        /\ focused' = IF focused = m THEN n ELSE IF focused = n THEN m ELSE focused
  BY DEF SwapViews
<1>2. m \in Leaves /\ n \in Leaves
  BY LeafOfView
<1> QED  BY <1>1, <1>2, FocusedLeaf, ExchangeInv DEF SwapViews

LEMMA PlaceViewInv ==
    ASSUME IInv, NEW v \in Views, NEW under \in Views, PlaceView(v, under)
    PROVE  IInv'
<1>1. ASSUME ~ InTree(v), NEW target \in LeafOf(under), NEW before \in BOOLEAN,
             Split(v, target, before)
      PROVE  IInv'
  BY <1>1, LeafOfView, SplitInv
<1>2. CASE ~ InTree(v) /\ ~ InTree(under) /\ AddView(v)
  BY <1>2, AddViewInv
<1>3. CASE FocusView(under)
  BY <1>3, LeafOfView, FocusInv DEF FocusView
<1>4. ASSUME focused' \in LeafOf(under), NEW leaf \in LeafOf(v),
             parent[leaf] # NoNode, left[parent[leaf]] = focused', right[parent[leaf]] = leaf,
             left' = [left EXCEPT ![parent[leaf]] = leaf],
             right' = [right EXCEPT ![parent[leaf]] = focused'],
             UNCHANGED <<alloc, view, parent, root>>
      PROVE  IInv'
  <2>1. leaf \in Leaves /\ focused' \in Leaves
    BY <1>4, LeafOfView
  <2>2. parent[leaf] \in Nodes
    BY <1>4, <2>1, Types DEF IInv, Leaves
  <2> QED  BY <1>4, <2>1, <2>2, SiblingsInv
<1> QED  BY <1>1, <1>2, <1>3, <1>4 DEF PlaceView

LEMMA NextInv == IInv /\ [Next]_vars => IInv'
<1> SUFFICES ASSUME IInv, [Next]_vars PROVE IInv'
  OBVIOUS
<1>1. ASSUME NEW v \in Views, AddView(v) PROVE IInv'
  BY <1>1, AddViewInv
<1>2. ASSUME NEW v \in Views, RemoveView(v) PROVE IInv'
  BY <1>2, LeafOfView, UprootInv, PromoteInv DEF RemoveView
<1>3. ASSUME NEW v \in Views, FocusView(v) PROVE IInv'
  BY <1>3, LeafOfView, FocusInv DEF FocusView
<1>4. CASE MoveFocus
  BY <1>4, FocusInv DEF MoveFocus
<1>5. CASE MoveView
  BY <1>5, ExchangeInv DEF MoveView
<1>6. ASSUME NEW v \in Views, NEW u \in Views, SwapViews(v, u) PROVE IInv'
  BY <1>6, SwapViewsInv
<1>7. ASSUME NEW v \in Views, NEW u \in Views, PlaceView(v, u) PROVE IInv'
  BY <1>7, PlaceViewInv
<1>8. CASE UNCHANGED vars
  BY <1>8 DEF vars, IInv, TypeOK, TreeShape, Clean, Reach, Closed, OneLeafPerView,
              FocusIsLeaf, Leaves
<1> QED  BY <1>1, <1>2, <1>3, <1>4, <1>5, <1>6, <1>7, <1>8 DEF Next
-----------------------------------------------------------------------------
(* The theorems                                                            *)

\* The tree is sound after every operation, calloc failing or not.
THEOREM Inductive == Spec => []IInv
BY InitInv, NextInv, PTL DEF Spec

\* Every pointer of the layout has its type.
THEOREM TypeCorrect == Spec => []TypeOK
BY Inductive, PTL DEF IInv

\* The pointers always form a binary tree.
THEOREM AlwaysATree == Spec => []TreeShape
BY Inductive, PTL DEF IInv

\* No cell is lost, and the tree holds no freed cell.
THEOREM NothingLeaks == Spec => []NoLeak
<1>1. IInv => NoLeak
  BY ReachIsNoLeak DEF IInv
<1> QED  BY Inductive, <1>1, PTL

\* A view never has two leaves.
THEOREM AlwaysOneLeaf == Spec => []OneLeafPerView
BY Inductive, PTL DEF IInv

\* The focus is always one of the leaves, however many were removed.
THEOREM FocusAlwaysALeaf == Spec => []FocusIsLeaf
BY Inductive, PTL DEF IInv
-----------------------------------------------------------------------------
(* The promise to the compositor                                           *)

\* The focus goes to the leaf of v, and the views stay.
LEMMA FocusImplements ==
    ASSUME IInv, NEW v \in Views, focused' \in LeafOf(v), UNCHANGED <<alloc, view>>
    PROVE  Abstract!Focus(v)
<1>1. PICK n \in LeafOf(v) : focused' = n
  OBVIOUS
<1>2. n \in Leaves /\ view[n] = v /\ n # NoNode
  BY LeafOfView, Types DEF IInv, Leaves
<1>3. HeldViews' = HeldViews /\ v \in HeldViews /\ FocusedView' = v
  BY <1>1, <1>2 DEF HeldViews, FocusedView, Leaves
<1> QED  BY <1>3 DEF Abstract!Focus

LEMMA PlantImplements ==
    ASSUME IInv, NEW v \in Views, ~ InTree(v), root = NoNode, Plant(v)
    PROVE  Abstract!Join(v)
<1> DEFINE leaf == Fresh(alloc)
<1>1. leaf \in Nodes /\ alloc = {}
  BY DEF Plant, Fresh, IInv, Reach
<1>2. alloc' = {leaf} /\ focused' = leaf /\ view' = [view EXCEPT ![leaf] = v]
  BY <1>1 DEF Plant
<1>3. view'[leaf] = v /\ leaf # NoNode
  BY <1>1, <1>2, Types DEF IInv
<1>4. HeldViews = {} /\ HeldViews' = {v} /\ FocusedView' = v
  BY <1>1, <1>2, <1>3 DEF HeldViews, FocusedView, Leaves
<1> QED  BY <1>4 DEF Abstract!Join

LEMMA SplitImplements ==
    ASSUME IInv, NEW v \in Views, ~ InTree(v), NEW target \in Leaves,
           NEW before \in BOOLEAN, Split(v, target, before)
    PROVE  Abstract!Join(v)
<1>1. PICK leaf \in Nodes \ alloc, p \in Nodes \ alloc :
        /\ p # leaf
        /\ alloc' = alloc \cup {leaf, p}
        /\ view' = [view EXCEPT ![leaf] = v]
        /\ focused' = leaf
  BY DEF Split
<1>2. /\ \A n \in Nodes : view'[n] = IF n = leaf THEN v ELSE view[n]
      /\ view[p] = NoView /\ view[leaf] = NoView
      /\ alloc \subseteq Nodes /\ leaf # NoNode
  BY <1>1, Types DEF IInv, Clean
<1>3. Leaves' = Leaves \cup {leaf}
  BY <1>1, <1>2 DEF Leaves
<1>4. HeldViews' = HeldViews \cup {v}
  BY <1>1, <1>2, <1>3 DEF HeldViews, Leaves
<1>5. v \notin HeldViews
  BY DEF HeldViews, InTree, LeafOf, Leaves
<1>6. FocusedView' = v
  BY <1>1, <1>2 DEF FocusedView
<1> QED  BY <1>4, <1>5, <1>6 DEF Abstract!Join

LEMMA AddViewImplements ==
    ASSUME IInv, NEW v \in Views, AddView(v)
    PROVE  Abstract!Join(v)
<1>1. CASE root = NoNode
  BY <1>1, PlantImplements DEF AddView
<1>2. CASE root # NoNode
  <2>1. PICK t \in Target : Split(v, t, FALSE)
    BY <1>2 DEF AddView
  <2> QED  BY <1>2, <2>1, TargetIsLeaf, SplitImplements DEF AddView
<1> QED  BY <1>1, <1>2

LEMMA RemoveViewImplements ==
    ASSUME IInv, IInv', NEW v \in Views, RemoveView(v)
    PROVE  Abstract!Leave(v)
<1>1. PICK leaf \in LeafOf(v) : Uproot(leaf) \/ Promote(leaf)
  BY DEF RemoveView
<1>2. /\ leaf \in Leaves /\ view[leaf] = v
      /\ alloc \subseteq Nodes /\ view \in [Nodes -> Views \cup {NoView}]
  BY <1>1, LeafOfView, Types DEF IInv
<1> DEFINE inner == IF Uproot(leaf) THEN leaf ELSE parent[leaf]
<1>3. /\ inner = leaf \/ inner \in alloc \ Leaves
      /\ alloc' = alloc \ {leaf, inner}
      /\ \A n \in alloc' : view'[n] = view[n]
      /\ focused # leaf => focused' = focused \/ root' = NoNode
  <2>1. CASE Uproot(leaf)
    <3>1. alloc' = alloc \ {leaf} /\ root' = NoNode
      BY <2>1 DEF Uproot, Free
    <3>2. \A n \in alloc' : view'[n] = view[n]
      BY <2>1, <3>1, <1>2 DEF Uproot, Free
    <3> QED  BY <2>1, <3>1, <3>2
  <2>2. CASE Promote(leaf) /\ ~ Uproot(leaf)
    <3>1. parent[leaf] \in alloc \ Leaves
      <4>1. TreeShape /\ leaf \in alloc /\ leaf # root
        BY <2>2, <1>2 DEF Promote, IInv, Leaves
      <4>2. /\ parent[leaf] \in alloc
            /\ leaf \in {left[parent[leaf]], right[parent[leaf]]}
        BY <4>1 DEF TreeShape
      <4>3. view[parent[leaf]] = NoView
        <5>1. leaf # NoNode
          BY <1>2, <4>1
        <5> QED  BY <4>1, <4>2, <5>1 DEF TreeShape
      <4> QED  BY <4>2, <4>3 DEF Leaves
    <3>2. alloc' = alloc \ {leaf, parent[leaf]}
      BY <2>2 DEF Promote, Free
    <3>3. \A n \in alloc' : view'[n] = view[n]
      BY <2>2, <3>2, <1>2 DEF Promote, Free
    <3>4. focused # leaf => focused' = focused
      BY <2>2 DEF Promote, Refocus
    <3> QED  BY <2>2, <3>1, <3>2, <3>3, <3>4
  <2> QED  BY <1>1, <2>1, <2>2
<1>4. Leaves' = Leaves \ {leaf}
  BY <1>2, <1>3 DEF Leaves
<1>5. \A n \in Leaves' : view'[n] = view[n] /\ view[n] # v
  BY <1>2, <1>3, <1>4 DEF Leaves, IInv, OneLeafPerView
<1>6. HeldViews' = HeldViews \ {v} /\ v \in HeldViews
  BY <1>2, <1>4, <1>5 DEF HeldViews
<1>7. /\ focused \in Leaves /\ FocusedView = view[focused]
      /\ FocusedView = v => focused = leaf
  BY <1>2, FocusedLeaf, Types DEF FocusedView, IInv, OneLeafPerView, Leaves
<1>8. CASE root' = NoNode
  <2>1. alloc' = {} /\ focused' = NoNode
    BY <1>8 DEF IInv, Reach, FocusIsLeaf
  <2>2. HeldViews' = {} /\ FocusedView' = NoView
    BY <2>1 DEF HeldViews, Leaves, FocusedView
  <2>3. FocusedView = v
    BY <1>4, <1>2, <1>7, <2>1 DEF Leaves
  <2> QED  BY <1>6, <2>2, <2>3 DEF Abstract!Leave
<1>9. CASE root' # NoNode
  <2>1. focused' \in Leaves' /\ focused' \in Nodes
    BY <1>9, <1>2, <1>4 DEF IInv, FocusIsLeaf, Leaves
  <2>2. FocusedView' = view[focused'] /\ FocusedView' \in HeldViews'
    BY <2>1, <1>5 DEF FocusedView, HeldViews
  <2>3. FocusedView # v => FocusedView' = FocusedView
    BY <2>2, <1>2, <1>3, <1>7, <1>9
  <2> QED  BY <1>6, <2>2, <2>3 DEF Abstract!Leave
<1> QED  BY <1>8, <1>9

\* Views trade places: the focus stays with its view.
LEMMA ExchangeImplements ==
    ASSUME IInv, NEW m \in Leaves, NEW n \in Leaves, Exchange(m, n), UNCHANGED alloc,
           focused' = IF focused = m THEN n ELSE IF focused = n THEN m ELSE focused
    PROVE  UNCHANGED Abstract!layoutVars
<1>1. /\ m \in Nodes /\ n \in Nodes /\ alloc \subseteq Nodes
      /\ m \in alloc /\ n \in alloc /\ focused \in Leaves /\ NoNode \notin Nodes
  BY Types, FocusedLeaf DEF IInv, Leaves
<1>2. \A k \in Nodes : view'[k] = IF k = n THEN view[m] ELSE IF k = m THEN view[n] ELSE view[k]
  BY <1>1, Types DEF Exchange, IInv
<1>3. Leaves' = Leaves
  BY <1>1, <1>2 DEF Leaves
<1>4. HeldViews' = HeldViews
  <2>1. HeldViews' \subseteq HeldViews
    BY <1>1, <1>2, <1>3 DEF HeldViews, Leaves
  <2>2. ASSUME NEW k \in Leaves PROVE view[k] \in HeldViews'
    <3> DEFINE j == IF k = m THEN n ELSE IF k = n THEN m ELSE k
    <3>1. j \in Leaves' /\ view'[j] = view[k]
      BY <1>1, <1>2, <1>3 DEF Leaves
    <3> QED  BY <3>1 DEF HeldViews
  <2> QED  BY <2>1, <2>2 DEF HeldViews
<1>5. FocusedView' = FocusedView
  BY <1>1, <1>2 DEF FocusedView, Leaves
<1> QED  BY <1>4, <1>5 DEF Abstract!layoutVars

\* Every step of the tree is a step of the layout, or none.
LEMMA NextImplements ==
    IInv /\ IInv' /\ [Next]_vars => [Abstract!LayoutNext]_(Abstract!layoutVars)
<1> SUFFICES ASSUME IInv, IInv', [Next]_vars
             PROVE  Abstract!LayoutNext \/ UNCHANGED Abstract!layoutVars
  OBVIOUS
<1>1. ASSUME NEW v \in Views, Abstract!Join(v) \/ Abstract!Leave(v) \/ Abstract!Focus(v)
      PROVE  Abstract!LayoutNext
  BY <1>1 DEF Abstract!LayoutNext
<1>2. ASSUME NEW v \in Views, AddView(v) PROVE Abstract!LayoutNext
  BY <1>1, <1>2, AddViewImplements
<1>3. ASSUME NEW v \in Views, RemoveView(v) PROVE Abstract!LayoutNext
  BY <1>1, <1>3, RemoveViewImplements
<1>4. ASSUME NEW v \in Views, FocusView(v) PROVE Abstract!LayoutNext
  BY <1>1, <1>4, FocusImplements DEF FocusView, tree
<1>5. CASE MoveFocus
  <2>1. view[focused'] \in Views /\ focused' \in LeafOf(view[focused'])
    BY <1>5, Types DEF MoveFocus, Leaves, LeafOf, IInv
  <2> QED  BY <1>1, <1>5, <2>1, FocusImplements DEF MoveFocus, tree
<1>6. CASE MoveView
  <2>1. PICK best \in Leaves : Exchange(focused, best) /\ focused' = best
    BY <1>6 DEF MoveView
  <2> QED  BY <1>6, <2>1, ExchangeImplements DEF MoveView
<1>7. ASSUME NEW v \in Views, NEW u \in Views, SwapViews(v, u)
      PROVE  UNCHANGED Abstract!layoutVars
  BY <1>7, LeafOfView, ExchangeImplements DEF SwapViews
<1>8. ASSUME NEW v \in Views, NEW u \in Views, PlaceView(v, u)
      PROVE  Abstract!LayoutNext
  <2>1. ASSUME ~ InTree(v), NEW target \in LeafOf(u), NEW before \in BOOLEAN,
               Split(v, target, before)
        PROVE  Abstract!LayoutNext
    BY <1>1, <2>1, LeafOfView, SplitImplements
  <2>2. CASE AddView(v)
    BY <1>2, <2>2
  <2>3. CASE focused' \in LeafOf(u) /\ UNCHANGED <<alloc, view>>
    BY <1>1, <2>3, FocusImplements
  <2> QED  BY <1>8, <2>1, <2>2, <2>3 DEF PlaceView, FocusView, tree
<1>9. CASE UNCHANGED vars
  BY <1>9 DEF vars, HeldViews, FocusedView, Leaves, Abstract!layoutVars
<1> QED  BY <1>2, <1>3, <1>4, <1>5, <1>6, <1>7, <1>8, <1>9 DEF Next

\* The tree implements what Layout promises: what dwindle.c does to its nodes
\* is, to the compositor, a set of windows one of which has the focus.
THEOREM Implements == Spec => ImplementsLayout
<1>1. Init => Abstract!LayoutInit
  BY DEF Init, Abstract!LayoutInit, HeldViews, FocusedView, Leaves
<1> QED  BY Inductive, NextImplements, <1>1, PTL
         DEF Spec, ImplementsLayout, Abstract!LayoutSpec
-----------------------------------------------------------------------------
(* The searches and the drops                                              *)

\* The search among some windows finds one of them.
LEMMA ForemostFinds ==
    ASSUME NEW windows
    PROVE  Foremost(windows) \subseteq windows
BY DEF Foremost

\* A window of the tree has a leaf, and TheLeaf is it.
LEMMA TheLeafIsOne ==
    ASSUME NEW v \in HeldViews
    PROVE  TheLeaf(v) \in Leaves /\ TheLeaf(v) \in LeafOf(v) /\ view[TheLeaf(v)] = v
<1>1. LeafOf(v) # {} /\ LeafOf(v) \subseteq Leaves
  BY DEF HeldViews, LeafOf, Leaves
<1>2. TheLeaf(v) \in LeafOf(v)
  BY <1>1 DEF TheLeaf
<1> QED  BY <1>1, <1>2 DEF LeafOf

\* A directional key finds another window of the tree.
LEMMA TowardFinds ==
    ASSUME NEW from, NEW d
    PROVE  Toward(from, d) \subseteq HeldViews \ {from}
BY ForemostFinds DEF Toward, Nearest

LEMMA ViewAtFinds ==
    ASSUME NEW x, NEW y
    PROVE  ViewAt(x, y) \subseteq HeldViews
BY ForemostFinds DEF ViewAt

LEMMA HeldIsView ==
    ASSUME TypeOK
    PROVE  HeldViews \subseteq Views
BY Types DEF HeldViews, Leaves

LEMMA MoveKeyIs ==
    ASSUME IInv, NEW d, MoveKey(d)
    PROVE  MoveView
<1>1. PICK v \in Toward(view[focused], d) :
         Exchange(focused, TheLeaf(v)) /\ focused' = TheLeaf(v)
  BY DEF MoveKey
<1>2. v \in HeldViews /\ v # view[focused]
  BY TowardFinds
<1>3. TheLeaf(v) \in Leaves \ {focused}
  BY <1>2, TheLeafIsOne
<1> QED  BY <1>1, <1>3 DEF MoveKey, MoveView

LEMMA DropIs ==
    ASSUME IInv, NEW v \in Views, NEW x, NEW y, Drop(v, x, y)
    PROVE  Next
<1>1. ASSUME NEW under \in ViewAt(x, y),
             Split(v, TheLeaf(under), Near(BoxOf(under), x, y))
      PROVE  Next
  <2>1. under \in HeldViews /\ under \in Views
    BY ViewAtFinds, HeldIsView DEF IInv
  <2>2. TheLeaf(under) \in LeafOf(under)
    BY <2>1, TheLeafIsOne
  <2> DEFINE near == Near(BoxOf(under), x, y)
  <2>3. Split(v, TheLeaf(under), TRUE) \/ Split(v, TheLeaf(under), FALSE)
    <3> HIDE DEF near
    <3>1. CASE near
      BY <1>1, <3>1 DEF Split
    <3>2. CASE ~ near
      BY <1>1, <3>2 DEF Split
    <3> QED  BY <3>1, <3>2
  <2>4. PlaceView(v, under)
    BY <2>2, <2>3 DEF PlaceView, Drop
  <2> QED  BY <2>1, <2>4 DEF Next
<1> QED  BY <1>1 DEF Drop, Tile, Next

\* Every step over the boxes is a step of the tree, or leaves it alone.
LEMMA GeometryNextIs ==
    IInv /\ [GeometryNext]_geometry => [Next]_vars
<1> SUFFICES ASSUME IInv, [GeometryNext]_geometry
             PROVE  Next \/ UNCHANGED vars
  OBVIOUS
<1>1. ASSUME NEW v \in Views, Tile(v) \/ Untile(v) \/ Select(v) PROVE Next
  BY <1>1 DEF Tile, Untile, Select, Next
<1>2. ASSUME NEW d \in Directions, FocusKey(d) PROVE Next
  <2>1. PICK v \in Toward(view[focused], d) : FocusView(v)
    BY <1>2 DEF FocusKey
  <2>2. v \in Views
    BY TowardFinds, HeldIsView DEF IInv
  <2> QED  BY <2>1, <2>2 DEF Next
<1>3. ASSUME NEW d \in Directions, MoveKey(d) PROVE Next
  BY <1>3, MoveKeyIs DEF Next
<1>4. ASSUME NEW d \in Deltas, Resize(d[1], d[2]) PROVE UNCHANGED vars
  BY <1>4 DEF Resize
<1>5. ASSUME NEW v \in Views, NEW s \in Spots, Drop(v, s[1], s[2]) PROVE Next
  BY <1>5, DropIs
<1>6. ASSUME NEW a \in Areas, Panel(a) PROVE UNCHANGED vars
  BY <1>6 DEF Panel
<1>7. CASE Switch
  BY <1>7 DEF Switch
<1>8. CASE UNCHANGED geometry
  BY <1>8 DEF geometry
<1> QED  BY <1>1, <1>2, <1>3, <1>4, <1>5, <1>6, <1>7, <1>8 DEF GeometryNext

\* The boxes and the searches over them resolve what Dwindle leaves open, and
\* do nothing to the tree that it does not allow.
THEOREM GeometryImplements == GeometrySpec => ImplementsDwindle
<1>1. GeometryInit => Init
  BY DEF GeometryInit
<1> QED  BY <1>1, InitInv, NextInv, GeometryNextIs, PTL
         DEF GeometrySpec, ImplementsDwindle, Spec

\* So the tree keeps the invariant of Dwindle.
THEOREM TreeInvariant == GeometrySpec => []IInv
BY GeometryImplements, Inductive, PTL DEF ImplementsDwindle
-----------------------------------------------------------------------------
(* Sharing a box                                                           *)

Boxes == [x : Int, y : Int, w : Int, h : Int]

\* A node has a pixel for each of its children.
Roomy(room) == room >= 2 /\ room # GapsIn + 1

LEMMA MaxOfTwo ==
    ASSUME NEW a \in Int, NEW b \in Int
    PROVE  Max({a, b}) \in {a, b} /\ Max({a, b}) >= a /\ Max({a, b}) >= b
<1> DEFINE P(m) == m \in {a, b} /\ \A k \in {a, b} : m >= k
<1>1. P(IF a >= b THEN a ELSE b)
  OBVIOUS
<1>2. \E m : P(m)
  BY <1>1
<1>3. Max({a, b}) = CHOOSE m : P(m)
  BY DEF Max
<1>4. P(Max({a, b}))
  BY <1>2, <1>3
<1> QED  BY <1>4

LEMMA MinOfTwo ==
    ASSUME NEW a \in Int, NEW b \in Int
    PROVE  Min({a, b}) \in {a, b} /\ Min({a, b}) <= a /\ Min({a, b}) <= b
<1> DEFINE P(m) == m \in {a, b} /\ \A k \in {a, b} : m <= k
<1>1. P(IF a <= b THEN a ELSE b)
  OBVIOUS
<1>2. \E m : P(m)
  BY <1>1
<1>3. Min({a, b}) = CHOOSE m : P(m)
  BY DEF Min
<1>4. P(Min({a, b}))
  BY <1>2, <1>3
<1> QED  BY <1>4

\* A ratio of one half stays as it is.
LEMMA ClampHalf == Clamp(50) = 50
<1> DEFINE m == Max({10, 50})
<1>1. 10 \in Int /\ 50 \in Int /\ 90 \in Int
  OBVIOUS
<1>2. m \in {10, 50} /\ m >= 50
  BY <1>1, MaxOfTwo, Zenon
<1> HIDE DEF m
<1>3. m = 50
  BY <1>2
<1> DEFINE n == Min({90, 50})
<1>4. n \in {90, 50} /\ n <= 50
  BY <1>1, MinOfTwo
<1>5. Clamp(50) = n
  BY <1>3 DEF Clamp, m
<1> HIDE DEF n
<1> QED  BY <1>4, <1>5

LEMMA ClampInt == ASSUME NEW r \in Int PROVE Clamp(r) \in Int
<1>1. 10 \in Int /\ 90 \in Int
  OBVIOUS
<1>2. Max({10, r}) \in {10, r}
  BY <1>1, MaxOfTwo, Zenon
<1> DEFINE m == Max({10, r})
<1>3. m \in Int
  BY <1>2
<1> HIDE DEF m
<1>4. Min({90, m}) \in {90, m}
  BY <1>1, <1>3, MinOfTwo, Zenon
<1>5. Min({90, m}) \in Int
  BY <1>3, <1>4
<1> QED  BY <1>5 DEF m, Clamp

\* Two children share all the room there is but the gap, and each gets some if
\* there is enough, whatever the ratio.
LEMMA SharesAll ==
    ASSUME NEW room \in Int, NEW r \in Int
    PROVE  /\ Shares(room, r).a \in Int /\ Shares(room, r).b \in Int
           /\ Shares(room, r).gap \in Nat
           /\ Shares(room, r).a + Shares(room, r).gap + Shares(room, r).b = room
           /\ Roomy(room) => Shares(room, r).a >= 1 /\ Shares(room, r).b >= 1
<1> DEFINE gap  == IF room - GapsIn <= 0 THEN 0 ELSE GapsIn
           free == room - gap
           c    == Clamp(r)
           q    == (free * c) \div 100
           a0   == Max({1, q})
           a    == IF free - a0 < 1 THEN free - 1 ELSE a0
<1>1. gap \in Nat /\ free \in Int /\ free + gap = room /\ (Roomy(room) => free >= 2)
  BY DEF Roomy
<1>2. c \in Int
  BY ClampInt
<1> HIDE DEF gap, free, c
<1>3. q \in Int
  <2>1. free * c \in Int
    BY <1>1, <1>2
  <2> DEFINE e == free * c
  <2>2. e \in Int
    BY <2>1
  <2> HIDE DEF e
  <2>3. e \div 100 \in Int
    BY <2>2
  <2> QED  BY <2>3 DEF e
<1> HIDE DEF q
<1>4. a0 \in {1, q} /\ a0 >= 1
  <2>1. 1 \in Int
    OBVIOUS
  <2> QED  BY <1>3, <2>1, MaxOfTwo, Zenon
<1> HIDE DEF a0
<1>5. a \in Int /\ free - a \in Int /\ (free >= 2 => a >= 1 /\ free - a >= 1)
  BY <1>1, <1>3, <1>4
<1> HIDE DEF a
<1>6. Shares(room, r) = [a |-> a, gap |-> gap, b |-> free - a]
  BY DEF Shares, a, a0, q, c, free, gap
<1> QED  BY <1>1, <1>5, <1>6

\* A child's box lies inside its parent's, has some room if there is enough,
\* and stays out of its sibling's.
LEMMA PartIsBox ==
    ASSUME NEW b \in Boxes, NEW across \in BOOLEAN, NEW r \in Int, NEW first \in BOOLEAN
    PROVE  Part(b, across, r, first) \in Boxes
<1> DEFINE s == Shares(IF across THEN b.w ELSE b.h, r)
<1>1. {b.x, b.y, b.w, b.h} \subseteq Int
  BY DEF Boxes
<1>2. s.a \in Int /\ s.gap \in Int /\ s.b \in Int
  BY <1>1, SharesAll
<1> HIDE DEF s
<1>3. Part(b, across, r, first) =
        CASE across /\ first   -> Box(b.x, b.y, s.a, b.h)
          [] across /\ ~ first -> Box(b.x + s.a + s.gap, b.y, s.b, b.h)
          [] ~ across /\ first -> Box(b.x, b.y, b.w, s.a)
          [] OTHER             -> Box(b.x, b.y + s.a + s.gap, b.w, s.b)
  BY DEF Part, s
<1> QED  BY <1>1, <1>2, <1>3 DEF Box, Boxes

LEMMA PartFits ==
    ASSUME NEW b \in Boxes, NEW across \in BOOLEAN, NEW r \in Int, NEW first \in BOOLEAN,
           ~ Empty(b), Roomy(IF across THEN b.w ELSE b.h)
    PROVE  ~ Empty(Part(b, across, r, first)) /\ Within(Part(b, across, r, first), b)
<1> DEFINE room == IF across THEN b.w ELSE b.h
           s == Shares(room, r)
<1>1. {b.x, b.y, b.w, b.h} \subseteq Int /\ b.w > 0 /\ b.h > 0
  BY DEF Boxes, Empty
<1>2. /\ s.a \in Int /\ s.gap \in Int /\ s.b \in Int
      /\ s.gap >= 0 /\ s.a >= 1 /\ s.b >= 1 /\ s.a + s.gap + s.b = room
  BY <1>1, SharesAll
<1> HIDE DEF s
<1>3. Part(b, across, r, first) =
        CASE across /\ first   -> Box(b.x, b.y, s.a, b.h)
          [] across /\ ~ first -> Box(b.x + s.a + s.gap, b.y, s.b, b.h)
          [] ~ across /\ first -> Box(b.x, b.y, b.w, s.a)
          [] OTHER             -> Box(b.x, b.y + s.a + s.gap, b.w, s.b)
  BY DEF Part, s
<1> QED  BY <1>1, <1>2, <1>3 DEF Box, Empty, Within

LEMMA PartsApart ==
    ASSUME NEW b \in Boxes, NEW across \in BOOLEAN, NEW r \in Int,
           NEW one \in BOOLEAN, NEW other \in BOOLEAN, one, ~ other
    PROVE  /\ Apart(Part(b, across, r, one), Part(b, across, r, other))
           /\ Apart(Part(b, across, r, other), Part(b, across, r, one))
<1> DEFINE s == Shares(IF across THEN b.w ELSE b.h, r)
           p == Part(b, across, r, one)
           q == Part(b, across, r, other)
<1>1. {b.x, b.y, b.w, b.h} \subseteq Int
  BY DEF Boxes
<1>2. s.a \in Int /\ s.gap \in Int /\ s.b \in Int /\ s.gap >= 0
  BY <1>1, SharesAll
<1> HIDE DEF s
<1>3. CASE across
  <2>1. p = Box(b.x, b.y, s.a, b.h) /\ q = Box(b.x + s.a + s.gap, b.y, s.b, b.h)
    BY <1>3 DEF Part, s
  <2> HIDE DEF p, q
  <2>2. Apart(p, q) /\ Apart(q, p)
    BY <1>1, <1>2, <2>1 DEF Box, Apart
  <2> QED  BY <2>2 DEF p, q
<1>4. CASE ~ across
  <2>1. p = Box(b.x, b.y, b.w, s.a) /\ q = Box(b.x, b.y + s.a + s.gap, b.w, s.b)
    BY <1>4 DEF Part, s
  <2> HIDE DEF p, q
  <2>2. Apart(p, q) /\ Apart(q, p)
    BY <1>1, <1>2, <2>1 DEF Box, Apart
  <2> QED  BY <2>2 DEF p, q
<1> QED  BY <1>3, <1>4
-----------------------------------------------------------------------------
(* Recursion from the root down                                            *)

\* Going up from any of the nodes leads to the root.
Rooted(nodes, top, up) ==
    /\ \A n \in nodes \ {top} : up[n] \in nodes
    /\ \A X \in SUBSET nodes : top \notin X /\ (\A x \in X : up[x] \in X) => X = {}

LEMMA RootedTree == IInv => Rooted(alloc, root, parent)
<1> SUFFICES ASSUME IInv PROVE Rooted(alloc, root, parent)
  OBVIOUS
<1>1. \A n \in alloc \ {root} : parent[n] \in alloc
  BY DEF IInv, TreeShape
<1>2. CASE root = NoNode
  BY <1>1, <1>2 DEF IInv, Reach, Rooted
<1>3. CASE root # NoNode
  <2>1. ASSUME NEW X \in SUBSET alloc, root \notin X, \A x \in X : parent[x] \in X
        PROVE  X = {}
    BY <1>3, <2>1, NoCycle DEF IInv
  <2> QED  BY <1>1, <2>1 DEF Rooted
<1> QED  BY <1>2, <1>3

\* A function of the nodes that starts at the root and goes on from each node
\* to its children.
Descends(f, nodes, top, up, start, step) ==
    \A n \in nodes : f[n] = IF n = top THEN start ELSE step[n][f[up[n]]]

\* The same on some of the nodes, with all that is above them.
Partial(P, f, nodes, top, up, V, start, step) ==
    /\ P \subseteq nodes
    /\ \A n \in P \ {top} : up[n] \in P
    /\ f \in [P -> V]
    /\ Descends(f, P, top, up, start, step)

\* Every node is part of such a function.
LEMMA PartialsReach ==
    ASSUME NEW nodes, NEW top, NEW up, NEW V, NEW start \in V,
           NEW step \in [nodes -> [V -> V]],
           Rooted(nodes, top, up), NEW n \in nodes
    PROVE  \E P, f :
              n \in P /\ Partial(P, f, nodes, top, up, V, start, step)
<1> DEFINE In(x) == \E P, f :
                      x \in P /\ Partial(P, f, nodes, top, up, V, start, step)
           X == {x \in nodes : ~ In(x)}
<1>1. top \in nodes => In(top)
  <2> SUFFICES ASSUME top \in nodes PROVE In(top)
    OBVIOUS
  <2> DEFINE f == [x \in {top} |-> start]
  <2>1. f \in [{top} -> V] /\ f[top] = start
    OBVIOUS
  <2> HIDE DEF f
  <2>2. Partial({top}, f, nodes, top, up, V, start, step)
    BY <2>1 DEF Partial, Descends
  <2> QED  BY <2>1, <2>2
<1>2. ASSUME NEW x \in X PROVE up[x] \in X
  <2>1. x # top /\ up[x] \in nodes
    BY <1>1, <1>2 DEF Rooted
  <2>2. ASSUME In(up[x]) PROVE FALSE
    <3>1. PICK P, f :
            up[x] \in P /\ Partial(P, f, nodes, top, up, V, start, step)
      BY <2>2
    <3>2. x \notin P
      BY <1>2, <3>1
    <3> DEFINE Q == P \cup {x}
               g == [y \in Q |-> IF y = x THEN step[x][f[up[x]]] ELSE f[y]]
    <3>3. f[up[x]] \in V /\ step[x][f[up[x]]] \in V
      <4>1. f[up[x]] \in V
        BY <3>1 DEF Partial
      <4>2. step[x] \in [V -> V]
        BY <1>2
      <4> QED  BY <4>1, <4>2
    <3>4. g \in [Q -> V] /\ Q \in SUBSET nodes /\ x \in Q
      <4>1. P \subseteq nodes /\ f \in [P -> V]
        BY <3>1 DEF Partial
      <4> QED  BY <4>1, <3>3, <1>2
    <3>5. g[x] = step[x][f[up[x]]] /\ g[up[x]] = f[up[x]] /\ \A y \in P : g[y] = f[y]
      BY <3>1, <3>2
    <3> HIDE DEF g
    <3>6. \A y \in Q \ {top} : up[y] \in Q /\ (y \in P => up[y] \in P)
      BY <3>1 DEF Partial
    <3>7. Descends(g, Q, top, up, start, step)
      <4> SUFFICES ASSUME NEW y \in Q
                   PROVE  g[y] = IF y = top THEN start ELSE step[y][g[up[y]]]
        BY DEF Descends
      <4>1. CASE y = x
        BY <4>1, <2>1, <3>5
      <4>2. CASE y # x
        BY <4>2, <3>1, <3>5, <3>6 DEF Partial, Descends
      <4> QED  BY <4>1, <4>2
    <3>8. Partial(Q, g, nodes, top, up, V, start, step)
      BY <3>4, <3>6, <3>7 DEF Partial
    <3> HIDE DEF Q
    <3>9. In(x)
      BY <3>4, <3>8
    <3> QED  BY <1>2, <3>9
  <2> QED  BY <2>1, <2>2
<1>3. X = {}
  <2>1. X \in SUBSET nodes /\ top \notin X
    BY <1>1
  <2> HIDE DEF X
  <2> QED  BY <1>2, <2>1 DEF Rooted
<1> QED  BY <1>3

\* So there is one of all the nodes.
LEMMA TreeRecursion ==
    ASSUME NEW nodes, NEW top, NEW up, NEW V, NEW start \in V,
           NEW step \in [nodes -> [V -> V]], Rooted(nodes, top, up)
    PROVE  \E f \in [nodes -> V] : Descends(f, nodes, top, up, start, step)
<1>0. ASSUME NEW P, NEW f, Partial(P, f, nodes, top, up, V, start, step),
             NEW Q, NEW g, Partial(Q, g, nodes, top, up, V, start, step),
             NEW n \in P, n \in Q
      PROVE  f[n] = g[n]
  <2> DEFINE X == {x \in nodes : x \in P /\ x \in Q /\ f[x] # g[x]}
  <2>1. X \in SUBSET nodes /\ top \notin X
    BY <1>0 DEF Partial, Descends
  <2>2. ASSUME NEW x \in X PROVE up[x] \in X
    <3>1. x # top /\ x \in P /\ x \in Q /\ f[x] # g[x]
      BY <2>1, <2>2
    <3>2. f[x] = step[x][f[up[x]]] /\ g[x] = step[x][g[up[x]]]
      BY <1>0, <3>1 DEF Partial, Descends
    <3>3. up[x] \in P /\ up[x] \in Q /\ up[x] \in nodes
      BY <1>0, <3>1 DEF Partial
    <3> QED  BY <3>1, <3>2, <3>3
  <2>3. X = {}
    <3> HIDE DEF X
    <3> QED  BY <2>1, <2>2 DEF Rooted
  <2> QED  BY <1>0, <2>3 DEF Partial
<1> DEFINE Fits(n, v) == \E P, f :
                /\ n \in P /\ f[n] = v
                /\ Partial(P, f, nodes, top, up, V, start, step)
           h == [n \in nodes |-> CHOOSE v \in V : Fits(n, v)]
<1>1. ASSUME NEW n \in nodes PROVE h[n] \in V /\ Fits(n, h[n])
  <2>1. PICK P, f :
          n \in P /\ Partial(P, f, nodes, top, up, V, start, step)
    BY PartialsReach
  <2>2. Fits(n, f[n])
    BY <2>1
  <2>3. f[n] \in V
    BY <2>1 DEF Partial
  <2> HIDE DEF Fits
  <2>4. \E v \in V : Fits(n, v)
    BY <2>2, <2>3
  <2>5. h[n] = CHOOSE v \in V : Fits(n, v)
    OBVIOUS
  <2> QED  BY <2>4, <2>5
<1>2. h \in [nodes -> V]
  <2>1. \A n \in nodes : h[n] \in V
    BY <1>1
  <2> HIDE DEF Fits
  <2> QED  BY <2>1
<1> HIDE DEF h
<1>3. ASSUME NEW n \in nodes
      PROVE  h[n] = IF n = top THEN start ELSE step[n][h[up[n]]]
  <2>1. PICK P, f :
          n \in P /\ f[n] = h[n] /\ Partial(P, f, nodes, top, up, V, start, step)
    BY <1>1
  <2>2. CASE n = top
    BY <2>1, <2>2 DEF Partial, Descends
  <2>3. CASE n # top
    <3>1. up[n] \in P /\ up[n] \in nodes
      BY <2>1, <2>3 DEF Partial
    <3>2. PICK Q, g :
            /\ up[n] \in Q /\ g[up[n]] = h[up[n]]
            /\ Partial(Q, g, nodes, top, up, V, start, step)
      BY <1>1, <3>1
    <3>3. f[up[n]] = g[up[n]]
      <4>1. /\ Partial(P, f, nodes, top, up, V, start, step)
            /\ Partial(Q, g, nodes, top, up, V, start, step)
            /\ up[n] \in P /\ up[n] \in Q
        BY <2>1, <3>1, <3>2
      <4> QED  BY <4>1, <1>0
    <3>4. f[n] = step[n][f[up[n]]]
      BY <2>1, <2>3 DEF Partial, Descends
    <3> QED  BY <2>1, <2>3, <3>2, <3>3, <3>4
  <2> QED  BY <2>2, <2>3
<1> QED  BY <1>2, <1>3 DEF Descends
-----------------------------------------------------------------------------
(* A tree that is laid out                                                 *)

GeometryTypes == /\ split \in [Nodes -> {"across", "down"}]
                 /\ ratio \in [Nodes -> Int]
                 /\ box \in [Nodes -> Boxes]
                 /\ usable \in Areas
                 /\ onShow \in BOOLEAN

\* The part of its parent's box that is a node's.
ChildBox(n) == LET p == parent[n]
               IN  Part(box[p], split[p] = "across", ratio[p], left[p] = n)

\* The root's box.
TopBox ==
    LET out == OuterGap(Cardinality(Leaves))
        gap == IF usable.w - 2 * out <= 0 \/ usable.h - 2 * out <= 0 THEN 0 ELSE out
    IN  Box(usable.x + gap, usable.y + gap, usable.w - 2 * gap, usable.h - 2 * gap)

\* What server_arrange leaves behind: the root has its room, and below a box
\* that arrange_node was told and that is not empty each node has its part.
Laid == \E told \in [alloc -> BOOLEAN] : \A n \in alloc :
          IF n = root THEN told[n] /\ box[n] = TopBox
          ELSE told[parent[n]] /\ ~ Empty(box[parent[n]]) =>
                 told[n] /\ box[n] = ChildBox(n)

\* The inductive invariant.  It is not about ratios or about what the boxes
\* were: whatever a hidden workspace went through, one arrangement lays it out.
GeometryInv == IInv /\ GeometryTypes /\ (onShow => Laid)

\* It has room inside the usable area.
LEMMA TopFits ==
    usable \in Areas => TopBox \in Boxes /\ ~ Empty(TopBox) /\ Within(TopBox, usable)
<1> SUFFICES ASSUME usable \in Areas
             PROVE  TopBox \in Boxes /\ ~ Empty(TopBox) /\ Within(TopBox, usable)
  OBVIOUS
<1> DEFINE out == OuterGap(Cardinality(Leaves))
           gap == IF usable.w - 2 * out <= 0 \/ usable.h - 2 * out <= 0 THEN 0 ELSE out
<1>1. out \in Nat
  BY DEF OuterGap
<1>2. /\ usable.x \in Int /\ usable.y \in Int
      /\ usable.w \in Int /\ usable.h \in Int /\ usable.w > 0 /\ usable.h > 0
  OBVIOUS
<1> HIDE DEF out
<1>3. gap \in Nat /\ usable.w - 2 * gap > 0 /\ usable.h - 2 * gap > 0
  BY <1>1, <1>2
<1>4. TopBox = Box(usable.x + gap, usable.y + gap,
                   usable.w - 2 * gap, usable.h - 2 * gap)
  BY DEF TopBox, out
<1> HIDE DEF gap
<1> QED  BY <1>2, <1>3, <1>4 DEF Box, Boxes, Empty, Within

\* An arrangement lays the tree out, whatever the boxes were.
LEMMA ArrangeLays ==
    ASSUME IInv', NEW kept \in [Nodes -> Boxes], Arrange(kept), usable' \in Areas,
           split' \in [Nodes -> {"across", "down"}], ratio' \in [Nodes -> Int]
    PROVE  box' \in [Nodes -> Boxes] /\ Laid'
<1> DEFINE top == Inner(OuterGap(Cardinality(Leaves')))
           V   == [box : Boxes, told : BOOLEAN]
           start == [box |-> top, told |-> TRUE]
           next(n, u) ==
             IF ~ u.told \/ Empty(u.box) THEN [box |-> kept[n], told |-> FALSE]
             ELSE [box |-> Part(u.box, split'[parent'[n]] = "across", ratio'[parent'[n]],
                                left'[parent'[n]] = n),
                   told |-> TRUE]
           step == [n \in alloc' |->
                      [u \in V |-> IF n = root' THEN start ELSE next(n, u)]]
           E(f) == [n \in alloc' |-> IF n = root' THEN start ELSE next(n, f[parent'[n]])]
           laid == CHOOSE f : f = E(f)
<1>1. box' = [n \in Nodes |-> IF n \in alloc' THEN laid[n].box ELSE Nothing]
  BY DEF Arrange
<1>2. top = TopBox' /\ top \in Boxes
  <2>1. TopBox' = top
    BY DEF TopBox, Inner
  <2>2. (usable \in Areas)'
    OBVIOUS
  <2>3. (TopBox \in Boxes)'
    BY <2>2, TopFits, PTL
  <2> QED  BY <2>1, <2>3
<1>3. Rooted(alloc', root', parent') /\ alloc' \subseteq Nodes
  <2>1. alloc' \subseteq Nodes
    BY DEF IInv, TypeOK
  <2>2. Rooted(alloc, root, parent)'
    BY RootedTree, PTL
  <2> QED  BY <2>1, <2>2
<1> HIDE DEF top
<1>4. start \in V
  BY <1>2
<1>5. ASSUME NEW n \in alloc', n # root', NEW u \in V PROVE next(n, u) \in V
  <2>1. n \in Nodes /\ parent'[n] \in Nodes
    BY <1>3, <1>5 DEF Rooted
  <2>2. ratio'[parent'[n]] \in Int
    BY <2>1
  <2> DEFINE across == split'[parent'[n]] = "across"
             first  == left'[parent'[n]] = n
  <2>3. across \in BOOLEAN /\ first \in BOOLEAN
    OBVIOUS
  <2>4. Part(u.box, across, ratio'[parent'[n]], first) \in Boxes
    <3> HIDE DEF across, first
    <3>1. u.box \in Boxes
      OBVIOUS
    <3> QED  BY <2>2, <2>3, <3>1, PartIsBox
  <2> QED  BY <2>1, <2>4
<1> HIDE DEF start, next
<1>6. step \in [alloc' -> [V -> V]]
  BY <1>4, <1>5
<1> HIDE DEF V
<1>7. \E f : f = E(f)
  <2>1. PICK f \in [alloc' -> V] : Descends(f, alloc', root', parent', start, step)
    <3> HIDE DEF step
    <3> QED  BY <1>3, <1>4, <1>6, TreeRecursion
  <2>2. ASSUME NEW n \in alloc'
        PROVE  f[n] = IF n = root' THEN start ELSE next(n, f[parent'[n]])
    <3>1. f[n] = IF n = root' THEN start ELSE step[n][f[parent'[n]]]
      BY <2>1 DEF Descends
    <3>2. CASE n # root'
      <4>1. f[parent'[n]] \in V
        BY <1>3, <2>1, <3>2 DEF Rooted
      <4> QED  BY <3>1, <3>2, <4>1
    <3> QED  BY <3>1, <3>2
  <2>3. f = E(f)
    BY <2>1, <2>2
  <2> HIDE DEF E
  <2> QED  BY <2>3
<1>8. laid = E(laid)
  <2> HIDE DEF E
  <2> QED  BY <1>7
<1> HIDE DEF laid
<1>9. \A n \in alloc' :
        laid[n] = IF n = root' THEN start ELSE next(n, laid[parent'[n]])
  BY <1>8
<1>10. ASSUME NEW n \in alloc' PROVE laid[n] \in V
  <2> DEFINE X == {x \in alloc' : laid[x] \notin V}
  <2>1. X \in SUBSET alloc' /\ root' \notin X
    BY <1>4, <1>9
  <2>2. ASSUME NEW x \in X PROVE parent'[x] \in X
    <3>1. x # root' /\ parent'[x] \in alloc' /\ laid[x] = next(x, laid[parent'[x]])
      BY <1>3, <1>9, <2>1, <2>2 DEF Rooted
    <3> QED  BY <1>5, <2>2, <3>1
  <2>3. X = {}
    <3> HIDE DEF X
    <3> QED  BY <1>3, <2>1, <2>2 DEF Rooted
  <2> QED  BY <2>3
<1>11. box' \in [Nodes -> Boxes]
  <2>1. Nothing \in Boxes
    BY DEF Nothing, Boxes
  <2>2. \A n \in alloc' : laid[n].box \in Boxes
    BY <1>10 DEF V
  <2> QED  BY <1>1, <2>1, <2>2
<1> DEFINE told == [n \in alloc' |-> laid[n].told]
<1>12. told \in [alloc' -> BOOLEAN]
  <2>1. \A n \in alloc' : laid[n].told \in BOOLEAN
    BY <1>10 DEF V
  <2> QED  BY <2>1
<1>13. \A n \in alloc' : told[n] = laid[n].told /\ box'[n] = laid[n].box
  BY <1>1, <1>3
<1>14. ASSUME NEW n \in alloc', n = root'
       PROVE  told[n] /\ box'[n] = TopBox'
  BY <1>2, <1>9, <1>13, <1>14 DEF start
<1>15. ASSUME NEW n \in alloc', n # root', told[parent'[n]], ~ Empty(box'[parent'[n]])
       PROVE  told[n] /\ box'[n] = ChildBox(n)'
  <2>1. parent'[n] \in alloc'
    BY <1>3, <1>15 DEF Rooted
  <2>2. laid[parent'[n]].told /\ ~ Empty(laid[parent'[n]].box)
    BY <1>13, <1>15, <2>1
  <2>3. laid[n] = next(n, laid[parent'[n]])
    BY <1>9, <1>15
  <2>4. /\ laid[n].told
        /\ laid[n].box = Part(laid[parent'[n]].box, split'[parent'[n]] = "across",
                              ratio'[parent'[n]], left'[parent'[n]] = n)
    BY <2>2, <2>3 DEF next
  <2>5. laid[parent'[n]].box = box'[parent'[n]]
    BY <1>13, <2>1
  <2>6. laid[n].box = ChildBox(n)'
    BY <2>4, <2>5 DEF ChildBox
  <2> QED  BY <1>13, <2>4, <2>6
<1>16. Laid'
  <2> HIDE DEF told
  <2>1. \A n \in alloc' :
          IF n = root' THEN told[n] /\ box'[n] = TopBox'
          ELSE told[parent'[n]] /\ ~ Empty(box'[parent'[n]]) =>
                 told[n] /\ box'[n] = ChildBox(n)'
    BY <1>14, <1>15
  <2> QED  BY <1>12, <2>1 DEF Laid
<1> QED  BY <1>11, <1>16
-----------------------------------------------------------------------------
(* The windows tile                                                        *)

LEMMA WithinTransitive ==
    ASSUME NEW a \in Boxes, NEW b \in Boxes, NEW c,
           c.x \in Int, c.y \in Int, c.w \in Int, c.h \in Int,
           Within(a, b), Within(b, c)
    PROVE  Within(a, c)
<1>1. /\ a.x \in Int /\ a.y \in Int /\ a.w \in Int /\ a.h \in Int
      /\ b.x \in Int /\ b.y \in Int /\ b.w \in Int /\ b.h \in Int
  BY DEF Boxes
<1> QED  BY <1>1 DEF Within

\* What keeps apart from a box keeps apart from all that is within it.
LEMMA ApartWithin ==
    ASSUME NEW a \in Boxes, NEW b \in Boxes, NEW c \in Boxes, Within(a, b)
    PROVE  /\ Apart(b, c) => Apart(a, c)
           /\ Apart(c, b) => Apart(c, a)
<1>1. /\ a.x \in Int /\ a.y \in Int /\ a.w \in Int /\ a.h \in Int
      /\ b.x \in Int /\ b.y \in Int /\ b.w \in Int /\ b.h \in Int
      /\ c.x \in Int /\ c.y \in Int /\ c.w \in Int /\ c.h \in Int
  BY DEF Boxes
<1> QED  BY <1>1 DEF Within, Apart

\* The parent of a node is an inner node, which is wide enough.
LEMMA ParentRoomy ==
    ASSUME IInv, GeometryTypes, ~ Cramped, NEW n \in alloc, n # root
    PROVE  /\ parent[n] \in alloc /\ parent[n] \in Nodes /\ view[parent[n]] = NoView
           /\ n \in {left[parent[n]], right[parent[n]]}
           /\ Roomy(IF split[parent[n]] = "across" THEN box[parent[n]].w
                    ELSE box[parent[n]].h)
<1>1. parent[n] \in alloc /\ n \in {left[parent[n]], right[parent[n]]}
  BY DEF IInv, TreeShape
<1>2. n # NoNode /\ n \in Nodes /\ parent[n] \in Nodes
  BY <1>1, Types DEF IInv
<1>3. view[parent[n]] = NoView
  BY <1>1, <1>2 DEF IInv, TreeShape
<1>4. parent[n] \in alloc \ Leaves
  BY <1>1, <1>3 DEF Leaves
<1> DEFINE room == IF split[parent[n]] = "across" THEN box[parent[n]].w
                    ELSE box[parent[n]].h
<1>5. room \in Int
  BY <1>2 DEF GeometryTypes, Boxes
<1>6. ~ (room < 2 \/ room = GapsIn + 1)
  BY <1>4 DEF Cramped
<1> HIDE DEF room
<1>7. Roomy(room)
  BY <1>5, <1>6 DEF Roomy
<1> QED  BY <1>1, <1>2, <1>3, <1>7 DEF room

\* What the box of a child is, and that it lies in its parent's.
LEMMA ChildFits ==
    ASSUME IInv, GeometryTypes, ~ Cramped, NEW n \in alloc, n # root,
           ~ Empty(box[parent[n]]), box[n] = ChildBox(n)
    PROVE  ~ Empty(box[n]) /\ Within(box[n], box[parent[n]])
<1> DEFINE p == parent[n]
           across == split[p] = "across"
           first  == left[p] = n
<1>1. p \in Nodes /\ Roomy(IF across THEN box[p].w ELSE box[p].h)
  BY ParentRoomy
<1>2. across \in BOOLEAN /\ first \in BOOLEAN /\ box[p] \in Boxes /\ ratio[p] \in Int
  BY <1>1 DEF GeometryTypes
<1>3. box[n] = Part(box[p], across, ratio[p], first) /\ ~ Empty(box[p])
  BY DEF ChildBox
<1> HIDE DEF across, first, p
<1>4. ~ Empty(box[n]) /\ Within(box[n], box[p])
  BY <1>1, <1>2, <1>3, PartFits
<1> QED  BY <1>4 DEF p

\* All of a tree with room for every window is told its box.
LEMMA LaidFits ==
    ASSUME IInv, GeometryTypes, Laid, ~ Cramped
    PROVE  \A n \in alloc :
             /\ ~ Empty(box[n]) /\ Within(box[n], usable)
             /\ n = root => box[n] = TopBox
             /\ n # root => box[n] = ChildBox(n) /\ Within(box[n], box[parent[n]])
<1>1. PICK told \in [alloc -> BOOLEAN] : \A n \in alloc :
          IF n = root THEN told[n] /\ box[n] = TopBox
          ELSE told[parent[n]] /\ ~ Empty(box[parent[n]]) =>
                 told[n] /\ box[n] = ChildBox(n)
  BY DEF Laid
<1>2. usable.x \in Int /\ usable.y \in Int /\ usable.w \in Int /\ usable.h \in Int
  BY DEF GeometryTypes
<1>3. \A n \in alloc : n \in Nodes /\ box[n] \in Boxes
  BY Types DEF IInv, GeometryTypes
<1> DEFINE Fine(n) == told[n] /\ ~ Empty(box[n]) /\ Within(box[n], usable)
           X == {n \in alloc : ~ Fine(n)}
<1>4. ASSUME NEW n \in alloc, n # root, Fine(parent[n])
      PROVE  Fine(n) /\ box[n] = ChildBox(n) /\ Within(box[n], box[parent[n]])
  <2>1. told[n] /\ box[n] = ChildBox(n)
    BY <1>1, <1>4
  <2>2. ~ Empty(box[n]) /\ Within(box[n], box[parent[n]])
    BY <1>4, <2>1, ChildFits
  <2>3. parent[n] \in alloc
    BY <1>4, ParentRoomy
  <2>4. Within(box[n], usable)
    BY <1>2, <1>3, <1>4, <2>2, <2>3, WithinTransitive
  <2> QED  BY <2>1, <2>2, <2>4
<1>5. X = {}
  <2>1. X \in SUBSET alloc /\ root \notin X
    BY <1>1, TopFits DEF GeometryTypes
  <2> HIDE DEF Fine
  <2>2. ASSUME NEW x \in X PROVE parent[x] \in X
    BY <1>4, <2>1, <2>2, ParentRoomy
  <2> HIDE DEF X
  <2> QED  BY <2>1, <2>2, RootedTree DEF Rooted
<1> HIDE DEF Fine
<1>6. \A n \in alloc : Fine(n)
  BY <1>5
<1> QED  BY <1>1, <1>4, <1>6, ParentRoomy DEF Fine

\* What is below an inner node is the node or below one of its children.
LEMMA BelowSplits ==
    ASSUME IInv, NEW p \in alloc, view[p] = NoView, NEW m \in Below(p)
    PROVE  m = p \/ m \in Below(left[p]) \/ m \in Below(right[p])
<1>1. left[p] \in Nodes /\ right[p] \in Nodes /\ p \in Nodes
  BY Types DEF IInv, TreeShape
<1> DEFINE L == Below(left[p])
           R == Below(right[p])
           S == {p} \cup L \cup R
<1>2. /\ left[p] \in L /\ Closed(L) /\ L \in SUBSET Nodes
      /\ right[p] \in R /\ Closed(R) /\ R \in SUBSET Nodes
  BY <1>1, BelowIsClosed DEF IInv
<1> HIDE DEF L, R
<1>3. S \in SUBSET Nodes /\ p \in S /\ Closed(S)
  BY <1>1, <1>2 DEF Closed
<1>4. Below(p) \subseteq S
  <2> HIDE DEF S
  <2> QED  BY <1>1, <1>3, BelowClosed
<1> QED  BY <1>4 DEF L, R

\* Nothing is below a leaf but the leaf.
LEMMA BelowLeaf ==
    ASSUME IInv, NEW n \in Leaves
    PROVE  Below(n) \subseteq {n}
<1>1. n \in Nodes /\ left[n] = NoNode /\ right[n] = NoNode
  BY Types DEF IInv, Leaves, TreeShape
<1>2. Closed({n})
  BY <1>1 DEF Closed
<1> QED  BY <1>1, <1>2, BelowClosed

\* What is below a node lies in its box.
LEMMA BelowWithin ==
    ASSUME IInv, GeometryTypes, Laid, ~ Cramped, NEW n \in alloc, NEW m \in Below(n)
    PROVE  m \in alloc /\ Within(box[m], box[n])
<1> DEFINE S == {k \in alloc : Within(box[k], box[n])}
<1>1. \A k \in alloc : k \in Nodes /\ box[k] \in Boxes
  BY Types DEF IInv, GeometryTypes
<1>2. box[n].x \in Int /\ box[n].y \in Int /\ box[n].w \in Int /\ box[n].h \in Int
  BY <1>1 DEF Boxes
<1>3. n \in S /\ S \in SUBSET Nodes
  BY <1>1, <1>2 DEF Within
<1>4. ASSUME NEW k \in S, NEW c \in {left[k], right[k]}, c # NoNode PROVE c \in S
  <2>1. c \in alloc /\ parent[c] = k /\ c # root
    BY <1>1, <1>4, Child DEF IInv
  <2>2. Within(box[c], box[k])
    BY <2>1, LaidFits
  <2>3. Within(box[c], box[n])
    BY <1>1, <1>2, <2>1, <2>2, WithinTransitive
  <2> QED  BY <2>1, <2>3
<1>5. Closed(S)
  <2> HIDE DEF S
  <2> QED  BY <1>4 DEF Closed
<1>6. Below(n) \subseteq S
  <2> HIDE DEF S
  <2> QED  BY <1>1, <1>3, <1>5, BelowClosed
<1> QED  BY <1>6

\* Siblings keep apart.
LEMMA SiblingsApart ==
    ASSUME IInv, GeometryTypes, Laid, ~ Cramped, NEW p \in alloc, view[p] = NoView
    PROVE  /\ Apart(box[left[p]], box[right[p]])
           /\ Apart(box[right[p]], box[left[p]])
<1> DEFINE l == left[p]
           r == right[p]
           across == split[p] = "across"
           one    == left[p] = l
           other  == left[p] = r
<1>1. /\ l \in alloc /\ r \in alloc /\ l # r /\ parent[l] = p /\ parent[r] = p
      /\ l # root /\ r # root
  <2>1. /\ l \in alloc /\ r \in alloc /\ l # r /\ parent[l] = p /\ parent[r] = p
        /\ p \in Nodes /\ p # NoNode
    BY Types DEF IInv, TreeShape
  <2>2. root # NoNode => parent[root] = NoNode
    BY DEF IInv, TreeShape
  <2>3. l # NoNode /\ r # NoNode
    BY <2>1, Types DEF IInv
  <2> QED  BY <2>1, <2>2, <2>3
<1>2. across \in BOOLEAN /\ box[p] \in Boxes /\ ratio[p] \in Int
  BY Types DEF IInv, GeometryTypes
<1>3. box[l] = ChildBox(l) /\ box[r] = ChildBox(r)
  BY <1>1, LaidFits
<1>4. one /\ ~ other /\ one \in BOOLEAN /\ other \in BOOLEAN
  BY <1>1
<1>5. /\ box[l] = Part(box[p], across, ratio[p], one)
      /\ box[r] = Part(box[p], across, ratio[p], other)
  BY <1>1, <1>3 DEF ChildBox
<1> HIDE DEF across, one, other, l, r
<1>6. Apart(box[l], box[r]) /\ Apart(box[r], box[l])
  BY <1>2, <1>4, <1>5, PartsApart
<1> QED  BY <1>6 DEF l, r

\* A node that a leaf is not below keeps apart from the leaf.
LEMMA LeafApart ==
    ASSUME IInv, GeometryTypes, Laid, ~ Cramped, NEW m \in Leaves,
           NEW n \in alloc, m \notin Below(n)
    PROVE  Apart(box[n], box[m])
<1> DEFINE X == {x \in alloc : m \notin Below(x) /\ ~ Apart(box[x], box[m])}
<1>1. \A k \in alloc : k \in Nodes /\ box[k] \in Boxes
  BY Types DEF IInv, GeometryTypes
<1>2. m \in alloc /\ m \in Nodes /\ m \in Below(root)
  BY Types, ReachIsNoLeak DEF IInv, Leaves, NoLeak
<1>3. ASSUME NEW x \in X PROVE parent[x] \in X
  <2> DEFINE p == parent[x]
  <2>1. x \in alloc /\ x # root /\ m \notin Below(x) /\ ~ Apart(box[x], box[m])
    BY <1>2, <1>3
  <2>2. p \in alloc /\ view[p] = NoView /\ x \in {left[p], right[p]}
    BY <2>1, ParentRoomy
  <2>3. ASSUME m \in Below(p) PROVE FALSE
    <3> DEFINE s == IF left[p] = x THEN right[p] ELSE left[p]
    <3>1. m # p
      BY <2>2 DEF Leaves
    <3>2. s \in alloc /\ m \in Below(s) /\ Apart(box[x], box[s])
      <4>1. left[p] \in alloc /\ right[p] \in alloc
        BY <2>2 DEF IInv, TreeShape
      <4>2. m \in Below(left[p]) \/ m \in Below(right[p])
        BY <2>2, <2>3, <3>1, BelowSplits
      <4> QED  BY <2>1, <2>2, <4>1, <4>2, SiblingsApart
    <3> HIDE DEF s
    <3>3. Within(box[m], box[s])
      BY <3>2, BelowWithin
    <3>4. Apart(box[x], box[m])
      BY <1>1, <1>2, <2>1, <3>2, <3>3, ApartWithin
    <3> QED  BY <2>1, <3>4
  <2>4. Within(box[x], box[p])
    BY <2>1, LaidFits
  <2>5. ~ Apart(box[p], box[m])
    BY <1>1, <1>2, <2>1, <2>2, <2>4, ApartWithin
  <2> QED  BY <2>2, <2>3, <2>5
<1>4. X \in SUBSET alloc /\ root \notin X
  BY <1>2
<1>5. X = {}
  <2> HIDE DEF X
  <2> QED  BY <1>3, <1>4, RootedTree DEF Rooted
<1> QED  BY <1>5

LEMMA LaidTiles == GeometryInv => WindowsTile
<1> SUFFICES ASSUME GeometryInv, onShow, ~ Cramped
             PROVE  /\ \A m \in Leaves : ~ Empty(box[m]) /\ Within(box[m], usable)
                    /\ \A m, n \in Leaves : m # n => Apart(box[m], box[n])
  BY DEF WindowsTile
<1>1. IInv /\ GeometryTypes /\ Laid
  BY DEF GeometryInv
<1>2. \A m \in Leaves : ~ Empty(box[m]) /\ Within(box[m], usable)
  BY <1>1, LaidFits DEF Leaves
<1>3. ASSUME NEW m \in Leaves, NEW n \in Leaves, m # n
      PROVE  Apart(box[m], box[n])
  <2>1. n \notin Below(m) /\ m \in alloc
    BY <1>1, <1>3, BelowLeaf DEF Leaves
  <2> QED  BY <1>1, <2>1, LeafApart
<1> QED  BY <1>2, <1>3
-----------------------------------------------------------------------------
(* The steps                                                               *)

LEMMA InitGeometry == GeometryInit => GeometryInv
<1> SUFFICES ASSUME GeometryInit PROVE GeometryInv
  OBVIOUS
<1>1. IInv
  BY InitInv DEF GeometryInit
<1>2. GeometryTypes
  BY DEF GeometryInit, GeometryTypes, Boxes, Nothing
<1>3. Laid
  <2>1. alloc = {}
    BY DEF GeometryInit, Init
  <2>2. [n \in alloc |-> TRUE] \in [alloc -> BOOLEAN]
    OBVIOUS
  <2> QED  BY <2>1, <2>2 DEF Laid
<1> QED  BY <1>1, <1>2, <1>3 DEF GeometryInv

\* Whatever the compositor did to the tree, the splits, the ratios or the area,
\* the arrangement that follows lays out what is on show.
LEMMA SettleInv ==
    ASSUME IInv', NEW kept \in [Nodes -> Boxes],
           Settle(kept) \/ (onShow' /\ Arrange(kept)),
           split' \in [Nodes -> {"across", "down"}], ratio' \in [Nodes -> Int],
           usable' \in Areas, onShow' \in BOOLEAN
    PROVE  GeometryInv'
<1>1. CASE onShow'
  <2>1. Arrange(kept)
    BY <1>1 DEF Settle
  <2> QED  BY <2>1, ArrangeLays DEF GeometryInv, GeometryTypes
<1>2. CASE ~ onShow'
  BY <1>2 DEF Settle, GeometryInv, GeometryTypes
<1> QED  BY <1>1, <1>2

LEMMA GrowInv ==
    ASSUME GeometryInv, IInv', NEW b \in Boxes, Grow(b), UNCHANGED <<usable, onShow>>
    PROVE  GeometryInv'
<1> DEFINE new  == {n \in alloc' \ alloc : view'[n] = NoView}
           gone == Nodes \ alloc'
           kept == [n \in Nodes |-> IF n \in new THEN b
                                    ELSE IF n \in gone THEN Nothing ELSE box[n]]
<1>1. /\ split' = [n \in Nodes |-> IF n \in new /\ b.w > b.h THEN "across"
                                   ELSE IF n \in new \cup gone THEN "down" ELSE split[n]]
      /\ ratio' = [n \in Nodes |-> IF n \in new \cup gone THEN 50 ELSE ratio[n]]
      /\ Settle(kept)
  BY DEF Grow
<1> HIDE DEF new, gone
<1>2. /\ split \in [Nodes -> {"across", "down"}] /\ ratio \in [Nodes -> Int]
      /\ box \in [Nodes -> Boxes] /\ usable' \in Areas /\ onShow' \in BOOLEAN
  BY DEF GeometryInv, GeometryTypes
<1>3. kept \in [Nodes -> Boxes]
  <2>1. Nothing \in Boxes
    BY DEF Nothing, Boxes
  <2> QED  BY <1>2, <2>1
<1>4. split' \in [Nodes -> {"across", "down"}]
  BY <1>1, <1>2
<1>5. ratio' \in [Nodes -> Int]
  BY <1>1, <1>2
<1> HIDE DEF kept
<1> QED  BY <1>1, <1>2, <1>3, <1>4, <1>5, SettleInv

LEMMA TileInv ==
    ASSUME GeometryInv, IInv', NEW v \in Views, Tile(v)
    PROVE  GeometryInv'
<1> DEFINE b == IF root = NoNode THEN Nothing ELSE box[CHOOSE n \in Target : TRUE]
<1>1. b \in Boxes
  <2>1. CASE root = NoNode
    BY <2>1 DEF Nothing, Boxes
  <2>2. CASE root # NoNode
    <3>1. focused \in Leaves /\ Target = {focused}
      BY <2>2 DEF GeometryInv, IInv, FocusIsLeaf, Target
    <3>2. focused \in Nodes /\ box \in [Nodes -> Boxes]
      BY <3>1, Types DEF GeometryInv, GeometryTypes, IInv, Leaves
    <3>3. (CHOOSE n \in Target : TRUE) = focused
      BY <3>1
    <3> QED  BY <2>2, <3>2, <3>3
  <2> QED  BY <2>1, <2>2
<1>2. Grow(b) /\ UNCHANGED <<usable, onShow>>
  BY DEF Tile
<1> HIDE DEF b
<1> QED  BY <1>1, <1>2, GrowInv

\* The focus moves and nothing else.
LEMMA SelectInv ==
    ASSUME GeometryInv, IInv', UNCHANGED tree, UNCHANGED boxes
    PROVE  GeometryInv'
<1>1. UNCHANGED <<alloc, view, parent, left, root, split, ratio, box, usable, onShow>>
  BY DEF tree, boxes
<1>2. GeometryTypes'
  BY <1>1 DEF GeometryInv, GeometryTypes
<1>3. onShow' => Laid'
  <2>1. TopBox' = TopBox
    BY <1>1 DEF TopBox, Leaves
  <2>2. \A n : ChildBox(n)' = ChildBox(n)
    BY <1>1 DEF ChildBox
  <2> QED  BY <1>1, <2>1, <2>2 DEF GeometryInv, Laid
<1> QED  BY <1>2, <1>3 DEF GeometryInv

LEMMA ResizeInv ==
    ASSUME GeometryInv, IInv', NEW dx \in Int, NEW dy \in Int, Resize(dx, dy)
    PROVE  GeometryInv'
<1> DEFINE by(n) == IF split[n] = "across"
                    THEN IF box[n].w > 0 THEN (100 * dx) \div box[n].w ELSE 0
                    ELSE IF box[n].h > 0 THEN (100 * dy) \div box[n].h ELSE 0
           moved(n) == IF split[n] = "across" THEN dx # 0 /\ box[n].w > 0
                       ELSE dy # 0 /\ box[n].h > 0
           above == Above(focused)
<1>1. /\ ratio' = [n \in Nodes |-> IF n \in above /\ moved(n) THEN Clamp(ratio[n] + by(n))
                                   ELSE ratio[n]]
      /\ onShow /\ UNCHANGED <<split, usable, onShow>> /\ Arrange(box)
  BY DEF Resize
<1> HIDE DEF above, moved
<1>2. /\ split \in [Nodes -> {"across", "down"}] /\ ratio \in [Nodes -> Int]
      /\ box \in [Nodes -> Boxes] /\ usable \in Areas /\ onShow \in BOOLEAN
  BY DEF GeometryInv, GeometryTypes
<1>3. ASSUME NEW n \in Nodes PROVE by(n) \in Int
  <2>1. box[n].w \in Int /\ box[n].h \in Int
    BY <1>2 DEF Boxes
  <2>2. ASSUME NEW a \in Int, NEW d \in Int, d > 0 PROVE a \div d \in Int
    BY <2>2
  <2>3. 100 * dx \in Int /\ 100 * dy \in Int
    OBVIOUS
  <2> QED  BY <2>1, <2>2, <2>3
<1> HIDE DEF by
<1>4. ASSUME NEW n \in Nodes PROVE Clamp(ratio[n] + by(n)) \in Int /\ ratio[n] \in Int
  <2>1. ratio[n] \in Int /\ ratio[n] + by(n) \in Int
    BY <1>2, <1>3
  <2> QED  BY <2>1, ClampInt
<1>5. ratio' \in [Nodes -> Int]
  BY <1>1, <1>4
<1> QED  BY <1>1, <1>2, <1>5, SettleInv

LEMMA DropInv ==
    ASSUME GeometryInv, IInv', NEW v \in Views, NEW x, NEW y, Drop(v, x, y)
    PROVE  GeometryInv'
<1>1. ASSUME NEW under \in ViewAt(x, y), Grow(BoxOf(under)) PROVE GeometryInv'
  <2>1. TheLeaf(under) \in Leaves
    BY ViewAtFinds, TheLeafIsOne
  <2>2. BoxOf(under) \in Boxes
    BY <2>1, Types DEF BoxOf, GeometryInv, GeometryTypes, IInv, Leaves
  <2>3. UNCHANGED <<usable, onShow>>
    BY DEF Drop
  <2> QED  BY <1>1, <2>2, <2>3, GrowInv
<1> QED  BY <1>1, TileInv DEF Drop

LEMMA GeometryNextInv ==
    GeometryInv /\ IInv' /\ [GeometryNext]_geometry => GeometryInv'
<1> SUFFICES ASSUME GeometryInv, IInv', [GeometryNext]_geometry
             PROVE  GeometryInv'
  OBVIOUS
<1>1. /\ split \in [Nodes -> {"across", "down"}] /\ ratio \in [Nodes -> Int]
      /\ box \in [Nodes -> Boxes] /\ usable \in Areas /\ onShow \in BOOLEAN
  BY DEF GeometryInv, GeometryTypes
<1>2. ASSUME NEW v \in Views, Tile(v) PROVE GeometryInv'
  BY <1>2, TileInv
<1>3. ASSUME NEW v \in Views, Untile(v) PROVE GeometryInv'
  <2>1. Nothing \in Boxes
    BY DEF Nothing, Boxes
  <2> QED  BY <1>3, <2>1, GrowInv DEF Untile
<1>4. ASSUME NEW v \in Views, Select(v) PROVE GeometryInv'
  BY <1>4, SelectInv DEF Select, FocusView
<1>5. ASSUME NEW d \in Directions, FocusKey(d) PROVE GeometryInv'
  BY <1>5, SelectInv DEF FocusKey, FocusView
<1>6. ASSUME NEW d \in Directions, MoveKey(d) PROVE GeometryInv'
  <2>1. onShow /\ UNCHANGED <<split, ratio, usable, onShow>> /\ Arrange(box)
    BY <1>6 DEF MoveKey
  <2> QED  BY <1>1, <2>1, SettleInv
<1>7. ASSUME NEW d \in Deltas, Resize(d[1], d[2]) PROVE GeometryInv'
  <2>1. d[1] \in Int /\ d[2] \in Int
    OBVIOUS
  <2> QED  BY <1>7, <2>1, ResizeInv
<1>8. ASSUME NEW v \in Views, NEW s \in Spots, Drop(v, s[1], s[2]) PROVE GeometryInv'
  BY <1>8, DropInv
<1>9. ASSUME NEW a \in Areas, Panel(a) PROVE GeometryInv'
  <2>1. usable' = a /\ UNCHANGED <<split, ratio, onShow>> /\ Settle(box)
    BY <1>9 DEF Panel
  <2> QED  BY <1>1, <2>1, SettleInv
<1>10. CASE Switch
  <2>1. onShow' = ~ onShow /\ UNCHANGED <<split, ratio, usable>> /\ Settle(box)
    BY <1>10 DEF Switch
  <2> QED  BY <1>1, <2>1, SettleInv
<1>11. CASE UNCHANGED geometry
  BY <1>11, SelectInv DEF geometry, vars, tree
<1> QED  BY <1>2, <1>3, <1>4, <1>5, <1>6, <1>7, <1>8, <1>9, <1>10, <1>11
         DEF GeometryNext

\* What is on show is laid out after every step.
THEOREM AlwaysLaidOut == GeometrySpec => []GeometryInv
<1>1. GeometryInv => IInv
  BY DEF GeometryInv
<1> QED  BY <1>1, InitGeometry, TreeInvariant, GeometryNextInv, PTL DEF GeometrySpec

\* On a workspace on show every window has some room inside the usable area and
\* none overlaps another, for any number of windows, any gaps, any resizing and
\* any area.
THEOREM AlwaysTiled == GeometrySpec => []WindowsTile
BY AlwaysLaidOut, LaidTiles, PTL
-----------------------------------------------------------------------------
(* From the leaves up                                                      *)

\* A set of natural numbers has a least one.
LEMMA LeastOf ==
    ASSUME NEW T, T \subseteq Nat, T # {}
    PROVE  \E m \in T : \A n \in T : m <= n
<1>1. PICK m \in T : \A n \in T : ~ (<<n, m>> \in OpToRel(<, Nat))
  BY NatLessThanWellFounded, WFMin
<1>2. ASSUME NEW n \in T PROVE m <= n
  <2>1. m \in Nat /\ n \in Nat /\ ~ (n < m)
    BY <1>1 DEF OpToRel
  <2> QED  BY <2>1
<1> QED  BY <1>2

\* A child has less below it than its parent.
LEMMA BelowShrinks ==
    ASSUME IInv, NEW n \in alloc, NEW c \in {left[n], right[n]}, c # NoNode
    PROVE  /\ c \in alloc /\ Below(c) \subseteq Below(n)
           /\ n \in Below(n) /\ n \notin Below(c)
<1> DEFINE B == Below(c)
<1>1. /\ n \in Nodes /\ c \in alloc /\ c \in Nodes /\ parent[c] = n /\ c # root
      /\ alloc \in SUBSET Nodes
  BY Types, Child DEF IInv
<1>2. n \in Below(n) /\ Closed(Below(n)) /\ Below(n) \in SUBSET Nodes
  BY <1>1, BelowIsClosed DEF IInv
<1>3. B \subseteq Below(n)
  <2>1. c \in Below(n)
    BY <1>2 DEF Closed
  <2> QED  BY <1>1, <1>2, <2>1, BelowClosed
<1>4. /\ B \in SUBSET Nodes /\ c \in B /\ Closed(B)
  BY <1>1, BelowIsClosed DEF IInv
<1>5. Closed(alloc)
  BY <1>1, Child DEF Closed, IInv
<1>6. B \subseteq alloc
  BY <1>1, <1>5, BelowClosed
<1>7. ASSUME NEW x \in B, x # c PROVE x # root /\ parent[x] \in B
  <2> DEFINE S == B \ {x}
  <2>1. ~ Closed(S)
    BY <1>1, <1>4, <1>7, BelowClosed
  <2>2. PICK k \in S : x \in {left[k], right[k]} /\ x # NoNode
    BY <2>1, <1>4 DEF Closed
  <2> QED  BY <2>2, <1>4, Child DEF IInv
<1>8. ASSUME n \in B PROVE FALSE
  <2>1. B \in SUBSET alloc /\ root \notin B /\ \A x \in B : parent[x] \in B
    BY <1>1, <1>6, <1>7, <1>8
  <2>2. root # NoNode
    BY DEF IInv, Reach
  <2> QED  BY <1>4, <2>1, <2>2, NoCycle DEF IInv
<1> QED  BY <1>1, <1>2, <1>3, <1>8

\* What is to be shown of every node may be shown of a node whose children have it:
\* some node of a set has no child there.
LEMMA Deepest ==
    ASSUME IInv, NEW X \in SUBSET alloc, X # {}
    PROVE  \E x \in X : left[x] \notin X /\ right[x] \notin X
<1> DEFINE size(x) == Cardinality(Below(x))
           T == {size(x) : x \in X}
<1>1. \A x \in alloc : /\ x \in Nodes /\ x # NoNode
                       /\ IsFiniteSet(Below(x)) /\ size(x) \in Nat
  <2> SUFFICES ASSUME NEW x \in alloc
               PROVE  /\ x \in Nodes /\ x # NoNode
                      /\ IsFiniteSet(Below(x)) /\ size(x) \in Nat
    OBVIOUS
  <2>1. x \in Nodes
    BY Types DEF IInv
  <2>2. Below(x) \subseteq Nodes /\ IsFiniteSet(Nodes)
    BY <2>1, BelowIsClosed DEF IInv
  <2> QED  BY <2>1, <2>2, FS_Subset, FS_CardinalityType
<1>2. T \subseteq Nat /\ T # {}
  BY <1>1
<1>3. PICK m \in T : \A n \in T : m <= n
  <2> HIDE DEF T
  <2> QED  BY <1>2, LeastOf
<1>4. PICK x \in X : \A y \in X : size(x) <= size(y)
  BY <1>3
<1>5. ASSUME NEW c \in {left[x], right[x]}, c \in X PROVE FALSE
  <2>1. c # NoNode /\ x \in alloc /\ c \in alloc
    BY <1>1, <1>5
  <2>2. Below(c) \subseteq Below(x) /\ x \in Below(x) /\ x \notin Below(c)
    BY <1>5, <2>1, BelowShrinks
  <2>3. Below(c) \subseteq Below(x) \ {x}
    BY <2>2
  <2>4. IsFiniteSet(Below(x) \ {x}) /\ Cardinality(Below(x) \ {x}) = size(x) - 1
    BY <1>1, <2>1, <2>2, FS_RemoveElement
  <2>5. size(c) <= size(x) - 1
    BY <2>3, <2>4, FS_Subset
  <2>6. size(x) \in Nat /\ size(c) \in Nat /\ size(x) <= size(c)
    BY <1>1, <1>4, <1>5, <2>1
  <2> HIDE DEF size
  <2> QED  BY <2>5, <2>6
<1> QED  BY <1>5

\* So below every node there is a leaf.
LEMMA LeafBelow ==
    ASSUME IInv, NEW n \in alloc
    PROVE  Below(n) \cap Leaves # {}
<1>1. /\ n \in Nodes /\ n \in Below(n) /\ Closed(Below(n))
      /\ alloc \in SUBSET Nodes /\ Closed(alloc)
  <2>1. alloc \in SUBSET Nodes
    BY Types DEF IInv
  <2>2. Closed(alloc)
    BY <2>1, Child DEF Closed, IInv
  <2> QED  BY <2>1, <2>2, BelowIsClosed DEF IInv
<1>2. Below(n) \in SUBSET alloc
  BY <1>1, BelowClosed
<1>3. PICK x \in Below(n) : left[x] \notin Below(n) /\ right[x] \notin Below(n)
  BY <1>1, <1>2, Deepest
<1>4. view[x] # NoView
  <2> SUFFICES ASSUME view[x] = NoView PROVE FALSE
    OBVIOUS
  <2>1. left[x] \in alloc /\ left[x] # NoNode
    BY <1>1, <1>2, <1>3 DEF IInv, TreeShape
  <2> QED  BY <1>1, <1>3, <2>1 DEF Closed
<1> QED  BY <1>2, <1>3, <1>4 DEF Leaves

-----------------------------------------------------------------------------
(* Where a window lands                                                    *)

\* A lone leaf is the root.
LEMMA LoneIsRoot ==
    ASSUME IInv, NEW t, Leaves = {t}
    PROVE  t = root
<1> SUFFICES ASSUME t # root PROVE FALSE
  OBVIOUS
<1> DEFINE p == parent[t]
           s == IF left[p] = t THEN right[p] ELSE left[p]
<1>1. t \in alloc /\ t \in Leaves
  BY DEF Leaves
<1>2. p \in alloc /\ t \in {left[p], right[p]}
  BY <1>1 DEF IInv, TreeShape
<1>3. t \in Nodes /\ p \in Nodes
  BY <1>1, <1>2, Types DEF IInv
<1>4. view[p] = NoView
  BY <1>2, <1>3, Child DEF IInv
<1>5. /\ left[p] \in alloc /\ right[p] \in alloc /\ left[p] # right[p]
      /\ parent[left[p]] = p /\ parent[right[p]] = p
  BY <1>2, <1>4 DEF IInv, TreeShape
<1>6. left[p] # root /\ right[p] # root
  BY <1>3, <1>5, Types, Child DEF IInv
<1>7. s \in alloc /\ s # t /\ s # root /\ parent[s] = parent[t]
  BY <1>2, <1>5, <1>6
<1> HIDE DEF s, p
<1>8. t \notin Below(s)
  BY <1>1, <1>7, SiblingApart DEF IInv
<1> QED  BY <1>7, <1>8, LeafBelow

\* The half of a box that the pointer is not on does not hold it; b is the box
\* Near judged by.
LEMMA HalfMissed ==
    ASSUME NEW b \in Boxes, NEW d \in Boxes, NEW x \in Int, NEW y \in Int,
           d.x + d.w \div 2 = b.x + b.w \div 2, d.y + d.h \div 2 = b.y + b.h \div 2,
           NEW across \in BOOLEAN, across <=> b.w > b.h,
           NEW first \in BOOLEAN, first <=> ~ Near(b, x, y),
           Roomy(IF across THEN d.w ELSE d.h)
    PROVE  ~ Holds(Part(d, across, 50, first), x, y)
<1> DEFINE room == IF across THEN d.w ELSE d.h
           s == Shares(room, 50)
<1>1. /\ d.x \in Int /\ d.y \in Int /\ d.w \in Int /\ d.h \in Int
      /\ b.x \in Int /\ b.y \in Int /\ b.w \in Int /\ b.h \in Int
  BY DEF Boxes
<1>2. /\ s.a \in Int /\ s.gap \in Nat
      /\ s.a <= room \div 2 /\ s.a + s.gap >= room \div 2
  <2> DEFINE gap  == IF room - GapsIn <= 0 THEN 0 ELSE GapsIn
             free == room - gap
             q    == (free * Clamp(50)) \div 100
             a0   == Max({1, q})
             a    == IF free - a0 < 1 THEN free - 1 ELSE a0
  <2>1. room \in Int /\ gap \in Nat /\ free \in Int /\ free >= 2 /\ free + gap = room
    <3>1. room \in Int /\ Roomy(room)
      BY <1>1
    <3> HIDE DEF room
    <3>2. gap \in Nat /\ free \in Int
      BY <3>1
    <3>3. free + gap = room
      BY <3>1, <3>2
    <3>4. free >= 2
      BY <3>1 DEF Roomy
    <3> QED  BY <3>1, <3>2, <3>3, <3>4
  <2>2. Clamp(50) = 50
    BY ClampHalf
  <2> HIDE DEF gap, room
  <2>3. q = free \div 2
    <3> HIDE DEF free
    <3>1. q = (free * 50) \div 100
      BY <2>2
    <3> QED  BY <2>1, <3>1
  <2> HIDE DEF q
  <2>4. a0 = q
    <3>1. q \in Int /\ q >= 1
      BY <2>1, <2>3
    <3>2. 1 \in Int
      OBVIOUS
    <3>3. a0 \in {1, q} /\ a0 >= q
      BY <3>1, <3>2, MaxOfTwo, Zenon
    <3> HIDE DEF a0
    <3> QED  BY <3>1, <3>3
  <2> HIDE DEF a0
  <2>5. a = free \div 2
    BY <2>1, <2>3, <2>4
  <2>6. s.a = a /\ s.gap = gap
    BY DEF Shares, gap, room, q, a0
  <2> HIDE DEF free, a, s
  <2>7. free \div 2 <= room \div 2 /\ free \div 2 + gap >= room \div 2
    BY <2>1
  <2>8. free \div 2 \in Int
    BY <2>1
  <2> QED  BY <2>1, <2>5, <2>6, <2>7, <2>8
<1> HIDE DEF s
<1>3. CASE across
  <2>1. Part(d, across, 50, first) = IF first THEN Box(d.x, d.y, s.a, d.h)
                                     ELSE Box(d.x + s.a + s.gap, d.y, s.b, d.h)
    BY <1>3 DEF Part, s
  <2>2. first <=> ~ (x < b.x + b.w \div 2)
    BY <1>3 DEF Near
  <2>3. CASE first
    <3> DEFINE P == Part(d, across, 50, first)
    <3>1. x >= d.x + s.a
      BY <1>1, <1>2, <1>3, <2>2, <2>3
    <3>2. P = Box(d.x, d.y, s.a, d.h)
      BY <2>1, <2>3
    <3> HIDE DEF P
    <3>3. P.x = d.x /\ P.w = s.a
      BY <3>2 DEF Box
    <3>4. ~ Holds(P, x, y)
      BY <3>1, <3>3, <1>1, <1>2 DEF Holds
    <3> QED  BY <3>4 DEF P
  <2>4. CASE ~ first
    <3>1. x < d.x + s.a + s.gap
      BY <1>1, <1>2, <1>3, <2>2, <2>4
    <3> QED  BY <1>1, <1>2, <2>1, <2>4, <3>1 DEF Box, Holds
  <2> QED  BY <2>3, <2>4
<1>4. CASE ~ across
  <2>1. Part(d, across, 50, first) = IF first THEN Box(d.x, d.y, d.w, s.a)
                                     ELSE Box(d.x, d.y + s.a + s.gap, d.w, s.b)
    BY <1>4 DEF Part, s
  <2>2. first <=> ~ (y < b.y + b.h \div 2)
    BY <1>4 DEF Near
  <2>3. CASE first
    <3> DEFINE P == Part(d, across, 50, first)
    <3>1. y >= d.y + s.a
      BY <1>1, <1>2, <1>4, <2>2, <2>3
    <3>2. P = Box(d.x, d.y, d.w, s.a)
      BY <2>1, <2>3
    <3> HIDE DEF P
    <3>3. P.y = d.y /\ P.h = s.a
      BY <3>2 DEF Box
    <3>4. ~ Holds(P, x, y)
      BY <3>1, <3>3, <1>1, <1>2 DEF Holds
    <3> QED  BY <3>4 DEF P
  <2>4. CASE ~ first
    <3>1. y < d.y + s.a + s.gap
      BY <1>1, <1>2, <1>4, <2>2, <2>4
    <3> QED  BY <1>1, <1>2, <2>1, <2>4, <3>1 DEF Box, Holds
  <2> QED  BY <2>3, <2>4
<1> QED  BY <1>3, <1>4

\* What LaidFits and LeafApart say of a workspace on show: where the boxes
\* are, and that what is not one of two sibling leaves keeps out of the box
\* that these share.
Tiled ==
    /\ \A n \in alloc : /\ ~ Empty(box[n])
                        /\ n = root => box[n] = TopBox
                        /\ n # root => box[n] = ChildBox(n)
    /\ \A p \in alloc, m \in Leaves :
         /\ view[p] = NoView /\ {left[p], right[p]} \subseteq Leaves
         /\ m \notin {left[p], right[p]}
         => Apart(box[p], box[m])
    /\ \A p \in alloc \ Leaves : Roomy(IF split[p] = "across" THEN box[p].w ELSE box[p].h)

LEMMA LaidTiled == GeometryInv /\ onShow /\ ~ Cramped => Tiled
<1> SUFFICES ASSUME GeometryInv, onShow, ~ Cramped PROVE Tiled
  OBVIOUS
<1>1. IInv /\ GeometryTypes /\ Laid
  BY DEF GeometryInv
<1>2. ASSUME NEW p \in alloc, NEW m \in Leaves, view[p] = NoView,
             {left[p], right[p]} \subseteq Leaves, m \notin {left[p], right[p]}
      PROVE  Apart(box[p], box[m])
  <2>1. m # p
    BY <1>2 DEF Leaves
  <2>2. m \notin Below(left[p]) /\ m \notin Below(right[p])
    BY <1>1, <1>2, BelowLeaf
  <2>3. m \notin Below(p)
    BY <1>1, <1>2, <2>1, <2>2, BelowSplits
  <2> QED  BY <1>1, <2>3, LeafApart
<1>3. ASSUME NEW p \in alloc \ Leaves
      PROVE  Roomy(IF split[p] = "across" THEN box[p].w ELSE box[p].h)
  <2> DEFINE room == IF split[p] = "across" THEN box[p].w ELSE box[p].h
  <2>1. room \in Int
    BY <1>1, Types DEF IInv, GeometryTypes, Boxes
  <2>2. ~ (room < 2 \/ room = GapsIn + 1)
    BY DEF Cramped
  <2> HIDE DEF room
  <2>3. Roomy(room)
    BY <2>1, <2>2 DEF Roomy
  <2> QED  BY <2>3 DEF room
<1> QED  BY <1>1, <1>2, <1>3, LaidFits DEF Tiled

\* A leaf t that is split gives its place to a new node p, and its half of the
\* box to the new leaf.
Grafted(v, t, leaf, p, before) ==
    /\ leaf \in Nodes \ alloc /\ p \in Nodes \ alloc /\ p # leaf
    /\ alloc' = alloc \cup {leaf, p}
    /\ view' = [view EXCEPT ![leaf] = v]
    /\ parent' = [n \in Nodes |-> IF n \in {t, leaf} THEN p
                                  ELSE IF n = p THEN parent[t]
                                  ELSE parent[n]]
    /\ left' = [Replaced(left, t, p) EXCEPT ![p] = IF before THEN leaf ELSE t]
    /\ right' = [Replaced(right, t, p) EXCEPT ![p] = IF before THEN t ELSE leaf]
    /\ root' = IF t = root THEN p ELSE root

LEMMA GraftFields ==
    ASSUME IInv, NEW v \in Views, NEW t \in Leaves, NEW leaf, NEW p,
           NEW before \in BOOLEAN, Grafted(v, t, leaf, p, before)
    PROVE  /\ t \in alloc /\ t \in Nodes /\ t # leaf /\ t # p /\ leaf # NoNode /\ p # NoNode
           /\ Leaves' = Leaves \cup {leaf}
           /\ view'[leaf] = v /\ view'[p] = NoView
           /\ \A n \in alloc : view'[n] = view[n] /\ n # leaf /\ n # p
           /\ parent'[t] = p /\ parent'[leaf] = p /\ parent'[p] = parent[t]
           /\ \A n \in alloc \ {t} : parent'[n] = parent[n]
           /\ left'[p] = (IF before THEN leaf ELSE t)
           /\ right'[p] = (IF before THEN t ELSE leaf)
           /\ \A n \in alloc : /\ left'[n] = IF left[n] = t THEN p ELSE left[n]
                             /\ right'[n] = IF right[n] = t THEN p ELSE right[n]
<1>1. /\ t \in alloc /\ t \in Nodes /\ alloc \subseteq Nodes
      /\ view \in [Nodes -> Views \cup {NoView}]
      /\ left \in [Nodes -> Nodes \cup {NoNode}] /\ Clean
  BY Types DEF IInv, Leaves
<1>2. /\ leaf \in Nodes /\ leaf \notin alloc /\ p \in Nodes /\ p \notin alloc /\ p # leaf
      /\ alloc' = alloc \cup {leaf, p}
      /\ \A n \in Nodes : view'[n] = IF n = leaf THEN v ELSE view[n]
  BY <1>1 DEF Grafted
<1>3. view[p] = NoView /\ v # NoView
  BY <1>1, <1>2 DEF Clean
<1>4. Leaves' = Leaves \cup {leaf}
  BY <1>1, <1>2, <1>3 DEF Leaves
<1>5. \A n \in Nodes : parent'[n] = IF n \in {t, leaf} THEN p
                                    ELSE IF n = p THEN parent[t] ELSE parent[n]
  BY DEF Grafted
<1>6. /\ left'[p] = (IF before THEN leaf ELSE t)
      /\ \A n \in alloc : left'[n] = IF left[n] = t THEN p ELSE left[n]
  BY <1>1, <1>2 DEF Grafted, Replaced
<1>7. /\ right'[p] = (IF before THEN t ELSE leaf)
      /\ \A n \in alloc : right'[n] = IF right[n] = t THEN p ELSE right[n]
  BY <1>1, <1>2 DEF Grafted, Replaced
<1> QED  BY <1>1, <1>2, <1>3, <1>4, <1>5, <1>6, <1>7

\* As long as the root keeps its box every node does, and the new node has the
\* box of the leaf whose place it takes.
LEMMA GraftKeeps ==
    ASSUME GeometryInv, onShow, Tiled', TopBox' = TopBox,
           NEW v \in Views, NEW t \in Leaves, NEW leaf, NEW p,
           NEW before \in BOOLEAN, Grafted(v, t, leaf, p, before),
           \A n \in alloc : split'[n] = split[n] /\ ratio'[n] = ratio[n]
    PROVE  box'[p] = box[t]
<1> DEFINE star(n) == IF n = t THEN p ELSE n
<1>1. IInv /\ GeometryTypes /\ Laid
  BY DEF GeometryInv
<1>2. PICK told \in [alloc -> BOOLEAN] : \A n \in alloc :
          IF n = root THEN told[n] /\ box[n] = TopBox
          ELSE told[parent[n]] /\ ~ Empty(box[parent[n]]) =>
                 told[n] /\ box[n] = ChildBox(n)
  BY <1>1 DEF Laid
<1>3. /\ t \in alloc /\ t # leaf /\ t # p
      /\ \A n \in alloc : n # leaf /\ n # p
      /\ parent'[p] = parent[t]
      /\ \A n \in alloc \ {t} : parent'[n] = parent[n]
      /\ \A n \in alloc : left'[n] = IF left[n] = t THEN p ELSE left[n]
      /\ alloc' = alloc \cup {leaf, p}
      /\ root' = IF t = root THEN p ELSE root
  <2>1. /\ t \in alloc /\ t # leaf /\ t # p
        /\ \A n \in alloc : n # leaf /\ n # p
        /\ parent'[p] = parent[t]
        /\ \A n \in alloc \ {t} : parent'[n] = parent[n]
        /\ \A n \in alloc : left'[n] = IF left[n] = t THEN p ELSE left[n]
    BY <1>1, GraftFields
  <2>2. alloc' = alloc \cup {leaf, p} /\ root' = IF t = root THEN p ELSE root
    BY DEF Grafted
  <2> QED  BY <2>1, <2>2
<1>4. \A n \in alloc' : /\ ~ Empty(box'[n])
                        /\ n = root' => box'[n] = TopBox'
                        /\ n # root' => box'[n] = ChildBox(n)'
  BY DEF Tiled
<1> DEFINE Kept(n) == told[n] /\ box'[star(n)] = box[n]
           X == {n \in alloc : ~ Kept(n)}
<1>5. root \in alloc => Kept(root)
  <2>1. star(root) = root' /\ (root \in alloc => root' \in alloc')
    BY <1>3
  <2> HIDE DEF star
  <2> QED  BY <1>2, <1>4, <2>1
<1>6. ASSUME NEW x \in alloc, x # root, Kept(parent[x]) PROVE Kept(x)
  <2> DEFINE q == parent[x]
  <2>1. /\ q \in alloc /\ q # t
    <3>1. q \in alloc /\ x \in {left[q], right[q]}
      BY <1>1, <1>6 DEF IInv, TreeShape
    <3>2. x # NoNode
      BY <1>1, <1>6, Types DEF IInv
    <3>3. view[q] = NoView
      BY <1>1, <3>1, <3>2 DEF IInv, TreeShape
    <3> QED  BY <3>1, <3>3 DEF Leaves
  <2>2. star(q) = q /\ told[q] /\ box'[q] = box[q] /\ ~ Empty(box[q])
    BY <1>3, <1>4, <1>6, <2>1
  <2>3. told[x] /\ box[x] = ChildBox(x)
    BY <1>2, <1>6, <2>2
  <2>4. star(x) \in alloc' /\ star(x) # root' /\ parent'[star(x)] = q
    <3>1. CASE x = t
      <4>1. star(x) = p
        BY <3>1
      <4>2. p \in alloc' /\ parent'[p] = q
        BY <1>3, <3>1
      <4>3. p # root'
        <5>1. root \in alloc
          BY <1>1 DEF IInv, TreeShape, Reach
        <5>2. root' = root
          BY <1>3, <1>6, <3>1
        <5> QED  BY <1>3, <5>1, <5>2
      <4> HIDE DEF star
      <4> QED  BY <4>1, <4>2, <4>3
    <3>2. CASE x # t
      <4>1. star(x) = x
        BY <3>2
      <4>2. x \in alloc' /\ parent'[x] = q
        BY <1>3, <3>2
      <4>3. x # root'
        BY <1>3, <1>6, <3>2
      <4> HIDE DEF star
      <4> QED  BY <4>1, <4>2, <4>3
    <3> QED  BY <3>1, <3>2
  <2>5. left'[q] = star(x) <=> left[q] = x
    <3>1. left'[q] = IF left[q] = t THEN p ELSE left[q]
      BY <1>3, <2>1
    <3>2. CASE left[q] = t
      BY <1>3, <3>1, <3>2
    <3>3. CASE left[q] # t
      <4>1. left[q] # p
        <5>1. q \in alloc /\ p \notin alloc /\ p \in Nodes /\ q # NoNode
          BY <1>1, <2>1, Types DEF Grafted, IInv
        <5>2. left[q] = NoNode \/ left[q] \in alloc
          BY <1>1, <5>1 DEF IInv, TreeShape
        <5> QED  BY <5>1, <5>2
      <4> QED  BY <1>3, <3>1, <3>3, <4>1
    <3> QED  BY <3>2, <3>3
  <2>6. split'[q] = split[q] /\ ratio'[q] = ratio[q]
    BY <2>1
  <2>7. box'[star(x)] = ChildBox(star(x))'
    BY <1>4, <2>4
  <2> DEFINE first == left[q] = x
             first1 == left'[q] = star(x)
  <2>8. first1 = first
    BY <2>5
  <2>9. ChildBox(star(x))' = Part(box[q], split[q] = "across", ratio[q], first1)
    <3> HIDE DEF star
    <3> QED  BY <2>2, <2>4, <2>6 DEF ChildBox
  <2>10. ChildBox(x) = Part(box[q], split[q] = "across", ratio[q], first)
    BY DEF ChildBox
  <2> HIDE DEF first, first1, star
  <2> QED  BY <2>3, <2>7, <2>8, <2>9, <2>10
<1>7. X = {}
  <2>1. X \in SUBSET alloc /\ root \notin X
    BY <1>5
  <2> HIDE DEF Kept
  <2>2. ASSUME NEW x \in X PROVE parent[x] \in X
    <3>1. x # root /\ parent[x] \in alloc
      BY <1>1, <2>1, <2>2 DEF IInv, TreeShape
    <3> QED  BY <1>6, <2>2, <3>1
  <2> HIDE DEF X
  <2> QED  BY <1>1, <2>1, <2>2, RootedTree DEF Rooted
<1> HIDE DEF Kept
<1>8. Kept(t)
  BY <1>3, <1>7
<1> QED  BY <1>8 DEF Kept

\* Whatever the outer gap, the root's box has the middle and the longer side of
\* the usable area.
TopCentred == /\ TopBox.x + TopBox.w \div 2 = usable.x + usable.w \div 2
              /\ TopBox.y + TopBox.h \div 2 = usable.y + usable.h \div 2
              /\ TopBox.w > TopBox.h <=> usable.w > usable.h

LEMMA TopIsCentred == usable \in Areas => TopCentred
<1> SUFFICES ASSUME usable \in Areas PROVE TopCentred
  OBVIOUS
<1> DEFINE out == OuterGap(Cardinality(Leaves))
           gap == IF usable.w - 2 * out <= 0 \/ usable.h - 2 * out <= 0 THEN 0 ELSE out
           X == usable.x
           Y == usable.y
           W == usable.w
           H == usable.h
<1>1. out \in Nat
  BY DEF OuterGap
<1>2. X \in Int /\ Y \in Int /\ W \in Int /\ H \in Int
  OBVIOUS
<1> HIDE DEF out
<1>3. gap \in Nat
  BY <1>1
<1>4. TopBox = Box(X + gap, Y + gap, W - 2 * gap, H - 2 * gap)
  BY DEF TopBox, out
<1> HIDE DEF gap, X, Y, W, H
<1>5. TopBox.x = X + gap /\ TopBox.y = Y + gap /\ TopBox.w = W - 2 * gap /\ TopBox.h = H - 2 * gap
  BY <1>4 DEF Box
<1>6. /\ X + gap + (W - 2 * gap) \div 2 = X + W \div 2
      /\ Y + gap + (H - 2 * gap) \div 2 = Y + H \div 2
      /\ W - 2 * gap > H - 2 * gap <=> W > H
  BY <1>2, <1>3
<1> QED  BY <1>5, <1>6 DEF TopCentred, X, Y, W, H

\* The root's box only changes when there was a lone window.
LEMMA TopKeeps ==
    ASSUME IInv, usable' = usable, NEW t \in Leaves, NEW leaf, leaf \notin Leaves,
           Leaves' = Leaves \cup {leaf}, TopBox' # TopBox
    PROVE  Leaves = {t}
<1>1. IsFiniteSet(Leaves)
  <2>1. Leaves \subseteq Nodes /\ IsFiniteSet(Nodes)
    BY Types DEF IInv, Leaves
  <2> QED  BY <2>1, FS_Subset
<1> DEFINE c == Cardinality(Leaves)
           d == Cardinality(Leaves')
<1>2. c \in Nat /\ d = c + 1
  BY <1>1, FS_AddElement, FS_CardinalityType
<1>3. OuterGap(d) # OuterGap(c)
  <2> SUFFICES ASSUME OuterGap(d) = OuterGap(c) PROVE FALSE
    OBVIOUS
  <2>1. TopBox' = TopBox
    BY DEF TopBox
  <2> QED  BY <2>1
<1>4. c = 1 \/ d = 1
  BY <1>3 DEF OuterGap
<1>5. c # 0
  BY <1>1, FS_EmptySet
<1>6. c = 1
  BY <1>2, <1>4, <1>5
<1>7. Cardinality(Leaves \ {t}) = 0 /\ IsFiniteSet(Leaves \ {t})
  BY <1>1, <1>6, FS_RemoveElement
<1>8. Leaves \ {t} = {}
  BY <1>7, FS_EmptySet
<1> QED  BY <1>8

\* What is apart from a box does not hold what that holds.
LEMMA ApartHolds ==
    ASSUME NEW b \in Boxes, NEW d \in Boxes, NEW x \in Int, NEW y \in Int,
           Apart(b, d), Holds(b, x, y)
    PROVE  ~ Holds(d, x, y)
<1>1. /\ d.x \in Int /\ d.y \in Int /\ d.w \in Int /\ d.h \in Int
      /\ b.x \in Int /\ b.y \in Int /\ b.w \in Int /\ b.h \in Int
  BY DEF Boxes
<1> QED  BY <1>1 DEF Apart, Holds

LEMMA DropLands ==
    ASSUME GeometryInv, GeometryInv', NEW v \in Views, NEW x \in Int, NEW y \in Int,
           Drop(v, x, y), ViewAt(x, y) # {}, ~ Cramped', NEW u \in HeldViews
    PROVE  ~ Holds(BoxOf(u)', x, y)
<1>1. PICK under \in ViewAt(x, y) :
         /\ Split(v, TheLeaf(under), Near(BoxOf(under), x, y))
         /\ Grow(BoxOf(under))
  BY DEF Drop
<1>2. /\ IInv /\ GeometryTypes /\ IInv' /\ onShow /\ onShow' /\ usable' = usable
      /\ box' \in [Nodes -> Boxes] /\ box \in [Nodes -> Boxes] /\ usable \in Areas
  BY DEF GeometryInv, GeometryTypes, Drop
<1>3. PICK t \in Leaves, b \in Boxes :
         t = TheLeaf(under) /\ b = BoxOf(under) /\ b = box[t] /\ Holds(b, x, y)
  <2>1. under \in HeldViews /\ Holds(BoxOf(under), x, y)
    BY ForemostFinds DEF ViewAt
  <2>2. TheLeaf(under) \in Leaves
    BY <2>1, TheLeafIsOne
  <2>3. TheLeaf(under) \in Nodes
    BY <1>2, <2>2, Types DEF IInv, Leaves
  <2>4. BoxOf(under) = box[TheLeaf(under)] /\ BoxOf(under) \in Boxes
    BY <1>2, <2>3 DEF BoxOf
  <2> QED  BY <2>1, <2>2, <2>4
<1>4. PICK before \in BOOLEAN : (before <=> Near(b, x, y)) /\ Split(v, t, before)
  <2> DEFINE near == Near(b, x, y)
  <2>1. Split(v, t, near)
    BY <1>1, <1>3
  <2> HIDE DEF near
  <2>2. CASE near
    <3>1. Split(v, t, TRUE)
      BY <2>1, <2>2 DEF Split
    <3> QED  BY <2>2, <3>1 DEF near
  <2>3. CASE ~ near
    <3>1. Split(v, t, FALSE)
      BY <2>1, <2>3 DEF Split
    <3> QED  BY <2>3, <3>1 DEF near
  <2> QED  BY <2>2, <2>3
<1>5. PICK leaf \in Nodes \ alloc, p \in Nodes \ alloc : Grafted(v, t, leaf, p, before)
  <2>1. Split(v, t, before)
    BY <1>4
  <2> QED  BY <2>1, Zenon DEF Split, Grafted
<1>6. /\ t \in alloc /\ t \in Nodes /\ t # leaf /\ t # p
      /\ Leaves' = Leaves \cup {leaf} /\ leaf \notin Leaves
      /\ view'[leaf] = v /\ view'[p] = NoView
      /\ \A n \in alloc : view'[n] = view[n] /\ n # leaf /\ n # p
      /\ parent'[t] = p
      /\ left'[p] = (IF before THEN leaf ELSE t)
      /\ right'[p] = (IF before THEN t ELSE leaf)
  <2>1. Leaves \subseteq alloc
    BY DEF Leaves
  <2> QED  BY <1>2, <1>3, <1>5, <2>1, GraftFields
<1>7. /\ p \in Nodes /\ leaf \in Nodes /\ p \notin alloc /\ leaf \notin alloc
      /\ alloc' = alloc \cup {leaf, p} /\ alloc \subseteq Nodes
      /\ root' = IF t = root THEN p ELSE root
  BY <1>2, <1>5, Types DEF Grafted, IInv
<1>8. Tiled'
  <2>1. GeometryInv' /\ (onShow)' /\ (~ Cramped)'
    BY <1>2
  <2> QED  BY <2>1, LaidTiled, PTL
<1> DEFINE k == TheLeaf(u)
<1>9. k \in Leaves /\ BoxOf(u)' = box'[k]
  <2>1. k \in Leaves /\ view[k] = u /\ k \in alloc
    BY TheLeafIsOne DEF Leaves
  <2>2. k \in Leaves' /\ view'[k] = u /\ k \in alloc'
    BY <1>6, <1>7, <2>1
  <2>3. u # NoView
    BY <2>1 DEF Leaves
  <2>4. \A n \in LeafOf(u)' : n = k
    BY <1>2, <2>2, <2>3 DEF IInv, OneLeafPerView, LeafOf, Leaves
  <2>5. k \in LeafOf(u)'
    BY <2>2 DEF LeafOf
  <2>6. TheLeaf(u)' = k
    <3> HIDE DEF k
    <3> QED  BY <2>4, <2>5 DEF TheLeaf
  <2> QED  BY <2>1, <2>6 DEF BoxOf
<1> HIDE DEF k
<1>10. /\ split'[p] = IF b.w > b.h THEN "across" ELSE "down"
       /\ ratio'[p] = 50
       /\ \A n \in alloc : split'[n] = split[n] /\ ratio'[n] = ratio[n]
  <2> DEFINE new  == {n \in alloc' \ alloc : view'[n] = NoView}
             gone == Nodes \ alloc'
  <2>1. /\ split' = [n \in Nodes |-> IF n \in new /\ b.w > b.h THEN "across"
                                     ELSE IF n \in new \cup gone THEN "down" ELSE split[n]]
        /\ ratio' = [n \in Nodes |-> IF n \in new \cup gone THEN 50 ELSE ratio[n]]
    BY <1>1, <1>3 DEF Grow
  <2>2. p \in new /\ \A n \in alloc : n \notin new \cup gone /\ n \in Nodes
    BY <1>6, <1>7
  <2> HIDE DEF new, gone
  <2> QED  BY <1>7, <2>1, <2>2
<1> DEFINE d == box'[p]
           across == split'[p] = "across"
           first  == left'[p] = t
<1>11. d \in Boxes
  BY <1>2, <1>7
<1>12. across \in BOOLEAN /\ (across <=> b.w > b.h)
  BY <1>10
<1>13. first \in BOOLEAN /\ (first <=> ~ Near(b, x, y))
  <2>1. first <=> ~ before
    <3>1. CASE before
      BY <1>6, <3>1
    <3>2. CASE ~ before
      BY <1>6, <3>2
    <3> QED  BY <3>1, <3>2
  <2> QED  BY <1>4, <2>1
<1>14. box'[t] = Part(d, across, 50, first)
  <2>1. t \in alloc' /\ t # root'
    BY <1>6, <1>7
  <2>2. box'[t] = ChildBox(t)'
    BY <1>8, <2>1 DEF Tiled
  <2> QED  BY <1>6, <1>10, <2>2 DEF ChildBox
<1>15. Roomy(IF across THEN d.w ELSE d.h)
  <2>1. p \in alloc' \ Leaves'
    BY <1>6, <1>7 DEF Leaves
  <2> QED  BY <1>8, <2>1 DEF Tiled
<1> HIDE DEF d, across, first
<1>16. CASE TopBox' = TopBox
  <2>1. d = b
    BY <1>2, <1>3, <1>5, <1>8, <1>10, <1>16, GraftKeeps DEF d
  <2>2. CASE k = t
    <3>1. ~ Holds(Part(d, across, 50, first), x, y)
      BY <1>3, <1>11, <1>12, <1>13, <1>15, <2>1, HalfMissed
    <3> QED  BY <1>9, <1>14, <2>2, <3>1
  <2>3. CASE k # t
    <3>1. /\ p \in alloc' /\ k \in Leaves' /\ view'[p] = NoView
          /\ {left'[p], right'[p]} \subseteq Leaves'
          /\ k \notin {left'[p], right'[p]}
      BY <1>3, <1>6, <1>7, <1>9, <2>3
    <3>2. Apart(box'[p], box'[k])
      BY <1>8, <3>1 DEF Tiled
    <3>3. box'[k] \in Boxes
      BY <1>2, <1>7, <1>9 DEF Leaves
    <3>4. Apart(b, box'[k])
      BY <2>1, <3>2 DEF d
    <3> QED  BY <1>3, <1>9, <3>3, <3>4, ApartHolds
  <2> QED  BY <2>2, <2>3
<1>17. CASE TopBox' # TopBox
  <2>1. Leaves = {t}
    BY <1>2, <1>3, <1>6, <1>17, TopKeeps
  <2>2. t = root /\ root' = p /\ k = t
    BY <1>2, <1>7, <1>9, <2>1, LoneIsRoot
  <2>3. d = TopBox'
    BY <1>7, <1>8, <2>2 DEF Tiled, d
  <2>4. b = TopBox
    <3>1. Laid
      BY <1>2 DEF GeometryInv
    <3> QED  BY <1>3, <1>6, <2>2, <3>1 DEF Laid
  <2>5. TopCentred'
    <3>1. (usable \in Areas)'
      BY <1>2
    <3> QED  BY <3>1, TopIsCentred, PTL
  <2>6. /\ d.x + d.w \div 2 = usable.x + usable.w \div 2
        /\ d.y + d.h \div 2 = usable.y + usable.h \div 2
    BY <1>2, <2>3, <2>5 DEF TopCentred
  <2>7. /\ b.x + b.w \div 2 = usable.x + usable.w \div 2
        /\ b.y + b.h \div 2 = usable.y + usable.h \div 2
    BY <1>2, <2>4, TopIsCentred DEF TopCentred
  <2>8. ~ Holds(Part(d, across, 50, first), x, y)
    BY <1>3, <1>11, <1>12, <1>13, <1>15, <2>6, <2>7, HalfMissed
  <2> QED  BY <1>9, <1>14, <2>2, <2>8
<1> QED  BY <1>16, <1>17

\* A window that is dropped on another lands under the pointer, for any tree,
\* boxes, gaps and spot.
THEOREM DropsLand == GeometrySpec => LandsUnderPointer
<1>1. ASSUME GeometryInv, GeometryInv', NEW v \in Views, NEW s \in Spots,
             Drop(v, s[1], s[2]), ViewAt(s[1], s[2]) # {}, ~ Cramped',
             NEW u \in HeldViews
      PROVE  ~ Holds(BoxOf(u)', s[1], s[2])
  <2>1. s[1] \in Int /\ s[2] \in Int
    OBVIOUS
  <2> QED  BY <1>1, <2>1, DropLands
<1>2. GeometryInv /\ GeometryInv' =>
        \A v \in Views, s \in Spots :
          Drop(v, s[1], s[2]) /\ ViewAt(s[1], s[2]) # {} /\ ~ Cramped' =>
            \A u \in HeldViews : ~ Holds(BoxOf(u)', s[1], s[2])
  BY <1>1
<1> QED  BY <1>2, AlwaysLaidOut, PTL DEF LandsUnderPointer
-----------------------------------------------------------------------------
(* The order of the tree                                                   *)

\* What InOrder says of a node, given what it says of the children.
Visits(k, f) == IF view[k] # NoView THEN <<view[k]>> ELSE f[left[k]] \o f[right[k]]

\* A part of the tree that no child pointer leaves, and the views of each of its
\* subtrees.
Ordered(P, f) == /\ P \subseteq alloc /\ Closed(P)
                 /\ \A k \in P : f[k] = Visits(k, f)

\* Two of these agree.
LEMMA OrdersAgree ==
    ASSUME IInv, NEW P, NEW f, Ordered(P, f), NEW Q, NEW g, Ordered(Q, g)
    PROVE  \A k \in P \cap Q : f[k] = g[k]
<1> DEFINE X == {k \in alloc : k \in P /\ k \in Q /\ f[k] # g[k]}
<1>1. SUFFICES ASSUME X # {} PROVE FALSE
  BY DEF Ordered
<1>2. PICK x \in X : left[x] \notin X /\ right[x] \notin X
  <2> HIDE DEF X
  <2>1. X \in SUBSET alloc
    BY DEF X
  <2> QED  BY <1>1, <2>1, Deepest
<1>3. f[x] = Visits(x, f) /\ g[x] = Visits(x, g) /\ f[x] # g[x] /\ x \in alloc
  BY <1>2 DEF Ordered
<1>4. view[x] = NoView
  BY <1>3 DEF Visits
<1>5. \A c \in {left[x], right[x]} : c \in alloc /\ c # NoNode
  BY <1>3, <1>4, Types DEF IInv, TreeShape
<1>6. \A c \in {left[x], right[x]} : c \in P /\ c \in Q
  BY <1>2, <1>5 DEF Ordered, Closed
<1>7. f[left[x]] = g[left[x]] /\ f[right[x]] = g[right[x]]
  BY <1>2, <1>5, <1>6
<1> QED  BY <1>3, <1>4, <1>7 DEF Visits

\* Every node is in one of these.
LEMMA OrdersReach ==
    ASSUME IInv, NEW n \in alloc
    PROVE  \E P, f : n \in P /\ f = [k \in alloc |-> f[k]] /\ Ordered(P, f)
<1> DEFINE In(x) == \E P, f : x \in P /\ f = [k \in alloc |-> f[k]] /\ Ordered(P, f)
           X == {x \in alloc : ~ In(x)}
<1>1. SUFFICES ASSUME X # {} PROVE FALSE
  OBVIOUS
<1>2. PICK x \in X : left[x] \notin X /\ right[x] \notin X
  <2> HIDE DEF X
  <2>1. X \in SUBSET alloc
    BY DEF X
  <2> QED  BY <1>1, <2>1, Deepest
<1>3. x \in alloc /\ ~ In(x)
  BY <1>2
<1>4. CASE view[x] # NoView
  <2> DEFINE f == [k \in alloc |-> <<view[x]>>]
  <2>1. left[x] = NoNode /\ right[x] = NoNode
    BY <1>3, <1>4 DEF IInv, TreeShape
  <2>2. Closed({x})
    BY <2>1 DEF Closed
  <2>3. f[x] = <<view[x]>> /\ f = [k \in alloc |-> f[k]]
    BY <1>3
  <2> HIDE DEF f
  <2>4. Ordered({x}, f)
    BY <1>3, <1>4, <2>2, <2>3 DEF Ordered, Visits
  <2> QED  BY <1>3, <2>3, <2>4
<1>5. CASE view[x] = NoView
  <2>1. left[x] \in alloc /\ right[x] \in alloc
    BY <1>3, <1>5 DEF IInv, TreeShape
  <2>2. In(left[x]) /\ In(right[x])
    BY <1>2, <2>1
  <2> HIDE DEF X
  <2>3. PICK P, f : left[x] \in P /\ f = [k \in alloc |-> f[k]] /\ Ordered(P, f)
    BY <2>2, Zenon
  <2>4. PICK Q, g : right[x] \in Q /\ g = [k \in alloc |-> g[k]] /\ Ordered(Q, g)
    BY <2>2, Zenon
  <2>5. x \notin P /\ x \notin Q
    BY <1>3, <2>3, <2>4
  <2> HIDE DEF In
  <2> DEFINE R == P \cup Q \cup {x}
             h == [k \in alloc |-> IF k = x THEN f[left[x]] \o g[right[x]]
                                   ELSE IF k \in P THEN f[k] ELSE g[k]]
  <2>6. /\ h = [k \in alloc |-> h[k]]
        /\ h[x] = f[left[x]] \o g[right[x]]
        /\ \A k \in alloc : k # x => h[k] = IF k \in P THEN f[k] ELSE g[k]
    BY <1>3
  <2> HIDE DEF h
  <2>7. \A k \in P \cap Q : f[k] = g[k]
    BY <2>3, <2>4, OrdersAgree
  <2>8. /\ P \subseteq alloc /\ Q \subseteq alloc
        /\ \A k \in P : h[k] = f[k]
        /\ \A k \in Q : h[k] = g[k]
    BY <2>3, <2>4, <2>5, <2>6, <2>7 DEF Ordered
  <2>9. /\ \A k \in P : \A c \in {left[k], right[k]} : c # NoNode => c \in P
        /\ \A k \in Q : \A c \in {left[k], right[k]} : c # NoNode => c \in Q
    BY <2>3, <2>4 DEF Ordered, Closed
  <2>10. \A k \in alloc : view[k] = NoView => left[k] # NoNode /\ right[k] # NoNode
    BY Types DEF IInv, TreeShape
  <2>11. ASSUME NEW k \in R PROVE h[k] = Visits(k, h)
    <3>1. CASE k = x
      BY <3>1, <1>5, <2>3, <2>4, <2>6, <2>8 DEF Visits
    <3>2. CASE k \in P
      <4>1. h[k] = f[k] /\ f[k] = Visits(k, f) /\ k \in alloc
        BY <3>2, <2>3, <2>8 DEF Ordered
      <4>2. view[k] = NoView => h[left[k]] = f[left[k]] /\ h[right[k]] = f[right[k]]
        BY <3>2, <4>1, <2>8, <2>9, <2>10
      <4> QED  BY <4>1, <4>2 DEF Visits
    <3>3. CASE k \in Q
      <4>1. h[k] = g[k] /\ g[k] = Visits(k, g) /\ k \in alloc
        BY <3>3, <2>4, <2>8 DEF Ordered
      <4>2. view[k] = NoView => h[left[k]] = g[left[k]] /\ h[right[k]] = g[right[k]]
        BY <3>3, <4>1, <2>8, <2>9, <2>10
      <4> QED  BY <4>1, <4>2 DEF Visits
    <3> QED  BY <3>1, <3>2, <3>3
  <2>12. Closed(R)
    BY <2>3, <2>4, <2>9 DEF Closed
  <2>13. Ordered(R, h) /\ x \in R
    <3> HIDE DEF R
    <3>1. R \subseteq alloc /\ x \in R
      BY <1>3, <2>8 DEF R
    <3> QED  BY <3>1, <2>11, <2>12 DEF Ordered
  <2>14. In(x)
    <3> HIDE DEF R
    <3> QED  BY <2>6, <2>13, Zenon DEF In
  <2> QED  BY <1>3, <2>14
<1> QED  BY <1>4, <1>5

\* So InOrder is what its recursion says,
LEMMA OrderIsTotal ==
    ASSUME IInv, root # NoNode
    PROVE  \E f : InOrder(root) = f[root] /\ Ordered(alloc, f)
<1>1. root \in alloc
  BY DEF IInv, TreeShape
<1>2. PICK P, h : root \in P /\ h = [k \in alloc |-> h[k]] /\ Ordered(P, h)
  BY <1>1, OrdersReach, Zenon
<1>3. P = alloc
  <2>1. P \in SUBSET Nodes /\ root \in P /\ Closed(P)
    BY <1>2, Types DEF Ordered, IInv
  <2> QED  BY <1>2, <2>1 DEF IInv, Reach, Ordered
<1> DEFINE Is(f) == f = [k \in alloc |-> IF view[k] # NoView THEN <<view[k]>>
                                         ELSE f[left[k]] \o f[right[k]]]
           views == CHOOSE f : Is(f)
<1>4. Is(h)
  <2>1. \A k \in alloc : h[k] = IF view[k] # NoView THEN <<view[k]>>
                                ELSE h[left[k]] \o h[right[k]]
    BY <1>2, <1>3 DEF Ordered, Visits
  <2> QED  BY <1>2, <2>1
<1>5. Is(views)
  <2> HIDE DEF Is
  <2> QED  BY <1>4
<1>6. InOrder(root) = views[root]
  BY DEF InOrder
<1> HIDE DEF views
<1>7. Ordered(alloc, views)
  <2>1. \A k \in alloc : views[k] = Visits(k, views)
    BY <1>5 DEF Visits
  <2>2. Closed(alloc)
    BY <1>2, <1>3 DEF Ordered
  <2> QED  BY <2>1, <2>2 DEF Ordered
<1> QED  BY <1>6, <1>7

\* and lists every view of the tree.
LEMMA OrderListsAll ==
    ASSUME IInv, root # NoNode
    PROVE  /\ InOrder(root) \in Seq(Views)
           /\ \A m \in Leaves : \E i \in DOMAIN InOrder(root) : InOrder(root)[i] = view[m]
<1>1. PICK f : InOrder(root) = f[root] /\ Ordered(alloc, f)
  BY OrderIsTotal
<1> DEFINE Lists(n) == /\ f[n] \in Seq(Views)
                       /\ \A m \in Leaves : m \in Below(n) =>
                            \E i \in DOMAIN f[n] : f[n][i] = view[m]
           X == {n \in alloc : ~ Lists(n)}
<1>2. X = {}
  <2>1. SUFFICES ASSUME X # {} PROVE FALSE
    OBVIOUS
  <2>2. PICK x \in X : left[x] \notin X /\ right[x] \notin X
    <3> HIDE DEF X
    <3>1. X \in SUBSET alloc
      BY DEF X
    <3> QED  BY <2>1, <3>1, Deepest
  <2>3. x \in alloc /\ x \in Nodes /\ f[x] = Visits(x, f)
    BY <1>1, <2>2, Types DEF Ordered, IInv
  <2>4. CASE view[x] # NoView
    <3>1. f[x] = <<view[x]>> /\ view[x] \in Views
      BY <2>3, <2>4, Types DEF Visits, IInv
    <3>2. f[x] \in Seq(Views) /\ 1 \in DOMAIN f[x] /\ f[x][1] = view[x]
      BY <3>1
    <3>3. Below(x) \subseteq {x}
      BY <2>3, <2>4, BelowLeaf DEF Leaves
    <3>4. Lists(x)
      BY <3>2, <3>3
    <3> QED  BY <2>2, <3>4
  <2>5. CASE view[x] = NoView
    <3> DEFINE l == f[left[x]]
               r == f[right[x]]
    <3>1. left[x] \in alloc /\ right[x] \in alloc
      BY <2>3, <2>5 DEF IInv, TreeShape
    <3>2. Lists(left[x]) /\ Lists(right[x])
      BY <2>2, <3>1
    <3>3. l \in Seq(Views) /\ r \in Seq(Views) /\ f[x] = l \o r
      BY <2>3, <2>5, <3>2 DEF Visits
    <3>4. /\ \A i \in DOMAIN l : i \in DOMAIN f[x] /\ f[x][i] = l[i]
          /\ \A i \in DOMAIN r : Len(l) + i \in DOMAIN f[x] /\ f[x][Len(l) + i] = r[i]
      <4> HIDE DEF l, r
      <4> QED  BY <3>3
    <3>5. f[x] \in Seq(Views)
      <4> HIDE DEF l, r
      <4> QED  BY <3>3
    <3>6. ASSUME NEW m \in Leaves, m \in Below(x)
          PROVE  \E i \in DOMAIN f[x] : f[x][i] = view[m]
      <4>1. m # x
        BY <2>5 DEF Leaves
      <4>2. m \in Below(left[x]) \/ m \in Below(right[x])
        BY <2>3, <2>5, <3>6, <4>1, BelowSplits
      <4>3. (\E i \in DOMAIN l : l[i] = view[m]) \/ (\E i \in DOMAIN r : r[i] = view[m])
        BY <3>2, <4>2
      <4> HIDE DEF l, r
      <4> QED  BY <3>4, <4>3
    <3>7. Lists(x)
      BY <3>5, <3>6
    <3> QED  BY <2>2, <3>7
  <2> QED  BY <2>4, <2>5
<1>3. root \in alloc /\ Leaves \subseteq Below(root)
  BY ReachIsNoLeak DEF IInv, TreeShape, NoLeak, Leaves
<1>4. Lists(root)
  BY <1>2, <1>3
<1> QED  BY <1>1, <1>3, <1>4

\* A search among windows of the tree finds one, if there is any.
LEMMA ForemostFindsOne ==
    ASSUME IInv, NEW windows \in SUBSET HeldViews, windows # {}
    PROVE  Foremost(windows) # {}
<1> DEFINE order == InOrder(root)
           T == {i \in DOMAIN order : order[i] \in windows}
<1>1. PICK v : v \in windows
  OBVIOUS
<1>2. PICK m \in Leaves : view[m] = v
  BY <1>1 DEF HeldViews
<1>3. root # NoNode
  BY <1>2 DEF IInv, Reach, Leaves
<1>4. /\ order \in Seq(Views)
      /\ \E i \in DOMAIN order : order[i] = view[m]
  BY <1>3, OrderListsAll
<1> HIDE DEF order
<1>5. T \subseteq Nat /\ T # {} /\ DOMAIN order = 1..Len(order) /\ Len(order) \in Nat
  BY <1>1, <1>2, <1>4
<1>6. PICK i \in T : \A j \in T : i <= j
  <2> HIDE DEF T
  <2> QED  BY <1>5, LeastOf
<1>7. i \in DOMAIN order /\ order[i] \in windows /\ i \in 1..Len(order)
  BY <1>5, <1>6
<1>8. ASSUME NEW j \in 1..i - 1 PROVE order[j] \notin windows
  <2>1. j \in 1..Len(order) /\ ~ (i <= j)
    BY <1>5, <1>7
  <2> QED  BY <1>5, <1>6, <2>1
<1>9. order[i] \in Foremost(windows)
  BY <1>7, <1>8, Zenon DEF Foremost, order
<1> QED  BY <1>9
-----------------------------------------------------------------------------
(* From window to window                                                   *)

\* A box seen in a direction: where it begins and ends on the way there, and
\* across it.
Rear(b, d) == CASE d = "right" -> b.x
                [] d = "left"  -> - (b.x + b.w)
                [] d = "down"  -> b.y
                [] d = "up"    -> - (b.y + b.h)
Fore(b, d) == CASE d = "right" -> b.x + b.w
                [] d = "left"  -> - b.x
                [] d = "down"  -> b.y + b.h
                [] d = "up"    -> - b.y
Low(b, d)  == IF d \in {"left", "right"} THEN b.y ELSE b.x
High(b, d) == IF d \in {"left", "right"} THEN b.y + b.h ELSE b.x + b.w

\* Two boxes with the gap between them.
Clear(a, b) == \/ a.x + a.w + GapsIn <= b.x \/ b.x + b.w + GapsIn <= a.x
               \/ a.y + a.h + GapsIn <= b.y \/ b.y + b.h + GapsIn <= a.y

LEMMA BoxInts ==
    ASSUME NEW b \in Boxes
    PROVE  b.x \in Int /\ b.y \in Int /\ b.w \in Int /\ b.h \in Int
BY DEF Boxes

\* A box with room begins before it ends.
LEMMA Sides ==
    ASSUME NEW b \in Boxes, ~ Empty(b), NEW d \in Directions
    PROVE  /\ Rear(b, d) \in Int /\ Fore(b, d) \in Int
           /\ Low(b, d) \in Int /\ High(b, d) \in Int
           /\ Rear(b, d) < Fore(b, d) /\ Low(b, d) < High(b, d)
BY BoxInts DEF Empty, Directions, Rear, Fore, Low, High

\* What the search measures, in these terms.
LEMMA Measures ==
    ASSUME NEW b \in Boxes, NEW c \in Boxes, NEW d \in Directions
    PROVE  /\ Ahead(b, c, d) = Rear(b, d) - Fore(c, d)
           /\ Aside(b, c, d) \in Nat
           /\ Aside(b, c, d) >= Low(c, d) - High(b, d)
           /\ Aside(b, c, d) >= Low(b, d) - High(c, d)
           /\ Low(b, d) <= High(c, d) /\ Low(c, d) <= High(b, d) => Aside(b, c, d) = 0
<1> DEFINE s == Low(c, d) - High(b, d)
           t == Low(b, d) - High(c, d)
<1>1. /\ b.x \in Int /\ b.y \in Int /\ b.w \in Int /\ b.h \in Int
      /\ c.x \in Int /\ c.y \in Int /\ c.w \in Int /\ c.h \in Int
  BY BoxInts
<1>2. Ahead(b, c, d) = Rear(b, d) - Fore(c, d)
  BY <1>1 DEF Directions, Ahead, Rear, Fore
<1>3. /\ Low(b, d) \in Int /\ High(b, d) \in Int /\ Low(c, d) \in Int /\ High(c, d) \in Int
      /\ s \in Int /\ t \in Int
  BY <1>1 DEF Low, High
<1>4. Aside(b, c, d) = Max({0, s, t})
  BY DEF Aside, IntervalGap, Low, High
<1> HIDE DEF s, t
<1> DEFINE P(m) == m \in {0, s, t} /\ \A k \in {0, s, t} : m >= k
           best == IF s >= t /\ s >= 0 THEN s ELSE IF t >= 0 THEN t ELSE 0
<1>5. P(best)
  BY <1>3
<1>6. Max({0, s, t}) = CHOOSE m : P(m)
  BY DEF Max
<1>7. P(Max({0, s, t}))
  <2> HIDE DEF P, best
  <2> QED  BY <1>5, <1>6
<1> DEFINE a == Aside(b, c, d)
<1>8. a \in {0, s, t} /\ a >= 0 /\ a >= s /\ a >= t
  BY <1>4, <1>7
<1> HIDE DEF a
<1>9. a \in Nat /\ a >= s /\ a >= t /\ (s <= 0 /\ t <= 0 => a = 0)
  BY <1>3, <1>8
<1>10. (Low(b, d) <= High(c, d) /\ Low(c, d) <= High(b, d)) => s <= 0 /\ t <= 0
  BY <1>3 DEF s, t
<1> QED  BY <1>2, <1>9, <1>10 DEF a, s, t

\* What lies within a box and what is clear of one, seen in a direction.
LEMMA WithinSides ==
    ASSUME NEW b \in Boxes, NEW a \in Boxes, Within(b, a), NEW d \in Directions
    PROVE  /\ Rear(a, d) <= Rear(b, d) /\ Fore(b, d) <= Fore(a, d)
           /\ Low(a, d) <= Low(b, d) /\ High(b, d) <= High(a, d)
BY BoxInts DEF Within, Directions, Rear, Fore, Low, High

LEMMA ClearSides ==
    ASSUME NEW b \in Boxes, NEW a \in Boxes, Clear(a, b), NEW d \in Directions
    PROVE  \/ Fore(a, d) + GapsIn <= Rear(b, d) \/ Fore(b, d) + GapsIn <= Rear(a, d)
           \/ High(a, d) + GapsIn <= Low(b, d) \/ High(b, d) + GapsIn <= Low(a, d)
BY BoxInts DEF Clear, Directions, Rear, Fore, Low, High

\* What is clear of a box is clear of all within it.
LEMMA ClearWithin ==
    ASSUME NEW a \in Boxes, NEW b \in Boxes, NEW c \in Boxes, Within(a, b)
    PROVE  /\ Clear(b, c) => Clear(a, c)
           /\ Clear(c, b) => Clear(c, a)
BY BoxInts DEF Within, Clear

\* A tree that is laid out with a gap in every node.
Wide == IInv /\ GeometryTypes /\ Laid /\ Spaced

\* Then every node has a pixel for each child.
LEMMA WideIsRoomy == Wide => ~ Cramped
<1> SUFFICES ASSUME Wide, NEW n \in alloc \ Leaves
             PROVE  LET room == IF split[n] = "across" THEN box[n].w ELSE box[n].h
                    IN  ~ (room < 2 \/ room = GapsIn + 1)
  BY DEF Cramped
<1> DEFINE room == IF split[n] = "across" THEN box[n].w ELSE box[n].h
<1>1. n \in Nodes
  BY Types DEF IInv, Wide
<1>2. room \in Int
  BY <1>1 DEF Wide, GeometryTypes, Boxes
<1>3. GapsIn + 2 <= room
  BY DEF Wide, Spaced
<1> HIDE DEF room
<1>4. ~ (room < 2 \/ room = GapsIn + 1)
  BY <1>2, <1>3
<1> QED  BY <1>4 DEF room

\* Where the children of a node are, exactly.
LEMMA SpacedShares ==
    ASSUME Wide, NEW p \in alloc, view[p] = NoView
    PROVE  LET b == box[p]
               l == box[left[p]]
               r == box[right[p]]
           IN  /\ l \in Boxes /\ r \in Boxes /\ b \in Boxes
               /\ split[p] = "across" =>
                    /\ l.x = b.x /\ r.x + r.w = b.x + b.w /\ r.x = l.x + l.w + GapsIn
                    /\ l.y = b.y /\ r.y = b.y /\ l.h = b.h /\ r.h = b.h
               /\ split[p] # "across" =>
                    /\ l.y = b.y /\ r.y + r.h = b.y + b.h /\ r.y = l.y + l.h + GapsIn
                    /\ l.x = b.x /\ r.x = b.x /\ l.w = b.w /\ r.w = b.w
<1> DEFINE b == box[p]
           across == split[p] = "across"
           room == IF across THEN b.w ELSE b.h
           s == Shares(room, ratio[p])
           one == left[p] = left[p]
           other == left[p] = right[p]
<1>1. IInv /\ GeometryTypes /\ Laid /\ ~ Cramped
  BY WideIsRoomy DEF Wide
<1>2. /\ left[p] \in alloc /\ right[p] \in alloc /\ left[p] # right[p]
      /\ parent[left[p]] = p /\ parent[right[p]] = p
      /\ left[p] # root /\ right[p] # root
  <2>1. /\ left[p] \in alloc /\ right[p] \in alloc /\ left[p] # right[p]
        /\ parent[left[p]] = p /\ parent[right[p]] = p /\ p \in Nodes /\ p # NoNode
    BY <1>1, Types DEF IInv, TreeShape
  <2>2. left[p] # NoNode /\ right[p] # NoNode
    BY <1>1, <2>1, Types DEF IInv
  <2> QED  BY <1>1, <2>1, <2>2, Child DEF IInv
<1>3. b \in Boxes /\ ratio[p] \in Int /\ across \in BOOLEAN
  BY <1>1, Types DEF GeometryTypes, IInv
<1>4. box[left[p]] = ChildBox(left[p]) /\ box[right[p]] = ChildBox(right[p])
  BY <1>1, <1>2, LaidFits
<1>5. one /\ ~ other /\ one \in BOOLEAN /\ other \in BOOLEAN
  BY <1>2
<1>6. /\ box[left[p]] = Part(b, across, ratio[p], one)
      /\ box[right[p]] = Part(b, across, ratio[p], other)
  BY <1>2, <1>4 DEF ChildBox
<1>7. room \in Int /\ room >= GapsIn + 2 /\ GapsIn \in Nat
  <2>1. p \in alloc \ Leaves
    BY DEF Leaves
  <2> QED  BY <1>3, <2>1 DEF Wide, Spaced, Boxes
<1> HIDE DEF room
<1>8. /\ s.a \in Int /\ s.b \in Int /\ s.gap = GapsIn /\ s.a + s.gap + s.b = room
  <2>1. s.a \in Int /\ s.b \in Int /\ s.a + s.gap + s.b = room
    BY <1>3, <1>7, SharesAll
  <2>2. s.gap = GapsIn
    BY <1>7 DEF Shares
  <2> QED  BY <2>1, <2>2
<1>9. b.x \in Int /\ b.y \in Int /\ b.w \in Int /\ b.h \in Int
  BY <1>3, BoxInts
<1>10. box[left[p]] \in Boxes /\ box[right[p]] \in Boxes
  BY <1>1, <1>2, Types DEF GeometryTypes, IInv
<1> HIDE DEF s, one, other
<1>11. CASE across
  <2>1. Part(b, across, ratio[p], one) = Box(b.x, b.y, s.a, b.h)
    BY <1>5, <1>11 DEF Part, s, room
  <2>2. Part(b, across, ratio[p], other) = Box(b.x + s.a + s.gap, b.y, s.b, b.h)
    BY <1>5, <1>11 DEF Part, s, room
  <2>3. room = b.w
    BY <1>11 DEF room
  <2> QED  BY <1>3, <1>6, <1>8, <1>9, <1>10, <1>11, <2>1, <2>2, <2>3 DEF Box
<1>12. CASE ~ across
  <2>1. Part(b, across, ratio[p], one) = Box(b.x, b.y, b.w, s.a)
    BY <1>5, <1>12 DEF Part, s, room
  <2>2. Part(b, across, ratio[p], other) = Box(b.x, b.y + s.a + s.gap, b.w, s.b)
    BY <1>5, <1>12 DEF Part, s, room
  <2>3. room = b.h
    BY <1>12 DEF room
  <2> QED  BY <1>3, <1>6, <1>8, <1>9, <1>10, <1>12, <2>1, <2>2, <2>3 DEF Box
<1> QED  BY <1>11, <1>12

\* Every node has some room.
LEMMA WideNode ==
    ASSUME Wide, NEW n \in alloc
    PROVE  n \in Nodes /\ n # NoNode /\ box[n] \in Boxes /\ ~ Empty(box[n])
<1>1. n \in Nodes /\ n # NoNode
  BY Types DEF Wide, IInv
<1>2. ~ Empty(box[n])
  BY WideIsRoomy, LaidFits DEF Wide
<1> QED  BY <1>1, <1>2 DEF Wide, GeometryTypes

\* What is below a child is below its parent.
LEMMA WideChildren ==
    ASSUME Wide, NEW p \in alloc, view[p] = NoView
    PROVE  /\ left[p] \in alloc /\ right[p] \in alloc
           /\ Below(left[p]) \subseteq Below(p) /\ Below(right[p]) \subseteq Below(p)
<1>1. left[p] \in alloc /\ right[p] \in alloc
  BY DEF Wide, IInv, TreeShape
<1>2. left[p] # NoNode /\ right[p] # NoNode
  BY <1>1, WideNode
<1> QED  BY <1>1, <1>2, BelowShrinks DEF Wide

\* A node that a leaf is not below keeps clear of the leaf.
LEMMA LeafClear ==
    ASSUME Wide, NEW m \in Leaves, NEW n \in alloc, m \notin Below(n)
    PROVE  Clear(box[n], box[m])
<1> DEFINE X == {x \in alloc : m \notin Below(x) /\ ~ Clear(box[x], box[m])}
<1>1. IInv /\ GeometryTypes /\ Laid /\ ~ Cramped
  BY WideIsRoomy DEF Wide
<1>2. m \in alloc /\ m \in Below(root)
  BY <1>1, ReachIsNoLeak DEF IInv, Leaves, NoLeak
<1>3. ASSUME NEW x \in X PROVE parent[x] \in X
  <2> DEFINE p == parent[x]
  <2>1. x \in alloc /\ x # root /\ m \notin Below(x) /\ ~ Clear(box[x], box[m])
    BY <1>2, <1>3
  <2>2. p \in alloc /\ view[p] = NoView /\ x \in {left[p], right[p]}
    BY <1>1, <2>1, ParentRoomy
  <2>3. ASSUME m \in Below(p) PROVE FALSE
    <3> DEFINE s == IF left[p] = x THEN right[p] ELSE left[p]
    <3>1. m # p
      BY <2>2 DEF Leaves
    <3>2. s \in alloc /\ m \in Below(s) /\ Clear(box[x], box[s])
      <4>1. left[p] \in alloc /\ right[p] \in alloc
        BY <2>2, WideChildren
      <4>2. m \in Below(left[p]) \/ m \in Below(right[p])
        BY <1>1, <2>2, <2>3, <3>1, BelowSplits
      <4>3. Clear(box[left[p]], box[right[p]]) /\ Clear(box[right[p]], box[left[p]])
        <5>1. CASE split[p] = "across"
          BY <2>2, <5>1, SpacedShares, BoxInts DEF Clear
        <5>2. CASE split[p] # "across"
          BY <2>2, <5>2, SpacedShares, BoxInts DEF Clear
        <5> QED  BY <5>1, <5>2
      <4> QED  BY <2>1, <2>2, <4>1, <4>2, <4>3
    <3> HIDE DEF s
    <3>3. Within(box[m], box[s])
      BY <1>1, <3>2, BelowWithin
    <3>4. Clear(box[x], box[m])
      BY <1>2, <2>1, <3>2, <3>3, ClearWithin, WideNode
    <3> QED  BY <2>1, <3>4
  <2>4. Within(box[x], box[p])
    BY <1>1, <2>1, LaidFits
  <2>5. ~ Clear(box[p], box[m])
    BY <1>2, <2>1, <2>2, <2>4, ClearWithin, WideNode
  <2> QED  BY <2>2, <2>3, <2>5
<1>4. X \in SUBSET alloc /\ root \notin X
  BY <1>2
<1>5. X = {}
  <2> HIDE DEF X
  <2> QED  BY <1>1, <1>3, <1>4, RootedTree DEF Rooted
<1> QED  BY <1>5

\* The end of a box on the way, or its beginning.
Edge(end, b, d) == IF end THEN Fore(b, d) ELSE Rear(b, d)

\* One child of a node has the same corner,
LEMMA CornerChild ==
    ASSUME Wide, NEW p \in alloc, view[p] = NoView,
           NEW d \in Directions, NEW end \in BOOLEAN
    PROVE  \E c \in {left[p], right[p]} :
             /\ Edge(end, box[c], d) = Edge(end, box[p], d)
             /\ Low(box[c], d) = Low(box[p], d)
<1> DEFINE b == box[p]
           l == box[left[p]]
           r == box[right[p]]
           Fits(c) == Edge(end, c, d) = Edge(end, b, d) /\ Low(c, d) = Low(b, d)
<1>1. /\ split[p] = "across" =>
           /\ l.x = b.x /\ r.x + r.w = b.x + b.w /\ r.x = l.x + l.w + GapsIn
           /\ l.y = b.y /\ r.y = b.y /\ l.h = b.h /\ r.h = b.h
      /\ split[p] # "across" =>
           /\ l.y = b.y /\ r.y + r.h = b.y + b.h /\ r.y = l.y + l.h + GapsIn
           /\ l.x = b.x /\ r.x = b.x /\ l.w = b.w /\ r.w = b.w
      /\ l \in Boxes /\ r \in Boxes /\ b \in Boxes
  BY SpacedShares
<1>2. /\ b.x \in Int /\ b.y \in Int /\ b.w \in Int /\ b.h \in Int
      /\ l.x \in Int /\ l.y \in Int /\ l.w \in Int /\ l.h \in Int
      /\ r.x \in Int /\ r.y \in Int /\ r.w \in Int /\ r.h \in Int
  BY <1>1, BoxInts
<1> HIDE DEF b, l, r
<1>3. Fits(l) \/ Fits(r)
  <2>1. CASE split[p] = "across"
    <3>1. d \in {"down", "up"} \/ (d = "left" /\ end) \/ (d = "right" /\ ~ end) => Fits(l)
      BY <1>1, <1>2, <2>1 DEF Edge, Fore, Rear, Low
    <3>2. (d = "left" /\ ~ end) \/ (d = "right" /\ end) => Fits(r)
      BY <1>1, <1>2, <2>1 DEF Edge, Fore, Rear, Low
    <3> QED  BY <3>1, <3>2 DEF Directions
  <2>2. CASE split[p] # "across"
    <3>1. d \in {"left", "right"} \/ (d = "up" /\ end) \/ (d = "down" /\ ~ end) => Fits(l)
      BY <1>1, <1>2, <2>2 DEF Edge, Fore, Rear, Low
    <3>2. (d = "up" /\ ~ end) \/ (d = "down" /\ end) => Fits(r)
      BY <1>1, <1>2, <2>2 DEF Edge, Fore, Rear, Low
    <3> QED  BY <3>1, <3>2 DEF Directions
  <2> QED  BY <2>1, <2>2
<1> QED  BY <1>3 DEF b, l, r

\* so below every node there is a leaf in that corner.
LEMMA CornerLeaf ==
    ASSUME Wide, NEW n \in alloc, NEW d \in Directions, NEW end \in BOOLEAN
    PROVE  \E m \in Leaves : /\ m \in Below(n)
                             /\ Edge(end, box[m], d) = Edge(end, box[n], d)
                             /\ Low(box[m], d) = Low(box[n], d)
<1> DEFINE In(x) == /\ Edge(end, box[x], d) = Edge(end, box[n], d)
                    /\ Low(box[x], d) = Low(box[n], d)
           X == {x \in alloc : x \in Below(n) /\ In(x)}
<1>1. n \in X
  BY WideNode, BelowIsClosed DEF Wide, IInv
<1>2. PICK x \in X : left[x] \notin X /\ right[x] \notin X
  <2> HIDE DEF X
  <2>1. X \in SUBSET alloc
    BY DEF X
  <2> QED  BY <1>1, <2>1, Deepest DEF Wide
<1>3. ASSUME view[x] = NoView PROVE FALSE
  <2>1. PICK c \in {left[x], right[x]} :
           /\ Edge(end, box[c], d) = Edge(end, box[x], d)
           /\ Low(box[c], d) = Low(box[x], d)
    BY <1>2, <1>3, CornerChild
  <2>2. c \in alloc /\ c # NoNode
    BY <1>2, <1>3, WideChildren, WideNode
  <2>3. c \in Below(n)
    <3>1. Closed(Below(n))
      BY WideNode, BelowIsClosed DEF Wide, IInv
    <3> QED  BY <1>2, <2>2, <3>1 DEF Closed
  <2> QED  BY <1>2, <2>1, <2>2, <2>3
<1> QED  BY <1>2, <1>3 DEF Leaves

\* far is beyond near, a gap away, side by side in what they share of p.
Faces(p, near, far, d) ==
    /\ Rear(box[far], d) = Fore(box[near], d) + GapsIn
    /\ Low(box[near], d) = Low(box[p], d) /\ High(box[near], d) = High(box[p], d)
    /\ Low(box[far], d) = Low(box[p], d) /\ High(box[far], d) = High(box[p], d)

\* Each child has a way to the other.
LEMMA ChildrenFace ==
    ASSUME Wide, NEW p \in alloc, view[p] = NoView
    PROVE  /\ \E d \in Directions : Faces(p, left[p], right[p], d)
           /\ \E d \in Directions : Faces(p, right[p], left[p], d)
<1> DEFINE b == box[p]
           l == box[left[p]]
           r == box[right[p]]
<1>1. /\ split[p] = "across" =>
           /\ l.x = b.x /\ r.x + r.w = b.x + b.w /\ r.x = l.x + l.w + GapsIn
           /\ l.y = b.y /\ r.y = b.y /\ l.h = b.h /\ r.h = b.h
      /\ split[p] # "across" =>
           /\ l.y = b.y /\ r.y + r.h = b.y + b.h /\ r.y = l.y + l.h + GapsIn
           /\ l.x = b.x /\ r.x = b.x /\ l.w = b.w /\ r.w = b.w
      /\ l \in Boxes /\ r \in Boxes /\ b \in Boxes
  BY SpacedShares
<1>2. /\ b.x \in Int /\ b.y \in Int /\ b.w \in Int /\ b.h \in Int
      /\ l.x \in Int /\ l.y \in Int /\ l.w \in Int /\ l.h \in Int
      /\ r.x \in Int /\ r.y \in Int /\ r.w \in Int /\ r.h \in Int
  BY <1>1, BoxInts
<1>3. CASE split[p] = "across"
  <2>1. Faces(p, left[p], right[p], "right") /\ Faces(p, right[p], left[p], "left")
    BY <1>1, <1>2, <1>3 DEF Faces, Rear, Fore, Low, High
  <2> QED  BY <2>1 DEF Directions
<1>4. CASE split[p] # "across"
  <2>1. Faces(p, left[p], right[p], "down") /\ Faces(p, right[p], left[p], "up")
    BY <1>1, <1>2, <1>4 DEF Faces, Rear, Fore, Low, High
  <2> QED  BY <2>1 DEF Directions
<1> QED  BY <1>3, <1>4

\* A window is on the leaf that the searches find for it.
LEMMA BoxOfLeaf ==
    ASSUME IInv, NEW m \in Leaves
    PROVE  view[m] \in HeldViews /\ TheLeaf(view[m]) = m /\ BoxOf(view[m]) = box[m]
<1>1. view[m] \in HeldViews
  BY DEF HeldViews
<1>2. TheLeaf(view[m]) = m
  BY <1>1, TheLeafIsOne DEF IInv, OneLeafPerView
<1> QED  BY <1>1, <1>2 DEF BoxOf

\* A window the search could find costs no more than the gap only if it is in far:
\* the others in p are not that way, and those out of p are more than
\* twice the gap ahead or a gap aside.
LEMMA NearIsFar ==
    ASSUME Wide, NEW p \in alloc, view[p] = NoView, NEW near, NEW far,
           <<near, far>> \in {<<left[p], right[p]>>, <<right[p], left[p]>>},
           NEW d \in Directions, Faces(p, near, far, d),
           NEW a \in Leaves, a \in Below(near), Fore(box[a], d) = Fore(box[near], d),
           NEW m \in Leaves, Ahead(box[m], box[a], d) >= 0,
           Ahead(box[m], box[a], d) + 4 * Aside(box[m], box[a], d) <= GapsIn
    PROVE  m \in Below(far)
<1>1. IInv /\ GeometryTypes /\ Laid /\ ~ Cramped /\ GapsIn > 0 /\ GapsIn \in Nat
  BY WideIsRoomy DEF Wide, Spaced
<1>2. /\ near \in alloc /\ far \in alloc /\ a \in alloc /\ m \in alloc
      /\ near \in Below(p) /\ far \in Below(p) /\ a \in Below(p)
  <2>1. left[p] \in alloc /\ right[p] \in alloc /\ left[p] # NoNode /\ right[p] # NoNode
    BY WideChildren, WideNode
  <2>2. left[p] \in Below(p) /\ right[p] \in Below(p)
    BY <1>1, <2>1, WideNode, BelowIsClosed DEF IInv, Closed
  <2> QED  BY <2>1, <2>2, WideChildren DEF Leaves
<1> DEFINE M == box[m]
           A == box[a]
           N == box[near]
           F == box[far]
           P == box[p]
           aside == Aside(M, A, d)
<1>3. /\ M \in Boxes /\ A \in Boxes /\ N \in Boxes /\ F \in Boxes /\ P \in Boxes
      /\ ~ Empty(M) /\ ~ Empty(A) /\ ~ Empty(F)
  BY <1>2, WideNode
<1>4. Within(A, P) /\ Within(F, P) /\ (m \in Below(near) => Within(M, N))
  BY <1>1, <1>2, BelowWithin
<1>5. \/ m \in Below(near) \/ m \in Below(far) \/ Clear(P, M)
  <2>1. m # p
    BY DEF Leaves
  <2>2. m \in Below(p) => m \in Below(left[p]) \/ m \in Below(right[p])
    BY <1>1, <2>1, BelowSplits
  <2> QED  BY <2>2, LeafClear
<1>6. /\ Fore(A, d) = Fore(N, d) /\ Rear(F, d) = Fore(N, d) + GapsIn
      /\ Ahead(M, A, d) >= 0 /\ Ahead(M, A, d) + 4 * aside <= GapsIn
  BY DEF Faces
<1> HIDE DEF M, A, N, F, P, aside
<1>7. /\ Rear(M, d) \in Int /\ Fore(M, d) \in Int /\ Low(M, d) \in Int /\ High(M, d) \in Int
      /\ Rear(A, d) \in Int /\ Fore(A, d) \in Int /\ Low(A, d) \in Int /\ High(A, d) \in Int
      /\ Rear(F, d) \in Int /\ Fore(F, d) \in Int
      /\ Rear(M, d) < Fore(M, d) /\ Rear(A, d) < Fore(A, d) /\ Rear(F, d) < Fore(F, d)
  BY <1>3, Sides
<1>8. /\ Rear(P, d) \in Int /\ Fore(P, d) \in Int /\ Low(P, d) \in Int /\ High(P, d) \in Int
  BY <1>3, BoxInts DEF Directions, Rear, Fore, Low, High
<1>9. /\ Ahead(M, A, d) = Rear(M, d) - Fore(A, d) /\ aside \in Nat
      /\ aside >= Low(A, d) - High(M, d) /\ aside >= Low(M, d) - High(A, d)
  BY <1>3, Measures DEF aside
<1>10. /\ Rear(M, d) >= Fore(A, d) /\ Rear(M, d) <= Fore(A, d) + GapsIn /\ aside < GapsIn
  BY <1>1, <1>6, <1>7, <1>9
<1>11. /\ Rear(P, d) <= Rear(A, d) /\ Low(P, d) <= Low(A, d) /\ High(A, d) <= High(P, d)
       /\ Fore(F, d) <= Fore(P, d)
  BY <1>3, <1>4, WithinSides
<1>12. ASSUME m \in Below(near) PROVE FALSE
  <2>1. Fore(M, d) <= Fore(N, d)
    BY <1>3, <1>4, <1>12, WithinSides
  <2> QED  BY <2>1, <1>6, <1>7, <1>10
<1>13. ASSUME Clear(P, M) PROVE FALSE
  <2>1. \/ Fore(P, d) + GapsIn <= Rear(M, d) \/ Fore(M, d) + GapsIn <= Rear(P, d)
        \/ High(P, d) + GapsIn <= Low(M, d) \/ High(M, d) + GapsIn <= Low(P, d)
    BY <1>3, <1>13, ClearSides
  <2> QED  BY <2>1, <1>1, <1>6, <1>7, <1>8, <1>9, <1>10, <1>11
<1> QED  BY <1>5, <1>12, <1>13

\* The least of a set of natural numbers.
LEMMA MinIsLeast ==
    ASSUME NEW T, T \subseteq Nat, T # {}
    PROVE  Min(T) \in T /\ \A n \in T : Min(T) <= n
<1>1. \E m \in T : \A n \in T : m <= n
  BY LeastOf
<1>2. Min(T) = CHOOSE m \in T : \A n \in T : m <= n
  BY DEF Min
<1> QED  BY <1>1, <1>2

\* So from some window of near a key leads into far: from the one in the corner,
\* since that of far in the same corner is just a gap away.
LEMMA KeyCrosses ==
    ASSUME Wide, NEW p \in alloc, view[p] = NoView, NEW near, NEW far,
           <<near, far>> \in {<<left[p], right[p]>>, <<right[p], left[p]>>},
           NEW d \in Directions, Faces(p, near, far, d)
    PROVE  \E a \in Leaves, m \in Leaves :
             a \in Below(near) /\ m \in Below(far) /\ view[m] \in Toward(view[a], d)
<1>1. IInv /\ near \in alloc /\ far \in alloc /\ GapsIn > 0 /\ GapsIn \in Nat
  BY WideChildren DEF Wide, Spaced
<1>2. PICK a \in Leaves : /\ a \in Below(near)
                          /\ Fore(box[a], d) = Fore(box[near], d)
                          /\ Low(box[a], d) = Low(box[near], d)
  <2>1. TRUE \in BOOLEAN
    OBVIOUS
  <2>2. \E m \in Leaves : /\ m \in Below(near)
                          /\ Edge(TRUE, box[m], d) = Edge(TRUE, box[near], d)
                          /\ Low(box[m], d) = Low(box[near], d)
    BY <1>1, <2>1, CornerLeaf
  <2> QED  BY <2>2 DEF Edge
<1>3. PICK b \in Leaves : /\ b \in Below(far)
                          /\ Rear(box[b], d) = Rear(box[far], d)
                          /\ Low(box[b], d) = Low(box[far], d)
  <2>1. FALSE \in BOOLEAN
    OBVIOUS
  <2>2. \E m \in Leaves : /\ m \in Below(far)
                          /\ Edge(FALSE, box[m], d) = Edge(FALSE, box[far], d)
                          /\ Low(box[m], d) = Low(box[far], d)
    BY <1>1, <2>1, CornerLeaf
  <2> QED  BY <2>2 DEF Edge
<1>4. /\ box[a] \in Boxes /\ ~ Empty(box[a]) /\ box[b] \in Boxes /\ ~ Empty(box[b])
  BY WideNode DEF Leaves
<1>5. Ahead(box[b], box[a], d) = GapsIn /\ Aside(box[b], box[a], d) = 0
  <2>1. /\ Rear(box[b], d) = Fore(box[a], d) + GapsIn /\ Low(box[b], d) = Low(box[a], d)
    BY <1>2, <1>3 DEF Faces
  <2>2. /\ Fore(box[a], d) \in Int /\ Low(box[a], d) \in Int /\ High(box[a], d) \in Int
        /\ High(box[b], d) \in Int
        /\ Low(box[a], d) < High(box[a], d) /\ Low(box[b], d) < High(box[b], d)
    BY <1>4, Sides
  <2>3. Low(box[b], d) <= High(box[a], d) /\ Low(box[a], d) <= High(box[b], d)
    BY <2>1, <2>2
  <2>4. Ahead(box[b], box[a], d) = Rear(box[b], d) - Fore(box[a], d)
    BY <1>4, Measures
  <2>5. Aside(box[b], box[a], d) = 0
    BY <1>4, <2>3, Measures
  <2> QED  BY <1>1, <2>1, <2>2, <2>4, <2>5
<1> DEFINE from == view[a]
           c == BoxOf(from)
           others == {v \in HeldViews \ {from} : ~ Empty(BoxOf(v)) /\ ~ Empty(c)}
           beyond == {v \in others : Ahead(BoxOf(v), c, d) >= 0}
           edge(v) == Ahead(BoxOf(v), c, d) + 4 * Aside(BoxOf(v), c, d)
           T == {edge(v) : v \in beyond}
           W == {v \in beyond : edge(v) = Min(T)}
<1>6. c = box[a] /\ BoxOf(view[b]) = box[b] /\ view[b] \in HeldViews
  BY <1>1, BoxOfLeaf
<1>7. view[b] # from
  <2>1. view[b] = from => b = a
    BY <1>1 DEF IInv, OneLeafPerView
  <2>2. Rear(box[a], d) \in Int /\ Fore(box[a], d) \in Int /\ Rear(box[a], d) < Fore(box[a], d)
    BY <1>4, Sides
  <2>3. Rear(box[b], d) = Fore(box[a], d) + GapsIn
    BY <1>2, <1>3 DEF Faces
  <2>4. b # a
    BY <1>1, <2>2, <2>3
  <2> QED  BY <2>1, <2>4
<1>8. view[b] \in beyond /\ edge(view[b]) = GapsIn
  BY <1>1, <1>4, <1>5, <1>6, <1>7
<1>9. \A v \in HeldViews : BoxOf(v) \in Boxes /\ \E m \in Leaves : v = view[m] /\ BoxOf(v) = box[m]
  <2>1. \A m \in Leaves : box[m] \in Boxes
    BY WideNode DEF Leaves
  <2> QED  BY <1>1, <2>1, BoxOfLeaf DEF HeldViews
<1>10. T \subseteq Nat /\ T # {}
  <2>1. ASSUME NEW v \in beyond PROVE edge(v) \in Nat
    <3>1. v \in HeldViews /\ Ahead(BoxOf(v), c, d) >= 0
      OBVIOUS
    <3>2. BoxOf(v) \in Boxes /\ c \in Boxes
      BY <1>4, <1>6, <1>9, <3>1
    <3> HIDE DEF c
    <3>3. Aside(BoxOf(v), c, d) \in Nat
      BY <3>2, Measures
    <3>4. Ahead(BoxOf(v), c, d) \in Int
      BY <3>2, BoxInts DEF Ahead, Directions
    <3> QED  BY <3>1, <3>3, <3>4
  <2> HIDE DEF beyond, edge
  <2> QED  BY <1>8, <2>1
<1>11. Min(T) \in T /\ \A n \in T : Min(T) <= n
  <2> HIDE DEF T
  <2> QED  BY <1>10, MinIsLeast
<1>12. W \in SUBSET HeldViews /\ W # {} /\ Min(T) <= GapsIn
  <2>1. beyond \subseteq HeldViews
    OBVIOUS
  <2> HIDE DEF beyond, edge
  <2>2. Min(T) <= edge(view[b])
    BY <1>8, <1>11
  <2>3. PICK v \in beyond : edge(v) = Min(T)
    BY <1>11
  <2> QED  BY <1>8, <2>1, <2>2, <2>3
<1>13. Toward(from, d) = Foremost(W)
  <2>1. beyond # {}
    BY <1>8
  <2> QED  BY <2>1, Zenon DEF Toward, Nearest
<1>14. PICK u : u \in Foremost(W) /\ u \in W
  <2> HIDE DEF W
  <2>1. Foremost(W) # {} /\ Foremost(W) \subseteq W
    BY <1>1, <1>12, ForemostFindsOne, ForemostFinds
  <2> QED  BY <2>1
<1>15. /\ u \in HeldViews /\ Ahead(BoxOf(u), c, d) >= 0 /\ edge(u) <= GapsIn
  BY <1>12, <1>14
<1>16. PICK m \in Leaves : u = view[m] /\ BoxOf(u) = box[m]
  BY <1>9, <1>15
<1>17. /\ Ahead(box[m], box[a], d) >= 0
       /\ Ahead(box[m], box[a], d) + 4 * Aside(box[m], box[a], d) <= GapsIn
  BY <1>6, <1>15, <1>16
<1>18. m \in Below(far)
  BY <1>2, <1>17, NearIsFar
<1> QED  BY <1>2, <1>13, <1>14, <1>16, <1>18

\* Every cut of the windows goes through some node whose children it does not cut.
LEMMA CutNode ==
    ASSUME IInv, NEW S \in (SUBSET HeldViews) \ {{}, HeldViews}
    PROVE  \E p \in alloc :
             /\ view[p] = NoView
             /\ \/ /\ \A m \in Leaves : m \in Below(left[p]) => view[m] \in S
                   /\ \A m \in Leaves : m \in Below(right[p]) => view[m] \notin S
                \/ /\ \A m \in Leaves : m \in Below(right[p]) => view[m] \in S
                   /\ \A m \in Leaves : m \in Below(left[p]) => view[m] \notin S
<1> DEFINE Mixed(x) == /\ \E m \in Leaves : m \in Below(x) /\ view[m] \in S
                       /\ \E m \in Leaves : m \in Below(x) /\ view[m] \notin S
           X == {x \in alloc : Mixed(x)}
<1>1. root \in X
  <2>1. (\E m \in Leaves : view[m] \in S) /\ (\E m \in Leaves : view[m] \notin S)
    BY DEF HeldViews
  <2>2. Leaves \subseteq Below(root) /\ root # NoNode
    BY <2>1, ReachIsNoLeak DEF IInv, NoLeak, Leaves, Reach
  <2>3. root \in alloc
    BY <2>2 DEF IInv, TreeShape
  <2> QED  BY <2>1, <2>2, <2>3
<1>2. PICK p \in X : left[p] \notin X /\ right[p] \notin X
  <2> HIDE DEF X
  <2>1. X \in SUBSET alloc
    BY DEF X
  <2> QED  BY <1>1, <2>1, Deepest
<1>3. p \in alloc /\ Mixed(p)
  BY <1>2
<1>4. view[p] = NoView
  <2>1. view[p] # NoView => Below(p) \subseteq {p}
    BY <1>3, BelowLeaf DEF Leaves
  <2> QED  BY <1>3, <2>1
<1>5. left[p] \in alloc /\ right[p] \in alloc
  BY <1>3, <1>4 DEF IInv, TreeShape
<1>6. ~ Mixed(left[p]) /\ ~ Mixed(right[p])
  BY <1>2, <1>5
<1>7. \A m \in Leaves : m \in Below(p) => m \in Below(left[p]) \/ m \in Below(right[p])
  <2> SUFFICES ASSUME NEW m \in Leaves, m \in Below(p)
               PROVE  m \in Below(left[p]) \/ m \in Below(right[p])
    OBVIOUS
  <2>1. m # p
    BY <1>4 DEF Leaves
  <2> QED  BY <1>3, <1>4, <2>1, BelowSplits
<1> HIDE DEF X
<1> QED  BY <1>3, <1>4, <1>6, <1>7

\* A cut is crossed at the node it goes through.
LEMMA LaidReaches == GeometryInv => KeysReachAll
<1> SUFFICES ASSUME GeometryInv, onShow, Spaced,
                    NEW S \in (SUBSET HeldViews) \ {{}, HeldViews}
             PROVE  \E v \in S, d \in Directions : Toward(v, d) \ S # {}
  BY DEF KeysReachAll
<1>1. Wide
  BY DEF GeometryInv, Wide
<1>2. PICK p \in alloc :
         /\ view[p] = NoView
         /\ \/ /\ \A m \in Leaves : m \in Below(left[p]) => view[m] \in S
               /\ \A m \in Leaves : m \in Below(right[p]) => view[m] \notin S
            \/ /\ \A m \in Leaves : m \in Below(right[p]) => view[m] \in S
               /\ \A m \in Leaves : m \in Below(left[p]) => view[m] \notin S
  BY <1>1, CutNode DEF Wide
<1>3. ASSUME NEW near, NEW far, NEW d \in Directions, Faces(p, near, far, d),
             <<near, far>> \in {<<left[p], right[p]>>, <<right[p], left[p]>>},
             \A m \in Leaves : m \in Below(near) => view[m] \in S,
             \A m \in Leaves : m \in Below(far) => view[m] \notin S
      PROVE  \E v \in S : Toward(v, d) \ S # {}
  <2>1. PICK a \in Leaves, m \in Leaves :
           a \in Below(near) /\ m \in Below(far) /\ view[m] \in Toward(view[a], d)
    BY <1>1, <1>2, <1>3, KeyCrosses
  <2> QED  BY <1>3, <2>1
<1>4. PICK d \in Directions : Faces(p, left[p], right[p], d)
  BY <1>1, <1>2, ChildrenFace
<1>5. PICK e \in Directions : Faces(p, right[p], left[p], e)
  BY <1>1, <1>2, ChildrenFace
<1>6. CASE /\ \A m \in Leaves : m \in Below(left[p]) => view[m] \in S
           /\ \A m \in Leaves : m \in Below(right[p]) => view[m] \notin S
  <2>1. \E v \in S : Toward(v, d) \ S # {}
    BY <1>3, <1>4, <1>6, Zenon
  <2> QED  BY <2>1
<1>7. CASE /\ \A m \in Leaves : m \in Below(right[p]) => view[m] \in S
           /\ \A m \in Leaves : m \in Below(left[p]) => view[m] \notin S
  <2>1. \E v \in S : Toward(v, e) \ S # {}
    BY <1>3, <1>5, <1>7, Zenon
  <2> QED  BY <2>1
<1> QED  BY <1>2, <1>6, <1>7

\* From every window on show the focus keys lead to every other one.
THEOREM KeysAlwaysReach == GeometrySpec => []KeysReachAll
BY AlwaysLaidOut, LaidReaches, PTL

-----------------------------------------------------------------------------
(* The windows that stay keep their order                                  *)

\* Two orders have the same of some windows, in the same order.
Same(s, t, K) == /\ \A u \in K : u \in Range(s) <=> u \in Range(t)
                 /\ \A u, v \in K : Comes(s, u, v) <=> Comes(t, u, v)

\* What a sequence holds that is put together from two.
LEMMA JoinRange ==
    ASSUME NEW V, NEW s \in Seq(V), NEW t \in Seq(V), NEW u
    PROVE  u \in Range(s \o t) <=> u \in Range(s) \/ u \in Range(t)
<1>1. /\ DOMAIN s = 1..Len(s) /\ DOMAIN t = 1..Len(t) /\ Len(s) \in Nat /\ Len(t) \in Nat
      /\ DOMAIN (s \o t) = 1..Len(s) + Len(t)
      /\ \A i \in 1..Len(s) : (s \o t)[i] = s[i]
      /\ \A i \in 1..Len(t) : (s \o t)[Len(s) + i] = t[i]
  OBVIOUS
<1>2. \A i \in 1..Len(s) + Len(t) : i \in 1..Len(s) \/ (i - Len(s) \in 1..Len(t) /\ i = Len(s) + (i - Len(s)))
  BY <1>1
<1>3. \A i \in 1..Len(t) : Len(s) + i \in 1..Len(s) + Len(t)
  BY <1>1
<1>4. \A i \in 1..Len(s) : i \in 1..Len(s) + Len(t)
  BY <1>1
<1> DEFINE st == s \o t
           n == Len(s)
           m == Len(t)
<1> HIDE DEF st, n, m
<1>5. ASSUME u \in Range(st) PROVE u \in Range(s) \/ u \in Range(t)
  <2>1. PICK i \in 1..n + m : st[i] = u
    BY <1>1, <1>5 DEF Range, st, n, m
  <2>2. CASE i \in 1..n
    BY <1>1, <2>1, <2>2 DEF Range, st, n
  <2>3. CASE i - n \in 1..m /\ i = n + (i - n)
    <3>1. st[n + (i - n)] = t[i - n]
      BY <1>1, <2>3 DEF st, n, m
    <3> QED  BY <1>1, <2>1, <2>3, <3>1 DEF Range, m
  <2> QED  BY <1>2, <2>1, <2>2, <2>3 DEF n, m
<1>6. ASSUME u \in Range(s) PROVE u \in Range(st)
  <2>1. PICK i \in 1..n : s[i] = u
    BY <1>1, <1>6 DEF Range, n
  <2> QED  BY <1>1, <1>4, <2>1 DEF Range, st, n, m
<1>7. ASSUME u \in Range(t) PROVE u \in Range(st)
  <2>1. PICK i \in 1..m : t[i] = u
    BY <1>1, <1>7 DEF Range, m
  <2>2. n + i \in DOMAIN st /\ st[n + i] = u
    BY <1>1, <1>3, <2>1 DEF st, n, m
  <2> QED  BY <2>2 DEF Range
<1> QED  BY <1>5, <1>6, <1>7 DEF st

LEMMA JoinComes ==
    ASSUME NEW V, NEW s \in Seq(V), NEW t \in Seq(V), NEW u, NEW v
    PROVE  Comes(s \o t, u, v) <=> \/ Comes(s, u, v) \/ Comes(t, u, v)
                                   \/ u \in Range(s) /\ v \in Range(t)
<1> DEFINE st == s \o t
           n == Len(s)
           m == Len(t)
<1>1. /\ DOMAIN s = 1..n /\ DOMAIN t = 1..m /\ n \in Nat /\ m \in Nat
      /\ DOMAIN st = 1..n + m
      /\ \A i \in 1..n : st[i] = s[i]
      /\ \A i \in 1..m : st[n + i] = t[i]
  OBVIOUS
<1> HIDE DEF st, n, m
<1>2. ASSUME Comes(st, u, v)
      PROVE  Comes(s, u, v) \/ Comes(t, u, v) \/ (u \in Range(s) /\ v \in Range(t))
  <2>1. PICK i \in 1..n + m, j \in 1..n + m : i < j /\ st[i] = u /\ st[j] = v
    BY <1>1, <1>2 DEF Comes
  <2>2. CASE j \in 1..n
    <3>1. i \in 1..n
      BY <1>1, <2>1, <2>2
    <3>2. s[i] = u /\ s[j] = v
      BY <1>1, <2>1, <2>2, <3>1
    <3> QED  BY <1>1, <2>1, <2>2, <3>1, <3>2 DEF Comes
  <2>3. CASE i \in 1..n /\ j \notin 1..n
    <3>1. j - n \in 1..m /\ j = n + (j - n)
      BY <1>1, <2>1, <2>3
    <3>2. s[i] = u /\ t[j - n] = v
      BY <1>1, <2>1, <2>3, <3>1
    <3> QED  BY <1>1, <2>3, <3>1, <3>2 DEF Range
  <2>4. CASE i \notin 1..n
    <3>1. /\ i - n \in 1..m /\ i = n + (i - n) /\ j - n \in 1..m /\ j = n + (j - n)
          /\ i - n < j - n
      BY <1>1, <2>1, <2>4
    <3>2. t[i - n] = u /\ t[j - n] = v
      BY <1>1, <2>1, <3>1
    <3> QED  BY <1>1, <3>1, <3>2 DEF Comes
  <2> QED  BY <2>2, <2>3, <2>4
<1>3. ASSUME Comes(s, u, v) PROVE Comes(st, u, v)
  <2>1. PICK i \in 1..n, j \in 1..n : i < j /\ s[i] = u /\ s[j] = v
    BY <1>1, <1>3 DEF Comes
  <2>2. i \in 1..n + m /\ j \in 1..n + m
    BY <1>1
  <2> QED  BY <1>1, <2>1, <2>2 DEF Comes
<1>4. ASSUME Comes(t, u, v) PROVE Comes(st, u, v)
  <2>1. PICK i \in 1..m, j \in 1..m : i < j /\ t[i] = u /\ t[j] = v
    BY <1>1, <1>4 DEF Comes
  <2>2. n + i \in 1..n + m /\ n + j \in 1..n + m /\ n + i < n + j
    BY <1>1, <2>1
  <2>3. st[n + i] = u /\ st[n + j] = v
    BY <1>1, <2>1
  <2> QED  BY <1>1, <2>2, <2>3 DEF Comes
<1>5. ASSUME u \in Range(s), v \in Range(t) PROVE Comes(st, u, v)
  <2>1. PICK i \in 1..n : s[i] = u
    BY <1>1, <1>5 DEF Range
  <2>2. PICK j \in 1..m : t[j] = v
    BY <1>1, <1>5 DEF Range
  <2>3. i \in 1..n + m /\ n + j \in 1..n + m /\ i < n + j
    BY <1>1
  <2>4. st[i] = u /\ st[n + j] = v
    BY <1>1, <2>1, <2>2
  <2> QED  BY <1>1, <2>3, <2>4 DEF Comes
<1> QED  BY <1>2, <1>3, <1>4, <1>5 DEF st

LEMMA SameJoin ==
    ASSUME NEW V, NEW s \in Seq(V), NEW t \in Seq(V), NEW s1 \in Seq(V), NEW t1 \in Seq(V),
           NEW K, Same(s, s1, K), Same(t, t1, K)
    PROVE  Same(s \o t, s1 \o t1, K)
<1>1. ASSUME NEW u \in K PROVE u \in Range(s \o t) <=> u \in Range(s1 \o t1)
  <2>1. u \in Range(s \o t) <=> u \in Range(s) \/ u \in Range(t)
    BY JoinRange
  <2>2. u \in Range(s1 \o t1) <=> u \in Range(s1) \/ u \in Range(t1)
    BY JoinRange
  <2> QED  BY <2>1, <2>2 DEF Same
<1>2. ASSUME NEW u \in K, NEW v \in K PROVE Comes(s \o t, u, v) <=> Comes(s1 \o t1, u, v)
  <2>1. Comes(s \o t, u, v) <=> \/ Comes(s, u, v) \/ Comes(t, u, v)
                                \/ u \in Range(s) /\ v \in Range(t)
    BY JoinComes
  <2>2. Comes(s1 \o t1, u, v) <=> \/ Comes(s1, u, v) \/ Comes(t1, u, v)
                                  \/ u \in Range(s1) /\ v \in Range(t1)
    BY JoinComes
  <2> QED  BY <2>1, <2>2 DEF Same
<1> QED  BY <1>1, <1>2 DEF Same

\* A window that does not count may stand before or after the others.
LEMMA SameBeside ==
    ASSUME NEW V, NEW s \in Seq(V), NEW t \in Seq(V), NEW v \in V,
           NEW K, v \notin K, Same(s, t, K)
    PROVE  /\ Same(s, <<v>> \o t, K) /\ Same(s, t \o <<v>>, K)
           /\ Same(<<v>> \o s, t, K) /\ Same(s \o <<v>>, t, K)
<1>1. <<v>> \in Seq(V) /\ Range(<<v>>) = {v} /\ DOMAIN <<v>> = {1}
  BY DEF Range
<1>2. \A u \in K : u \notin Range(<<v>>)
  BY <1>1
<1>3. \A u, w : ~ Comes(<<v>>, u, w)
  BY <1>1 DEF Comes
<1> DEFINE e == <<v>>
<1> HIDE DEF e
<1>4. ASSUME NEW q \in Seq(V)
      PROVE  /\ \A u \in K : u \in Range(e \o q) <=> u \in Range(q)
             /\ \A u \in K : u \in Range(q \o e) <=> u \in Range(q)
             /\ \A u, w \in K : Comes(e \o q, u, w) <=> Comes(q, u, w)
             /\ \A u, w \in K : Comes(q \o e, u, w) <=> Comes(q, u, w)
  <2>0. e \in Seq(V)
    BY <1>1 DEF e
  <2>1. \A u : u \in Range(e \o q) <=> u \in Range(e) \/ u \in Range(q)
    BY <2>0, JoinRange
  <2>2. \A u : u \in Range(q \o e) <=> u \in Range(q) \/ u \in Range(e)
    BY <2>0, JoinRange
  <2>3. \A u, w : Comes(e \o q, u, w) <=> \/ Comes(e, u, w) \/ Comes(q, u, w)
                                          \/ u \in Range(e) /\ w \in Range(q)
    BY <2>0, JoinComes
  <2>4. \A u, w : Comes(q \o e, u, w) <=> \/ Comes(q, u, w) \/ Comes(e, u, w)
                                          \/ u \in Range(q) /\ w \in Range(e)
    BY <2>0, JoinComes
  <2> QED  BY <1>2, <1>3, <2>1, <2>2, <2>3, <2>4 DEF e
<1> QED  BY <1>4 DEF Same, e

\* InOrder lists views of the tree, node by node.
HasOrder ==
    root # NoNode =>
      \E f : /\ InOrder(root) = f[root] /\ Ordered(alloc, f)
             /\ \A n \in alloc : f[n] \in Seq(Views) /\ Range(f[n]) \subseteq HeldViews

LEMMA TreeHasOrder == IInv => HasOrder
<1> SUFFICES ASSUME IInv, root # NoNode
             PROVE  \E f : /\ InOrder(root) = f[root] /\ Ordered(alloc, f)
                           /\ \A n \in alloc : f[n] \in Seq(Views) /\ Range(f[n]) \subseteq HeldViews
  BY DEF HasOrder
<1>1. PICK f : InOrder(root) = f[root] /\ Ordered(alloc, f)
  BY OrderIsTotal
<1> DEFINE In(n) == f[n] \in Seq(Views) /\ Range(f[n]) \subseteq HeldViews
           X == {n \in alloc : ~ In(n)}
<1>2. X = {}
  <2>1. SUFFICES ASSUME X # {} PROVE FALSE
    OBVIOUS
  <2>2. PICK x \in X : left[x] \notin X /\ right[x] \notin X
    <3> HIDE DEF X
    <3>1. X \in SUBSET alloc
      BY DEF X
    <3> QED  BY <2>1, <3>1, Deepest
  <2>3. x \in alloc /\ x \in Nodes /\ f[x] = Visits(x, f)
    BY <1>1, <2>2, Types DEF Ordered, IInv
  <2>4. CASE view[x] # NoView
    <3>1. f[x] = <<view[x]>> /\ view[x] \in Views /\ view[x] \in HeldViews
      BY <2>3, <2>4, Types DEF Visits, IInv, HeldViews, Leaves
    <3>2. f[x] \in Seq(Views) /\ Range(f[x]) = {view[x]}
      BY <3>1 DEF Range
    <3> QED  BY <2>2, <3>1, <3>2
  <2>5. CASE view[x] = NoView
    <3>1. left[x] \in alloc /\ right[x] \in alloc
      BY <2>3, <2>5 DEF IInv, TreeShape
    <3>2. In(left[x]) /\ In(right[x])
      BY <2>2, <3>1
    <3>3. f[x] = f[left[x]] \o f[right[x]]
      BY <2>3, <2>5 DEF Visits
    <3>4. f[x] \in Seq(Views)
      BY <3>2, <3>3
    <3>5. \A u : u \in Range(f[x]) <=> u \in Range(f[left[x]]) \/ u \in Range(f[right[x]])
      BY <3>2, <3>3, JoinRange
    <3> QED  BY <2>2, <3>2, <3>4, <3>5
  <2> QED  BY <2>4, <2>5
<1> QED  BY <1>1, <1>2

\* Splitting a leaf leaves the other windows in their order.
LEMMA SplitKeepsOrder ==
    ASSUME IInv, HasOrder, HasOrder', NEW v \in Views, NEW target \in Leaves,
           NEW before \in BOOLEAN, Split(v, target, before)
    PROVE  Same(InOrder(root), InOrder(root)', Views \ {v})
<1> DEFINE K == Views \ {v}
<1>1. PICK leaf \in Nodes \ alloc, p \in Nodes \ alloc : Grafted(v, target, leaf, p, before)
  <2>1. Split(v, target, before)
    OBVIOUS
  <2> QED  BY <2>1, Zenon DEF Split, Grafted
<1>2. /\ target \in alloc /\ view'[leaf] = v /\ view'[p] = NoView
      /\ \A n \in alloc : view'[n] = view[n] /\ n # leaf /\ n # p
      /\ left'[p] = (IF before THEN leaf ELSE target)
      /\ right'[p] = (IF before THEN target ELSE leaf)
      /\ \A n \in alloc : /\ left'[n] = IF left[n] = target THEN p ELSE left[n]
                          /\ right'[n] = IF right[n] = target THEN p ELSE right[n]
  BY <1>1, GraftFields
<1>3. /\ alloc' = alloc \cup {leaf, p} /\ root' = IF target = root THEN p ELSE root
      /\ leaf \in Nodes /\ p \in Nodes
  BY <1>1 DEF Grafted
<1>4. root \in alloc /\ root # NoNode /\ root' # NoNode
  BY <1>2, <1>3 DEF IInv, TreeShape, Reach
<1>5. PICK f : /\ InOrder(root) = f[root] /\ Ordered(alloc, f)
               /\ \A n \in alloc : f[n] \in Seq(Views)
  BY <1>4 DEF HasOrder
<1>6. PICK g : /\ InOrder(root)' = g[root'] /\ Ordered(alloc, g)'
               /\ \A n \in alloc' : g[n] \in Seq(Views)
  BY <1>4 DEF HasOrder
<1>7. /\ \A n \in alloc : f[n] = Visits(n, f)
      /\ \A n \in alloc' : g[n] = Visits(n, g)'
  BY <1>5, <1>6 DEF Ordered
<1> DEFINE star(n) == IF n = target THEN p ELSE n
           X == {n \in alloc : ~ Same(f[n], g[star(n)], K)}
<1>8. X = {}
  <2>1. SUFFICES ASSUME X # {} PROVE FALSE
    OBVIOUS
  <2>2. PICK x \in X : left[x] \notin X /\ right[x] \notin X
    <3> HIDE DEF X
    <3>1. X \in SUBSET alloc
      BY DEF X
    <3> QED  BY <2>1, <3>1, Deepest
  <2>3. x \in alloc
    BY <2>2
  <2>4. CASE x = target
    <3>1. f[x] = <<view[x]>> /\ g[x] = <<view[x]>> /\ g[leaf] = <<v>>
      <4>1. view[x] # NoView /\ view'[x] = view[x] /\ v # NoView
        BY <1>2, <2>3, <2>4 DEF Leaves
      <4> QED  BY <1>2, <1>3, <1>7, <2>3, <4>1 DEF Visits
    <3>2. g[p] = g[left'[p]] \o g[right'[p]]
      BY <1>2, <1>3, <1>7 DEF Visits
    <3>3. g[p] = <<v>> \o f[x] \/ g[p] = f[x] \o <<v>>
      BY <1>2, <2>4, <3>1, <3>2
    <3>4. f[x] \in Seq(Views) /\ Same(f[x], f[x], K) /\ v \notin K
      BY <1>5, <2>3 DEF Same
    <3>5. Same(f[x], g[p], K)
      <4> DEFINE s == f[x]
      <4> HIDE DEF K, s
      <4>1. s \in Seq(Views) /\ v \notin K /\ Same(s, s, K)
        BY <3>4 DEF s
      <4>2. Same(s, <<v>> \o s, K) /\ Same(s, s \o <<v>>, K)
        BY <4>1, SameBeside
      <4> QED  BY <3>3, <4>2 DEF s
    <3> QED  BY <2>2, <2>4, <3>5
  <2>5. CASE x # target /\ view[x] # NoView
    <3>1. f[x] = <<view[x]>> /\ g[x] = <<view[x]>>
      BY <1>2, <1>3, <1>7, <2>3, <2>5 DEF Visits
    <3>2. Same(f[x], g[star(x)], K)
      BY <2>5, <3>1 DEF Same
    <3> QED  BY <2>2, <3>2
  <2>6. CASE x # target /\ view[x] = NoView
    <3>1. left[x] \in alloc /\ right[x] \in alloc
      BY <2>3, <2>6 DEF IInv, TreeShape
    <3>2. left'[x] = star(left[x]) /\ right'[x] = star(right[x])
      BY <1>2, <2>3
    <3>3. Same(f[left[x]], g[left'[x]], K) /\ Same(f[right[x]], g[right'[x]], K)
      BY <2>2, <3>1, <3>2
    <3>4. left'[x] \in alloc' /\ right'[x] \in alloc'
      BY <1>3, <3>1, <3>2
    <3>5. f[x] = f[left[x]] \o f[right[x]] /\ g[x] = g[left'[x]] \o g[right'[x]]
      BY <1>2, <1>3, <1>7, <2>3, <2>6 DEF Visits
    <3>6. Same(f[left[x]] \o f[right[x]], g[left'[x]] \o g[right'[x]], K)
      <4> HIDE DEF K
      <4> QED  BY <1>5, <1>6, <3>1, <3>3, <3>4, SameJoin
    <3> QED  BY <2>2, <2>6, <3>5, <3>6
  <2> QED  BY <2>4, <2>5, <2>6
<1>9. star(root) = root'
  BY <1>3
<1> HIDE DEF star
<1> QED  BY <1>4, <1>5, <1>6, <1>8, <1>9

\* So does removing one.
LEMMA PromoteKeepsOrder ==
    ASSUME IInv, HasOrder, HasOrder', NEW leaf \in Leaves, Promote(leaf), root' # NoNode
    PROVE  Same(InOrder(root), InOrder(root)', Views \ {view[leaf]})
<1> DEFINE K == Views \ {view[leaf]}
           p == parent[leaf]
           sibling == IF left[p] = leaf THEN right[p] ELSE left[p]
<1>1. /\ leaf \in alloc /\ leaf # root /\ view[leaf] # NoView /\ view[leaf] \in Views
      /\ p \in alloc /\ leaf \in {left[p], right[p]} /\ view[p] = NoView /\ p # leaf
      /\ root # NoNode /\ root \in alloc
  <2>1. leaf \in alloc /\ leaf # root /\ view[leaf] # NoView /\ leaf \in Nodes
    BY Types DEF IInv, Leaves, Promote
  <2>2. p \in alloc /\ leaf \in {left[p], right[p]}
    BY <2>1 DEF IInv, TreeShape
  <2>3. view[p] = NoView /\ p # leaf
    BY <2>1, <2>2, Types DEF IInv, TreeShape
  <2>4. root # NoNode /\ root \in alloc
    BY <2>1 DEF IInv, Reach, TreeShape
  <2> QED  BY <2>1, <2>2, <2>3, <2>4, Types DEF IInv
<1>2. /\ left[p] \in alloc /\ right[p] \in alloc /\ left[p] # right[p]
      /\ parent[left[p]] = p /\ parent[right[p]] = p
      /\ {left[p], right[p]} = {leaf, sibling} /\ sibling # leaf /\ sibling \in alloc
  BY <1>1 DEF IInv, TreeShape
<1>3. /\ alloc' = alloc \ {leaf, p}
      /\ \A n \in alloc' : /\ view'[n] = view[n]
                           /\ left'[n] = IF left[n] = p THEN sibling ELSE left[n]
                           /\ right'[n] = IF right[n] = p THEN sibling ELSE right[n]
      /\ root' = IF parent[p] = NoNode THEN sibling ELSE root
  <2>1. /\ alloc' = alloc \ {leaf, p}
        /\ view' = [n \in Nodes |-> IF n \in {leaf, p} THEN NoView ELSE view[n]]
        /\ left' = [Replaced(left, p, sibling) EXCEPT ![p] = NoNode]
        /\ right' = [Replaced(right, p, sibling) EXCEPT ![p] = NoNode]
        /\ root' = IF parent[p] = NoNode THEN sibling ELSE root
    BY DEF Promote, Free
  <2>2. alloc \subseteq Nodes
    BY Types DEF IInv
  <2> HIDE DEF sibling, p
  <2>3. \A n \in alloc' : /\ view'[n] = view[n]
                          /\ left'[n] = IF left[n] = p THEN sibling ELSE left[n]
                          /\ right'[n] = IF right[n] = p THEN sibling ELSE right[n]
    BY <2>1, <2>2 DEF Replaced
  <2> QED  BY <2>1, <2>3
<1>4. parent[p] = NoNode <=> p = root
  BY <1>1, Types DEF IInv, TreeShape
<1>5. PICK f : /\ InOrder(root) = f[root] /\ Ordered(alloc, f)
               /\ \A n \in alloc : f[n] \in Seq(Views)
  BY <1>1 DEF HasOrder
<1>6. PICK g : /\ InOrder(root)' = g[root'] /\ Ordered(alloc, g)'
               /\ \A n \in alloc' : g[n] \in Seq(Views)
  BY DEF HasOrder
<1>7. /\ \A n \in alloc : f[n] = Visits(n, f)
      /\ \A n \in alloc' : g[n] = Visits(n, g)'
  BY <1>5, <1>6 DEF Ordered
<1>8. sibling # p
  <2>1. \A c \in {left[p], right[p]} : c # NoNode => p \notin Below(c) /\ c \in Below(c)
    BY <1>1, <1>2, BelowShrinks, BelowIsClosed, Types DEF IInv
  <2>2. sibling # NoNode
    BY <1>2, Types DEF IInv
  <2> QED  BY <1>2, <2>1, <2>2
<1> HIDE DEF sibling, p
<1> DEFINE star(n) == IF n = p THEN sibling ELSE n
           X == {n \in alloc \ {leaf} : ~ Same(f[n], g[star(n)], K)}
<1>9. sibling \in alloc'
  BY <1>2, <1>3, <1>8
<1>10. X = {}
  <2>1. SUFFICES ASSUME X # {} PROVE FALSE
    OBVIOUS
  <2>2. PICK x \in X : left[x] \notin X /\ right[x] \notin X
    <3> HIDE DEF X
    <3>1. X \in SUBSET alloc
      BY DEF X
    <3> QED  BY <2>1, <3>1, Deepest
  <2>3. x \in alloc /\ x # leaf
    BY <2>2
  <2>4. CASE x = p
    <3>1. sibling \notin X
      BY <1>2, <2>2, <2>4
    <3>2. Same(f[sibling], g[sibling], K)
      BY <1>2, <1>8, <3>1
    <3>3. f[leaf] = <<view[leaf]>>
      BY <1>1, <1>7 DEF Visits
    <3>4. f[p] = f[left[p]] \o f[right[p]]
      BY <1>1, <1>7 DEF Visits
    <3>5. f[p] = <<view[leaf]>> \o f[sibling] \/ f[p] = f[sibling] \o <<view[leaf]>>
      BY <1>2, <3>3, <3>4
    <3>6. f[sibling] \in Seq(Views) /\ g[sibling] \in Seq(Views) /\ view[leaf] \notin K
      BY <1>2, <1>5, <1>6, <1>9
    <3>7. Same(f[p], g[sibling], K)
      <4> DEFINE s == f[sibling]
                 t == g[sibling]
                 gone == view[leaf]
      <4> HIDE DEF K, s, t, gone
      <4>1. s \in Seq(Views) /\ t \in Seq(Views) /\ gone \in Views /\ gone \notin K /\ Same(s, t, K)
        BY <1>1, <3>2, <3>6 DEF s, t, gone
      <4>2. Same(<<gone>> \o s, t, K) /\ Same(s \o <<gone>>, t, K)
        BY <4>1, SameBeside
      <4> QED  BY <3>5, <4>2 DEF s, t, gone
    <3> QED  BY <2>2, <2>4, <3>7
  <2>5. CASE x # p /\ view[x] # NoView
    <3>1. f[x] = <<view[x]>> /\ g[x] = <<view[x]>>
      BY <1>3, <1>7, <2>3, <2>5 DEF Visits
    <3>2. Same(f[x], g[star(x)], K)
      BY <2>5, <3>1 DEF Same
    <3> QED  BY <2>2, <3>2
  <2>6. CASE x # p /\ view[x] = NoView
    <3>1. /\ left[x] \in alloc /\ right[x] \in alloc
          /\ parent[left[x]] = x /\ parent[right[x]] = x
      BY <2>3, <2>6 DEF IInv, TreeShape
    <3>2. left[x] # leaf /\ right[x] # leaf
      BY <2>6, <3>1 DEF p
    <3>3. x \in alloc'
      BY <1>3, <2>3, <2>6
    <3>4. left'[x] = star(left[x]) /\ right'[x] = star(right[x])
      BY <1>3, <3>3
    <3>5. Same(f[left[x]], g[left'[x]], K) /\ Same(f[right[x]], g[right'[x]], K)
      BY <2>2, <3>1, <3>2, <3>4
    <3>6. left'[x] \in alloc' /\ right'[x] \in alloc'
      BY <1>3, <1>9, <3>1, <3>2, <3>4
    <3>7. f[x] = f[left[x]] \o f[right[x]] /\ g[x] = g[left'[x]] \o g[right'[x]]
      BY <1>3, <1>7, <2>3, <2>6, <3>3 DEF Visits
    <3>8. Same(f[left[x]] \o f[right[x]], g[left'[x]] \o g[right'[x]], K)
      <4> HIDE DEF K
      <4> QED  BY <1>5, <1>6, <3>1, <3>5, <3>6, SameJoin
    <3> QED  BY <2>2, <2>6, <3>7, <3>8
  <2> QED  BY <2>4, <2>5, <2>6
<1>11. star(root) = root'
  BY <1>3, <1>4
<1> HIDE DEF star
<1> QED  BY <1>1, <1>5, <1>6, <1>10, <1>11

\* Only these steps change what cells are in use.
LEMMA KeepsOrder ==
    ASSUME IInv, IInv', HasOrder, HasOrder', Next, alloc' # alloc,
           NEW u \in Range(InOrder(root)) \cap Range(InOrder(root)'),
           NEW w \in Range(InOrder(root)) \cap Range(InOrder(root)')
    PROVE  Comes(InOrder(root), u, w) <=> Comes(InOrder(root)', u, w)
<1>1. root # NoNode /\ root' # NoNode
  <2>1. Range(<<>>) = {}
    BY DEF Range
  <2>2. root = NoNode => InOrder(root) = <<>>
    BY DEF InOrder
  <2>3. root' = NoNode => InOrder(root)' = <<>>
    BY DEF InOrder
  <2> QED  BY <2>1, <2>2, <2>3
<1>2. /\ u \in HeldViews /\ w \in HeldViews /\ u \in HeldViews' /\ w \in HeldViews'
      /\ u \in Views /\ w \in Views
  <2>1. /\ root \in alloc /\ root' \in alloc'
    BY <1>1 DEF IInv, TreeShape
  <2>2. Range(InOrder(root)) \subseteq HeldViews
    BY <1>1, <2>1 DEF HasOrder
  <2>3. Range(InOrder(root)') \subseteq HeldViews'
    BY <1>1, <2>1 DEF HasOrder
  <2> QED  BY <2>2, <2>3, HeldIsView DEF IInv
<1>3. ASSUME NEW v \in Views, ~ InTree(v), NEW target \in Leaves, NEW before \in BOOLEAN,
             Split(v, target, before)
      PROVE  Comes(InOrder(root), u, w) <=> Comes(InOrder(root)', u, w)
  <2>1. v \notin HeldViews
    BY <1>3 DEF InTree, LeafOf, HeldViews, Leaves
  <2>2. Same(InOrder(root), InOrder(root)', Views \ {v})
    BY <1>3, SplitKeepsOrder
  <2>3. u \in Views \ {v} /\ w \in Views \ {v}
    BY <1>2, <2>1
  <2> QED  BY <2>2, <2>3 DEF Same
<1>4. ASSUME NEW v \in Views, AddView(v)
      PROVE  Comes(InOrder(root), u, w) <=> Comes(InOrder(root)', u, w)
  <2>1. PICK t \in Target : Split(v, t, FALSE)
    BY <1>1, <1>4 DEF AddView
  <2>2. ~ InTree(v) /\ t \in Leaves /\ FALSE \in BOOLEAN
    BY <1>1, <1>4, TargetIsLeaf DEF AddView
  <2> QED  BY <1>3, <2>1, <2>2
<1>5. ASSUME NEW v \in Views, RemoveView(v)
      PROVE  Comes(InOrder(root), u, w) <=> Comes(InOrder(root)', u, w)
  <2>1. PICK leaf \in LeafOf(v) : Promote(leaf)
    BY <1>1, <1>5 DEF RemoveView, Uproot
  <2>2. leaf \in Leaves /\ view[leaf] = v
    BY LeafOfView
  <2>3. v \notin HeldViews'
    BY <1>5, RemoveViewImplements DEF Abstract!Leave
  <2>4. Same(InOrder(root), InOrder(root)', Views \ {v})
    BY <1>1, <2>1, <2>2, PromoteKeepsOrder
  <2>5. u \in Views \ {v} /\ w \in Views \ {v}
    BY <1>2, <2>3
  <2> QED  BY <2>4, <2>5 DEF Same
<1>6. ASSUME NEW v \in Views, NEW x \in Views, PlaceView(v, x)
      PROVE  Comes(InOrder(root), u, w) <=> Comes(InOrder(root)', u, w)
  <2>1. ASSUME ~ InTree(v), NEW target \in LeafOf(x), NEW before \in BOOLEAN,
               Split(v, target, before)
        PROVE  Comes(InOrder(root), u, w) <=> Comes(InOrder(root)', u, w)
    BY <1>3, <2>1, LeafOfView
  <2>2. CASE AddView(v)
    BY <1>4, <2>2
  <2>3. ~ FocusView(x)
    BY DEF FocusView, tree
  <2> QED  BY <1>6, <2>1, <2>2, <2>3 DEF PlaceView
<1>7. ~ MoveFocus /\ ~ MoveView /\ \A v, x \in Views : ~ FocusView(v) /\ ~ SwapViews(v, x)
  BY DEF MoveFocus, MoveView, FocusView, SwapViews, tree
<1> QED  BY <1>4, <1>5, <1>6, <1>7 DEF Next

\* Whatever is added or removed, the windows that stay keep their order.
THEOREM OrderAlwaysKept == Spec => OrderKept
<1>1. IInv /\ IInv' /\ HasOrder /\ HasOrder' /\ [Next]_vars =>
        [alloc' # alloc =>
           LET before == InOrder(root)
               after  == InOrder(root)'
           IN  \A u, v \in Range(before) \cap Range(after) :
                 Comes(before, u, v) <=> Comes(after, u, v)]_vars
  BY KeepsOrder
<1> QED  BY <1>1, Inductive, TreeHasOrder, PTL DEF Spec, OrderKept
=============================================================================
