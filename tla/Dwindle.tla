------------------------------ MODULE Dwindle -------------------------------
(***************************************************************************)
(* The dwindle layout of one workspace (src/dwindle.c): a binary tree of   *)
(* heap nodes.  A leaf holds a view, an inner node two children; adding a  *)
(* view splits the focused leaf, removing one promotes its sibling.        *)
(*                                                                         *)
(* Every pointer of DwindleNode and DwindleLayout is a variable.  The      *)
(* geometry (split direction, ratio, boxes) only decides which leaf a      *)
(* directional search finds and on which side of a leaf a dropped view     *)
(* lands: both are left open here.                                         *)
(***************************************************************************)
EXTENDS Naturals, FiniteSets, Sequences, Functions

CONSTANTS Views, NoView,   \* the windows, and the NULL View pointer
          Nodes, NoNode    \* the heap cells calloc can return, and NULL

ASSUME NoViewAssumption == NoView \notin Views
ASSUME NodesAssumption == NoNode \notin Nodes

VARIABLES alloc,          \* the cells in use
          view,           \* DwindleNode.view
          parent,         \* DwindleNode.parent
          left, right,    \* DwindleNode.children[0] and [1]
          root, focused   \* of the DwindleLayout

tree == <<alloc, view, parent, left, right, root>>
vars == <<alloc, view, parent, left, right, root, focused>>
-----------------------------------------------------------------------------
(* Reading the tree                                                        *)

Leaves == {n \in alloc : view[n] # NoView}

\* The nodes a walk from n reaches when it goes on from k to next[k]: those in
\* every set that holds n and that no step leaves.
Walk(n, next) ==
    {m \in Nodes : \A S \in SUBSET Nodes :
                     n \in S /\ (\A k \in S : next[k] \subseteq S) => m \in S}

\* What a walk over both children visits.
Below(n) == IF n = NoNode THEN {}
            ELSE Walk(n, [k \in Nodes |-> {left[k], right[k]} \ {NoNode}])

\* first_leaf: child 0, or child 1 where there is no child 0, down to a leaf.
\* Empty if the loop does not end in a leaf.
FirstLeaf(n) ==
    Leaves \cap Walk(n, [k \in Nodes |-> IF left[k] # NoNode THEN {left[k]}
                                         ELSE {right[k]} \ {NoNode}])

\* find_leaf.  It walks the tree from the root, and by NoLeak that is all of
\* the cells in use.
LeafOf(v) == {n \in alloc : view[n] = v}

InTree(v) == LeafOf(v) # {}
-----------------------------------------------------------------------------
(* Changing the tree                                                       *)

\* calloc: some free cell; which one makes no difference.
Fresh(used) == CHOOSE n \in Nodes : n \notin used

\* Mutant of Plant: the new root does not get the focus.
PlantUnfocused(v) ==
    /\ Nodes \ alloc # {}
    /\ alloc' = alloc \cup {Fresh(alloc)}
    /\ view' = [view EXCEPT ![Fresh(alloc)] = v]
    /\ root' = Fresh(alloc)
    /\ UNCHANGED <<parent, left, right, focused>>

\* The first view of an empty layout.
Plant(v) ==
    /\ Nodes \ alloc # {}
    /\ LET leaf == Fresh(alloc) IN
       /\ alloc' = alloc \cup {leaf}
       /\ view' = [view EXCEPT ![leaf] = v]
       /\ root' = leaf
       /\ focused' = leaf
    /\ UNCHANGED <<parent, left, right>>

\* Mutants of Replaced: the call is missing; the new child always becomes the
\* first.
ReplacedNot(slot, old, new) == slot
ReplacedFirst(slot, old, new) ==
    [n \in Nodes |->
       IF n \notin alloc \/ old \notin {left[n], right[n]} THEN slot[n]
       ELSE IF slot = left THEN new
       ELSE IF left[n] = old THEN right[n] ELSE left[n]]

\* replace_child: the child slot of every node, with new where old was.
Replaced(slot, old, new) ==
    [n \in Nodes |-> IF n \in alloc /\ slot[n] = old THEN new ELSE slot[n]]

\* Splits the leaf target: an inner node takes its place and holds it and a
\* new leaf for v, as the first child if before is TRUE.
Split(v, target, before) ==
    \E leaf, p \in Nodes \ alloc :
      /\ leaf = Fresh(alloc)
      /\ p = Fresh(alloc \cup {leaf})
      /\ p # leaf
      /\ alloc' = alloc \cup {leaf, p}
      /\ view' = [view EXCEPT ![leaf] = v]
      /\ parent' = [n \in Nodes |-> IF n \in {target, leaf} THEN p
                                    ELSE IF n = p THEN parent[target]
                                    ELSE parent[n]]
      /\ left' = [Replaced(left, target, p) EXCEPT
                    ![p] = IF before THEN leaf ELSE target]
      /\ right' = [Replaced(right, target, p) EXCEPT
                    ![p] = IF before THEN target ELSE leaf]
      /\ root' = IF target = root THEN p ELSE root
      /\ focused' = leaf

\* Where a new view goes: the focused leaf, or the first one.
Target == IF focused \in Leaves THEN {focused} ELSE FirstLeaf(root)

\* dwindle_add_view.  When calloc fails nothing has changed: the leaf is freed
\* if the inner node cannot be had.  The branch that finds no target in a tree
\* is dead code.
AddView(v) ==
    /\ ~ InTree(v)
    /\ IF root = NoNode THEN Plant(v)
       ELSE \E target \in Target : Split(v, target, FALSE)

\* Mutant of Free: only the leaf is freed.
FreeLeaf(cells) ==
    /\ alloc' = alloc \ (cells \cap Leaves)
    /\ view' = [n \in Nodes |-> IF n \in cells THEN NoView ELSE view[n]]

Free(cells) ==
    /\ alloc' = alloc \ cells
    /\ view' = [n \in Nodes |-> IF n \in cells THEN NoView ELSE view[n]]

\* The last view of a layout.
Uproot(leaf) ==
    /\ leaf = root
    /\ Free({leaf})
    /\ root' = NoNode
    /\ focused' = NoNode
    /\ UNCHANGED <<parent, left, right>>

\* The focus, if it was on the removed leaf, goes to the first leaf of its
\* sibling.
Refocus(leaf, sibling) == IF focused = leaf THEN focused' \in FirstLeaf(sibling)
                          ELSE UNCHANGED focused

\* The sibling of a leaf takes the place of their parent.  The branch without a
\* sibling is dead code (TreeShape).
Promote(leaf) ==
    LET p       == parent[leaf]
        sibling == IF left[p] = leaf THEN right[p] ELSE left[p]
        clear(slot) == [slot EXCEPT ![p] = NoNode]
    IN  /\ leaf # root
        /\ Free({leaf, p})
        /\ parent' = [parent EXCEPT ![leaf] = NoNode, ![p] = NoNode,
                                    ![sibling] = parent[p]]
        /\ left' = clear(Replaced(left, p, sibling))
        /\ right' = clear(Replaced(right, p, sibling))
        /\ root' = IF parent[p] = NoNode THEN sibling ELSE root
        /\ Refocus(leaf, sibling)

\* dwindle_remove_view
RemoveView(v) == \E leaf \in LeafOf(v) : Uproot(leaf) \/ Promote(leaf)

\* dwindle_focus
FocusView(v) == /\ focused' \in LeafOf(v)
                /\ UNCHANGED tree

\* dwindle_move_focus: the search finds a leaf in the direction, if any.
MoveFocus == /\ focused \in Leaves
             /\ focused' \in Leaves \ {focused}
             /\ UNCHANGED tree

\* Two leaves trade their views.
Exchange(m, n) == view' = [view EXCEPT ![m] = view[n], ![n] = view[m]]

\* dwindle_move_view: the focused view trades places with the leaf the search
\* finds, and keeps the focus.
MoveView == /\ focused \in Leaves
            /\ \E best \in Leaves \ {focused} :
                 /\ Exchange(focused, best)
                 /\ focused' = best
            /\ UNCHANGED <<alloc, parent, left, right, root>>

\* dwindle_swap_views
SwapViews(a, b) ==
    /\ a # b
    /\ \E m \in LeafOf(a), n \in LeafOf(b) :
         /\ Exchange(m, n)
         /\ focused' = IF focused = m THEN n ELSE IF focused = n THEN m ELSE focused
    /\ UNCHANGED <<alloc, parent, left, right, root>>

\* dwindle_place_view: a view dropped on another splits it, and comes first
\* when it was dropped on the near half.  If it was in the layout already, or
\* there is no memory, only the focus moves; siblings may still be swapped.
PlaceView(v, under) ==
    \/ /\ ~ InTree(v)
       /\ \E target \in LeafOf(under), before \in BOOLEAN : Split(v, target, before)
    \/ /\ ~ InTree(v) /\ ~ InTree(under)
       /\ AddView(v)
    \/ FocusView(under)
    \/ /\ focused' \in LeafOf(under)
       /\ \E leaf \in LeafOf(v) :
            LET p == parent[leaf] IN
            /\ p # NoNode
            /\ left[p] = focused' /\ right[p] = leaf
            /\ left' = [left EXCEPT ![p] = leaf]
            /\ right' = [right EXCEPT ![p] = focused']
       /\ UNCHANGED <<alloc, view, parent, root>>

Init == /\ alloc = {}
        /\ view = [n \in Nodes |-> NoView]
        /\ parent = [n \in Nodes |-> NoNode]
        /\ left = [n \in Nodes |-> NoNode]
        /\ right = [n \in Nodes |-> NoNode]
        /\ root = NoNode
        /\ focused = NoNode

Next == \/ \E v \in Views : AddView(v) \/ RemoveView(v) \/ FocusView(v)
        \/ MoveFocus \/ MoveView
        \/ \E v, u \in Views : SwapViews(v, u) \/ PlaceView(v, u)

Spec == Init /\ [][Next]_vars
-----------------------------------------------------------------------------
(* Properties                                                              *)

TypeOK == /\ alloc \subseteq Nodes
          /\ view \in [Nodes -> Views \cup {NoView}]
          /\ {parent, left, right} \subseteq [Nodes -> Nodes \cup {NoNode}]
          /\ {root, focused} \subseteq Nodes \cup {NoNode}

\* The pointers form a binary tree: a leaf has no children, an inner node has
\* two that point back at it, every node but the root hangs under its parent.
TreeShape ==
    /\ \A n \in alloc :
         IF view[n] # NoView THEN left[n] = NoNode /\ right[n] = NoNode
         ELSE /\ {left[n], right[n]} \subseteq alloc
              /\ left[n] # right[n]
              /\ parent[left[n]] = n /\ parent[right[n]] = n
    /\ \A n \in alloc \ {root} :
         /\ parent[n] \in alloc
         /\ n \in {left[parent[n]], right[parent[n]]}
    /\ root # NoNode => root \in alloc /\ parent[root] = NoNode

\* Nothing leaks and nothing dangles: the cells in use are exactly those the
\* tree reaches (node_destroy_recursive frees them all, once).
NoLeak == alloc = Below(root)

\* A view has at most one leaf: find_leaf finds the only one.
OneLeafPerView == \A m, n \in Leaves : view[m] = view[n] => m = n

\* The focus is a live leaf, and there is one whenever the layout is not
\* empty.
FocusIsLeaf == IF root = NoNode THEN focused = NoNode ELSE focused \in Leaves

\* The views of a subtree from left to right (from top to bottom).
InOrder(n) ==
    LET views[k \in alloc] == IF view[k] # NoView THEN <<view[k]>>
                              ELSE views[left[k]] \o views[right[k]]
    IN  IF n = NoNode THEN <<>> ELSE views[n]

Comes(order, u, v) == \E i, j \in DOMAIN order : i < j /\ order[i] = u /\ order[j] = v

\* Adding or removing a window leaves the others in their order.
OrderKept ==
    [][alloc' # alloc =>
         LET before == InOrder(root)
             after  == InOrder(root)'
         IN  \A u, v \in Range(before) \cap Range(after) :
               Comes(before, u, v) <=> Comes(after, u, v)]_vars

\* The promise to the compositor.
HeldViews == {view[n] : n \in Leaves}
FocusedView == IF focused = NoNode THEN NoView ELSE view[focused]

Abstract == INSTANCE Layout WITH held <- HeldViews, focus <- FocusedView

ImplementsLayout == Abstract!LayoutSpec
=============================================================================
