------------------------------ MODULE A11yTree ------------------------------
(***************************************************************************)
(* The accessibility nodes of moo's display server (moo_a11y_core.c), on   *)
(* top of InputCore: one tree per input target, whose edges the owner      *)
(* rearranges node by node or several nodes in one call.                   *)
(*                                                                         *)
(* A node is its place in the tree and the nodes it refers to; roles,      *)
(* states, texts and bounds are left out, and with them the revision that  *)
(* an update must name and then advances.  Which client may send actions   *)
(* is a policy of the server: here any client may be one that does.        *)
(***************************************************************************)
EXTENDS InputCore

CONSTANTS
  NodeCapacity,  (* node slots                                             *)
  MaxDepth,      (* config.max_a11y_depth                                  *)
  MaxRelations   (* labelled_by, described_by and controls: at most 3      *)

ASSUME NodeAssumption ==
  /\ {NodeCapacity, MaxDepth} \subseteq Nat \ {0}
  /\ MaxRelations \in 0 .. 3

VARIABLE nodes   (* core->nodes *)

treeVars == <<vars, nodes>>

NodeSlot   == 1 .. NodeCapacity
NodeHandle == NodeSlot \X Generation

\* MooA11yNodeData: the parent and the nodes that the relations name.
NodeData == [parent : NodeHandle \cup {NoHandle},
             relations : {R \in SUBSET NodeHandle :
                            Cardinality(R) <= MaxRelations}]

NoData == [parent |-> NoHandle, relations |-> {}]

DeadNode(g) == [live |-> FALSE, generation |-> g, owner |-> NoHandle,
                target |-> NoHandle, data |-> NoData]

NodeOk(n)     == IsLive(nodes, n)
Handle(i)     == <<i, nodes[i].generation>>
NodesOf(t)    == {i \in NodeSlot : nodes[i].live /\ nodes[i].target = t}
OwnedNode(c, n) == NodeOk(n) /\ nodes[n[1]].owner = c
SameTree(c, t, n) ==
  OwnedNode(c, n) /\ nodes[n[1]].target = t

\* Seeded fault: the overlay of proposed parents is not looked at.
ParentAsItIs(change, n) == nodes[n[1]].data.parent

\* The parents once the nodes in the domain of change have their new data.
ParentIn(change, n) ==
  IF n \in DOMAIN change THEN change[n].parent ELSE nodes[n[1]].data.parent

Unchanged == [n \in {} |-> NoData]

\* The way up from parent: one node after the other until there is none.
WayUp(change, parent) ==
  LET up[k \in 0 .. MaxDepth] ==
        IF k = 0 THEN parent
        ELSE IF up[k - 1] = NoHandle THEN NoHandle
        ELSE ParentIn(change, up[k - 1])
  IN  up

\* validate_parent: from parent the root is reached in MaxDepth nodes, all of
\* the tree (c, t) and none of them self.
ChainOk(change, c, t, self, parent) ==
  LET up == WayUp(change, parent)
  IN  \E k \in 0 .. MaxDepth :
        /\ up[k] = NoHandle
        /\ \A j \in 0 .. k - 1 : SameTree(c, t, up[j]) /\ up[j] # self

\* validate_data, in the tree as it is.
DataOk(c, t, self, data) ==
  /\ ChainOk(Unchanged, c, t, self, data.parent)
  /\ \A r \in data.relations : SameTree(c, t, r) /\ r # self

\* The new data for the nodes of S that pass these checks one by one.
Changes(c, S) ==
  LET valid == UNION {{<<n, data>> : data \in
                         {d \in NodeData : DataOk(c, nodes[n[1]].target, n, d)}} :
                        n \in S}
  IN  {change \in [S -> {v[2] : v \in valid}] :
         \A n \in S : <<n, change[n]>> \in valid}

RootsIn(change, t) == {i \in NodesOf(t) : ParentIn(change, Handle(i)) = NoHandle}

OneRoot(change, t) == Cardinality(RootsIn(change, t)) = 1

-----------------------------------------------------------------------------
TreeInit == Init /\ nodes = [i \in NodeSlot |-> DeadNode(1)]

\* The first node of a target is its root, every other has a parent.
NodeCreate(c, t, data) ==
  /\ ClientOk(c)
  /\ Owned(c, t)
  /\ "ACCESSIBILITY" \in features
  /\ DataOk(c, t, NoHandle, data)
  /\ IF NodesOf(t) = {} THEN data.parent = NoHandle
     ELSE OneRoot(Unchanged, t) /\ data.parent # NoHandle
  /\ Allocatable(nodes) # {}
  /\ LET i == Lowest(Allocatable(nodes))
     IN  nodes' = [nodes EXCEPT ![i].live = TRUE, ![i].owner = c,
                                ![i].target = t, ![i].data = data]
  /\ UNCHANGED vars

NodeUpdate(c, n, data) ==
  LET t == nodes[n[1]].target
  IN  /\ ClientOk(c)
      /\ OwnedNode(c, n)
      /\ "ACCESSIBILITY" \in features
      /\ DataOk(c, t, n, data)
      /\ OneRoot([m \in {n} |-> data], t)
      /\ nodes' = [nodes EXCEPT ![n[1]].data = data]
      /\ UNCHANGED vars

\* Seeded fault: the relations to a node do not keep it.
NodeDestroyUnlessParent(c, n) ==
  /\ ClientOk(c)
  /\ OwnedNode(c, n)
  /\ \A i \in NodeSlot : nodes[i].live => nodes[i].data.parent # n
  /\ nodes' = [nodes EXCEPT ![n[1]] = DeadNode(NextGeneration(n[2]))]
  /\ UNCHANGED vars

\* Only a node that no node refers to.
NodeDestroy(c, n) ==
  /\ ClientOk(c)
  /\ OwnedNode(c, n)
  /\ \A i \in NodeSlot : nodes[i].live =>
       n \notin {nodes[i].data.parent} \cup nodes[i].data.relations
  /\ nodes' = [nodes EXCEPT ![n[1]] = DeadNode(NextGeneration(n[2]))]
  /\ UNCHANGED vars

\* Several nodes at once, of any of the client's trees.  Every one of them is
\* checked alone in the tree as it is, then its way up in the tree to be,
\* then the roots of every tree that is touched.
NodesUpdateAtomic(c, S) ==
  /\ ClientOk(c)
  /\ "ACCESSIBILITY" \in features
  /\ S # {}
  /\ \A n \in S : OwnedNode(c, n)
  /\ \E change \in Changes(c, S) :
       /\ \A n \in S :
            ChainOk(change, c, nodes[n[1]].target, n, change[n].parent)
       /\ \A n \in S : OneRoot(change, nodes[n[1]].target)
       /\ nodes' = [i \in NodeSlot |->
                      IF nodes[i].live /\ Handle(i) \in S
                      THEN [nodes[i] EXCEPT !.data = change[Handle(i)]]
                      ELSE nodes[i]]
  /\ UNCHANGED vars

\* moo_a11y_action: client c asks for an action; the owner of n is told.
Action(c, n) ==
  /\ ClientOk(c)
  /\ "AUTOMATION" \in features
  /\ NodeOk(n)
  /\ Deliver(Mail(nodes[n[1]].owner,
                  <<Event("DATA", nodes[n[1]].target, 0)>>, 0))
  /\ UNCHANGED <<targets, seatVars, shortcuts, nodes>>

\* A target with nodes stays.
TreeTargetDestroy(c, t) ==
  /\ NodesOf(t) = {}
  /\ TargetDestroy(c, t)
  /\ UNCHANGED nodes

TreeClientDisconnect(c) ==
  /\ ClientDisconnect(c)
  /\ nodes' = [i \in NodeSlot |->
                 IF nodes[i].live /\ nodes[i].owner = c
                 THEN DeadNode(NextGeneration(nodes[i].generation))
                 ELSE nodes[i]]

-----------------------------------------------------------------------------
TreeNext ==
  /\ \/ SeatNext /\ UNCHANGED nodes
     \/ \E c \in ClientHandle :
          \/ TreeClientDisconnect(c)
          \/ \E t \in TargetHandle : TreeTargetDestroy(c, t)
          \/ \E t \in TargetHandle, data \in NodeData : NodeCreate(c, t, data)
          \/ \E n \in NodeHandle, data \in NodeData : NodeUpdate(c, n, data)
          \/ \E n \in NodeHandle : NodeDestroy(c, n) \/ Action(c, n)
          \/ \E S \in SUBSET NodeHandle : NodesUpdateAtomic(c, S)
  /\ UNCHANGED features

TreeSpec == TreeInit /\ [][TreeNext]_treeVars

-----------------------------------------------------------------------------
(* Properties.                                                             *)

\* The node table keeps its type.
TreeTypeOK ==
  nodes \in [NodeSlot ->
    [live : BOOLEAN, generation : 0 .. MaxGeneration,
     owner : ClientHandle \cup {NoHandle},
     target : TargetHandle \cup {NoHandle}, data : NodeData]]

\* Every edge ends at a live node of the same owner and target, and every node
\* belongs to a live client's own live target: neither node_destroy nor
\* target_destroy nor client_disconnect leaves an edge that dangles.
EdgesInside ==
  /\ TreeTypeOK
  /\ \A i \in NodeSlot : nodes[i].live =>
       /\ ClientOk(nodes[i].owner)
       /\ Owned(nodes[i].owner, nodes[i].target)
       /\ \A n \in ({nodes[i].data.parent} \cup nodes[i].data.relations)
                     \ {NoHandle} :
            SameTree(nodes[i].owner, nodes[i].target, n) /\ n # Handle(i)

\* Every target with nodes has one root and no cycle, whichever nodes the calls
\* move, one by one or several at once: a set of nodes that holds the parents
\* of its members holds the root.
OneRootedTree ==
  \A t \in TargetHandle : NodesOf(t) # {} =>
    \E root \in NodesOf(t) :
      /\ nodes[root].data.parent = NoHandle
      /\ \A S \in (SUBSET NodesOf(t)) \ {{}} :
           (\A i \in S : nodes[i].data.parent # NoHandle =>
                           nodes[i].data.parent[1] \in S) => root \in S

\* The nodes from i up to the root.
Ancestors(i) ==
  LET up[k \in 0 .. NodeCapacity] ==
        IF k = 0 THEN {i}
        ELSE up[k - 1] \cup {nodes[j].data.parent[1] :
               j \in {m \in up[k - 1] : nodes[m].data.parent # NoHandle}}
  IN  up[NodeCapacity] \ {i}

\* docs/ui_moo-input-a11y.md:100: too great a depth is invalid, like cycles and
\* second roots.  That is, no node has more than max_a11y_depth nodes above it.
\* validate_parent looks only up from the node that moves; the nodes below move
\* with it, unchecked.
DepthBounded ==
  \A i \in NodeSlot : nodes[i].live => Cardinality(Ancestors(i)) <= MaxDepth
=============================================================================
