--------------------------- MODULE TopologyContent ---------------------------
(***************************************************************************)
(* The content of the loaded topology: the model the runtime is compiled   *)
(* from and, beside it, the wire snapshot whose digest the panel compares  *)
(* when a session opens.  Every command changes both, with code of its     *)
(* own for each.                                                           *)
(*                                                                         *)
(* Identities are numbers, so that they can be sorted; 0 is the empty one. *)
(* A provider configuration, a route and a credential are values.  The     *)
(* digest is represented by what is hashed.  Compiling and starting what a *)
(* command asks for may fail, and then the command changes neither copy:   *)
(* it is a step that is not taken.                                         *)
(***************************************************************************)
EXTENDS Integers, Sequences, FiniteSets, SequencesExt, FiniteSetsExt

CONSTANTS NodeIds, Routes,
          WireUsers,       \* users as the panel sends them
          WireNodes,       \* nodes as the panel sends them
          Snapshots,       \* complete node lists of the panel
          UserLists,       \* answers to ListUsers
          MaxRev, None

VARIABLES top,    \* MachineTopology: revision, nodes, route
          snap    \* its snapshot

vars == <<top, snap>>

(* Identity and conversion of users and nodes.                              *)
FromWireUser(u) ==
  [id |-> u.id, cred |-> u.cred, status |-> IF u.status = "disabled" THEN "disabled" ELSE ""]

ToWireUser(u) ==
  [id |-> u.id, cred |-> u.cred, status |-> IF u.status = "disabled" THEN "disabled" ELSE "active"]

Each(Op(_), s) == [i \in 1..Len(s) |-> Op(s[i])]

FromWireNode(n) == [id |-> n.id, cfg |-> n.cfg, users |-> Each(FromWireUser, n.users)]

Find(s, id) == Min({i \in 1..Len(s) : s[i].id = id})
Known(s, id) == \E i \in 1..Len(s) : s[i].id = id
Without(s, id) == SelectSeq(s, LAMBDA x : x.id # id)

Upsert(s, id, x) == IF Known(s, id) THEN [s EXCEPT ![Find(s, id)] = x] ELSE Append(s, x)

(* from_snapshot.                                                           *)
Loaded(rev, nodes, route) ==
  /\ top' = [rev |-> rev, nodes |-> Each(FromWireNode, nodes), route |-> route]
  /\ snap' = [rev |-> rev, nodes |-> nodes, route |-> route]

Init ==
  /\ top = [rev |-> 0, nodes |-> <<>>, route |-> None]
  /\ snap = None

(* guard_revision, guard_revision_fence: never zero, never backwards.       *)
Targets == {r \in {top.rev, top.rev + 1} : r \in 1..MaxRev}

ApplySnapshot(nodes, route) == \E rev \in Targets : Loaded(rev, nodes, route)

(* replace_node_users on the snapshot.                                      *)
ReplaceUsers(nodes, id, users) ==
  IF Known(nodes, id) THEN [nodes EXCEPT ![Find(nodes, id)].users = Each(ToWireUser, users)]
  ELSE nodes

(* from_machine_config, whose nodes have no users, and then the users of    *)
(* every node, converted when they were read.                               *)
FetchConfigured(nodes, lists, route) ==
  \E rev \in Targets :
    LET bare == [i \in 1..Len(nodes) |-> [nodes[i] EXCEPT !.users = <<>>]]
        users(i) == Each(FromWireUser, lists[nodes[i].id])
        filled[k \in 0..Len(nodes)] ==
          IF k = 0 THEN bare ELSE ReplaceUsers(filled[k - 1], nodes[k].id, users(k))
    IN  /\ top' = [rev |-> rev, route |-> route,
                   nodes |-> [i \in 1..Len(nodes) |->
                                [FromWireNode(bare[i]) EXCEPT !.users = users(i)]]]
        /\ snap' = [rev |-> rev, nodes |-> filled[Len(nodes)], route |-> route]

-----------------------------------------------------------------------------
(* A node mutation names the node, carries it, or both, and then the panel  *)
(* does not name two.                                                       *)
NodeMutation ==
  {m \in [op : {"upsert", "delete"}, id : NodeIds \cup {0}, node : WireNodes \cup {None}] :
     m.id # 0 /\ m.node # None => m.node.id \in {0, m.id}}

MutatedId(m) == IF m.id # 0 THEN m.id ELSE IF m.node = None THEN 0 ELSE m.node.id

(* apply_node_mutation, on the model.                                       *)
EmptyNode(id) == [id |-> id, cfg |-> None, users |-> <<>>]

Named(n, id) == IF n.id = 0 THEN [n EXCEPT !.id = id] ELSE n

MutateNode(nodes, m) ==
  LET id == MutatedId(m)
      new == IF m.node = None THEN EmptyNode(id) ELSE Named(FromWireNode(m.node), id)
  IN  IF id = 0 THEN nodes
      ELSE IF m.op = "delete" THEN Without(nodes, id)
      ELSE Upsert(nodes, id, new)

(* apply_node_mutation_to_snapshot.                                         *)
MutateWireNode(nodes, m) ==
  LET id == MutatedId(m)
      new == IF m.node = None THEN [id |-> id, cfg |-> None, users |-> <<>>, analysis |-> FALSE]
             ELSE Named(m.node, id)
  IN  IF id = 0 THEN nodes
      ELSE IF m.op = "delete" THEN Without(nodes, id)
      ELSE Upsert(nodes, id, new)

UserMutation == [op : {"upsert", "delete"}, node : NodeIds \cup {0}, user : WireUsers \cup {None}]

(* apply_user_mutation refuses a mutation without node, user or identity.   *)
ValidMutation(nodes, m) ==
  /\ m.node # 0 /\ Known(nodes, m.node)
  /\ IF m.user = None THEN FALSE ELSE m.user.id # 0

Leaves(m) == m.op = "delete" \/ m.user.status = "disabled"

MutateUser(nodes, m) ==
  LET i == Find(nodes, m.node)
  IN  [nodes EXCEPT ![i].users =
         IF m.op = "delete" \/ FromWireUser(m.user).status = "disabled"
         THEN Without(@, m.user.id)
         ELSE Upsert(@, m.user.id, FromWireUser(m.user))]

(* apply_user_mutation_to_snapshot.                                         *)
MutateWireUser(nodes, m) ==
  IF ~Known(nodes, m.node) \/ m.user = None THEN nodes
  ELSE [nodes EXCEPT ![Find(nodes, m.node)].users =
          IF Leaves(m) THEN Without(@, m.user.id) ELSE Upsert(@, m.user.id, m.user)]

(* apply_delta: node mutations, then user mutations; one invalid mutation   *)
(* refuses the whole command.                                               *)
ApplyDelta(m, u) ==
  /\ snap # None /\ ValidMutation(MutateNode(top.nodes, m), u)
  /\ \E rev \in Targets :
       /\ top' = [top EXCEPT !.rev = rev, !.nodes = MutateUser(MutateNode(@, m), u)]
       /\ snap' = [snap EXCEPT !.rev = rev, !.nodes = MutateWireUser(MutateWireNode(@, m), u)]

(* apply_delta with one node mutation.                                      *)
ApplyNodeDelta(m) ==
  /\ snap # None
  /\ \E rev \in Targets :
       /\ top' = [top EXCEPT !.rev = rev, !.nodes = MutateNode(@, m)]
       /\ snap' = [snap EXCEPT !.rev = rev, !.nodes = MutateWireNode(@, m)]

ApplyUserMutation(u) ==
  /\ snap # None /\ ValidMutation(top.nodes, u)
  /\ \E rev \in Targets :
       /\ top' = [top EXCEPT !.rev = rev, !.nodes = MutateUser(@, u)]
       /\ snap' = [snap EXCEPT !.rev = rev, !.nodes = MutateWireUser(@, u)]

(* apply_route_patch_to_snapshot.                                           *)
PatchWire(s, rev, route) == [s EXCEPT !.rev = rev, !.route = route]

ApplyRoutePatch(route) ==
  /\ snap # None
  /\ \E rev \in Targets :
       /\ top' = [top EXCEPT !.rev = rev, !.route = route]
       /\ snap' = PatchWire(snap, rev, route)

(* refresh_owned: compare_node_users does not see the order.                *)
Differ(old, new) == ToSet(old) # ToSet(new)

RefreshUsers(id, list) ==
  LET users == Each(FromWireUser, list)
      i == Find(top.nodes, id)
  IN  /\ snap # None /\ Known(top.nodes, id)
      /\ \E rev \in Targets :
           IF Differ(top.nodes[i].users, users)
           THEN /\ top' = [top EXCEPT !.rev = rev, !.nodes[i].users = users]
                /\ snap' = [snap EXCEPT !.rev = rev, !.nodes = ReplaceUsers(@, id, users)]
           ELSE /\ top' = [top EXCEPT !.rev = rev]
                /\ snap' = [snap EXCEPT !.rev = rev]

Next ==
  \/ \E nodes \in Snapshots, route \in Routes : ApplySnapshot(nodes, route)
  \/ \E nodes \in Snapshots, lists \in [NodeIds -> UserLists], route \in Routes :
       FetchConfigured(nodes, lists, route)
  \/ \E m \in NodeMutation : ApplyNodeDelta(m)
  \/ \E m \in NodeMutation, u \in UserMutation : ApplyDelta(m, u)
  \/ \E u \in UserMutation : ApplyUserMutation(u)
  \/ \E route \in Routes : ApplyRoutePatch(route)
  \/ \E id \in NodeIds, list \in UserLists : RefreshUsers(id, list)

Spec == Init /\ [][Next]_vars

-----------------------------------------------------------------------------
(* digest::sum: without revision and analysis, in the order of identities.  *)
ById(x, y) == x.id < y.id
Normalized(n) == [id |-> n.id, cfg |-> n.cfg, users |-> SortSeq(n.users, ById)]

AsListed(s) == [nodes |-> Each(Normalized, s.nodes), route |-> s.route]

Sum(s) == [nodes |-> SortSeq(Each(Normalized, s.nodes), ById), route |-> s.route]

(* What the panel would send for the loaded content: one node per identity  *)
(* with its configuration and its users.                                    *)
Content == [n \in {top.nodes[i].id : i \in 1..Len(top.nodes)} |->
              LET node == top.nodes[Find(top.nodes, n)]
              IN  [cfg |-> node.cfg,
                   users |-> {ToWireUser(node.users[i]) : i \in 1..Len(node.users)}]]

InOrder(S) == SetToSortSeq(S, ById)

(* digest: it depends on the loaded content alone and not on the commands   *)
(* that brought it about, so a machine that has what the panel has is not   *)
(* made to load everything again.                                           *)
DigestIsContent ==
  snap # None =>
    Sum(snap) = [route |-> top.route,
                 nodes |-> InOrder({[id |-> n, cfg |-> Content[n].cfg,
                                     users |-> InOrder(Content[n].users)] : n \in DOMAIN Content})]

=============================================================================
