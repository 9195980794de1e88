------------------------------ MODULE PortPlan ------------------------------
(***************************************************************************)
(* The port-hopping plan of a topology (porthopping/port_ranges.rs,        *)
(* plan.rs) and the nftables rules that carry it and prove their ownership *)
(* (porthopping/backend_linux.rs).                                         *)
(*                                                                         *)
(* A node has an id, a listen port (0 when unset) and the port expression  *)
(* of the panel, here the sequence of its items <<start, end>> after the   *)
(* decimal parse.  A digest is the plan it was computed from.              *)
(***************************************************************************)
EXTENDS Integers, Sequences, FiniteSets, TLC, SequencesExt

CONSTANTS
    MaxPort,       \* 65535 in the code
    Topologies,    \* sequences of nodes [id, hysteria, listen, items]
    Owner, Stranger,
    Invalid,       \* an expression or a topology that is refused
    Pending        \* a plan not yet built

VARIABLES topology, plan

vars == <<topology, plan>>

-----------------------------------------------------------------------------
(* parse_port_ranges *)

ValidItem(i) == i[1] \in 1 .. MaxPort /\ i[2] \in 1 .. MaxPort /\ i[1] <= i[2]

Before(x, y) == x[1] < y[1] \/ (x[1] = y[1] /\ x[2] < y[2])
SortItems(items) ==
    SortSeq(items, Before)

MergeItem(merged, r) ==
    IF merged # <<>> /\ r[1] <= Last(merged)[2] + 1
    THEN Front(merged) \o <<<<Last(merged)[1], IF r[2] > Last(merged)[2] THEN r[2] ELSE Last(merged)[2]>>>>
    ELSE Append(merged, r)

merge_port_ranges(ranges) == FoldLeft(MergeItem, <<>>, SortItems(ranges))

parse_port_ranges(items) ==
    IF \A i \in DOMAIN items : ValidItem(items[i]) THEN merge_port_ranges(items) ELSE Invalid

-----------------------------------------------------------------------------
(* build_plan *)

Covers(r, port) == r[1] <= port /\ port <= r[2]

\* One range without the listen port: none, one or two ranges.
Without(r, port) ==
    IF ~Covers(r, port) THEN <<r>>
    ELSE (IF r[1] < port THEN <<<<r[1], port - 1>>>> ELSE <<>>)
         \o (IF port < r[2] THEN <<<<port + 1, r[2]>>>> ELSE <<>>)

remove_self_redirects(ranges, port) ==
    FoldLeft(LAMBDA acc, r : acc \o Without(r, port), <<>>, ranges)

first_overlap(left, right) ==
    \E i \in DOMAIN left, j \in DOMAIN right :
        \E p \in 1 .. MaxPort : Covers(left[i], p) /\ Covers(right[j], p)

Hopping(n) == parse_port_ranges(n.items)
Redirect(n) == [node |-> n.id, listen |-> n.listen, ports |-> remove_self_redirects(Hopping(n), n.listen)]

\* Mutant: the listen-port conflict is looked for in the redirects only.
ListenConflict_Redirects(hys) ==
    \E i, j \in DOMAIN hys : i # j /\ hys[j].listen # 0
        /\ \E r \in DOMAIN Redirect(hys[i]).ports : Covers(Redirect(hys[i]).ports[r], hys[j].listen)

ListenConflict(hys) ==
    \E i, j \in DOMAIN hys : i # j /\ hys[j].listen # 0
        /\ \E r \in DOMAIN Hopping(hys[i]) : Covers(Hopping(hys[i])[r], hys[j].listen)

Redirects(hys) ==
    SortSeq(SelectSeq([i \in DOMAIN hys |-> Redirect(hys[i])], LAMBDA r : r.ports # <<>>),
            LAMBDA x, y : x.node < y.node)

build_plan(nodes) ==
    LET hys == SelectSeq(nodes, LAMBDA n : n.hysteria)
    IN  IF \/ \E i, j \in DOMAIN nodes : i # j /\ nodes[i].id = nodes[j].id
           \/ \E i \in DOMAIN hys : Hopping(hys[i]) = Invalid
        THEN Invalid
        ELSE LET rs == Redirects(hys)
             IN  IF \/ \E i \in DOMAIN rs : rs[i].listen = 0
                    \/ ListenConflict(hys)
                    \/ \E i, j \in DOMAIN rs : i < j /\ first_overlap(rs[i].ports, rs[j].ports)
                 THEN Invalid ELSE rs

-----------------------------------------------------------------------------
(* The rules of a table: what the kernel matches (source, target) and the  *)
(* marker beside it.                                                       *)

\* redirect_expressions, read back by managed_redirect_rule
Expressed(ports, port) == [source |-> ports, target |-> port]
MarkerOf(owner, p, redirect, ports) ==
    [owner |-> owner, digest |-> p, node |-> redirect.node, listen |-> redirect.listen, ports |-> ports]
RuleOf(owner, p, redirect, ports) ==
    [marker |-> MarkerOf(owner, p, redirect, ports)] @@ Expressed(ports, redirect.listen)

\* build_batch, one table of it
RulesOf(owner, p) ==
    FoldLeft(LAMBDA acc, r : acc \o [i \in DOMAIN r.ports |-> RuleOf(owner, p, r, r.ports[i])], <<>>, p)

\* What the markers say the plan was: nodes in order, ports in order.
MarkedPlan(rules) ==
    LET nodes == {rules[i].marker.node : i \in DOMAIN rules}
    IN  [k \in 1 .. Cardinality(nodes) |->
            LET n == SetToSortSeq(nodes, <)[k]
                mine == SelectSeq(rules, LAMBDA r : r.marker.node = n)
            IN  [node |-> n, listen |-> mine[1].marker.listen,
                 ports |-> SortItems([i \in DOMAIN mine |-> mine[i].marker.ports])]]

\* inspect_owned_rules (and inspect_managed_table): every rule is ours, does what its
\* marker says, and together they are the plan the markers name.  That the table
\* has one chain, of the expected shape, and that its own marker and the chain's,
\* where there are any, agree with the rules, is left out.
Proves(rules) ==
    /\ rules # <<>>
    /\ \A i \in DOMAIN rules :
          /\ rules[i].marker.owner = Owner
          /\ rules[i].marker.digest = rules[1].marker.digest
          /\ rules[i].source = rules[i].marker.ports /\ rules[i].target = rules[i].marker.listen
    /\ \A i, j \in DOMAIN rules : rules[i].marker.node = rules[j].marker.node =>
          rules[i].marker.listen = rules[j].marker.listen
    /\ MarkedPlan(rules) = rules[1].marker.digest

-----------------------------------------------------------------------------
Init == topology \in Topologies /\ plan = Pending
Build == plan = Pending /\ plan' = build_plan(topology) /\ UNCHANGED topology
Next == Build
Spec == Init /\ [][Next]_vars

-----------------------------------------------------------------------------
(* Properties *)

Ports(ranges) == {p \in 1 .. MaxPort : \E i \in DOMAIN ranges : Covers(ranges[i], p)}

\* The kernel may redirect a port in one way only, and never one that a Hysteria2
\* node listens on: build_plan accepts a topology exactly when that can be had,
\* and then redirects exactly the configured ports that are not the node's own, as
\* ranges in order that neither overlap nor touch, also at the last port.
PlanIsExact ==
    plan # Pending =>
        LET hys == {n \in ToSet(topology) : n.hysteria}
            asked(n) == Ports(n.items)
            ok == /\ Cardinality({topology[i].id : i \in DOMAIN topology}) = Len(topology)
                  /\ \A n \in hys : \A i \in DOMAIN n.items : ValidItem(n.items[i])
                  /\ \A n \in hys : asked(n) # {} => n.listen # 0
                  /\ \A n, k \in hys : n # k =>
                        asked(n) \cap asked(k) = {} /\ k.listen \notin asked(n)
        IN  IF plan = Invalid THEN ~ok
            ELSE /\ ok
                 /\ {<<plan[i].node, plan[i].listen, Ports(plan[i].ports)>> : i \in DOMAIN plan} =
                    {<<n.id, n.listen, asked(n) \ {n.listen}>> : n \in {n \in hys : asked(n) \ {n.listen} # {}}}
                 /\ \A i \in DOMAIN plan : \A k \in 1 .. Len(plan[i].ports) - 1 :
                       plan[i].ports[k][2] + 1 < plan[i].ports[k + 1][1]

\* The table the backend writes for a plan is one it recognises as its own on a
\* later look, in this process or the next; and no longer once a rule is missing,
\* belongs to another machine, or matches other ports than its marker says.
TableIsProof ==
    (plan \notin {Pending, Invalid} /\ plan # <<>>) =>
        LET rules == RulesOf(Owner, plan)
        IN  /\ Proves(rules) /\ rules[1].marker.digest = plan
            /\ ~Proves(RulesOf(Stranger, plan))
            /\ \A i \in DOMAIN rules :
                  /\ ~Proves(RemoveAt(rules, i))
                  /\ ~Proves([rules EXCEPT ![i].source = <<@[1], @[2] + 1>>])
                  /\ ~Proves([rules EXCEPT ![i].target = @ + 1])
                  /\ ~Proves([rules EXCEPT ![i].marker.owner = Stranger])
=============================================================================
