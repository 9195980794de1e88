------------------------------- MODULE MCPorts -------------------------------
(* Port hopping: the plan of a topology and its rules (PortPlan), and the      *)
(* manager with its nftables backend (PortHopping), which takes plans as given. *)
(* The two share no variables; in one behaviour one of them moves, the one that *)
(* part names.                                                                 *)
EXTENDS PortHopping, Sequences

CONSTANTS p1, Invalid, Pending

VARIABLES part, topology, plan

\* One plan, which nobody changes any more: "settle".
Settle == INSTANCE PortHopping WITH Plans <- {p1}, MaxFaults <- 3

\* Two nodes, four ports; valid ranges, and one that is refused.
MaxPort == 4
Items == {i \in (1 .. MaxPort) \X (1 .. MaxPort) : i[1] <= i[2]} \cup {<<2, 1>>}
Node(id, h, l, items) == [id |-> id, hysteria |-> h, listen |-> l, items |-> items]
Upto2(S) == {<<>>} \cup {<<x>> : x \in S} \cup (S \X S)
First == {Node(id, TRUE, l, s) : id \in {1, 2}, l \in 0 .. MaxPort, s \in Upto2(Items)}
Second == {Node(1, h, l, s) : h \in BOOLEAN, l \in {0, 2, MaxPort}, s \in {<<>>, <<<<3, 3>>>>, <<<<1, 2>>>>}}
PlanOf == INSTANCE PortPlan
    WITH Topologies <- {<<a, b>> : a \in First, b \in Second}, Owner <- "us", Stranger <- "other"

-----------------------------------------------------------------------------
MCInit ==
    /\ part \in {"manager", "settle", "plan"}
    /\ Init
    /\ IF part = "plan" THEN PlanOf!Init ELSE topology = <<>> /\ plan = Pending
    /\ part = "plan" => lacking = {} /\ nat = Family

MCNext ==
    /\ UNCHANGED part
    /\ \/ part = "manager" /\ Next /\ UNCHANGED <<topology, plan>>
       \/ part = "settle" /\ Settle!Settling /\ UNCHANGED <<topology, plan>>
       \/ part = "plan" /\ PlanOf!Next /\ UNCHANGED vars

\* The manager runs its calls, and the topology manager reconciles again and again.
MCFairSpec ==
    /\ MCInit /\ [][MCNext]_<<part, vars, topology, plan>>
    /\ WF_vars(part = "settle" /\ Settle!Steps)
    /\ WF_vars(part = "settle" /\ Settle!Reconcile)

\* build_plan accepts and redirects exactly what the panel's port expressions allow,
\* and inspect_owned_rules recognises the table build_batch wrote for it, and no
\* other.
PlanIsExact == PlanOf!PlanIsExact /\ PlanOf!TableIsProof

\* Reconciliation of porthopping/manager.rs ends with the plan wanted in the kernel.
Settles == part = "settle" => Converges
=============================================================================
