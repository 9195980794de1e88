--------------------------- MODULE TopologyManager ---------------------------
(***************************************************************************)
(* The topology transaction manager of the node agent                      *)
(* (crates/node-agent/src/topology/manager.rs, struct TopologyManager).    *)
(*                                                                         *)
(* Several tasks hand it topologies: the two control-command lanes, the    *)
(* initial synchronisation of a panel session, remote maintenance          *)
(* (forced reload, user synchronisation) and the reconciliation timer.     *)
(* Panel data is fetched OUTSIDE the operation lock; everything that       *)
(* changes the data plane or the publication happens under it.             *)
(*                                                                         *)
(* A task is a member of Callers and walks through                         *)
(*                                                                         *)
(*   idle -> fetching -> waiting -> acquired -> applying -> applied        *)
(*        -> closing -> idle                                               *)
(*                                                                         *)
(* (commands skip "fetching", reconciliation goes from "acquired" to       *)
(* "reconciling" and back to idle).  The data plane below the manager is   *)
(* the contract of its runtime adapter: an apply either installs the       *)
(* candidate, or fails leaving the previous one in place (with or without  *)
(* a rollback), or fails leaving listeners of both generations behind,     *)
(* which the next transaction stops before it rebuilds the previous one.   *)
(***************************************************************************)
EXTENDS Naturals, FiniteSets

CONSTANTS
    Callers,          \* tasks that submit operations
    SessionCallers,   \* those whose operations carry the session's cancellation token
    Nodes, Users,     \* proxy nodes of this machine, users of a node
    Creds, NoCred,    \* credentials; NoCred: the user is absent or disabled
    Revisions,        \* revisions the panel may name, 0 ("unset") included
    Nobody, Closer,   \* the free lock; the owner of the close transaction
    MaxPublications   \* bound on the operations that may publish

ASSUME CallersAssumption ==
    /\ SessionCallers \subseteq Callers
    /\ Nobody \notin Callers /\ Closer \notin Callers /\ Nobody # Closer

ASSUME DataAssumption ==
    /\ Revisions \subseteq Nat
    /\ NoCred \notin Creds
    /\ Nodes # {}
    /\ MaxPublications \in Nat

VARIABLES
    published,   \* PublishedTopology.topology; not loaded: the machine id is empty
    generation,  \* PublishedTopology.generation, the value of a PublicationToken
    runtime,     \* the runtime's committed table, its live listeners, and whether they agree
    conns,       \* proxied connections: <<node, user, credential they authenticated with>>
    lock,        \* owner of the operation mutex
    pc,          \* per task: where it is
    op,          \* per task: the local state of its operation (see Operation)
    cancelled,   \* per task: its session ended
    stopped,     \* operations_cancel
    closeState   \* close(): "open", "requested", "closing", "closed", "failed"

data == <<published, generation, runtime, conns>>
control == <<lock, pc, op, cancelled, stopped, closeState>>
vars == <<data, control>>

UserTable == [Users -> Creds \cup {NoCred}]
NodeTable == UNION {[S -> UserTable] : S \in SUBSET Nodes}
Topology == [loaded : BOOLEAN, revision : Nat, nodes : NodeTable]
\* What the panel can send: a topology always belongs to this machine.
PanelTopology == [loaded : {TRUE}, revision : Revisions, nodes : NodeTable]

Kinds == {"command", "authoritative", "reload", "fencedRefresh", "userSync", "reconcile"}
Fetching == {"authoritative", "reload"}
Refreshing == {"fencedRefresh", "userSync"}
PcStates == {"idle", "fetching", "waiting", "acquired", "applying", "applied",
             "closing", "reconciling"}

NoNodes == [n \in {} |-> [u \in Users |-> NoCred]]
Empty == [loaded |-> FALSE, revision |-> 0, nodes |-> NoNodes]

\* kind     the method being executed
\* node     node of a user refresh
\* token    publication token read before the fetch
\* seen     publication read before the fetch (a refresh keeps its node's users)
\* fetched  what the panel answered
\* cand     the topology handed to the runtime
\* kicks    users the command asks to disconnect
\* closing  users whose connections are still to be closed
Operation ==
    [kind : Kinds, node : Nodes, token : Nat, seen : Topology, fetched : Topology,
     cand : Topology, kicks : SUBSET (Nodes \X Users), closing : SUBSET (Nodes \X Users)]

AnyNode == CHOOSE n \in Nodes : TRUE

\* The locals of a task with no operation, or of one just begun.
Fresh(k) ==
    [kind |-> k, node |-> AnyNode, token |-> 0, seen |-> Empty, fetched |-> Empty,
     cand |-> Empty, kicks |-> {}, closing |-> {}]
NoOp == Fresh("command")

RuntimeStates == [ok : BOOLEAN, nodes : NodeTable, live : NodeTable]

\* A runtime in a known state: its listeners are those of the committed table.
\* Otherwise (AppliedState.current is None) the table is kept for recovery and
\* listeners of several generations may be live.
Serves(nodes) == [ok |-> TRUE, nodes |-> nodes, live |-> nodes]

TypeOK ==
    /\ published \in Topology
    /\ generation \in Nat
    /\ runtime \in RuntimeStates
    /\ conns \subseteq (Nodes \X Users \X Creds)
    /\ lock \in Callers \cup {Nobody, Closer}
    /\ pc \in [Callers -> PcStates]
    /\ op \in [Callers -> Operation]
    /\ cancelled \in [Callers -> BOOLEAN]
    /\ stopped \in BOOLEAN
    /\ closeState \in {"open", "requested", "closing", "closed", "failed"}

Init ==
    /\ published = Empty
    /\ generation = 0
    /\ runtime = Serves(NoNodes)
    /\ conns = {}
    /\ lock = Nobody
    /\ pc = [c \in Callers |-> "idle"]
    /\ op = [c \in Callers |-> NoOp]
    /\ cancelled = [c \in Callers |-> FALSE]
    /\ stopped = FALSE
    /\ closeState = "open"

-----------------------------------------------------------------------------
(* Guards and helpers *)

\* guard_revision
GuardRevision(incoming) == incoming # 0 /\ incoming >= published.revision

\* guard_authoritative_revision
GuardAuthoritative(incoming) ==
    \/ ~published.loaded
    \/ published.revision = 0
    \/ incoming >= published.revision

\* guard_revision_fence
GuardFence(base, target) ==
    /\ base # 0 /\ target # 0
    /\ base = published.revision
    /\ target >= base

\* The user's credential in a node table, NoCred when the node is not there.
CredOf(nodes, n, u) == IF n \in DOMAIN nodes THEN nodes[n][u] ELSE NoCred

\* Mutant: only users that disappeared are stale, not those with a new credential.
StaleUsers_RemovedOnly(old, new) ==
    {k \in Nodes \X Users :
        /\ CredOf(old, k[1], k[2]) # NoCred
        /\ CredOf(new, k[1], k[2]) = NoCred}

\* stale_credential_topology_users: active in old; gone, disabled or re-keyed in new.
StaleUsers(old, new) ==
    {k \in Nodes \X Users :
        /\ CredOf(old, k[1], k[2]) # NoCred
        /\ CredOf(new, k[1], k[2]) # CredOf(old, k[1], k[2])}

\* topology_authorizes_user
Authorized(nodes) == {k \in Nodes \X Users : CredOf(nodes, k[1], k[2]) # NoCred}

\* Connections a node table admits.
Admitted(nodes) ==
    {k \in Nodes \X Users \X Creds : CredOf(nodes, k[1], k[2]) = k[3]}

\* The cancellation checks of begin_operation.
MayOperate(c) == ~stopped /\ ~cancelled[c]

Active == {c \in Callers : pc[c] # "idle"}
RoomToPublish == generation + Cardinality(Active) < MaxPublications

-----------------------------------------------------------------------------
(* Before the lock *)

Begin(c, to, locals) ==
    /\ pc[c] = "idle" /\ RoomToPublish
    /\ pc' = [pc EXCEPT ![c] = to]
    /\ op' = [op EXCEPT ![c] = locals]
    /\ cancelled' = [cancelled EXCEPT ![c] = FALSE]
    /\ UNCHANGED <<data, lock, stopped, closeState>>

\* Operations that hand the manager a complete request.
BeginLocked(c) ==
    Begin(c, "waiting", Fresh(IF c \in SessionCallers THEN "command" ELSE "reconcile"))

\* publication_token / loaded_users: what is read immediately before a fetch.
Capture(c, k, n) ==
    Begin(c, "fetching",
          [Fresh(k) EXCEPT !.node = n, !.token = generation, !.seen = published])

\* sync_initial, fetch_resync and the initial synchronisation of a session.
BeginAuthoritative(c) == Capture(c, "authoritative", AnyNode)

\* reload_from_owned up to the fetch.
BeginReload(c) ==
    /\ c \notin SessionCallers /\ ~stopped
    /\ Capture(c, "reload", AnyNode)

\* A UserRefresh command, or a maintenance pull, reads the loaded users first.
BeginRefresh(c) ==
    /\ ~stopped
    /\ \E n \in DOMAIN published.nodes :
          Capture(c, IF c \in SessionCallers THEN "fencedRefresh" ELSE "userSync", n)

\* The panel answers with anything, at any later time.
FetchDone(c) ==
    /\ pc[c] = "fetching"
    /\ op[c].kind = "reload" => ~stopped
    /\ \E t \in IF op[c].kind \in Fetching THEN PanelTopology
              ELSE [loaded : {TRUE}, revision : {0}, nodes : [{op[c].node} -> UserTable]] :
          op' = [op EXCEPT ![c].fetched = t]
    /\ pc' = [pc EXCEPT ![c] = "waiting"]
    /\ UNCHANGED <<data, lock, cancelled, stopped, closeState>>

\* The operation ends without having taken the lock.
GiveUp(c) ==
    /\ pc' = [pc EXCEPT ![c] = "idle"]
    /\ op' = [op EXCEPT ![c] = NoOp]
    /\ UNCHANGED <<lock, cancelled, stopped, closeState>>

\* The fetch fails, times out, or is dropped with its session.
FetchFailed(c) == pc[c] = "fetching" /\ GiveUp(c) /\ UNCHANGED data

\* Mutant: a waiting operation does not listen to its cancellation.
Reject_Never(c) == pc[c] = "waiting" /\ ~MayOperate(c) /\ FALSE /\ GiveUp(c) /\ UNCHANGED data

\* begin_operation: either cancellation wins over the lock.
Reject(c) == pc[c] = "waiting" /\ ~MayOperate(c) /\ GiveUp(c) /\ UNCHANGED data

Acquire(c) ==
    /\ pc[c] = "waiting" /\ MayOperate(c) /\ lock = Nobody
    /\ lock' = c
    /\ pc' = [pc EXCEPT ![c] = "acquired"]
    /\ UNCHANGED <<data, op, cancelled, stopped, closeState>>

\* The operation ends and drops the guard of the mutex.
Release(c) ==
    /\ lock' = Nobody
    /\ pc' = [pc EXCEPT ![c] = "idle"]
    /\ op' = [op EXCEPT ![c] = NoOp]
    /\ UNCHANGED <<cancelled, stopped, closeState>>

\* begin_operation: the checks repeated after the lock was obtained.
RejectAcquired(c) ==
    /\ pc[c] = "acquired" /\ ~MayOperate(c)
    /\ Release(c)
    /\ UNCHANGED data

-----------------------------------------------------------------------------
(* Under the lock: the decision *)

\* The operation fails its guards (or its payload is missing or malformed).
Refuse(c) ==
    /\ Release(c)
    /\ UNCHANGED data

\* The operation passed its guards: next goes to the runtime.
Prepare(c, next, kick) ==
    /\ op' = [op EXCEPT ![c].cand = next, ![c].kicks = kick]
    /\ pc' = [pc EXCEPT ![c] = "applying"]
    /\ UNCHANGED <<data, lock, cancelled, stopped, closeState>>

Deciding(c, k) == pc[c] = "acquired" /\ MayOperate(c) /\ op[c].kind = k

\* apply_snapshot
ApplySnapshot(c) ==
    /\ Deciding(c, "command")
    /\ \E t \in PanelTopology :
          /\ GuardRevision(t.revision)
          /\ Prepare(c, t, {})

\* apply_delta: node and user mutations over the published topology.
ApplyDelta(c) ==
    /\ Deciding(c, "command")
    /\ \E base, target \in Revisions, nodes \in NodeTable,
          kick \in SUBSET (Nodes \X Users) :
          /\ GuardFence(base, target)
          /\ Prepare(c, [loaded |-> TRUE, revision |-> target, nodes |-> nodes], kick)

\* apply_route_patch: routes, outbounds and DNS; no node or user changes.
ApplyRoutePatch(c) ==
    /\ Deciding(c, "command")
    /\ \E base, target \in Revisions :
          /\ GuardFence(base, target)
          /\ Prepare(c, [published EXCEPT !.loaded = TRUE, !.revision = target], {})

\* apply_user_mutation: one user of one loaded node.
ApplyUserMutation(c) ==
    /\ Deciding(c, "command")
    /\ \E base, target \in Revisions, n \in DOMAIN published.nodes, u \in Users,
          cred \in Creds \cup {NoCred}, kick \in BOOLEAN :
          /\ GuardFence(base, target)
          /\ Prepare(c,
                [loaded |-> TRUE, revision |-> target,
                 nodes |-> [published.nodes EXCEPT ![n][u] = cred]],
                IF kick THEN {<<n, u>>} ELSE {})

RefuseCommand(c) == Deciding(c, "command") /\ Refuse(c)

\* Mutant: revision equality taken for an unchanged publication.
Unchanged_RevisionOnly(c) == GuardAuthoritative(op[c].fetched.revision)

\* The checks of apply_authoritative_if_unchanged and reload_from_owned.
Unchanged(c) ==
    GuardAuthoritative(op[c].fetched.revision) /\ op[c].token = generation

ApplyAuthoritative(c) ==
    /\ \E k \in Fetching : Deciding(c, k)
    /\ Unchanged(c)
    /\ Prepare(c, op[c].fetched, {})

RefuseAuthoritative(c) ==
    /\ \E k \in Fetching : Deciding(c, k)
    /\ ~Unchanged(c)
    /\ Refuse(c)

\* Mutant: the expected users are not compared.
UsersAsSeen_NodeOnly(c) == op[c].node \in DOMAIN published.nodes

\* compare_node_users(expected, current): no difference.
UsersAsSeen(c) ==
    /\ op[c].node \in DOMAIN published.nodes
    /\ published.nodes[op[c].node] = op[c].seen.nodes[op[c].node]

\* The fence of a UserRefresh command; a maintenance pull names revision zero.
RefreshTarget(c, base, target) ==
    IF op[c].kind = "fencedRefresh" THEN GuardFence(base, target) ELSE target = 0

MaxOf(a, b) == IF a > b THEN a ELSE b

\* refresh_owned, users differ from the published ones.
ApplyRefresh(c) ==
    /\ \E k \in Refreshing : Deciding(c, k)
    /\ UsersAsSeen(c)
    /\ op[c].fetched.nodes[op[c].node] # published.nodes[op[c].node]
    /\ \E base, target \in Revisions \cup {0} :
          /\ RefreshTarget(c, base, target)
          /\ Prepare(c,
                [published EXCEPT
                    !.revision = MaxOf(published.revision, target),
                    !.nodes = [published.nodes EXCEPT
                                  ![op[c].node] = op[c].fetched.nodes[op[c].node]]], {})

\* refresh_owned, nothing to change: at most the revision advances, without an apply.
AdvanceRevision(c) ==
    /\ \E k \in Refreshing : Deciding(c, k)
    /\ UsersAsSeen(c)
    /\ op[c].fetched.nodes[op[c].node] = published.nodes[op[c].node]
    /\ \E base, target \in Revisions \cup {0} :
          /\ RefreshTarget(c, base, target)
          /\ IF target > published.revision
             THEN /\ published' = [published EXCEPT !.revision = target]
                  /\ generation' = generation + 1
             ELSE UNCHANGED <<published, generation>>
    /\ Release(c)
    /\ UNCHANGED <<runtime, conns>>

\* Fence violated, node gone, or UsersChangedDuringRefresh.
RefuseRefresh(c) ==
    /\ \E k \in Refreshing : Deciding(c, k)
    /\ \/ op[c].kind = "fencedRefresh"
       \/ ~UsersAsSeen(c)
    /\ Refuse(c)

\* reconcile_current
StartReconcile(c) ==
    /\ Deciding(c, "reconcile")
    /\ published.loaded
    /\ pc' = [pc EXCEPT ![c] = "reconciling"]
    /\ UNCHANGED <<data, op, lock, cancelled, stopped, closeState>>

SkipReconcile(c) ==
    /\ Deciding(c, "reconcile")
    /\ ~published.loaded
    /\ Refuse(c)

-----------------------------------------------------------------------------
(* Under the lock: the runtime, the publication, the stale connections *)

\* The adapter installed the candidate.  Removing a user from the registry, or
\* stopping its listener, revokes its connections; a forced reload, or the
\* clean-up of an indeterminate runtime, ends them all.  (What else the apply
\* disconnects, for instance under a replaced listener, is left to Disconnect.)
RuntimeApplied(c) ==
    /\ pc[c] = "applying"
    /\ runtime' = Serves(op[c].cand.nodes)
    /\ conns' = IF op[c].kind = "reload" \/ ~runtime.ok THEN {}
                ELSE {x \in conns : CredOf(op[c].cand.nodes, x[1], x[2]) # NoCred}
    /\ pc' = [pc EXCEPT ![c] = "applied"]
    /\ UNCHANGED <<published, generation, op, lock, cancelled, stopped, closeState>>

\* Mutant: a failed apply leaves the candidate in the data plane.
RuntimeKept_Candidate(c) ==
    /\ pc[c] \in {"applying", "reconciling"}
    /\ runtime' = [runtime EXCEPT !.nodes = op[c].cand.nodes]
    /\ Release(c)
    /\ UNCHANGED <<published, generation, conns>>

\* The apply failed and the previous state is still, or again, in place.
RuntimeKept(c) ==
    /\ pc[c] \in {"applying", "reconciling"}
    /\ Release(c)
    /\ UNCHANGED data

\* Tables of listeners a failed rollback or recovery can leave running.
Fragments(c) ==
    {t \in NodeTable : \A n \in DOMAIN t, u \in Users :
        t[n][u] \in {NoCred, CredOf(runtime.live, n, u), CredOf(runtime.nodes, n, u),
                     CredOf(op[c].cand.nodes, n, u)}}

\* The apply failed and could not be undone: fragments of both generations run.
RuntimeLost(c) ==
    /\ pc[c] \in {"applying", "reconciling"}
    /\ \E t \in Fragments(c) : runtime' = [runtime EXCEPT !.ok = FALSE, !.live = t]
    /\ Release(c)
    /\ UNCHANGED <<published, generation, conns>>

\* The apply failed after recover_if_needed had rebuilt the previous state.
RuntimeRecovered(c) ==
    /\ pc[c] = "applying" /\ ~runtime.ok
    /\ runtime' = Serves(runtime.nodes)
    /\ conns' = {}
    /\ Release(c)
    /\ UNCHANGED <<published, generation>>

\* The published topology is in place; a forced reload put it there if it was not.
Reconciled(c) ==
    /\ pc[c] = "reconciling"
    /\ runtime' = Serves(published.nodes)
    /\ conns' = IF runtime.ok THEN conns ELSE {}
    /\ Release(c)
    /\ UNCHANGED <<published, generation>>

\* publish_and_close_stale_users, up to the first await, then the users named
\* by close_explicitly_requested_users.
Publish(c) ==
    /\ pc[c] = "applied"
    /\ published' = op[c].cand
    /\ generation' = generation + 1
    /\ op' = [op EXCEPT ![c].closing =
                 StaleUsers(published.nodes, op[c].cand.nodes)
                 \cup (op[c].kicks \cap Authorized(op[c].cand.nodes))]
    /\ pc' = [pc EXCEPT ![c] = "closing"]
    /\ UNCHANGED <<runtime, conns, lock, cancelled, stopped, closeState>>

\* runtime.close_user_connections: kicks the user on the listeners the committed
\* table has for its node; a no-op for a user their registries do not know, and
\* for everybody while the state is indeterminate.
CloseUser(c) ==
    /\ pc[c] = "closing"
    /\ \E k \in op[c].closing :
          /\ conns' = IF runtime.ok /\ k \in Authorized(runtime.nodes)
                      THEN {x \in conns : <<x[1], x[2]>> # k} ELSE conns
          /\ op' = [op EXCEPT ![c].closing = @ \ {k}]
    /\ UNCHANGED <<published, generation, runtime, lock, pc, cancelled, stopped, closeState>>

Finish(c) ==
    /\ pc[c] = "closing" /\ op[c].closing = {}
    /\ Release(c)
    /\ UNCHANGED data

-----------------------------------------------------------------------------
(* Environment: connections, session end, shutdown *)

\* A client authenticates at a running listener.
Connect ==
    /\ \E k \in Admitted(runtime.live) : k \notin conns /\ conns' = conns \cup {k}
    /\ UNCHANGED <<published, generation, runtime, control>>

\* A client leaves, or its listener is replaced under it.
Disconnect ==
    /\ \E k \in conns : conns' = conns \ {k}
    /\ UNCHANGED <<published, generation, runtime, control>>

\* The rule-set watcher re-applies the committed table on its own, outside the
\* operation lock: it can lose it, and recover it.
WatcherLost ==
    /\ runtime.ok /\ closeState \notin {"closed", "failed"}
    /\ \E S \in SUBSET DOMAIN runtime.nodes :
          runtime' = [runtime EXCEPT !.ok = FALSE, !.live = [n \in S |-> runtime.nodes[n]]]
    /\ UNCHANGED <<published, generation, conns, control>>

WatcherRecovered ==
    /\ ~runtime.ok /\ closeState \notin {"closed", "failed"}
    /\ runtime' = Serves(runtime.nodes)
    /\ conns' = {}
    /\ UNCHANGED <<published, generation, control>>

\* The control session of a running operation ends.
CancelSession(c) ==
    /\ c \in SessionCallers /\ pc[c] # "idle" /\ ~cancelled[c]
    /\ cancelled' = [cancelled EXCEPT ![c] = TRUE]
    /\ UNCHANGED <<data, lock, pc, op, stopped, closeState>>

\* stop_operations
StopOperations ==
    /\ ~stopped
    /\ stopped' = TRUE
    /\ UNCHANGED <<data, lock, pc, op, cancelled, closeState>>

\* close: stop_operations, then the owned close transaction.
RequestClose ==
    /\ closeState = "open"
    /\ stopped' = TRUE
    /\ closeState' = "requested"
    /\ UNCHANGED <<data, lock, pc, op, cancelled>>

CloseAcquire ==
    /\ closeState = "requested" /\ lock = Nobody
    /\ lock' = Closer
    /\ closeState' = "closing"
    /\ UNCHANGED <<data, pc, op, cancelled, stopped>>

CloseRuntime ==
    /\ closeState = "closing"
    /\ runtime' = [ok |-> FALSE, nodes |-> NoNodes, live |-> NoNodes]
    /\ conns' = {}
    /\ lock' = Nobody
    /\ closeState' = "closed"
    /\ UNCHANGED <<published, generation, pc, op, cancelled, stopped>>

\* Some listener could not be stopped; the failure is the result of every close.
CloseFailed ==
    /\ closeState = "closing"
    /\ runtime' = [runtime EXCEPT !.ok = FALSE]
    /\ lock' = Nobody
    /\ closeState' = "failed"
    /\ UNCHANGED <<published, generation, conns, pc, op, cancelled, stopped>>

\* What a task does by itself once an operation has begun.
Progress(c) ==
    \/ FetchDone(c) \/ FetchFailed(c) \/ Reject(c) \/ RejectAcquired(c)
    \/ ApplySnapshot(c) \/ ApplyDelta(c) \/ ApplyRoutePatch(c) \/ ApplyUserMutation(c)
    \/ RefuseCommand(c) \/ ApplyAuthoritative(c) \/ RefuseAuthoritative(c)
    \/ ApplyRefresh(c) \/ AdvanceRevision(c) \/ RefuseRefresh(c)
    \/ StartReconcile(c) \/ SkipReconcile(c)
    \/ RuntimeApplied(c) \/ RuntimeKept(c) \/ RuntimeLost(c) \/ RuntimeRecovered(c)
    \/ Reconciled(c)
    \/ Publish(c) \/ CloseUser(c) \/ Finish(c)

Step(c) ==
    \/ BeginLocked(c) \/ BeginAuthoritative(c) \/ BeginReload(c) \/ BeginRefresh(c)
    \/ Acquire(c) \/ Progress(c) \/ CancelSession(c)

Next ==
    \/ \E c \in Callers : Step(c)
    \/ Connect \/ Disconnect \/ WatcherLost \/ WatcherRecovered
    \/ StopOperations \/ RequestClose \/ CloseAcquire
    \/ CloseRuntime \/ CloseFailed

Spec == Init /\ [][Next]_vars

-----------------------------------------------------------------------------
(* Properties *)

Working == {"acquired", "applying", "applied", "closing", "reconciling"}

\* The operation mutex: a task is between begin_operation and the drop of its
\* guard exactly when it owns the lock, and close() owns it while it runs.
LockDiscipline ==
    /\ \A c \in Callers : pc[c] \in Working <=> lock = c
    /\ closeState = "closing" <=> lock = Closer

\* A fetched topology never replaces a publication it has not seen
\* (apply_authoritative_if_unchanged, reload_from_owned): from the moment it is
\* accepted until it is published, the publication is still the one that was
\* current when the fetch started, even when another operation published at the
\* same revision in between.
NoLostUpdate ==
    \A c \in Callers :
        pc[c] \in {"applying", "applied"} /\ op[c].kind \in Fetching => published = op[c].seen

\* A user refresh replaces exactly the user list it was computed against
\* (refresh_owned and its expected_current), whatever other lanes did during
\* the fetch, and touches no other node.
RefreshOverSeenUsers ==
    \A c \in Callers :
        pc[c] \in {"applying", "applied"} /\ op[c].kind \in Refreshing =>
            /\ published.nodes[op[c].node] = op[c].seen.nodes[op[c].node]
            /\ \A n \in DOMAIN published.nodes \ {op[c].node} :
                  op[c].cand.nodes[n] = published.nodes[n]

\* Between operations the runtime is committed to exactly the published nodes
\* and users, and serves them unless a failed transaction could not be undone.
RuntimeMatchesPublished ==
    lock = Nobody /\ closeState # "closed" =>
        /\ runtime.nodes = published.nodes
        /\ runtime.ok => runtime.live = published.nodes

\* Between operations, and again as soon as an indeterminate runtime has been
\* recovered, no connection survives that authenticated with a credential the
\* published topology has removed, disabled or replaced
\* (publish_and_close_stale_users).
NoStaleConnections == lock = Nobody /\ runtime.ok => conns \subseteq Admitted(published.nodes)

\* After close() ended no transaction is under way or can still start, because
\* operations that lost the race are refused; and if it succeeded no listener
\* and no connection is left.
ClosedForGood ==
    /\ closeState = "closed" => runtime.live = NoNodes /\ conns = {}
    /\ closeState \in {"closed", "failed"} => \A c \in Callers : pc[c] \notin Working

\* Published revisions never go back, and a topology once loaded stays loaded.
RevisionMonotonic ==
    [][/\ published'.revision >= published.revision
       /\ published.loaded => published'.loaded]_vars

\* Every change of the publication is visible to a holder of a token:
\* publish() and the in-place revision advance both move the generation.
TokenDetectsChange ==
    [][published' # published => generation' > generation]_vars

\* Every operation a task begins ends, and the task becomes free again; a requested
\* close takes the lock from the queue of operations and completes.
OperationsEnd ==
    /\ \A c \in Callers : pc[c] # "idle" ~> pc[c] = "idle"
    /\ closeState = "requested" ~> closeState \in {"closed", "failed"}

=============================================================================
