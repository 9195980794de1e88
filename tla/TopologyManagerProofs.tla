------------------------ MODULE TopologyManagerProofs ------------------------
(***************************************************************************)
(* Machine-checked proofs about TopologyManager, for every number of       *)
(* tasks, nodes, users, credentials, revisions and publications.           *)
(***************************************************************************)
EXTENDS TopologyManager, TLAPS

\* The answer to a user fetch lists the users of the node that was asked for;
\* a fetched topology belongs to this machine.
FetchShape ==
    \A c \in Callers :
        pc[c] \in {"waiting", "acquired"} =>
            /\ op[c].kind \in Refreshing =>
                  op[c].fetched.nodes \in [{op[c].node} -> UserTable]
            /\ op[c].kind \in Fetching => op[c].fetched.loaded

Typing == TypeOK /\ FetchShape

-----------------------------------------------------------------------------
(* Lemmas about node tables *)

\* A node table is a function from some set of nodes to user tables.
LEMMA TableShape ==
    ASSUME NEW t \in NodeTable
    PROVE  /\ DOMAIN t \subseteq Nodes
           /\ t \in [DOMAIN t -> UserTable]
  BY DEF NodeTable

LEMMA TableIntro ==
    ASSUME NEW S, S \subseteq Nodes, NEW t, t \in [S -> UserTable]
    PROVE  t \in NodeTable
  BY DEF NodeTable

LEMMA EmptyTable == NoNodes \in NodeTable /\ Empty \in Topology
<1>1. NoNodes \in [{} -> UserTable]
  BY DEF NoNodes, UserTable
<1>2. NoNodes \in NodeTable
  BY <1>1, TableIntro
<1> QED
  BY <1>2 DEF Empty, Topology

\* Replacing the users of one node gives a node table over the same nodes.
LEMMA ReplaceNode ==
    ASSUME NEW t \in NodeTable, NEW n, NEW tab \in UserTable
    PROVE  /\ [t EXCEPT ![n] = tab] \in NodeTable
           /\ DOMAIN [t EXCEPT ![n] = tab] = DOMAIN t
<1>1. t \in [DOMAIN t -> UserTable] /\ DOMAIN t \subseteq Nodes
  BY TableShape
<1>2. [t EXCEPT ![n] = tab] \in [DOMAIN t -> UserTable]
  BY <1>1
<1> QED
  BY <1>1, <1>2, TableIntro

\* So does changing one user of one node.
LEMMA ReplaceUser ==
    ASSUME NEW t \in NodeTable, NEW n \in DOMAIN t, NEW u \in Users,
           NEW cred \in Creds \cup {NoCred}
    PROVE  [t EXCEPT ![n][u] = cred] \in NodeTable
<1>1. t[n] \in UserTable
  BY TableShape
<1>2. [t[n] EXCEPT ![u] = cred] \in UserTable
  BY <1>1 DEF UserTable
<1>3. [t EXCEPT ![n][u] = cred] = [t EXCEPT ![n] = [t[n] EXCEPT ![u] = cred]]
  OBVIOUS
<1> QED
  BY <1>2, <1>3, ReplaceNode

LEMMA FreshTyped == \A k \in Kinds : Fresh(k) \in Operation
<1>1. AnyNode \in Nodes
  BY DataAssumption DEF AnyNode
<1> QED
  BY <1>1, EmptyTable DEF Fresh, Operation

LEMMA NoOpTyped == NoOp \in Operation /\ NoOp.kind = "command"
<1>1. "command" \in Kinds
  BY DEF Kinds
<1> QED
  BY <1>1, FreshTyped DEF NoOp, Fresh

-----------------------------------------------------------------------------
(* Type correctness *)

LEMMA ServesTyped == \A t \in NodeTable : Serves(t) \in RuntimeStates
  BY DEF Serves, RuntimeStates

LEMMA TypingInit == Init => Typing
<1> SUFFICES ASSUME Init PROVE Typing
  OBVIOUS
<1>1. op \in [Callers -> Operation] /\ pc \in [Callers -> PcStates]
  BY NoOpTyped DEF Init, PcStates
<1>2. FetchShape
  BY DEF Init, FetchShape
<1>3. published \in Topology /\ runtime \in RuntimeStates
  BY EmptyTable, ServesTyped DEF Init
<1> QED
  BY <1>1, <1>2, <1>3 DEF Init, Typing, TypeOK

\* The decision of an operation installs a candidate of the right type.
LEMMA PrepareTyped ==
    ASSUME Typing, NEW c \in Callers, NEW next \in Topology,
           NEW kick \in SUBSET (Nodes \X Users), Prepare(c, next, kick)
    PROVE  Typing'
<1> DEFINE r == [op[c] EXCEPT !.cand = next, !.kicks = kick]
<1>a. op[c] \in Operation
  BY DEF Typing, TypeOK
<1>b. r \in Operation
  BY <1>a DEF Operation
<1>c. op' = [op EXCEPT ![c] = r]
  BY <1>a DEF Prepare, Typing, TypeOK, Operation
<1>1. op' \in [Callers -> Operation]
  BY <1>b, <1>c DEF Typing, TypeOK
<1>2. pc' \in [Callers -> PcStates]
  BY DEF Prepare, Typing, TypeOK, PcStates
<1>3. FetchShape'
  BY DEF Prepare, Typing, TypeOK, FetchShape, Operation
<1> QED
  BY <1>1, <1>2, <1>3 DEF Prepare, Typing, TypeOK, data

\* Ending an operation, under the lock or before it.
LEMMA ReleaseTyped ==
    ASSUME Typing, NEW c \in Callers,
           \/ Release(c) /\ published' \in Topology /\ generation' \in Nat
              /\ runtime' \in RuntimeStates
              /\ conns' \subseteq (Nodes \X Users \X Creds)
           \/ GiveUp(c) /\ UNCHANGED data
    PROVE  Typing'
<1>1. op' \in [Callers -> Operation] /\ pc' \in [Callers -> PcStates]
  BY NoOpTyped DEF Release, GiveUp, Typing, TypeOK, PcStates
<1>2. FetchShape'
  BY DEF Release, GiveUp, Typing, TypeOK, FetchShape
<1>3. /\ published' \in Topology /\ generation' \in Nat
      /\ runtime' \in RuntimeStates
      /\ conns' \subseteq (Nodes \X Users \X Creds)
  BY DEF Typing, TypeOK, data
<1>4. lock' \in Callers \cup {Nobody, Closer} /\ UNCHANGED <<cancelled, stopped, closeState>>
  BY DEF Typing, TypeOK, Release, GiveUp
<1> QED
  BY <1>1, <1>2, <1>3, <1>4 DEF Typing, TypeOK

LEMMA BeginTyped ==
    ASSUME Typing, NEW c \in Callers, NEW to \in {"waiting", "fetching"},
           NEW locals \in Operation, Begin(c, to, locals),
           to = "waiting" => locals.kind \notin Refreshing \cup Fetching
    PROVE  Typing'
<1>1. op' \in [Callers -> Operation] /\ pc' \in [Callers -> PcStates]
  BY DEF Begin, Typing, TypeOK, PcStates
<1>2. FetchShape'
  BY DEF Begin, Typing, TypeOK, FetchShape, PcStates
<1> QED
  BY <1>1, <1>2 DEF Begin, Typing, TypeOK, data

LEMMA CaptureTyped ==
    ASSUME Typing, NEW c \in Callers, NEW k \in Kinds, NEW n \in Nodes, Capture(c, k, n)
    PROVE  Typing'
<1>1. [Fresh(k) EXCEPT !.node = n, !.token = generation, !.seen = published] \in Operation
  BY EmptyTable DEF Fresh, Operation, Typing, TypeOK
<1> QED
  BY <1>1, BeginTyped DEF Capture

LEMMA TypingStep == Typing /\ [Next]_vars => Typing'
<1> SUFFICES ASSUME Typing, [Next]_vars PROVE Typing'
  OBVIOUS
<1> USE DEF Typing
<1>0. TypeOK /\ FetchShape
  OBVIOUS
<1>ct. ASSUME NEW c \in Callers, Step(c) PROVE Typing'
  <2>t. /\ op[c] \in Operation /\ published \in Topology /\ generation \in Nat
        /\ runtime \in RuntimeStates
        /\ conns \subseteq (Nodes \X Users \X Creds)
        /\ published.nodes \in NodeTable /\ op[c].cand.nodes \in NodeTable
        /\ op[c].cand \in Topology /\ op[c].fetched \in Topology
    BY DEF TypeOK, Operation, Topology
  <2>n. AnyNode \in Nodes
    BY DataAssumption DEF AnyNode
  <2>p. PanelTopology \subseteq Topology
    BY DataAssumption DEF PanelTopology, Topology
  <2>1. CASE BeginLocked(c)
    <3>1. \A k \in Kinds : Fresh(k).kind = k
      BY DEF Fresh
    <3>2. CASE c \in SessionCallers
      BY <3>1, <3>2, <2>1, FreshTyped, BeginTyped DEF BeginLocked, Kinds, Refreshing, Fetching
    <3>3. CASE c \notin SessionCallers
      BY <3>1, <3>3, <2>1, FreshTyped, BeginTyped DEF BeginLocked, Kinds, Refreshing, Fetching
    <3> QED BY <3>2, <3>3
  <2>2. CASE BeginAuthoritative(c)
    BY <2>2, <2>n, CaptureTyped DEF BeginAuthoritative, Kinds
  <2>3. CASE BeginReload(c)
    BY <2>3, <2>n, CaptureTyped DEF BeginReload, Kinds
  <2>4. CASE BeginRefresh(c)
    <3>1. PICK n \in DOMAIN published.nodes :
             Capture(c, IF c \in SessionCallers THEN "fencedRefresh" ELSE "userSync", n)
      BY <2>4 DEF BeginRefresh
    <3>2. n \in Nodes
      BY <2>t, TableShape
    <3> QED BY <3>1, <3>2, CaptureTyped DEF Kinds
  <2>5. CASE FetchDone(c)
    <3>1. PICK t \in IF op[c].kind \in Fetching THEN PanelTopology
                     ELSE [loaded : {TRUE}, revision : {0},
                           nodes : [{op[c].node} -> UserTable]] :
             op' = [op EXCEPT ![c].fetched = t]
      BY <2>5 DEF FetchDone
    <3>2. t \in Topology
      <4>1. CASE op[c].kind \in Fetching
        BY <4>1, <3>1, <2>p
      <4>2. CASE op[c].kind \notin Fetching
        <5>1. t \in [loaded : {TRUE}, revision : {0}, nodes : [{op[c].node} -> UserTable]]
          BY <4>2, <3>1
        <5>2. op[c].node \in Nodes
          BY <2>t DEF Operation
        <5>3. t.nodes \in NodeTable
          BY <5>1, <5>2, TableIntro
        <5>4. t = [loaded |-> TRUE, revision |-> 0, nodes |-> t.nodes]
          BY <5>1
        <5>5. [loaded |-> TRUE, revision |-> 0, nodes |-> t.nodes] \in Topology
          BY <5>3 DEF Topology
        <5> QED BY <5>4, <5>5
      <4> QED BY <4>1, <4>2
    <3> DEFINE r == [op[c] EXCEPT !.fetched = t]
    <3>3. r \in Operation /\ r.fetched = t /\ r.kind = op[c].kind /\ r.node = op[c].node
      BY <2>t, <3>2 DEF Operation
    <3>4. op' = [op EXCEPT ![c] = r]
      BY <3>1, <2>t DEF TypeOK, Operation
    <3> HIDE DEF r
    <3>5. op' \in [Callers -> Operation] /\ op'[c] = r
      BY <3>3, <3>4 DEF TypeOK
    <3>6. /\ op[c].kind \in Refreshing => t.nodes \in [{op[c].node} -> UserTable]
          /\ op[c].kind \in Fetching => t.loaded
      BY <3>1 DEF Fetching, Refreshing, PanelTopology
    <3>7. pc' \in [Callers -> PcStates]
      BY <2>5 DEF FetchDone, TypeOK, PcStates
    <3>8. FetchShape'
      <4> SUFFICES ASSUME NEW d \in Callers, (pc[d] \in {"waiting", "acquired"})'
                   PROVE  /\ (op[d].kind \in Refreshing =>
                                 op[d].fetched.nodes \in [{op[d].node} -> UserTable])'
                          /\ (op[d].kind \in Fetching => op[d].fetched.loaded)'
        BY DEF FetchShape
      <4>1. CASE d = c
        BY <4>1, <3>3, <3>5, <3>6
      <4>2. CASE d # c
        BY <4>2, <3>4, <2>5 DEF FetchShape, FetchDone, TypeOK
      <4> QED BY <4>1, <4>2
    <3> QED
      BY <3>5, <3>7, <3>8, <2>5 DEF FetchDone, TypeOK, data
  <2>6. CASE FetchFailed(c) \/ Reject(c)
    BY <2>6, ReleaseTyped DEF FetchFailed, Reject
  <2>7. CASE Acquire(c)
    BY <2>7 DEF Acquire, TypeOK, FetchShape, PcStates, data
  <2>8. CASE RejectAcquired(c) \/ RefuseCommand(c) \/ RefuseAuthoritative(c)
             \/ RefuseRefresh(c) \/ SkipReconcile(c) \/ RuntimeKept(c) \/ Finish(c)
    <3>1. Release(c) /\ UNCHANGED data
      BY <2>8 DEF RejectAcquired, RefuseCommand, RefuseAuthoritative, RefuseRefresh,
                  SkipReconcile, RuntimeKept, Finish, Refuse
    <3> QED BY <3>1, <2>t, ReleaseTyped DEF data
  <2>9. CASE ApplySnapshot(c)
    BY <2>9, <2>p, PrepareTyped DEF ApplySnapshot
  <2>10. CASE ApplyDelta(c)
    <3>1. PICK target \in Revisions, nodes \in NodeTable, kick \in SUBSET (Nodes \X Users) :
             Prepare(c, [loaded |-> TRUE, revision |-> target, nodes |-> nodes], kick)
      BY <2>10 DEF ApplyDelta
    <3>2. [loaded |-> TRUE, revision |-> target, nodes |-> nodes] \in Topology
      BY DataAssumption DEF Topology
    <3> QED BY <3>1, <3>2, PrepareTyped
  <2>11. CASE ApplyRoutePatch(c)
    <3>1. PICK target \in Revisions :
             Prepare(c, [published EXCEPT !.loaded = TRUE, !.revision = target], {})
      BY <2>11 DEF ApplyRoutePatch
    <3>2. [published EXCEPT !.loaded = TRUE, !.revision = target] \in Topology
      BY <2>t, DataAssumption DEF Topology
    <3> QED BY <3>1, <3>2, PrepareTyped
  <2>12. CASE ApplyUserMutation(c)
    <3>1. PICK target \in Revisions, n \in DOMAIN published.nodes, u \in Users,
               cred \in Creds \cup {NoCred}, kick \in BOOLEAN :
             Prepare(c, [loaded |-> TRUE, revision |-> target,
                         nodes |-> [published.nodes EXCEPT ![n][u] = cred]],
                     IF kick THEN {<<n, u>>} ELSE {})
      BY <2>12 DEF ApplyUserMutation
    <3>2. [published.nodes EXCEPT ![n][u] = cred] \in NodeTable
      BY <2>t, ReplaceUser
    <3>3. [loaded |-> TRUE, revision |-> target,
           nodes |-> [published.nodes EXCEPT ![n][u] = cred]] \in Topology
      BY <3>2, DataAssumption DEF Topology
    <3>4. (IF kick THEN {<<n, u>>} ELSE {}) \in SUBSET (Nodes \X Users)
      BY <2>t, TableShape
    <3> QED BY <3>1, <3>3, <3>4, PrepareTyped
  <2>13. CASE ApplyAuthoritative(c)
    BY <2>13, <2>t, PrepareTyped DEF ApplyAuthoritative
  <2>14. CASE ApplyRefresh(c)
    <3> DEFINE nodes == [published.nodes EXCEPT ![op[c].node] = op[c].fetched.nodes[op[c].node]]
    <3>1. PICK target \in Revisions \cup {0} :
             Prepare(c, [published EXCEPT !.revision = MaxOf(published.revision, target),
                                          !.nodes = nodes], {})
      BY <2>14 DEF ApplyRefresh
    <3>2. op[c].fetched.nodes[op[c].node] \in UserTable
      BY <2>14 DEF ApplyRefresh, Deciding, FetchShape
    <3>3. nodes \in NodeTable
      BY <3>2, <2>t, ReplaceNode
    <3>4. MaxOf(published.revision, target) \in Nat
      BY <2>t, DataAssumption DEF MaxOf, Topology
    <3> HIDE DEF nodes
    <3>5. [published EXCEPT !.revision = MaxOf(published.revision, target),
                            !.nodes = nodes] \in Topology
      BY <3>3, <3>4, <2>t DEF Topology
    <3> QED BY <3>1, <3>5, PrepareTyped
  <2>15. CASE AdvanceRevision(c)
    <3>1. published' \in Topology /\ generation' \in Nat
      BY <2>15, <2>t, DataAssumption DEF AdvanceRevision, Topology
    <3> QED BY <3>1, <2>15, <2>t, ReleaseTyped DEF AdvanceRevision
  <2>16. CASE StartReconcile(c)
    BY <2>16 DEF StartReconcile, TypeOK, FetchShape, PcStates, data
  <2>17. CASE RuntimeApplied(c)
    <3>1. runtime' \in RuntimeStates /\ conns' \subseteq conns
      BY <2>17, <2>t, ServesTyped DEF RuntimeApplied
    <3> QED BY <3>1, <2>17 DEF RuntimeApplied, TypeOK, FetchShape, PcStates
  <2>18. CASE RuntimeLost(c)
    <3>1. PICK t \in Fragments(c) : runtime' = [runtime EXCEPT !.ok = FALSE, !.live = t]
      BY <2>18 DEF RuntimeLost
    <3>2. t \in NodeTable
      BY DEF Fragments
    <3>3. runtime' \in RuntimeStates
      BY <3>1, <3>2, <2>t DEF RuntimeStates
    <3> QED BY <3>3, <2>18, <2>t, ReleaseTyped DEF RuntimeLost
  <2>19. CASE RuntimeRecovered(c) \/ Reconciled(c)
    <3>1. runtime' \in {Serves(runtime.nodes), Serves(published.nodes)}
      BY <2>19 DEF RuntimeRecovered, Reconciled
    <3>2. conns' \subseteq conns
      BY <2>19 DEF RuntimeRecovered, Reconciled
    <3>3. runtime' \in RuntimeStates
      BY <3>1, <2>t, ServesTyped DEF RuntimeStates
    <3>4. Release(c) /\ UNCHANGED <<published, generation>>
      BY <2>19 DEF RuntimeRecovered, Reconciled
    <3> QED BY <3>2, <3>3, <3>4, <2>t, ReleaseTyped
  <2>20. CASE Publish(c)
    <3> DEFINE cl == StaleUsers(published.nodes, op[c].cand.nodes)
                     \cup (op[c].kicks \cap Authorized(op[c].cand.nodes))
               r == [op[c] EXCEPT !.closing = cl]
    <3>1. cl \in SUBSET (Nodes \X Users)
      BY DEF StaleUsers, Authorized
    <3>2. op' = [op EXCEPT ![c].closing = cl]
      BY <2>20 DEF Publish
    <3> HIDE DEF cl
    <3>3. r \in Operation
      BY <3>1, <2>t DEF Operation
    <3>4. op' = [op EXCEPT ![c] = r]
      BY <3>2, <2>t DEF TypeOK, Operation
    <3> HIDE DEF r
    <3>5. op' \in [Callers -> Operation]
      BY <3>3, <3>4 DEF TypeOK
    <3>6. pc' \in [Callers -> PcStates]
      BY <2>20 DEF Publish, TypeOK, PcStates
    <3>7. FetchShape'
      BY <3>4, <2>20 DEF FetchShape, Publish, TypeOK
    <3> QED BY <3>5, <3>6, <3>7, <2>20, <2>t DEF Publish, TypeOK
  <2>21. CASE CloseUser(c)
    <3>1. PICK k \in op[c].closing :
             /\ conns' \subseteq conns
             /\ op' = [op EXCEPT ![c].closing = @ \ {k}]
      BY <2>21 DEF CloseUser
    <3> DEFINE r == [op[c] EXCEPT !.closing = op[c].closing \ {k}]
    <3>2. r \in Operation
      BY <2>t DEF Operation
    <3>3. op' = [op EXCEPT ![c] = r]
      BY <3>1, <2>t DEF TypeOK, Operation
    <3> HIDE DEF r
    <3>4. op' \in [Callers -> Operation]
      BY <3>2, <3>3 DEF TypeOK
    <3>5. FetchShape'
      BY <3>3, <2>21 DEF FetchShape, CloseUser, TypeOK
    <3>6. conns' \subseteq conns
      BY <3>1
    <3> QED BY <3>4, <3>5, <3>6, <2>21 DEF CloseUser, TypeOK
  <2>22. CASE CancelSession(c)
    BY <2>22 DEF CancelSession, TypeOK, FetchShape, data
  <2> QED
    BY <1>ct, <2>1, <2>2, <2>3, <2>4, <2>5, <2>6, <2>7, <2>8, <2>9, <2>10, <2>11, <2>12,
       <2>13, <2>14, <2>15, <2>16, <2>17, <2>18, <2>19, <2>20, <2>21, <2>22 DEF Step, Progress
<1>1. CASE Connect
  <2>1. PICK k \in Admitted(runtime.live) : conns' = conns \cup {k}
    BY <1>1 DEF Connect
  <2>2. conns' \subseteq (Nodes \X Users \X Creds)
    BY <2>1 DEF Admitted, TypeOK
  <2> QED BY <2>2, <1>1 DEF Connect, control, TypeOK, FetchShape
<1>2. CASE StopOperations
  BY <1>2 DEF StopOperations, TypeOK, FetchShape, data
<1>3. CASE RequestClose
  BY <1>3 DEF RequestClose, TypeOK, FetchShape, data
<1>4. CASE CloseAcquire
  BY <1>4 DEF CloseAcquire, TypeOK, FetchShape, data
<1>5. CASE CloseRuntime
  <2>1. runtime' \in RuntimeStates
    BY <1>5, EmptyTable DEF CloseRuntime, RuntimeStates
  <2> QED BY <2>1, <1>5 DEF CloseRuntime, TypeOK, FetchShape, RuntimeStates
<1>6. CASE CloseFailed
  <2>1. runtime' \in RuntimeStates
    BY <1>6 DEF CloseFailed, TypeOK, RuntimeStates
  <2> QED BY <2>1, <1>6 DEF CloseFailed, TypeOK, FetchShape, RuntimeStates
<1>7. CASE Disconnect
  BY <1>7 DEF Disconnect, control, TypeOK, FetchShape
<1>9. CASE WatcherLost
  <2>1. PICK S \in SUBSET DOMAIN runtime.nodes :
           runtime' = [runtime EXCEPT !.ok = FALSE, !.live = [n \in S |-> runtime.nodes[n]]]
    BY <1>9 DEF WatcherLost
  <2>2. runtime \in RuntimeStates /\ runtime.nodes \in NodeTable
    BY DEF TypeOK, RuntimeStates
  <2>3. [n \in S |-> runtime.nodes[n]] \in NodeTable
    BY <2>2, TableShape, TableIntro
  <2>4. runtime' \in RuntimeStates
    BY <2>1, <2>2, <2>3 DEF RuntimeStates
  <2> QED BY <2>4, <1>9 DEF WatcherLost, control, TypeOK, FetchShape, RuntimeStates
<1>10. CASE WatcherRecovered
  <2>1. runtime.nodes \in NodeTable
    BY DEF TypeOK, RuntimeStates
  <2>2. runtime' \in RuntimeStates
    BY <2>1, <1>10, ServesTyped DEF WatcherRecovered
  <2> QED BY <2>2, <1>10 DEF WatcherRecovered, control, TypeOK, FetchShape, RuntimeStates
<1>8. CASE UNCHANGED vars
  BY <1>8 DEF vars, data, control, TypeOK, FetchShape
<1> QED
  BY <1>ct, <1>1, <1>2, <1>3, <1>4, <1>5, <1>6, <1>7, <1>8, <1>9, <1>10 DEF Next

LEMMA TypingInvariant == Spec => []Typing
  BY TypingInit, TypingStep, PTL DEF Spec

\* Type correctness of the manager for every instance: no operation leaves a
\* malformed topology, token or set of users to disconnect.
THEOREM TypeCorrect == Spec => []TypeOK
<1>1. Typing => TypeOK
  BY DEF Typing
<1> QED
  BY <1>1, TypingInvariant, PTL

-----------------------------------------------------------------------------
(* The inductive invariant *)

\* A publication token still current means the publication read with it is too.
Basis ==
    \A c \in Callers :
        op[c].kind \in Fetching /\ pc[c] \in {"fetching", "waiting", "acquired"} =>
            /\ op[c].token <= generation
            /\ op[c].token = generation => op[c].seen = published

\* Before the first publication there is no revision and no node.
Unloaded == ~published.loaded => published = Empty

\* A candidate was accepted against the publication it is about to replace.
Candidate ==
    \A c \in Callers :
        pc[c] \in {"applying", "applied"} =>
            /\ op[c].cand.revision >= published.revision
            /\ op[c].cand.loaded

\* Only between the runtime's success and the publication do they differ.
Serving ==
    /\ runtime.ok => runtime.live = runtime.nodes
    /\ \A c \in Callers : pc[c] = "applied" => runtime.nodes = op[c].cand.nodes
    /\ closeState # "closed" /\ (\A c \in Callers : pc[c] # "applied") =>
          runtime.nodes = published.nodes

\* While the runtime can be trusted, a connection belongs to a user some listener
\* knows, so that kicking the user reaches it.
Anchored == runtime.ok => \A k \in conns : CredOf(runtime.nodes, k[1], k[2]) # NoCred

\* It is admitted by the publication, or by the candidate about to be published,
\* or its user is still on the list of the operation closing them.
Connections ==
    runtime.ok => \A k \in conns :
        \/ k \in Admitted(published.nodes)
        \/ \E c \in Callers : pc[c] = "applied" /\ k \in Admitted(op[c].cand.nodes)
        \/ \E c \in Callers : pc[c] = "closing" /\ <<k[1], k[2]>> \in op[c].closing

\* Closing implies that no operation may begin.
CloseStops == closeState # "open" => stopped

IInv ==
    /\ Typing /\ Unloaded /\ LockDiscipline /\ Basis /\ Candidate /\ NoLostUpdate
    /\ RefreshOverSeenUsers /\ Serving /\ Anchored /\ Connections /\ CloseStops
    /\ ClosedForGood

-----------------------------------------------------------------------------
(* The shapes of the steps of a task *)

\* What Prepare may rely on, whatever the operation.
Accepted(c, next) ==
    /\ next \in Topology
    /\ next.revision >= published.revision
    /\ next.loaded
    /\ op[c].kind \in Fetching => op[c].token = generation
    /\ op[c].kind \in Refreshing =>
          /\ published.nodes[op[c].node] = op[c].seen.nodes[op[c].node]
          /\ \A n \in DOMAIN published.nodes \ {op[c].node} :
                next.nodes[n] = published.nodes[n]

Begins(c) ==
    /\ pc[c] = "idle"
    /\ \E to \in {"waiting", "fetching"}, locals \in Operation :
          /\ Begin(c, to, locals)
          /\ locals.kind \in Fetching =>
                locals.token = generation /\ locals.seen = published

Abandons(c) == pc[c] \in {"fetching", "waiting"} /\ GiveUp(c) /\ UNCHANGED data

Prepares(c) ==
    /\ pc[c] = "acquired" /\ MayOperate(c)
    /\ \E next \in Topology, kick \in SUBSET (Nodes \X Users) :
          Prepare(c, next, kick) /\ Accepted(c, next)

Releases(c) ==
    /\ pc[c] \in Working \ {"applied"}
    /\ pc[c] = "closing" => op[c].closing = {}
    /\ Release(c) /\ UNCHANGED data

Shape(c) ==
    \/ Begins(c) \/ FetchDone(c) \/ Abandons(c) \/ Acquire(c) \/ Prepares(c)
    \/ Releases(c) \/ AdvanceRevision(c) \/ StartReconcile(c) \/ RuntimeApplied(c)
    \/ RuntimeLost(c) \/ RuntimeRecovered(c) \/ Reconciled(c) \/ Publish(c)
    \/ CloseUser(c) \/ CancelSession(c)

LEMMA CaptureShape ==
    ASSUME Typing, NEW c \in Callers, NEW k \in Kinds, NEW n \in Nodes, Capture(c, k, n)
    PROVE  Begins(c)
<1> DEFINE r == [Fresh(k) EXCEPT !.node = n, !.token = generation, !.seen = published]
<1>1. r \in Operation /\ r.token = generation /\ r.seen = published
  BY EmptyTable DEF Fresh, Operation, Typing, TypeOK
<1>2. Begin(c, "fetching", r)
  BY DEF Capture
<1> HIDE DEF r
<1>3. pc[c] = "idle"
  BY <1>2 DEF Begin
<1> QED
  BY <1>1, <1>2, <1>3 DEF Begins

\* A task's step has one of these shapes.
LEMMA StepShape ==
    ASSUME Typing, Unloaded, NEW c \in Callers, Step(c)
    PROVE  Shape(c)
<1>t. /\ op[c] \in Operation /\ published \in Topology /\ generation \in Nat
      /\ published.nodes \in NodeTable /\ published.revision \in Nat
      /\ op[c].fetched \in Topology /\ op[c].fetched.revision \in Nat
  BY DEF Typing, TypeOK, Operation, Topology
<1>n. AnyNode \in Nodes
  BY DataAssumption DEF AnyNode
<1>1. CASE BeginLocked(c)
  <2>1. PICK k \in Kinds \ Fetching : Begin(c, "waiting", Fresh(k))
    BY <1>1 DEF BeginLocked, Kinds, Fetching
  <2>2. Fresh(k) \in Operation /\ Fresh(k).kind = k
    BY FreshTyped DEF Fresh
  <2> QED BY <2>1, <2>2 DEF Shape, Begins, Begin
<1>2. CASE BeginAuthoritative(c)
  BY <1>2, <1>n, CaptureShape DEF BeginAuthoritative, Kinds, Shape
<1>3. CASE BeginReload(c)
  BY <1>3, <1>n, CaptureShape DEF BeginReload, Kinds, Shape
<1>4. CASE BeginRefresh(c)
  <2>1. PICK n \in DOMAIN published.nodes :
           Capture(c, IF c \in SessionCallers THEN "fencedRefresh" ELSE "userSync", n)
    BY <1>4 DEF BeginRefresh
  <2>2. n \in Nodes
    BY <1>t, TableShape
  <2> QED BY <2>1, <2>2, CaptureShape DEF Kinds, Shape
<1>5. CASE FetchFailed(c) \/ Reject(c)
  BY <1>5 DEF FetchFailed, Reject, Shape, Abandons
<1>6. CASE RejectAcquired(c) \/ RefuseCommand(c) \/ RefuseAuthoritative(c)
           \/ RefuseRefresh(c) \/ SkipReconcile(c) \/ RuntimeKept(c) \/ Finish(c)
  BY <1>6 DEF RejectAcquired, RefuseCommand, RefuseAuthoritative, RefuseRefresh,
              SkipReconcile, RuntimeKept, Finish, Refuse, Deciding, Working, Shape, Releases
<1>7. CASE ApplySnapshot(c)
  <2>1. PICK t \in PanelTopology : GuardRevision(t.revision) /\ Prepare(c, t, {})
    BY <1>7 DEF ApplySnapshot
  <2>2. t \in Topology /\ t.loaded
    BY DataAssumption DEF PanelTopology, Topology
  <2>3. Accepted(c, t)
    BY <2>1, <2>2, <1>7 DEF Accepted, GuardRevision, ApplySnapshot, Deciding, Fetching, Refreshing
  <2> QED BY <2>1, <2>2, <2>3, <1>7 DEF ApplySnapshot, Deciding, Shape, Prepares
<1>8. CASE ApplyDelta(c)
  <2>1. PICK base \in Revisions, target \in Revisions, nodes \in NodeTable,
             kick \in SUBSET (Nodes \X Users) :
           /\ GuardFence(base, target)
           /\ Prepare(c, [loaded |-> TRUE, revision |-> target, nodes |-> nodes], kick)
    BY <1>8 DEF ApplyDelta
  <2> DEFINE t == [loaded |-> TRUE, revision |-> target, nodes |-> nodes]
  <2>2. t \in Topology /\ t.loaded /\ t.revision = target
    BY DataAssumption DEF Topology
  <2>3. Accepted(c, t)
    BY <2>1, <2>2, <1>8 DEF Accepted, GuardFence, ApplyDelta, Deciding, Fetching, Refreshing
  <2> HIDE DEF t
  <2>4. Prepare(c, t, kick)
    BY <2>1 DEF t
  <2> QED BY <2>2, <2>3, <2>4, <1>8 DEF ApplyDelta, Deciding, Shape, Prepares
<1>9. CASE ApplyRoutePatch(c)
  <2>1. PICK base \in Revisions, target \in Revisions :
           /\ GuardFence(base, target)
           /\ Prepare(c, [published EXCEPT !.loaded = TRUE, !.revision = target], {})
    BY <1>9 DEF ApplyRoutePatch
  <2> DEFINE t == [published EXCEPT !.loaded = TRUE, !.revision = target]
  <2>2. t \in Topology /\ t.loaded /\ t.revision = target
    BY <1>t, DataAssumption DEF Topology
  <2>3. Prepare(c, t, {})
    BY <2>1
  <2> HIDE DEF t
  <2>4. Accepted(c, t)
    BY <2>1, <2>2, <1>9 DEF Accepted, GuardFence, ApplyRoutePatch, Deciding, Fetching, Refreshing
  <2> QED BY <2>2, <2>3, <2>4, <1>9 DEF ApplyRoutePatch, Deciding, Shape, Prepares
<1>10. CASE ApplyUserMutation(c)
  <2>1. PICK base \in Revisions, target \in Revisions, n \in DOMAIN published.nodes,
             u \in Users, cred \in Creds \cup {NoCred}, kick \in BOOLEAN :
           /\ GuardFence(base, target)
           /\ Prepare(c, [loaded |-> TRUE, revision |-> target,
                          nodes |-> [published.nodes EXCEPT ![n][u] = cred]],
                      IF kick THEN {<<n, u>>} ELSE {})
    BY <1>10 DEF ApplyUserMutation
  <2> DEFINE nodes == [published.nodes EXCEPT ![n][u] = cred]
             t == [loaded |-> TRUE, revision |-> target, nodes |-> nodes]
             ks == IF kick THEN {<<n, u>>} ELSE {}
  <2>2. nodes \in NodeTable
    BY <1>t, ReplaceUser
  <2>3. ks \in SUBSET (Nodes \X Users)
    BY <1>t, TableShape
  <2>4. Prepare(c, t, ks)
    BY <2>1
  <2> HIDE DEF nodes, ks
  <2>5. t \in Topology /\ t.loaded /\ t.revision = target
    BY <2>2, DataAssumption DEF Topology
  <2> HIDE DEF t
  <2>6. Accepted(c, t)
    BY <2>1, <2>5, <1>10
       DEF Accepted, GuardFence, ApplyUserMutation, Deciding, Fetching, Refreshing
  <2> QED BY <2>3, <2>4, <2>5, <2>6, <1>10 DEF ApplyUserMutation, Deciding, Shape, Prepares
<1>11. CASE ApplyAuthoritative(c)
  <2>1. op[c].kind \in Fetching /\ pc[c] = "acquired" /\ MayOperate(c)
    BY <1>11 DEF ApplyAuthoritative, Deciding
  <2>a. ~published.loaded => published.revision = 0
    BY DEF Unloaded, Empty
  <2>b. op[c].fetched.loaded
    BY <2>1 DEF FetchShape, Typing
  <2>2. Accepted(c, op[c].fetched)
    BY <2>1, <2>a, <2>b, <1>11, <1>t DEF ApplyAuthoritative, Accepted, Unchanged, GuardAuthoritative,
       Fetching, Refreshing
  <2>3. Prepare(c, op[c].fetched, {}) /\ op[c].fetched \in Topology
    BY <1>11, <1>t DEF ApplyAuthoritative, Operation
  <2>4. Prepares(c)
    BY <2>1, <2>2, <2>3 DEF Prepares
  <2> QED BY <2>4 DEF Shape
<1>12. CASE ApplyRefresh(c)
  <2> DEFINE nodes == [published.nodes EXCEPT ![op[c].node] = op[c].fetched.nodes[op[c].node]]
  <2>1. PICK target \in Revisions \cup {0} :
           Prepare(c, [published EXCEPT !.revision = MaxOf(published.revision, target),
                                        !.nodes = nodes], {})
    BY <1>12 DEF ApplyRefresh
  <2>2. op[c].kind \in Refreshing /\ pc[c] = "acquired" /\ MayOperate(c) /\ UsersAsSeen(c)
    BY <1>12 DEF ApplyRefresh, Deciding
  <2>3. op[c].fetched.nodes[op[c].node] \in UserTable
    BY <2>2 DEF FetchShape, Typing
  <2>4. /\ nodes \in NodeTable
        /\ \A n \in DOMAIN published.nodes \ {op[c].node} : nodes[n] = published.nodes[n]
    BY <2>3, <1>t, ReplaceNode
  <2>5. /\ MaxOf(published.revision, target) \in Nat
        /\ MaxOf(published.revision, target) >= published.revision
    BY <1>t, DataAssumption DEF MaxOf
  <2> DEFINE t == [published EXCEPT !.revision = MaxOf(published.revision, target),
                                    !.nodes = nodes]
  <2>6. Prepare(c, t, {})
    BY <2>1
  <2> HIDE DEF nodes
  <2>7. /\ t \in Topology /\ t.revision >= published.revision
        /\ t.loaded = published.loaded /\ t.nodes = nodes
    BY <2>4, <2>5, <1>t DEF Topology
  <2> HIDE DEF t
  <2>8. Accepted(c, t)
    <3>1. published.loaded
      BY <2>2 DEF UsersAsSeen, Unloaded, Empty, NoNodes
    <3> QED BY <3>1, <2>2, <2>4, <2>7 DEF Accepted, UsersAsSeen, Fetching, Refreshing
  <2> QED BY <2>2, <2>6, <2>7, <2>8 DEF Shape, Prepares
<1> QED
  BY <1>1, <1>2, <1>3, <1>4, <1>5, <1>6, <1>7, <1>8, <1>9, <1>10, <1>11, <1>12
     DEF Step, Progress, Shape

-----------------------------------------------------------------------------
(* Preservation of the invariant *)

\* A step of one task leaves the locals of the others alone.
LEMMA Frame ==
    ASSUME Typing, NEW c \in Callers, Shape(c), NEW d \in Callers, d # c
    PROVE  pc'[d] = pc[d] /\ op'[d] = op[d]
<1> USE DEF Typing, TypeOK
<1>1. CASE Begins(c)
  BY <1>1 DEF Begins, Begin
<1>2. CASE FetchDone(c)
  BY <1>2 DEF FetchDone
<1>3. CASE Abandons(c) \/ Releases(c)
  BY <1>3 DEF Abandons, GiveUp, Releases, Release
<1>4. CASE Acquire(c)
  BY <1>4 DEF Acquire
<1>5. CASE Prepares(c)
  BY <1>5 DEF Prepares, Prepare
<1>6. CASE AdvanceRevision(c) \/ RuntimeLost(c) \/ RuntimeRecovered(c) \/ Reconciled(c)
  BY <1>6 DEF AdvanceRevision, RuntimeLost, RuntimeRecovered, Reconciled, Release
<1>7. CASE StartReconcile(c) \/ RuntimeApplied(c) \/ CancelSession(c)
  BY <1>7 DEF StartReconcile, RuntimeApplied, CancelSession
<1>8. CASE Publish(c)
  BY <1>8 DEF Publish
<1>9. CASE CloseUser(c)
  BY <1>9 DEF CloseUser
<1> QED
  BY <1>1, <1>2, <1>3, <1>4, <1>5, <1>6, <1>7, <1>8, <1>9 DEF Shape

LEMMA LockStep ==
    ASSUME IInv, NEW c \in Callers, Shape(c)
    PROVE  LockDiscipline'
<1> USE CallersAssumption DEF IInv, Typing, TypeOK, LockDiscipline, Working
<1>0. \A d \in Callers : d # c => pc'[d] = pc[d]
  BY Frame
<1>1. CASE Begins(c)
  <2>1. pc[c] = "idle" /\ pc'[c] \in {"waiting", "fetching"} /\ UNCHANGED <<lock, closeState>>
    BY <1>1 DEF Begins, Begin
  <2> QED BY <1>0, <2>1
<1>2. CASE FetchDone(c) \/ Abandons(c) \/ CancelSession(c)
  <2>1. /\ pc[c] \in Working <=> pc'[c] \in Working
        /\ UNCHANGED <<lock, closeState>>
    BY <1>2 DEF FetchDone, Abandons, GiveUp, CancelSession
  <2> QED BY <1>0, <2>1
<1>3. CASE Acquire(c)
  BY <1>0, <1>3 DEF Acquire
<1>4. CASE Releases(c) \/ AdvanceRevision(c) \/ RuntimeLost(c) \/ RuntimeRecovered(c)
           \/ Reconciled(c)
  <2>1. pc[c] \in Working /\ Release(c)
    BY <1>4 DEF Releases, AdvanceRevision, Deciding, RuntimeLost, RuntimeRecovered, Reconciled
  <2> QED BY <1>0, <2>1 DEF Release
<1>5. CASE Prepares(c) \/ StartReconcile(c) \/ RuntimeApplied(c) \/ Publish(c) \/ CloseUser(c)
  <2>1. pc[c] \in Working /\ pc'[c] \in Working /\ UNCHANGED <<lock, closeState>>
    BY <1>5 DEF Prepares, Prepare, StartReconcile, Deciding, RuntimeApplied, Publish, CloseUser
  <2> QED BY <1>0, <2>1
<1> QED
  BY <1>1, <1>2, <1>3, <1>4, <1>5 DEF Shape

\* Only the owner of the lock touches the publication.
LEMMA PublicationStep ==
    ASSUME IInv, NEW c \in Callers, Shape(c)
    PROVE  \/ UNCHANGED <<published, generation>>
           \/ /\ lock = c /\ generation' = generation + 1 /\ published'.loaded
              /\ published'.revision >= published.revision
              /\ pc[c] \in {"acquired", "applied"}
              /\ \/ Publish(c)
                 \/ /\ AdvanceRevision(c)
                    /\ published'.nodes = published.nodes
<1> USE DEF IInv, Typing, TypeOK
<1>1. CASE Publish(c)
  BY <1>1 DEF Publish, Candidate, LockDiscipline, Working
<1>2. CASE AdvanceRevision(c)
  <2>1. CASE UNCHANGED <<published, generation>>
    BY <2>1
  <2>2. CASE ~ UNCHANGED <<published, generation>>
    <3>1. PICK target \in Revisions \cup {0} :
             /\ target > published.revision
             /\ published' = [published EXCEPT !.revision = target]
             /\ generation' = generation + 1
      BY <1>2, <2>2 DEF AdvanceRevision
    <3>2. published.revision \in Nat /\ target \in Nat
      BY DataAssumption DEF Topology
    <3>3. published.loaded
      BY <1>2 DEF AdvanceRevision, UsersAsSeen, Unloaded, Empty, NoNodes
    <3>4. /\ published'.loaded /\ published'.revision = target
          /\ published'.nodes = published.nodes
      BY <3>1, <3>3 DEF Topology
    <3>5. pc[c] = "acquired" /\ lock = c
      BY <1>2 DEF AdvanceRevision, Deciding, LockDiscipline, Working
    <3> QED BY <1>2, <3>1, <3>2, <3>4, <3>5
  <2> QED BY <2>1, <2>2
<1>3. CASE ~ Publish(c) /\ ~ AdvanceRevision(c)
  BY <1>3 DEF Shape, Begins, Begin, FetchDone, Abandons, Acquire, Prepares, Prepare, Releases,
     StartReconcile, RuntimeApplied, RuntimeLost, RuntimeRecovered, Reconciled, CloseUser,
     CancelSession, data
<1> QED
  BY <1>1, <1>2, <1>3

LEMMA UnloadedStep ==
    ASSUME IInv, NEW c \in Callers, Shape(c)
    PROVE  Unloaded'
  BY PublicationStep DEF IInv, Unloaded

LEMMA BasisStep ==
    ASSUME IInv, NEW c \in Callers, Shape(c)
    PROVE  Basis'
<1> USE DEF IInv, Typing, TypeOK
<1> DEFINE Early == {"fetching", "waiting", "acquired"}
<1> SUFFICES ASSUME NEW d \in Callers, op'[d].kind \in Fetching, pc'[d] \in Early
             PROVE  /\ op'[d].token <= generation'
                    /\ op'[d].token = generation' => op'[d].seen = published'
  BY DEF Basis
<1>1. CASE d # c
  <2>1. /\ pc[d] \in Early /\ op[d].kind \in Fetching
        /\ op'[d].token = op[d].token /\ op'[d].seen = op[d].seen
    BY <1>1, Frame
  <2>2. op[d].token <= generation /\ (op[d].token = generation => op[d].seen = published)
    BY <2>1 DEF Basis
  <2>3. op[d].token \in Nat /\ generation \in Nat
    BY DEF Operation
  <2> QED BY <2>1, <2>2, <2>3, PublicationStep
<1>2. CASE d = c
  <2>1. CASE Begins(c)
    <3>1. PICK locals \in Operation :
             /\ op' = [op EXCEPT ![c] = locals]
             /\ locals.kind \in Fetching => locals.token = generation /\ locals.seen = published
             /\ UNCHANGED <<published, generation>>
      BY <2>1 DEF Begins, Begin, data
    <3>2. op'[c] = locals
      BY <3>1
    <3> QED BY <1>2, <3>1, <3>2
  <2>2. CASE FetchDone(c)
    <3>1. PICK t : op' = [op EXCEPT ![c].fetched = t]
      BY <2>2 DEF FetchDone
    <3>2. /\ op'[c].kind = op[c].kind /\ op'[c].token = op[c].token
          /\ op'[c].seen = op[c].seen
      BY <3>1 DEF Operation
    <3>3. pc[c] = "fetching" /\ UNCHANGED <<published, generation>>
      BY <2>2 DEF FetchDone, data
    <3> QED BY <1>2, <3>2, <3>3 DEF Basis
  <2>3. CASE Acquire(c) \/ CancelSession(c)
    <3>1. pc[c] \in Early /\ op' = op /\ UNCHANGED <<published, generation>>
      BY <1>2, <2>3 DEF Acquire, CancelSession, data
    <3> QED BY <1>2, <3>1 DEF Basis
  <2>4. CASE Abandons(c) \/ Releases(c) \/ AdvanceRevision(c) \/ RuntimeLost(c)
             \/ RuntimeRecovered(c) \/ Reconciled(c)
    <3>1. pc'[c] = "idle"
      BY <2>4 DEF Abandons, GiveUp, Releases, AdvanceRevision, RuntimeLost, RuntimeRecovered,
         Reconciled, Release
    <3> QED BY <1>2, <3>1
  <2>5. CASE Prepares(c) \/ StartReconcile(c) \/ RuntimeApplied(c) \/ Publish(c) \/ CloseUser(c)
    <3>1. pc'[c] \in {"applying", "reconciling", "applied", "closing"}
      BY <2>5 DEF Prepares, Prepare, StartReconcile, RuntimeApplied, Publish, CloseUser
    <3> QED BY <1>2, <3>1
  <2> QED BY <2>1, <2>2, <2>3, <2>4, <2>5 DEF Shape
<1> QED BY <1>1, <1>2

\* Candidate, NoLostUpdate and RefreshOverSeenUsers speak of the same states.
LEMMA CandidateStep ==
    ASSUME IInv, NEW c \in Callers, Shape(c)
    PROVE  Candidate' /\ NoLostUpdate' /\ RefreshOverSeenUsers'
<1> USE DEF IInv, Typing, TypeOK
<1> DEFINE Good(d) ==
        /\ op[d].cand.revision >= published.revision
        /\ op[d].cand.loaded
        /\ op[d].kind \in Fetching => published = op[d].seen
        /\ op[d].kind \in Refreshing =>
              /\ published.nodes[op[d].node] = op[d].seen.nodes[op[d].node]
              /\ \A n \in DOMAIN published.nodes \ {op[d].node} :
                    op[d].cand.nodes[n] = published.nodes[n]
<1>g. \A d \in Callers : pc[d] \in {"applying", "applied"} => Good(d)
  BY DEF Candidate, NoLostUpdate, RefreshOverSeenUsers
<1> SUFFICES ASSUME NEW d \in Callers, pc'[d] \in {"applying", "applied"}
             PROVE  Good(d)'
  BY DEF Candidate, NoLostUpdate, RefreshOverSeenUsers
<1>1. CASE d # c
  <2>1. pc[d] = pc'[d] /\ op'[d] = op[d]
    BY <1>1, Frame
  <2>2. lock = d
    BY <2>1 DEF LockDiscipline, Working
  <2>3. published' = published
    BY <1>1, <2>2, PublicationStep
  <2> QED BY <1>g, <2>1, <2>3
<1>2. CASE d = c
  <2>1. CASE Prepares(c)
    <3>1. PICK next \in Topology, kick \in SUBSET (Nodes \X Users) :
             Prepare(c, next, kick) /\ Accepted(c, next)
      BY <2>1 DEF Prepares
    <3>2. op[c] \in Operation /\ pc[c] = "acquired"
      BY <2>1 DEF Prepares
    <3>3. /\ op'[c].cand = next /\ op'[c].kind = op[c].kind
          /\ op'[c].node = op[c].node /\ op'[c].seen = op[c].seen
      BY <3>1, <3>2 DEF Prepare, Operation
    <3>4. op[c].kind \in Fetching => published = op[c].seen
      BY <3>1, <3>2 DEF Accepted, Basis
    <3>5. published' = published
      BY <3>1 DEF Prepare, data
    <3> QED BY <1>2, <3>1, <3>3, <3>4, <3>5 DEF Accepted
  <2>2. CASE RuntimeApplied(c) \/ CancelSession(c)
    <3>1. pc[c] \in {"applying", "applied"} /\ op' = op /\ published' = published
      BY <1>2, <2>2 DEF RuntimeApplied, CancelSession, data
    <3> QED BY <1>g, <1>2, <3>1
  <2>3. CASE ~ (Prepares(c) \/ RuntimeApplied(c) \/ CancelSession(c))
    <3>1. pc'[c] \notin {"applying", "applied"}
      BY <2>3 DEF Shape, Begins, Begin, FetchDone, Abandons, GiveUp, Acquire, Releases,
         Release, AdvanceRevision, StartReconcile, RuntimeLost, RuntimeRecovered, Reconciled,
         Publish, CloseUser
    <3> QED BY <1>2, <3>1
  <2> QED BY <2>1, <2>2, <2>3
<1> QED BY <1>1, <1>2

\* While c owns the lock no other task is past begin_operation.
LEMMA Exclusive ==
    ASSUME IInv, NEW c \in Callers, pc[c] \in Working, NEW d \in Callers, d # c
    PROVE  pc[d] \notin Working
  BY DEF IInv, LockDiscipline

LEMMA ServingStep ==
    ASSUME IInv, NEW c \in Callers, Shape(c)
    PROVE  Serving'
<1> USE DEF IInv, Typing, TypeOK
<1>0. \A d \in Callers : d # c => pc'[d] = pc[d] /\ op'[d] = op[d]
  BY Frame
<1>s. UNCHANGED closeState
  BY DEF Shape, Begins, Begin, FetchDone, Abandons, GiveUp, Acquire, Prepares, Prepare,
     Releases, Release, AdvanceRevision, StartReconcile, RuntimeApplied, RuntimeLost,
     RuntimeRecovered, Reconciled, Publish, CloseUser, CancelSession
<1>1. CASE RuntimeApplied(c)
  <2>1. /\ pc'[c] = "applied" /\ op' = op /\ runtime' = Serves(op[c].cand.nodes)
        /\ pc[c] \in Working
    BY <1>1 DEF RuntimeApplied, Working
  <2>2. \A d \in Callers : d # c => pc'[d] # "applied"
    BY <1>0, <2>1, Exclusive DEF Working
  <2> QED BY <2>1, <2>2 DEF Serving, Serves
<1>2. CASE Publish(c)
  <2>1. /\ pc[c] = "applied" /\ pc'[c] = "closing" /\ published' = op[c].cand
        /\ runtime' = runtime
    BY <1>2 DEF Publish
  <2>2. \A d \in Callers : pc'[d] # "applied"
    BY <1>0, <2>1, Exclusive DEF Working
  <2> QED BY <2>1, <2>2 DEF Serving
<1>3. CASE AdvanceRevision(c)
  <2>1. pc[c] = "acquired" /\ pc'[c] = "idle" /\ runtime' = runtime
    BY <1>3 DEF AdvanceRevision, Deciding, Release
  <2>2. published'.nodes = published.nodes
    BY <1>3, PublicationStep, <2>1 DEF Publish
  <2> QED BY <1>0, <1>s, <2>1, <2>2 DEF Serving
<1>4. CASE RuntimeLost(c) \/ RuntimeRecovered(c) \/ Reconciled(c)
  <2>1. pc[c] \in Working \ {"applied"} /\ pc'[c] = "idle" /\ published' = published
    BY <1>4 DEF RuntimeLost, RuntimeRecovered, Reconciled, Release, Working
  <2>2. \A d \in Callers : pc[d] # "applied" /\ pc'[d] # "applied"
    BY <1>0, <2>1, Exclusive DEF Working
  <2>3. /\ runtime'.nodes \in {runtime.nodes, published.nodes}
        /\ runtime'.ok => runtime'.live = runtime'.nodes
    <3>1. CASE RuntimeLost(c)
      <4>1. PICK t : runtime' = [runtime EXCEPT !.ok = FALSE, !.live = t]
        BY <3>1 DEF RuntimeLost
      <4> QED BY <4>1
    <3>2. CASE RuntimeRecovered(c) \/ Reconciled(c)
      BY <3>2 DEF RuntimeRecovered, Reconciled, Serves
    <3> QED BY <1>4, <3>1, <3>2
  <2> QED BY <1>s, <2>1, <2>2, <2>3 DEF Serving
<1>5. CASE Releases(c)
  <2>1. pc[c] # "applied" /\ pc'[c] = "idle" /\ UNCHANGED <<published, runtime>>
    BY <1>5 DEF Releases, Release, data
  <2> QED BY <1>0, <1>s, <2>1 DEF Serving
<1>6. CASE Begins(c) \/ FetchDone(c) \/ Abandons(c) \/ Acquire(c) \/ Prepares(c)
           \/ StartReconcile(c) \/ CloseUser(c)
  <2>1. /\ pc[c] # "applied" /\ pc'[c] # "applied" /\ UNCHANGED <<published, runtime>>
    BY <1>6 DEF Begins, Begin, FetchDone, Abandons, GiveUp, Acquire, Prepares, Prepare,
       StartReconcile, Deciding, CloseUser, data
  <2> QED BY <1>0, <1>s, <2>1 DEF Serving
<1>7. CASE CancelSession(c)
  BY <1>7 DEF CancelSession, data, Serving
<1> QED
  BY <1>1, <1>2, <1>3, <1>4, <1>5, <1>6, <1>7 DEF Shape

LEMMA AnchoredStep ==
    ASSUME IInv, NEW c \in Callers, Shape(c)
    PROVE  Anchored'
<1> USE DEF IInv, Typing, TypeOK
<1>1. CASE RuntimeApplied(c) \/ RuntimeRecovered(c)
  <2>1. CASE RuntimeApplied(c)
    <3>1. /\ runtime'.nodes = op[c].cand.nodes
          /\ \A k \in conns' : CredOf(op[c].cand.nodes, k[1], k[2]) # NoCred
      BY <2>1 DEF RuntimeApplied, Serves
    <3> QED BY <3>1 DEF Anchored
  <2>2. CASE RuntimeRecovered(c)
    BY <2>2 DEF RuntimeRecovered, Anchored
  <2> QED BY <1>1, <2>1, <2>2
<1>2. CASE Reconciled(c)
  <2>1. /\ pc[c] = "reconciling" /\ runtime'.nodes = published.nodes
        /\ conns' = IF runtime.ok THEN conns ELSE {}
    BY <1>2 DEF Reconciled, Serves
  <2>2. \A d \in Callers : pc[d] # "applied"
    BY <2>1, Exclusive DEF Working
  <2>3. closeState # "closed"
    BY <2>1 DEF ClosedForGood, Working
  <2> QED BY <2>1, <2>2, <2>3 DEF Anchored, Serving
<1>3. CASE RuntimeLost(c)
  <2>1. ~runtime'.ok
    BY <1>3 DEF RuntimeLost, RuntimeStates
  <2> QED BY <2>1 DEF Anchored
<1>4. CASE ~ (RuntimeApplied(c) \/ RuntimeLost(c) \/ RuntimeRecovered(c) \/ Reconciled(c))
  <2>1. runtime' = runtime /\ conns' \subseteq conns
    BY <1>4 DEF Shape, Begins, Begin, FetchDone, Abandons, Acquire, Prepares, Prepare, Releases,
       AdvanceRevision, StartReconcile, Publish, CloseUser, CancelSession, data
  <2> QED BY <2>1 DEF Anchored
<1> QED BY <1>1, <1>2, <1>3, <1>4

LEMMA ConnectionsStep ==
    ASSUME IInv, NEW c \in Callers, Shape(c)
    PROVE  Connections'
<1> USE DEF IInv, Typing, TypeOK
<1>0. \A d \in Callers : d # c => pc'[d] = pc[d] /\ op'[d] = op[d]
  BY Frame
<1> SUFFICES ASSUME runtime'.ok, NEW k \in conns'
             PROVE  \/ k \in Admitted(published.nodes)'
                    \/ \E d \in Callers : pc'[d] = "applied" /\ k \in Admitted(op[d].cand.nodes)'
                    \/ \E d \in Callers : pc'[d] = "closing" /\ <<k[1], k[2]>> \in op'[d].closing
  BY DEF Connections
<1>1. CASE Begins(c) \/ FetchDone(c) \/ Abandons(c) \/ Acquire(c) \/ Prepares(c)
           \/ StartReconcile(c) \/ CancelSession(c)
  <2>1. /\ UNCHANGED <<published, conns, runtime>>
        /\ pc[c] \in {"applied", "closing"} => pc'[c] = pc[c] /\ op'[c] = op[c]
    BY <1>1 DEF Begins, Begin, FetchDone, Abandons, GiveUp, Acquire, Prepares, Prepare,
       StartReconcile, Deciding, CancelSession, data
  <2>2. k \in conns
    BY <2>1
  <2> QED BY <1>0, <2>1, <2>2 DEF Connections, Admitted
<1>2. CASE Releases(c) \/ AdvanceRevision(c) \/ (Reconciled(c) /\ runtime.ok)
  <2>1. /\ pc[c] \in Working \ {"applied"} /\ conns' = conns /\ runtime.ok
        /\ pc[c] = "closing" => op[c].closing = {}
        /\ published'.nodes = published.nodes
    <3>1. CASE Releases(c)
      BY <3>1 DEF Releases, data
    <3>2. CASE AdvanceRevision(c)
      <4>1. pc[c] = "acquired" /\ conns' = conns /\ runtime' = runtime
        BY <3>2 DEF AdvanceRevision, Deciding
      <4> QED BY <3>2, <4>1, PublicationStep DEF Publish, Working
    <3>3. CASE Reconciled(c) /\ runtime.ok
      BY <3>3 DEF Reconciled, Working
    <3> QED BY <1>2, <3>1, <3>2, <3>3
  <2>2. \A d \in Callers : pc[d] # "applied" /\ (pc[d] = "closing" => op[d].closing = {})
    BY <2>1, Exclusive DEF Working
  <2>3. k \in Admitted(published.nodes)
    BY <2>1, <2>2 DEF Connections
  <2> QED BY <2>1, <2>3 DEF Admitted
<1>3. CASE RuntimeApplied(c) /\ runtime.ok
  <2>1. /\ pc[c] = "applying" /\ pc'[c] = "applied" /\ op' = op
        /\ conns' \subseteq conns /\ published' = published
    BY <1>3 DEF RuntimeApplied
  <2>2. \A d \in Callers : pc[d] \notin {"applied", "closing"}
    BY <2>1, Exclusive DEF Working
  <2>3. k \in Admitted(published.nodes)
    BY <1>3, <2>1, <2>2 DEF Connections
  <2> QED BY <2>1, <2>3 DEF Admitted
<1>4. CASE RuntimeLost(c) \/ RuntimeRecovered(c)
  <2>1. ~runtime'.ok \/ conns' = {}
    BY <1>4 DEF RuntimeLost, RuntimeRecovered, RuntimeStates
  <2> QED BY <2>1
<1>7. CASE (RuntimeApplied(c) \/ Reconciled(c)) /\ ~runtime.ok
  BY <1>7 DEF RuntimeApplied, Reconciled
<1>5. CASE Publish(c)
  <2>1. /\ pc[c] = "applied" /\ pc'[c] = "closing" /\ conns' = conns
        /\ published' = op[c].cand /\ runtime' = runtime
    BY <1>5 DEF Publish
  <2>2. op'[c].closing = StaleUsers(published.nodes, op[c].cand.nodes)
                         \cup (op[c].kicks \cap Authorized(op[c].cand.nodes))
    BY <1>5 DEF Publish, Operation
  <2>3. \A d \in Callers : d # c => pc[d] \notin {"applied", "closing"}
    BY <2>1, Exclusive DEF Working
  <2>4. k \in Nodes \X Users \X Creds
    BY <2>1
  <2>5. \/ k \in Admitted(published.nodes)
        \/ k \in Admitted(op[c].cand.nodes)
    BY <2>1, <2>3 DEF Connections
  <2>6. CASE k \in Admitted(op[c].cand.nodes)
    BY <2>1, <2>6
  <2>7. CASE k \in Admitted(published.nodes) /\ k \notin Admitted(op[c].cand.nodes)
    <3>1. /\ CredOf(published.nodes, k[1], k[2]) = k[3]
          /\ CredOf(op[c].cand.nodes, k[1], k[2]) # k[3]
      BY <2>4, <2>7 DEF Admitted
    <3>2. k[3] # NoCred /\ k[1] \in Nodes /\ k[2] \in Users
      BY <2>4, DataAssumption
    <3>3. <<k[1], k[2]>> \in StaleUsers(published.nodes, op[c].cand.nodes)
      BY <3>1, <3>2 DEF StaleUsers
    <3> QED BY <2>1, <2>2, <3>3
  <2> QED BY <2>5, <2>6, <2>7
<1>6. CASE CloseUser(c)
  <2>1. PICK u \in op[c].closing :
           /\ conns' = IF runtime.ok /\ u \in Authorized(runtime.nodes)
                       THEN {x \in conns : <<x[1], x[2]>> # u} ELSE conns
           /\ op' = [op EXCEPT ![c].closing = @ \ {u}]
    BY <1>6 DEF CloseUser
  <2>2. pc[c] = "closing" /\ pc' = pc /\ published' = published /\ runtime' = runtime
    BY <1>6 DEF CloseUser
  <2>3. op'[c].closing = op[c].closing \ {u}
    BY <2>1 DEF Operation
  <2>4. k \in conns /\ <<k[1], k[2]>> # u
    <3>1. k \in conns /\ k \in Nodes \X Users \X Creds
      BY <2>1
    <3>2. <<k[1], k[2]>> \in Authorized(runtime.nodes)
      BY <2>2, <3>1 DEF Anchored, Authorized
    <3> QED BY <2>1, <2>2, <3>1, <3>2
  <2>5. \A d \in Callers : d # c => pc[d] \notin {"applied", "closing"}
    BY <2>2, Exclusive DEF Working
  <2>6. k \in Admitted(published.nodes) \/ <<k[1], k[2]>> \in op[c].closing
    BY <2>2, <2>4, <2>5 DEF Connections
  <2> QED BY <2>2, <2>3, <2>4, <2>6 DEF Admitted
<1> QED
  BY <1>1, <1>2, <1>3, <1>4, <1>5, <1>6, <1>7 DEF Shape

LEMMA CloseStep ==
    ASSUME IInv, NEW c \in Callers, Shape(c)
    PROVE  CloseStops' /\ ClosedForGood'
<1> USE DEF IInv, Typing, TypeOK
<1>1. UNCHANGED <<stopped, closeState>>
  BY DEF Shape, Begins, Begin, FetchDone, Abandons, GiveUp, Acquire, Prepares, Prepare,
     Releases, Release, AdvanceRevision, StartReconcile, RuntimeApplied, RuntimeLost,
     RuntimeRecovered, Reconciled, Publish, CloseUser, CancelSession
<1>2. CloseStops'
  BY <1>1 DEF CloseStops
<1>3. CASE closeState \notin {"closed", "failed"}
  BY <1>1, <1>2, <1>3 DEF ClosedForGood
<1>4. CASE closeState \in {"closed", "failed"}
  <2>1. stopped /\ pc[c] \notin Working
    BY <1>4 DEF CloseStops, ClosedForGood
  <2>2. pc'[c] \notin Working /\ UNCHANGED <<runtime, conns>>
    BY <2>1 DEF Shape, Begins, Begin, FetchDone, Abandons, GiveUp, Acquire, MayOperate,
       Prepares, Releases, AdvanceRevision, StartReconcile, Deciding, RuntimeApplied,
       RuntimeLost, RuntimeRecovered, Reconciled, Publish, CloseUser, CancelSession, Working,
       data
  <2> QED BY <1>1, <1>2, <1>4, <2>1, <2>2, Frame DEF ClosedForGood
<1> QED BY <1>2, <1>3, <1>4

\* The steps of no task: connections, shutdown, stuttering.
Environment ==
    \/ Connect \/ Disconnect \/ WatcherLost \/ WatcherRecovered
    \/ StopOperations \/ RequestClose \/ CloseAcquire \/ CloseRuntime \/ CloseFailed
    \/ UNCHANGED vars

LEMMA EnvironmentStep ==
    ASSUME IInv, Environment
    PROVE  /\ Unloaded' /\ LockDiscipline' /\ Basis' /\ Candidate' /\ NoLostUpdate'
           /\ RefreshOverSeenUsers' /\ Serving' /\ Anchored' /\ Connections' /\ CloseStops'
           /\ ClosedForGood' /\ UNCHANGED <<published, generation>>
<1> USE CallersAssumption DEF IInv, Typing, TypeOK
<1>1. UNCHANGED <<published, generation, pc, op>>
  BY DEF Environment, Connect, Disconnect, WatcherLost, WatcherRecovered, StopOperations, RequestClose, CloseAcquire,
     CloseRuntime, CloseFailed, vars, data, control
<1>2. Unloaded' /\ Basis' /\ Candidate' /\ NoLostUpdate' /\ RefreshOverSeenUsers'
  <2>1. Unloaded' /\ Basis'
    BY <1>1 DEF Unloaded, Basis
  <2>2. Candidate' /\ NoLostUpdate'
    BY <1>1 DEF Candidate, NoLostUpdate
  <2>3. RefreshOverSeenUsers'
    BY <1>1 DEF RefreshOverSeenUsers
  <2> QED BY <2>1, <2>2, <2>3
<1>3. CASE Connect
  <2>1. PICK k \in Admitted(runtime.live) : conns' = conns \cup {k}
    BY <1>3 DEF Connect
  <2>2. UNCHANGED <<runtime, lock, closeState, stopped>>
    BY <1>3 DEF Connect, control
  <2>3. CredOf(runtime.live, k[1], k[2]) # NoCred
    BY <2>1, DataAssumption DEF Admitted
  <2>6. closeState # "closed"
    BY <2>3 DEF ClosedForGood, NoNodes, CredOf
  <2>4. runtime.ok => \/ k \in Admitted(published.nodes)
                      \/ \E c \in Callers : pc[c] = "applied" /\ k \in Admitted(op[c].cand.nodes)
    BY <2>6 DEF Serving
  <2>5. Connections' /\ Anchored'
    BY <1>1, <2>1, <2>2, <2>3, <2>4 DEF Connections, Anchored, Admitted, Serving
  <2> QED BY <1>1, <1>2, <2>2, <2>5, <2>6 DEF LockDiscipline, Serving, CloseStops, ClosedForGood
<1>4. CASE StopOperations \/ RequestClose \/ Disconnect \/ UNCHANGED vars
  <2>1. /\ UNCHANGED <<runtime, lock>> /\ CloseStops' /\ conns' \subseteq conns
        /\ (closeState' = "closing" <=> closeState = "closing")
        /\ (closeState' \in {"closed", "failed"} => closeState' = closeState)
        /\ (closeState = "closed" => closeState' = "closed")
    BY <1>4 DEF StopOperations, RequestClose, Disconnect, vars, data, control, CloseStops
  <2> QED BY <1>1, <1>2, <2>1 DEF LockDiscipline, Serving, Anchored, Connections, Admitted,
             ClosedForGood
<1>5. CASE CloseAcquire
  BY <1>1, <1>2, <1>5 DEF CloseAcquire, data, LockDiscipline, Serving, Anchored, Connections,
     Admitted, CloseStops, ClosedForGood
<1>6. CASE CloseRuntime \/ CloseFailed
  <2>1. /\ lock = Closer /\ lock' = Nobody /\ ~runtime'.ok
        /\ closeState = "closing" /\ closeState' \in {"closed", "failed"} /\ stopped' = stopped
        /\ closeState' = "closed" => runtime'.live = NoNodes /\ conns' = {}
        /\ closeState' = "failed" => runtime'.nodes = runtime.nodes
    BY <1>6 DEF CloseRuntime, CloseFailed, LockDiscipline, RuntimeStates
  <2>2. \A c \in Callers : pc[c] \notin Working
    BY <2>1 DEF LockDiscipline
  <2> QED BY <1>1, <1>2, <2>1, <2>2 DEF LockDiscipline, Serving, Anchored, Connections,
             CloseStops, ClosedForGood, Working
<1>7. CASE WatcherLost \/ WatcherRecovered
  <2>1. /\ UNCHANGED <<lock, stopped, closeState>> /\ closeState \notin {"closed", "failed"}
        /\ runtime'.nodes = runtime.nodes
        /\ runtime'.ok => runtime'.live = runtime'.nodes /\ conns' = {}
    <3>1. CASE WatcherLost
      <4>1. PICK t : runtime' = [runtime EXCEPT !.ok = FALSE, !.live = t]
        BY <3>1 DEF WatcherLost
      <4> QED BY <3>1, <4>1 DEF WatcherLost, control
    <3>2. CASE WatcherRecovered
      BY <3>2 DEF WatcherRecovered, control, Serves
    <3> QED BY <1>7, <3>1, <3>2
  <2> QED BY <1>1, <1>2, <2>1 DEF LockDiscipline, Serving, Anchored, Connections, CloseStops,
             ClosedForGood
<1> QED BY <1>1, <1>2, <1>3, <1>4, <1>5, <1>6, <1>7 DEF Environment

LEMMA IInvInit == Init => IInv
<1> SUFFICES ASSUME Init PROVE IInv
  OBVIOUS
<1>1. Typing
  BY TypingInit
<1>2. LockDiscipline /\ Basis /\ Candidate /\ NoLostUpdate /\ RefreshOverSeenUsers
  BY CallersAssumption DEF Init, LockDiscipline, Working, Basis, Candidate, NoLostUpdate,
     RefreshOverSeenUsers
<1>3. Unloaded /\ Serving /\ Anchored /\ Connections /\ CloseStops /\ ClosedForGood
  BY DEF Init, Unloaded, Empty, Serves, Serving, Anchored, Connections, CloseStops, ClosedForGood
<1> QED BY <1>1, <1>2, <1>3 DEF IInv

LEMMA IInvStep == IInv /\ [Next]_vars => IInv'
<1> SUFFICES ASSUME IInv, [Next]_vars PROVE IInv'
  OBVIOUS
<1>1. Typing'
  BY TypingStep DEF IInv
<1>2. ASSUME NEW c \in Callers, Step(c) PROVE IInv'
  <2>1. Shape(c)
    BY <1>2, StepShape DEF IInv
  <2>2. Unloaded' /\ LockDiscipline' /\ Basis'
    BY <2>1, UnloadedStep, LockStep, BasisStep
  <2>3. Candidate' /\ NoLostUpdate' /\ RefreshOverSeenUsers'
    BY <2>1, CandidateStep
  <2>4. Serving' /\ Anchored' /\ Connections' /\ CloseStops' /\ ClosedForGood'
    BY <2>1, ServingStep, AnchoredStep, ConnectionsStep, CloseStep
  <2> QED BY <1>1, <2>2, <2>3, <2>4 DEF IInv
<1>3. CASE Environment
  BY <1>1, <1>3, EnvironmentStep DEF IInv
<1> QED BY <1>2, <1>3 DEF Next, Environment

LEMMA Invariance == Spec => []IInv
  BY IInvInit, IInvStep, PTL DEF Spec

-----------------------------------------------------------------------------
(* The properties *)

\* A topology fetched from the panel never replaces a publication that was made
\* while it was being fetched, for any number of tasks and revisions.
THEOREM AuthoritativeCas == Spec => []NoLostUpdate
<1>1. IInv => NoLostUpdate
  BY DEF IInv
<1> QED BY <1>1, Invariance, PTL

\* A user refresh replaces exactly the user list it was compared with.
THEOREM RefreshCas == Spec => []RefreshOverSeenUsers
<1>1. IInv => RefreshOverSeenUsers
  BY DEF IInv
<1> QED BY <1>1, Invariance, PTL

\* Between operations the runtime is committed to what is published, and serves it
\* unless a failed transaction could not be undone.
THEOREM DataPlaneAgreement == Spec => []RuntimeMatchesPublished
<1>1. IInv => RuntimeMatchesPublished
  BY CallersAssumption
     DEF IInv, RuntimeMatchesPublished, Serving, LockDiscipline, Working
<1> QED BY <1>1, Invariance, PTL

\* Between operations no connection outlives the credential it was opened with.
THEOREM RevocationComplete == Spec => []NoStaleConnections
<1>1. IInv => NoStaleConnections
  BY CallersAssumption
     DEF IInv, NoStaleConnections, Connections, LockDiscipline, Working
<1> QED BY <1>1, Invariance, PTL

\* After close() completed, nothing is served and nothing can start.
THEOREM CloseIsFinal == Spec => []ClosedForGood
<1>1. IInv => ClosedForGood
  BY DEF IInv
<1> QED BY <1>1, Invariance, PTL

\* Published revisions never go back and every change of the publication moves
\* the generation that publication tokens are compared with.
THEOREM PublicationsMoveForward == Spec => RevisionMonotonic /\ TokenDetectsChange
<1> DEFINE Mono == /\ published'.revision >= published.revision
                   /\ published.loaded => published'.loaded
           Seen == published' # published => generation' > generation
<1>1. IInv /\ [Next]_vars => [Mono]_vars /\ [Seen]_vars
  <2> SUFFICES ASSUME IInv, [Next]_vars PROVE Mono /\ Seen
    OBVIOUS
  <2>1. published.revision \in Nat /\ generation \in Nat
    BY DEF IInv, Typing, TypeOK, Topology
  <2>2. ASSUME NEW c \in Callers, Step(c) PROVE Mono /\ Seen
    <3>1. Shape(c)
      BY <2>2, StepShape DEF IInv
    <3> QED BY <2>1, <3>1, PublicationStep
  <2>3. CASE Environment
    BY <2>1, <2>3, EnvironmentStep
  <2> QED BY <2>2, <2>3 DEF Next, Environment
<1> QED
  BY <1>1, Invariance, PTL DEF Spec, RevisionMonotonic, TokenDetectsChange
=============================================================================
