--------------------------- MODULE RuntimeAdapter ---------------------------
(***************************************************************************)
(* The transaction over the two resources of the data plane: the           *)
(* port-hopping redirections of the kernel and the proxy runtime           *)
(* (NodeRuntimeTopologyAdapter in                                          *)
(* crates/node-agent/src/topology/manager.rs).                             *)
(*                                                                         *)
(* A transaction installs the candidate's ports first and its runtime      *)
(* configuration second; whatever fails later, the earlier part has to be  *)
(* undone, with steps that can fail as well.  The caller (TopologyManager) *)
(* serialises transactions; shutdown, the rule-set watcher, a dying accept *)
(* loop and an administrator flushing the kernel tables do not wait.       *)
(*                                                                         *)
(* A topology stands for its compiled configuration and for the port plan  *)
(* build_plan derives from it.                                             *)
(***************************************************************************)
EXTENDS Naturals

CONSTANTS
    Topologies,   \* topologies the manager may hand over
    Bare,         \* those among them without a listener
    None,         \* no topology: the empty plan, the empty configuration
    MaxFaults     \* bound on failing steps and environment damage

ASSUME AdapterAssumption ==
    Bare \subseteq Topologies /\ None \notin Topologies /\ MaxFaults \in Nat

VARIABLES
    ports,      \* the redirections installed in the kernel
    doubt,      \* since they were last reconciled: "none", an attempt "failed",
                \* or somebody else "flushed" them
    engine,     \* the runtime (see Engines)
    active,     \* AdapterState.active_topology
    plan,       \* AdapterState.active_plan
    pending,    \* AdapterState.pending_reload
    closing,    \* AdapterInner.closing, and the runtime's closing token
    pc,         \* the step of the running transaction
    op,         \* its local state (see Transaction)
    result,     \* what the last transaction returned
    faults      \* failures so far

caller == <<active, plan, pending>>
vars == <<ports, doubt, engine, active, plan, pending, closing, pc, op, result, faults>>

State == Topologies \cup {None}

\* cfg    the committed configuration, or the one kept for recovery
\* whole  AppliedState.current is known; otherwise listeners of any generation run
\* live   some listener runs although the state is not whole
\* dead   the accept loop of a committed listener has stopped
Engines == [cfg : State, whole : BOOLEAN, live : BOOLEAN, dead : BOOLEAN]

Whole(t) == [cfg |-> t, whole |-> TRUE, live |-> FALSE, dead |-> FALSE]
Serving(t) == t \notin Bare \cup {None}
\* engine.list_inbounds() is not empty
Live(e) == IF e.whole THEN Serving(e.cfg) ELSE e.live

Kinds == {"none", "ok", "unchanged", "rolledBack", "failed"}

\* mode      the adapter method
\* cand      its candidate; the previous topology is active until the commit
\* failure   how the runtime classified its error, and its liveness hint
\* errors    some step of the rollback (reconciliation, close) failed
\* restore   the runtime has to be restored
\* intact    the runtime was whole when the transaction began, and was not
\*           lost to the watcher since
Transaction ==
    [mode : {"apply", "reload", "reconcile", "close"}, cand : State, failure : Kinds,
     running : BOOLEAN, errors : BOOLEAN, restore : BOOLEAN, intact : BOOLEAN]

NoReload == [cand |-> None, configured |-> FALSE]
NoError == [kind |-> "none", running |-> TRUE]
Results == [kind : Kinds, running : BOOLEAN]

PcStates == {"idle", "prepared", "ports", "undoPorts", "engine", "restorePorts",
             "restoreEngine", "reconcilePorts", "reconcileEngine", "closePorts",
             "closeEngine", "closed"}

TypeOK ==
    /\ ports \in State /\ active \in State /\ plan \in State
    /\ doubt \in {"none", "failed", "flushed"} /\ closing \in BOOLEAN
    /\ engine \in Engines
    /\ pending \in [cand : State, configured : BOOLEAN]
    /\ pc \in PcStates
    /\ op \in Transaction
    /\ result \in Results
    /\ faults \in 0 .. MaxFaults

Fresh(mode, t) ==
    [mode |-> mode, cand |-> t, failure |-> "none", running |-> TRUE,
     errors |-> FALSE, restore |-> FALSE, intact |-> engine.whole]

Init ==
    /\ ports = None /\ doubt = "none"
    /\ engine = Whole(None)
    /\ active = None /\ plan = None /\ pending = NoReload
    /\ closing = FALSE
    /\ pc = "idle"
    /\ op = Fresh("apply", None)
    /\ result = NoError
    /\ faults = 0

-----------------------------------------------------------------------------
(* The two resources *)

Fault == faults < MaxFaults /\ faults' = faults + 1

\* The backend replaces the whole table in one batch.
PortsReconciled(t) ==
    /\ ports' = t /\ doubt' = "none"
    /\ UNCHANGED faults

\* An ordinary error leaves the table alone.
PortsRejected == Fault /\ UNCHANGED <<ports, doubt>>

\* An attempt to put t back, or in place, fails either way and is reported.
PortsFailed(t) ==
    /\ Fault
    /\ ports' \in {ports, t} /\ doubt' = "failed"

\* A rollback or a recovery that failed: the configuration is kept for later.
Lost(t) ==
    {[engine |-> [cfg |-> t, whole |-> FALSE, live |-> l, dead |-> FALSE],
      kind |-> "failed", running |-> FALSE] : l \in BOOLEAN}

\* What ShoesRuntime may answer to a configuration t.  A preflight failure (and
\* every call once close has begun) comes before recover_if_needed.
Outcomes(t, force) ==
    LET base == IF engine.whole THEN engine ELSE Whole(engine.cfg)
        same == engine.whole /\ t = engine.cfg /\ ~force
    IN  {[engine |-> engine, kind |-> "unchanged", running |-> Live(engine)]}
        \cup IF closing THEN {} ELSE
             \* recover_if_needed fails
             (IF engine.whole THEN {}
              ELSE {[x EXCEPT !.running = r] : x \in Lost(engine.cfg), r \in BOOLEAN})
             \* validation, or the first step, fails
             \cup {[engine |-> base, kind |-> "unchanged", running |-> r] :
                      r \in {Live(base), TRUE}}
             \* a later step fails and the journal is undone
             \cup {[engine |-> [base EXCEPT !.dead = @ /\ d],
                    kind |-> IF Serving(base.cfg) THEN "rolledBack" ELSE "failed",
                    running |-> TRUE] : d \in BOOLEAN}
             \* ... or it is not
             \cup Lost(base.cfg)
             \* the candidate is committed; a listener that did not change stays
             \cup {[engine |-> [Whole(t) EXCEPT !.dead = base.dead /\ ~force /\ (same \/ d)],
                    kind |-> "ok", running |-> TRUE] : d \in BOOLEAN}

Call(t, force, x) ==
    /\ x \in Outcomes(t, force)
    /\ engine' = x.engine
    /\ IF x.kind = "ok" \/ closing THEN UNCHANGED faults ELSE Fault

-----------------------------------------------------------------------------
(* Ordinary apply and forced reload *)

\* The error (or the result) of a transaction: TopologyError::runtime_state.
Return(kind, running) ==
    /\ pc' = "idle"
    /\ result' = [kind |-> kind, running |-> running]

Start(mode, t, to) ==
    /\ pc = "idle" /\ ~closing
    /\ pc' = to
    /\ op' = Fresh(mode, t)
    /\ result' = NoError
    /\ UNCHANGED <<ports, doubt, engine, active, plan, closing, faults>>

\* apply: compiles the candidate, the previous topology and their port plans.
Apply(t) == Start("apply", t, "ports") /\ UNCHANGED pending

\* prepare_reload; it refuses while a configured reload is pending.
PrepareReload(t) ==
    /\ ~pending.configured
    /\ Start("reload", t, "prepared")
    /\ pending' = [cand |-> t, configured |-> FALSE]

\* configure_reload, up to the ports.
ConfigureReload ==
    /\ pc = "prepared" /\ pending.cand = op.cand
    /\ pc' = "ports"
    /\ UNCHANGED <<ports, doubt, engine, caller, closing, op, result, faults>>

\* reconcile_ports of the desired plan.
InstallPorts ==
    /\ pc = "ports"
    /\ PortsReconciled(op.cand)
    /\ pc' = "engine"
    /\ pending' = IF op.mode = "reload" THEN [pending EXCEPT !.configured = TRUE] ELSE pending
    /\ UNCHANGED <<engine, active, plan, closing, op, result>>

DropReload == pending' = IF op.mode = "reload" THEN NoReload ELSE pending

\* port_configuration_failure, the table is known to be the previous one.
PortsFail ==
    /\ pc = "ports"
    /\ PortsRejected
    /\ DropReload
    /\ Return("failed", TRUE)
    /\ UNCHANGED <<engine, active, plan, closing, op>>

\* StateUncertainError: the batch was submitted and could not be verified.
PortsUnsure ==
    /\ pc = "ports"
    /\ PortsFailed(op.cand)
    /\ DropReload
    /\ pc' = "undoPorts"
    /\ UNCHANGED <<engine, active, plan, closing, op, result>>

\* port_configuration_failure, after an uncertain error.
UndoPorts ==
    /\ pc = "undoPorts"
    /\ \/ /\ PortsReconciled(active)
          /\ Return(IF active = None THEN "failed" ELSE "rolledBack", TRUE)
       \/ /\ PortsFailed(active)
          /\ Return("failed", TRUE)
    /\ UNCHANGED <<engine, caller, closing, op>>

\* apply_config or reload_config of the candidate; reload_prepared takes the
\* pending reload whatever happens.
RunEngine ==
    /\ pc = "engine"
    /\ \E x \in Outcomes(op.cand, op.mode = "reload") :
          /\ Call(op.cand, op.mode = "reload", x)
          /\ IF x.kind = "ok"
             THEN /\ active' = op.cand /\ plan' = op.cand
                  /\ pending' = NoReload
                  /\ Return("ok", TRUE)
                  /\ UNCHANGED op
             ELSE /\ op' = [op EXCEPT !.failure = x.kind, !.running = x.running]
                  /\ DropReload
                  /\ pc' = "restorePorts"
                  /\ UNCHANGED <<active, plan, result>>
    /\ UNCHANGED <<ports, doubt, closing>>

\* should_restore_runtime
ShouldRestore ==
    /\ active # None
    /\ op.failure \in {"unchanged", "rolledBack"} => ~closing /\ op.mode = "apply"

\* Mutant: the ports of the candidate stay when the runtime refused it.
RestorePorts_Skip ==
    /\ pc = "restorePorts"
    /\ op' = [op EXCEPT !.restore = ShouldRestore]
    /\ pc' = "restoreEngine"
    /\ UNCHANGED <<ports, doubt, engine, caller, closing, result, faults>>

\* runtime_transaction_failure_parts: the ports are restored first, and only
\* then is it decided whether the runtime has to be.
RestorePorts ==
    /\ pc = "restorePorts"
    /\ \/ /\ PortsReconciled(active)
          /\ op' = [op EXCEPT !.restore = ShouldRestore]
       \/ /\ PortsFailed(active)
          /\ op' = [op EXCEPT !.restore = ShouldRestore, !.errors = TRUE]
    /\ pc' = "restoreEngine"
    /\ UNCHANGED <<engine, caller, closing, result>>

\* Mutant: the runtime alone decides; failing to restore the ports is forgotten.
Restored_RuntimeOnly(restored, running) ==
    active # None /\ running /\ (restored \/ op.failure \in {"rolledBack", "unchanged"})

\* runtime_restored and restored
Restored(restored, running) ==
    /\ ~op.errors /\ active # None /\ running
    /\ \/ restored
       \/ op.failure = "rolledBack"
       \/ op.mode = "apply" /\ op.failure = "unchanged"

Conclude(restored, running) ==
    Return(IF Restored(restored, running) THEN "rolledBack" ELSE "failed", running)

RestoreEngine ==
    /\ pc = "restoreEngine"
    /\ \/ /\ ~op.restore
          /\ Conclude(FALSE, op.running)
          /\ UNCHANGED <<engine, faults>>
       \/ /\ op.restore
          /\ \E x \in Outcomes(active, FALSE) :
                /\ Call(active, FALSE, x)
                /\ IF x.kind = "ok" THEN Conclude(TRUE, TRUE) ELSE Return("failed", FALSE)
    /\ UNCHANGED <<ports, doubt, caller, closing, op>>

-----------------------------------------------------------------------------
(* Reconciliation and close *)

\* reconcile_current of the published topology, which is the active one.
Reconcile ==
    /\ active # None
    /\ Start("reconcile", active, "reconcilePorts")
    /\ UNCHANGED pending

ReconcilePorts ==
    /\ pc = "reconcilePorts"
    /\ \/ PortsReconciled(op.cand) /\ UNCHANGED op
       \/ /\ PortsFailed(op.cand)
          /\ op' = [op EXCEPT !.errors = TRUE]
    /\ pc' = "reconcileEngine"
    /\ UNCHANGED <<engine, caller, closing, result>>

\* runtime_health_snapshot reports a failure
Unhealthy == ~closing /\ (~engine.whole \/ engine.dead)

\* Mutant: the recovery is an ordinary apply.
ForceRecovery_Never == FALSE

\* The recovery is deliberately a forced reload.
ForceRecovery == TRUE

Settle(failed) ==
    IF op.errors \/ failed
    THEN Return("failed", ~closing /\ engine'.whole) /\ UNCHANGED <<active, plan>>
    ELSE Return("ok", TRUE) /\ active' = op.cand /\ plan' = op.cand

ReconcileEngine ==
    /\ pc = "reconcileEngine"
    /\ \/ /\ ~Unhealthy
          /\ UNCHANGED <<engine, faults>>
          /\ Settle(FALSE)
       \* a transaction of the watcher holds the locks: no snapshot
       \/ /\ Unhealthy /\ Fault
          /\ UNCHANGED engine
          /\ Settle(FALSE)
       \/ /\ Unhealthy
          /\ \E x \in Outcomes(op.cand, ForceRecovery) :
                /\ Call(op.cand, ForceRecovery, x)
                /\ Settle(x.kind # "ok")
    /\ UNCHANGED <<ports, doubt, pending, closing, op>>

\* begin_close: from now on no transaction starts and the runtime refuses candidates.
BeginClose ==
    /\ ~closing
    /\ closing' = TRUE
    /\ UNCHANGED <<ports, doubt, engine, caller, pc, op, result, faults>>

Close ==
    /\ pc = "idle" /\ closing
    /\ pc' = "closePorts"
    /\ op' = Fresh("close", None)
    /\ UNCHANGED <<ports, doubt, engine, caller, closing, result, faults>>

ClosePorts ==
    /\ pc = "closePorts"
    /\ \/ /\ PortsReconciled(None)
          /\ plan' = None /\ pending' = NoReload
          /\ UNCHANGED op
       \/ /\ PortsFailed(None)
          /\ op' = [op EXCEPT !.errors = TRUE]
          /\ UNCHANGED <<plan, pending>>
    /\ pc' = "closeEngine"
    /\ UNCHANGED <<engine, active, closing, result>>

\* The runtime is closed whether or not the ports were.
CloseEngine ==
    /\ pc = "closeEngine"
    /\ \/ /\ engine' = Whole(None)
          /\ result' = [kind |-> IF op.errors THEN "failed" ELSE "ok", running |-> FALSE]
          /\ UNCHANGED faults
       \/ /\ Fault
          /\ engine' = [engine EXCEPT !.whole = FALSE, !.live = TRUE, !.dead = FALSE]
          /\ result' = [kind |-> "failed", running |-> TRUE]
    /\ pc' = "closed"
    /\ UNCHANGED <<ports, doubt, caller, closing, op>>

-----------------------------------------------------------------------------
(* What happens besides *)

EngineUp == pc # "closed" /\ ~closing

\* A rule-set refresh fails and cannot be undone.
WatcherLost ==
    /\ EngineUp /\ engine.whole /\ engine.cfg # None
    /\ Fault
    /\ \E l \in BOOLEAN : engine' = [engine EXCEPT !.whole = FALSE, !.live = l, !.dead = FALSE]
    /\ op' = [op EXCEPT !.intact = FALSE]
    /\ UNCHANGED <<ports, doubt, caller, closing, pc, result>>

\* A rule-set refresh re-applies the committed configuration.
WatcherRefreshed ==
    /\ EngineUp /\ engine.cfg # None
    /\ engine' = Whole(engine.cfg)
    /\ UNCHANGED <<ports, doubt, caller, closing, pc, op, result, faults>>

\* The accept loop of a listener ends.
ListenerDied ==
    /\ EngineUp /\ engine.whole /\ Serving(engine.cfg) /\ ~engine.dead
    /\ Fault
    /\ engine' = [engine EXCEPT !.dead = TRUE]
    /\ UNCHANGED <<ports, doubt, caller, closing, pc, op, result>>

\* Somebody else flushes the kernel tables.
PortsFlushed ==
    /\ ports # None
    /\ Fault
    /\ ports' = None /\ doubt' = "flushed"
    /\ UNCHANGED <<engine, caller, closing, pc, op, result>>

Progress ==
    \/ ConfigureReload \/ InstallPorts \/ PortsFail \/ PortsUnsure \/ UndoPorts
    \/ RunEngine \/ RestorePorts \/ RestoreEngine
    \/ ReconcilePorts \/ ReconcileEngine
    \/ Close \/ ClosePorts \/ CloseEngine

\* close() was the last call; its result is kept.
Terminated == pc = "closed" /\ UNCHANGED vars

Environment == WatcherLost \/ WatcherRefreshed \/ ListenerDied \/ PortsFlushed \/ BeginClose

Next ==
    \/ \E t \in Topologies : Apply(t) \/ PrepareReload(t)
    \/ Reconcile
    \/ Progress
    \/ Environment
    \/ Terminated

Spec == Init /\ [][Next]_vars

\* A transaction runs in a task of its own until it returns.  The reconciliation
\* timer fires again and again, and queues for the same first-in first-out lock
\* as the other operations.
FairSpec == Spec /\ WF_vars(Progress) /\ SF_vars(Reconcile)

-----------------------------------------------------------------------------
(* Properties *)

\* Between transactions, the runtime is committed to the active topology and the
\* kernel redirects its ports, whatever failed and was undone before; only a
\* rollback reported as incomplete, or somebody else, leaves other ports.  The
\* plan that the next rollback will restore is the active topology's
\* (debug_assert_eq!(previous_plan, state.active_plan)).
Coherent ==
    pc = "idle" => /\ engine.cfg = active /\ plan = active
                   /\ ports = active \/ doubt # "none"

\* An error that says the previous topology was restored (rolled_back) is true of
\* both resources: the ports are the previous ones (unless somebody flushed them
\* right after they were restored), and the runtime is whole unless it was
\* not when the transaction began or the watcher lost it meanwhile.
RolledBackTruthful ==
    [][pc # "idle" /\ pc' = "idle" /\ result'.kind = "rolledBack" =>
          /\ active' # None /\ engine'.cfg = active'
          /\ ports' = active' \/ doubt' = "flushed"
          /\ op.intact => engine'.whole]_vars

\* Once failures cease, the reconciliation timer repairs whatever they left:
\* indeterminate runtimes, dead accept loops, lost or half-restored ports.
Heals ==
    []<>(\/ closing \/ active = None
         \/ ports = active /\ engine.whole /\ ~engine.dead)

\* "Only the explicit transaction classifications prove that the published Box
\* survived intact or was completely restored" (runtime_transaction_failure_parts):
\* a forced reload whose error is classified as unchanged or rolled back, after which
\* the runtime is not restored, leaves a whole runtime.
ClassifiedMeansIntact ==
    [][pc = "engine" /\ pc' = "restorePorts" /\ op.mode = "reload"
          /\ op'.failure \in {"unchanged", "rolledBack"} => engine'.whole]_vars

=============================================================================
