------------------------- MODULE RuntimeAdapterProofs -------------------------
(***************************************************************************)
(* Proofs about RuntimeAdapter, for every set of topologies and any number *)
(* of failures: between transactions both resources belong to the active   *)
(* topology, and an error that says so has restored both of them.          *)
(***************************************************************************)
EXTENDS RuntimeAdapter, TLAPS

USE AdapterAssumption

-----------------------------------------------------------------------------
(* The answers of the runtime. *)

\* Whatever configuration the runtime is given, it answers with a state that is
\* committed to it (success) or to the configuration it had (every error), and an
\* error classified as unchanged or rolled back leaves a whole runtime whole.
LEMMA OutcomeShape ==
    ASSUME engine \in Engines, NEW t \in State, NEW force \in BOOLEAN,
           closing \in BOOLEAN, NEW x \in Outcomes(t, force)
    PROVE  /\ x.engine \in Engines /\ x.kind \in Kinds /\ x.running \in BOOLEAN
           /\ x.kind = "ok" => x.engine.cfg = t /\ x.engine.whole
           /\ x.kind # "ok" => x.engine.cfg = engine.cfg
           /\ x.kind \in {"unchanged", "rolledBack"} /\ engine.whole => x.engine.whole
<1> DEFINE base == IF engine.whole THEN engine ELSE Whole(engine.cfg)
           same == engine.whole /\ t = engine.cfg /\ ~force
<1>1. Whole(t) \in Engines /\ Whole(engine.cfg) \in Engines
  BY DEF Whole, Engines
<1>2. base \in Engines /\ base.cfg = engine.cfg /\ base.whole
  BY <1>1 DEF Whole, Engines
<1>3. \A e \in Engines : Live(e) \in BOOLEAN
  BY DEF Live, Serving, Engines
<1>4. ASSUME NEW u \in State, NEW y \in Lost(u)
      PROVE  \E e \in Engines : /\ y = [engine |-> e, kind |-> "failed", running |-> FALSE]
                                /\ e.cfg = u
  <2>1. PICK l \in BOOLEAN :
          y = [engine |-> [cfg |-> u, whole |-> FALSE, live |-> l, dead |-> FALSE],
               kind |-> "failed", running |-> FALSE]
    BY DEF Lost
  <2>2. [cfg |-> u, whole |-> FALSE, live |-> l, dead |-> FALSE] \in Engines
    BY DEF Engines
  <2> QED
    BY <2>1, <2>2
<1>5. engine.cfg \in State /\ engine.whole \in BOOLEAN
  BY DEF Engines
<1>a. CASE x = [engine |-> engine, kind |-> "unchanged", running |-> Live(engine)]
  BY <1>a, <1>3 DEF Kinds
<1>b. CASE /\ ~engine.whole
           /\ \E y \in Lost(engine.cfg), r \in BOOLEAN : x = [y EXCEPT !.running = r]
  <2>1. PICK y \in Lost(engine.cfg), r \in BOOLEAN : x = [y EXCEPT !.running = r]
    BY <1>b
  <2>2. PICK e \in Engines : /\ y = [engine |-> e, kind |-> "failed", running |-> FALSE]
                             /\ e.cfg = engine.cfg
    BY <1>4, <1>5
  <2>3. x.engine = e /\ x.kind = "failed" /\ x.running = r
    BY <2>1, <2>2
  <2>4. x.running \in BOOLEAN
    BY <2>3, Zenon
  <2> QED
    BY <2>2, <2>3, <2>4 DEF Kinds
<1>c. CASE \E r \in {Live(base), TRUE} :
              x = [engine |-> base, kind |-> "unchanged", running |-> r]
  <2>1. PICK r \in {Live(base), TRUE} :
              x = [engine |-> base, kind |-> "unchanged", running |-> r]
    BY <1>c
  <2>2. r \in BOOLEAN
    BY <1>2, <1>3
  <2>3. x.engine = base /\ x.kind = "unchanged" /\ x.running = r
    BY <2>1
  <2>4. x.running \in BOOLEAN
    BY <2>2, <2>3, Zenon
  <2> HIDE DEF base
  <2> QED
    BY <2>3, <2>4, <1>2 DEF Kinds
<1>d. CASE \E d \in BOOLEAN :
              x = [engine |-> [base EXCEPT !.dead = @ /\ d],
                   kind |-> IF Serving(base.cfg) THEN "rolledBack" ELSE "failed",
                   running |-> TRUE]
  <2>1. PICK d \in BOOLEAN :
              x = [engine |-> [base EXCEPT !.dead = @ /\ d],
                   kind |-> IF Serving(base.cfg) THEN "rolledBack" ELSE "failed",
                   running |-> TRUE]
    BY <1>d
  <2> DEFINE e == [base EXCEPT !.dead = @ /\ d]
  <2>2. e \in Engines /\ e.cfg = engine.cfg /\ e.whole
    BY <1>2 DEF Engines
  <2>3. x.engine = e /\ x.running = TRUE /\ x.kind \in {"rolledBack", "failed"}
    BY <2>1
  <2> HIDE DEF e
  <2> QED
    BY <2>2, <2>3 DEF Kinds
<1>e. CASE x \in Lost(base.cfg)
  <2>1. PICK e \in Engines : /\ x = [engine |-> e, kind |-> "failed", running |-> FALSE]
                             /\ e.cfg = engine.cfg
    BY <1>e, <1>4, <1>2, <1>5
  <2> QED
    BY <2>1 DEF Kinds
<1>f. CASE \E d \in BOOLEAN :
              x = [engine |-> [Whole(t) EXCEPT !.dead = base.dead /\ ~force /\ (same \/ d)],
                   kind |-> "ok", running |-> TRUE]
  <2>1. PICK d \in BOOLEAN :
              x = [engine |-> [Whole(t) EXCEPT !.dead = base.dead /\ ~force /\ (same \/ d)],
                   kind |-> "ok", running |-> TRUE]
    BY <1>f
  <2>2. base.dead \in BOOLEAN
    BY <1>2 DEF Engines
  <2>3. \A b \in BOOLEAN : /\ [Whole(t) EXCEPT !.dead = b] \in Engines
                           /\ [Whole(t) EXCEPT !.dead = b].cfg = t
                           /\ [Whole(t) EXCEPT !.dead = b].whole
    BY DEF Whole, Engines
  <2>4. (base.dead /\ ~force /\ (same \/ d)) \in BOOLEAN
    OBVIOUS
  <2> HIDE DEF base, same
  <2> QED
    BY <2>1, <2>3, <2>4 DEF Kinds
<1> QED
  BY <1>a, <1>b, <1>c, <1>d, <1>e, <1>f DEF Outcomes

-----------------------------------------------------------------------------
(* The inductive invariant. *)

\* The runtime's committed configuration is the active topology's throughout a
\* transaction, because the two change in one step; the plan lags only in close.
\* A reconciliation works on the topology that is active while it runs.
Agreement ==
    /\ pc # "closed" => engine.cfg = active
    /\ pc \notin {"closeEngine", "closed"} => plan = active
    /\ pc \in {"reconcilePorts", "reconcileEngine"} => op.cand = active

\* Where a transaction may end without touching the ports again, they are the
\* active topology's (or in doubt); before the commit they are the candidate's.
PortsKnown ==
    /\ pc \in {"idle", "prepared", "ports", "restoreEngine", "reconcilePorts", "reconcileEngine"}
          => ports = active \/ doubt # "none"
    /\ pc = "engine" => ports = op.cand \/ doubt # "none"
    /\ pc = "restoreEngine" /\ ~op.errors => ports = active \/ doubt = "flushed"

\* A runtime that was whole stays whole until it is asked for the candidate, and
\* through a refusal that is classified as unchanged or rolled back.
RuntimeWhole ==
    op.intact =>
        /\ pc \in {"prepared", "ports", "undoPorts", "engine"} => engine.whole
        /\ pc \in {"restorePorts", "restoreEngine"} /\ op.failure \in {"unchanged", "rolledBack"}
              => engine.whole

IInv == TypeOK /\ Agreement /\ PortsKnown /\ RuntimeWhole

-----------------------------------------------------------------------------
(* Types. *)

\* A fault is counted only while the bound leaves room for it.
LEMMA FaultTyped ==
    ASSUME faults \in 0 .. MaxFaults, Fault \/ UNCHANGED faults
    PROVE  faults' \in 0 .. MaxFaults
  BY DEF Fault

\* Whatever reconcile_ports answers, the forwarding and what is known of it stay well typed.
LEMMA PortsTyped ==
    ASSUME TypeOK, NEW t \in State, PortsReconciled(t) \/ PortsRejected \/ PortsFailed(t)
    PROVE  ports' \in State /\ doubt' \in {"none", "failed", "flushed"} /\ faults' \in 0 .. MaxFaults
  BY FaultTyped DEF TypeOK, PortsReconciled, PortsRejected, PortsFailed

\* The record an operation returns with is well typed.
LEMMA ReturnTyped ==
    ASSUME NEW k \in Kinds, NEW r \in BOOLEAN, Return(k, r)
    PROVE  pc' \in PcStates /\ result' \in Results
  BY DEF Return, PcStates, Results

\* So is the record it starts with.
LEMMA FreshTyped ==
    ASSUME TypeOK, NEW m \in {"apply", "reload", "reconcile", "close"}, NEW t \in State
    PROVE  Fresh(m, t) \in Transaction
<1>1. engine.whole \in BOOLEAN
  BY DEF TypeOK, Engines
<1> QED
  BY <1>1 DEF Fresh, Transaction, Kinds

\* What a failed reload leaves pending is well typed.
LEMMA PendingTyped ==
    ASSUME TypeOK, DropReload
    PROVE  pending' \in [cand : State, configured : BOOLEAN]
  BY DEF DropReload, TypeOK, NoReload, State

\* The call of the runtime, as the transactions see it.
LEMMA CallTyped ==
    ASSUME TypeOK, NEW t \in State, NEW force \in BOOLEAN,
           NEW x \in Outcomes(t, force), Call(t, force, x)
    PROVE  /\ engine' \in Engines /\ faults' \in 0 .. MaxFaults
           /\ x.kind \in Kinds /\ x.running \in BOOLEAN
           /\ x.kind = "ok" => engine'.cfg = t /\ engine'.whole
           /\ x.kind # "ok" => engine'.cfg = engine.cfg
           /\ x.kind \in {"unchanged", "rolledBack"} /\ engine.whole => engine'.whole
<1>1. engine \in Engines /\ closing \in BOOLEAN /\ faults \in 0 .. MaxFaults
  BY DEF TypeOK
<1>2. engine' = x.engine /\ (Fault \/ UNCHANGED faults)
  BY DEF Call
<1> QED
  BY <1>1, <1>2, OutcomeShape, FaultTyped

\* No step of a transaction, and nothing that happens besides, leaves the types.
LEMMA TypeStep ==
    TypeOK /\ [Next]_vars => TypeOK'
<1> SUFFICES ASSUME TypeOK, [Next]_vars PROVE TypeOK'
  OBVIOUS
<1>0. None \in State /\ Topologies \subseteq State
  BY DEF State
<1>n. NoReload \in [cand : State, configured : BOOLEAN] /\ Whole(None) \in Engines
  BY <1>0 DEF NoReload, Whole, Engines
<1>s. ASSUME NEW m \in {"apply", "reload", "reconcile"}, NEW t \in State,
             NEW to \in {"ports", "prepared", "reconcilePorts"}, Start(m, t, to),
             pending' \in [cand : State, configured : BOOLEAN]
      PROVE  TypeOK'
  <2>1. op' \in Transaction
    BY <1>s, FreshTyped DEF Start
  <2>2. result' \in Results /\ pc' \in PcStates
    BY <1>s DEF Start, NoError, Results, Kinds, PcStates
  <2> QED
    BY <1>s, <2>1, <2>2 DEF TypeOK, Start
<1>1. ASSUME NEW t \in Topologies, Apply(t) PROVE TypeOK'
  BY <1>0, <1>1, <1>s DEF Apply, TypeOK
<1>2. ASSUME NEW t \in Topologies, PrepareReload(t) PROVE TypeOK'
  BY <1>0, <1>2, <1>s DEF PrepareReload
<1>3. CASE Reconcile
  BY <1>3, <1>s DEF Reconcile, TypeOK
<1>4. CASE ConfigureReload
  BY <1>4 DEF ConfigureReload, caller, TypeOK, PcStates
<1>5. CASE InstallPorts
  <2>1. op.cand \in State
    BY DEF TypeOK, Transaction
  <2>2. ports' \in State /\ doubt' \in {"none", "failed", "flushed"} /\ faults' \in 0 .. MaxFaults
    BY <1>5, <2>1, PortsTyped DEF InstallPorts
  <2>3. pending' \in [cand : State, configured : BOOLEAN]
    BY <1>5 DEF InstallPorts, TypeOK
  <2> QED
    BY <1>5, <2>2, <2>3 DEF InstallPorts, TypeOK, PcStates
<1>6. CASE PortsFail
  <2>1. ports' \in State /\ doubt' \in {"none", "failed", "flushed"} /\ faults' \in 0 .. MaxFaults
    BY <1>6, <1>0, PortsTyped DEF PortsFail
  <2>2. pc' \in PcStates /\ result' \in Results
    BY <1>6, ReturnTyped DEF PortsFail, Kinds
  <2> QED
    BY <1>6, <2>1, <2>2, PendingTyped DEF PortsFail, TypeOK
<1>7. CASE PortsUnsure
  <2>1. op.cand \in State
    BY DEF TypeOK, Transaction
  <2>2. ports' \in State /\ doubt' \in {"none", "failed", "flushed"} /\ faults' \in 0 .. MaxFaults
    BY <1>7, <2>1, PortsTyped DEF PortsUnsure
  <2> QED
    BY <1>7, <2>2, PendingTyped DEF PortsUnsure, TypeOK, PcStates
<1>8. CASE UndoPorts
  <2>1. ports' \in State /\ doubt' \in {"none", "failed", "flushed"} /\ faults' \in 0 .. MaxFaults
    BY <1>8, PortsTyped DEF UndoPorts, TypeOK
  <2>2. pc' \in PcStates /\ result' \in Results
    BY <1>8, ReturnTyped DEF UndoPorts, Kinds
  <2> QED
    BY <1>8, <2>1, <2>2 DEF UndoPorts, caller, TypeOK
<1>9. CASE RunEngine
  <2>1. op.cand \in State /\ (op.mode = "reload") \in BOOLEAN
    BY DEF TypeOK, Transaction
  <2>2. PICK x \in Outcomes(op.cand, op.mode = "reload") :
           /\ Call(op.cand, op.mode = "reload", x)
           /\ IF x.kind = "ok"
              THEN /\ active' = op.cand /\ plan' = op.cand
                   /\ pending' = NoReload
                   /\ Return("ok", TRUE)
                   /\ UNCHANGED op
              ELSE /\ op' = [op EXCEPT !.failure = x.kind, !.running = x.running]
                   /\ DropReload
                   /\ pc' = "restorePorts"
                   /\ UNCHANGED <<active, plan, result>>
    BY <1>9 DEF RunEngine
  <2>3. /\ engine' \in Engines /\ faults' \in 0 .. MaxFaults
        /\ x.kind \in Kinds /\ x.running \in BOOLEAN
    BY <2>1, <2>2, CallTyped
  <2>4. UNCHANGED <<ports, doubt, closing>>
    BY <1>9 DEF RunEngine
  <2>5. CASE x.kind = "ok"
    <3>1. pc' \in PcStates /\ result' \in Results
      BY <2>2, <2>5, ReturnTyped DEF Kinds
    <3> QED
      BY <2>1, <2>2, <2>3, <2>4, <2>5, <3>1, <1>n DEF TypeOK
  <2>6. CASE x.kind # "ok"
    <3>1. op' \in Transaction
      BY <2>2, <2>3, <2>6 DEF TypeOK, Transaction
    <3> QED
      BY <2>2, <2>3, <2>4, <2>6, <3>1, PendingTyped DEF TypeOK, PcStates
  <2> QED
    BY <2>5, <2>6
<1>10. CASE RestorePorts
  <2>1. ports' \in State /\ doubt' \in {"none", "failed", "flushed"} /\ faults' \in 0 .. MaxFaults
    BY <1>10, PortsTyped DEF RestorePorts, TypeOK
  <2>2. ShouldRestore \in BOOLEAN
    BY DEF ShouldRestore
  <2>3. op' \in Transaction
    BY <1>10, <2>2 DEF RestorePorts, TypeOK, Transaction
  <2> QED
    BY <1>10, <2>1, <2>3 DEF RestorePorts, caller, TypeOK, PcStates
<1>11. CASE RestoreEngine
  <2>0. op.running \in BOOLEAN
    BY DEF TypeOK, Transaction
  <2>1. ASSUME NEW b \in BOOLEAN, NEW r \in BOOLEAN, Conclude(b, r)
        PROVE  pc' \in PcStates /\ result' \in Results
    BY <2>1, ReturnTyped DEF Conclude, Kinds
  <2>2. CASE ~op.restore /\ Conclude(FALSE, op.running) /\ UNCHANGED <<engine, faults>>
    BY <1>11, <2>0, <2>1, <2>2 DEF RestoreEngine, caller, TypeOK
  <2>3. CASE \E x \in Outcomes(active, FALSE) :
                /\ Call(active, FALSE, x)
                /\ IF x.kind = "ok" THEN Conclude(TRUE, TRUE) ELSE Return("failed", FALSE)
    <3>1. PICK x \in Outcomes(active, FALSE) :
                /\ Call(active, FALSE, x)
                /\ IF x.kind = "ok" THEN Conclude(TRUE, TRUE) ELSE Return("failed", FALSE)
      BY <2>3
    <3>2. engine' \in Engines /\ faults' \in 0 .. MaxFaults
      BY <3>1, CallTyped DEF TypeOK
    <3>3. pc' \in PcStates /\ result' \in Results
      BY <3>1, <2>1, ReturnTyped DEF Kinds
    <3> QED
      BY <1>11, <3>2, <3>3 DEF RestoreEngine, caller, TypeOK
  <2> QED
    BY <1>11, <2>2, <2>3 DEF RestoreEngine
<1>12. CASE ReconcilePorts
  <2>1. op.cand \in State
    BY DEF TypeOK, Transaction
  <2>2. ports' \in State /\ doubt' \in {"none", "failed", "flushed"} /\ faults' \in 0 .. MaxFaults
    BY <1>12, <2>1, PortsTyped DEF ReconcilePorts
  <2>3. op' \in Transaction
    BY <1>12 DEF ReconcilePorts, TypeOK, Transaction
  <2> QED
    BY <1>12, <2>2, <2>3 DEF ReconcilePorts, caller, TypeOK, PcStates
<1>13. CASE ReconcileEngine
  <2>1. op.cand \in State
    BY DEF TypeOK, Transaction
  <2>2. engine' \in Engines /\ faults' \in 0 .. MaxFaults
    <3>1. CASE UNCHANGED engine /\ (Fault \/ UNCHANGED faults)
      BY <3>1, FaultTyped DEF TypeOK
    <3>2. CASE \E x \in Outcomes(op.cand, ForceRecovery) : Call(op.cand, ForceRecovery, x)
      BY <3>2, <2>1, CallTyped DEF ForceRecovery
    <3> QED
      BY <1>13, <3>1, <3>2 DEF ReconcileEngine
  <2>3. PICK failed \in BOOLEAN : Settle(failed)
    BY <1>13, Zenon DEF ReconcileEngine
  <2>4. (~closing /\ engine'.whole) \in BOOLEAN
    OBVIOUS
  <2>5. pc' \in PcStates /\ result' \in Results
    BY <2>3, <2>4, ReturnTyped DEF Settle, Kinds
  <2>6. active' \in State /\ plan' \in State
    BY <2>1, <2>3 DEF Settle, TypeOK
  <2> QED
    BY <1>13, <2>2, <2>5, <2>6 DEF ReconcileEngine, TypeOK
<1>14. CASE Close
  BY <1>14, <1>0, FreshTyped DEF Close, caller, TypeOK, PcStates
<1>15. CASE ClosePorts
  <2>1. ports' \in State /\ doubt' \in {"none", "failed", "flushed"} /\ faults' \in 0 .. MaxFaults
    BY <1>15, <1>0, PortsTyped DEF ClosePorts
  <2>2. op' \in Transaction
    BY <1>15 DEF ClosePorts, TypeOK, Transaction
  <2>3. plan' \in State /\ pending' \in [cand : State, configured : BOOLEAN]
    BY <1>15, <1>0, <1>n DEF ClosePorts, TypeOK
  <2> QED
    BY <1>15, <2>1, <2>2, <2>3 DEF ClosePorts, TypeOK, PcStates
<1>16. CASE CloseEngine
  <2>1. [engine EXCEPT !.whole = FALSE, !.live = TRUE, !.dead = FALSE] \in Engines
    BY DEF TypeOK, Engines
  <2>2. faults' \in 0 .. MaxFaults
    BY <1>16, FaultTyped DEF CloseEngine, TypeOK
  <2>3. \A k \in {"failed", "ok"}, r \in BOOLEAN : [kind |-> k, running |-> r] \in Results
    BY DEF Results, Kinds
  <2>4. engine' \in Engines /\ result' \in Results
    BY <1>16, <1>n, <2>1, <2>3, Zenon DEF CloseEngine
  <2> QED
    BY <1>16, <2>2, <2>4 DEF CloseEngine, caller, TypeOK, PcStates
<1>17. CASE WatcherLost
  <2>1. engine' \in Engines
    BY <1>17 DEF WatcherLost, TypeOK, Engines
  <2>2. op' \in Transaction
    BY <1>17 DEF WatcherLost, TypeOK, Transaction
  <2>3. faults' \in 0 .. MaxFaults
    BY <1>17, FaultTyped DEF WatcherLost, TypeOK
  <2> QED
    BY <1>17, <2>1, <2>2, <2>3 DEF WatcherLost, caller, TypeOK
<1>18. CASE WatcherRefreshed
  <2>1. engine' \in Engines
    BY <1>18 DEF WatcherRefreshed, TypeOK, Engines, Whole
  <2> QED
    BY <1>18, <2>1 DEF WatcherRefreshed, caller, TypeOK
<1>19. CASE ListenerDied
  <2>1. engine' \in Engines
    BY <1>19 DEF ListenerDied, TypeOK, Engines
  <2>2. faults' \in 0 .. MaxFaults
    BY <1>19, FaultTyped DEF ListenerDied, TypeOK
  <2> QED
    BY <1>19, <2>1, <2>2 DEF ListenerDied, caller, TypeOK
<1>20. CASE PortsFlushed
  <2>1. faults' \in 0 .. MaxFaults
    BY <1>20, FaultTyped DEF PortsFlushed, TypeOK
  <2> QED
    BY <1>20, <1>0, <2>1 DEF PortsFlushed, caller, TypeOK
<1>21. CASE BeginClose
  BY <1>21 DEF BeginClose, caller, TypeOK
<1>22. CASE UNCHANGED vars
  BY <1>22 DEF vars, TypeOK
<1> QED
  BY <1>1, <1>2, <1>3, <1>4, <1>5, <1>6, <1>7, <1>8, <1>9, <1>10, <1>11, <1>12, <1>13, <1>14,
     <1>15, <1>16, <1>17, <1>18, <1>19, <1>20, <1>21, <1>22
     DEF Next, Progress, Environment, Terminated

-----------------------------------------------------------------------------
(* Induction. *)

\* An adapter that was just built runs nothing, forwards nothing and knows it.
LEMMA InitInv ==
    Init => IInv
<1> SUFFICES ASSUME Init PROVE IInv
  OBVIOUS
<1>1. None \in State
  BY DEF State
<1>2. engine \in Engines /\ engine.cfg = None /\ engine.whole
  BY <1>1 DEF Init, Whole, Engines
<1>3. op \in Transaction
  BY <1>1, <1>2 DEF Init, Fresh, Transaction, Kinds
<1>4. pending \in [cand : State, configured : BOOLEAN] /\ result \in Results
  BY <1>1 DEF Init, NoReload, NoError, Results, Kinds
<1>5. closing \in BOOLEAN
  BY Zenon DEF Init
<1>6. TypeOK
  BY <1>1, <1>2, <1>3, <1>4, <1>5 DEF Init, TypeOK, PcStates
<1>7. Agreement /\ PortsKnown /\ RuntimeWhole
  BY <1>2 DEF Init, Agreement, PortsKnown, RuntimeWhole
<1> QED
  BY <1>6, <1>7 DEF IInv

\* One step per action.  The transactions that start, and those that end, need the
\* agreement of the active topology with the runtime and the plan; the rollbacks
\* need what the runtime's classification means (CallTyped).
LEMMA NextInv ==
    IInv /\ [Next]_vars => IInv'
<1> SUFFICES ASSUME IInv, [Next]_vars PROVE IInv'
  OBVIOUS
<1>0. TypeOK /\ TypeOK'
  BY TypeStep DEF IInv
<1> SUFFICES Agreement' /\ PortsKnown' /\ RuntimeWhole'
  BY <1>0 DEF IInv
<1> USE DEF IInv, Agreement, PortsKnown, RuntimeWhole
<1>1. ASSUME NEW t \in Topologies, Apply(t) PROVE Agreement' /\ PortsKnown' /\ RuntimeWhole'
  BY <1>1 DEF Apply, Start, Fresh
<1>2. ASSUME NEW t \in Topologies, PrepareReload(t) PROVE Agreement' /\ PortsKnown' /\ RuntimeWhole'
  BY <1>2 DEF PrepareReload, Start, Fresh
<1>3. CASE Reconcile
  BY <1>3 DEF Reconcile, Start, Fresh
<1>4. CASE ConfigureReload
  BY <1>4 DEF ConfigureReload, caller
<1>5. CASE InstallPorts
  BY <1>5 DEF InstallPorts, PortsReconciled
<1>6. CASE PortsFail
  BY <1>6 DEF PortsFail, PortsRejected, Return
<1>7. CASE PortsUnsure
  BY <1>7 DEF PortsUnsure, PortsFailed
<1>8. CASE UndoPorts
  BY <1>8 DEF UndoPorts, PortsReconciled, PortsFailed, Return, caller
<1>9. CASE RunEngine
  <2>1. op.cand \in State /\ (op.mode = "reload") \in BOOLEAN /\ op.intact \in BOOLEAN
    BY <1>0 DEF TypeOK, Transaction
  <2>2. PICK x \in Outcomes(op.cand, op.mode = "reload") :
           /\ Call(op.cand, op.mode = "reload", x)
           /\ IF x.kind = "ok"
              THEN /\ active' = op.cand /\ plan' = op.cand
                   /\ pending' = NoReload
                   /\ Return("ok", TRUE)
                   /\ UNCHANGED op
              ELSE /\ op' = [op EXCEPT !.failure = x.kind, !.running = x.running]
                   /\ DropReload
                   /\ pc' = "restorePorts"
                   /\ UNCHANGED <<active, plan, result>>
    BY <1>9 DEF RunEngine
  <2>3. /\ x.kind = "ok" => engine'.cfg = op.cand /\ engine'.whole
        /\ x.kind # "ok" => engine'.cfg = engine.cfg
        /\ x.kind \in {"unchanged", "rolledBack"} /\ engine.whole => engine'.whole
    BY <1>0, <2>1, <2>2, CallTyped
  <2>4. pc = "engine" /\ UNCHANGED <<ports, doubt, closing>>
    BY <1>9 DEF RunEngine
  <2>5. CASE x.kind = "ok"
    BY <2>2, <2>3, <2>4, <2>5 DEF Return
  <2>6. CASE x.kind # "ok"
    <3>1. op'.failure = x.kind /\ op'.intact = op.intact
      BY <1>0, <2>2, <2>6 DEF TypeOK, Transaction
    <3> QED
      BY <2>2, <2>3, <2>4, <2>6, <3>1
  <2> QED
    BY <2>5, <2>6
<1>10. CASE RestorePorts
  <2>1. op'.failure = op.failure /\ op'.intact = op.intact
    BY <1>0, <1>10 DEF RestorePorts, TypeOK, Transaction
  <2>2. \/ PortsReconciled(active)
        \/ PortsFailed(active) /\ op'.errors = TRUE
    BY <1>0, <1>10 DEF RestorePorts, TypeOK, Transaction
  <2>3. pc = "restorePorts" /\ pc' = "restoreEngine" /\ UNCHANGED <<engine, active, plan>>
    BY <1>10 DEF RestorePorts, caller
  <2> QED
    BY <2>1, <2>2, <2>3 DEF PortsReconciled, PortsFailed
<1>11. CASE RestoreEngine
  <2>1. engine'.cfg = active
    <3>1. CASE UNCHANGED engine
      BY <1>11, <3>1 DEF RestoreEngine
    <3>2. CASE \E x \in Outcomes(active, FALSE) : Call(active, FALSE, x)
      BY <1>0, <1>11, <3>2, CallTyped DEF RestoreEngine, TypeOK
    <3> QED
      BY <1>11, <3>1, <3>2 DEF RestoreEngine
  <2>2. pc' = "idle"
    BY <1>11 DEF RestoreEngine, Conclude, Return
  <2> QED
    BY <1>11, <2>1, <2>2 DEF RestoreEngine, caller
<1>12. CASE ReconcilePorts
  <2>1. op'.cand = op.cand
    BY <1>0, <1>12 DEF ReconcilePorts, TypeOK, Transaction
  <2> QED
    BY <1>12, <2>1 DEF ReconcilePorts, PortsReconciled, PortsFailed, caller
<1>13. CASE ReconcileEngine
  <2>1. engine'.cfg = active
    <3>1. CASE UNCHANGED engine
      BY <1>13, <3>1 DEF ReconcileEngine
    <3>2. CASE \E x \in Outcomes(op.cand, ForceRecovery) : Call(op.cand, ForceRecovery, x)
      BY <1>0, <1>13, <3>2, CallTyped DEF ReconcileEngine, ForceRecovery, TypeOK
    <3> QED
      BY <1>13, <3>1, <3>2 DEF ReconcileEngine
  <2>2. PICK failed \in BOOLEAN : Settle(failed)
    BY <1>13, Zenon DEF ReconcileEngine
  <2>3. pc' = "idle" /\ UNCHANGED <<active, plan>>
    BY <1>13, <2>2 DEF Settle, Return, ReconcileEngine
  <2> QED
    BY <1>13, <2>1, <2>3 DEF ReconcileEngine
<1>14. CASE Close
  BY <1>14 DEF Close, caller
<1>15. CASE ClosePorts
  BY <1>15 DEF ClosePorts
<1>16. CASE CloseEngine
  BY <1>16 DEF CloseEngine, caller
<1>17. CASE WatcherLost
  <2>1. engine'.cfg = engine.cfg
    BY <1>0, <1>17 DEF WatcherLost, TypeOK, Engines
  <2>2. op'.cand = op.cand /\ op'.errors = op.errors /\ op'.intact = FALSE
    BY <1>0, <1>17 DEF WatcherLost, TypeOK, Transaction
  <2> QED
    BY <1>17, <2>1, <2>2 DEF WatcherLost, caller
<1>18. CASE WatcherRefreshed
  BY <1>18 DEF WatcherRefreshed, caller, Whole
<1>19. CASE ListenerDied
  <2>1. engine'.cfg = engine.cfg /\ engine'.whole = engine.whole
    BY <1>0, <1>19 DEF ListenerDied, TypeOK, Engines
  <2> QED
    BY <1>19, <2>1 DEF ListenerDied, caller
<1>20. CASE PortsFlushed
  BY <1>20 DEF PortsFlushed, caller
<1>21. CASE BeginClose
  BY <1>21 DEF BeginClose, caller
<1>22. CASE UNCHANGED vars
  BY <1>22 DEF vars
<1> QED
  BY <1>1, <1>2, <1>3, <1>4, <1>5, <1>6, <1>7, <1>8, <1>9, <1>10, <1>11, <1>12, <1>13, <1>14,
     <1>15, <1>16, <1>17, <1>18, <1>19, <1>20, <1>21, <1>22
     DEF Next, Progress, Environment, Terminated

\* TypeOK and the three parts of IInv hold in every state.
THEOREM Invariance == Spec => []IInv
<1>1. Init => IInv
  BY InitInv
<1>2. IInv /\ [Next]_vars => IInv'
  BY NextInv
<1> QED
  BY <1>1, <1>2, PTL DEF Spec

\* Every variable of the adapter keeps its type, whatever fails.
THEOREM TypeCorrect == Spec => []TypeOK
<1>1. IInv => TypeOK
  BY DEF IInv
<1> QED
  BY <1>1, Invariance, PTL

\* Between transactions the runtime, the plan of the next rollback and the ports
\* belong to the active topology, for any topologies and any number of failures
\* (apply, reload_prepared, reconcile_current and the rollbacks they end with).
THEOREM CoherentAlways == Spec => []Coherent
<1>1. IInv => Coherent
  BY DEF IInv, Agreement, PortsKnown, Coherent
<1> QED
  BY <1>1, Invariance, PTL

\* An error that says rolled_back is true of both resources: only UndoPorts and
\* RestoreEngine return one, and each has just restored the ports, over a runtime
\* that its classification, or its own restoration, left whole.
THEOREM RolledBackIsTruthful == Spec => RolledBackTruthful
<1> DEFINE Truthful ==
        pc # "idle" /\ pc' = "idle" /\ result'.kind = "rolledBack" =>
          /\ active' # None /\ engine'.cfg = active'
          /\ ports' = active' \/ doubt' = "flushed"
          /\ op.intact => engine'.whole
<1>1. ASSUME IInv, IInv', [Next]_vars PROVE [Truthful]_vars
  <2> SUFFICES ASSUME pc # "idle", pc' = "idle", result'.kind = "rolledBack"
               PROVE  /\ active' # None /\ engine'.cfg = active'
                      /\ ports' = active' \/ doubt' = "flushed"
                      /\ op.intact => engine'.whole
    OBVIOUS
  <2>1. engine'.cfg = active'
    BY <1>1 DEF IInv, Agreement
  <2>2. CASE UndoPorts
    <3>1. PortsReconciled(active) /\ active # None /\ UNCHANGED <<active, engine, op>>
      BY <2>2 DEF UndoPorts, Return, caller
    <3>2. op.intact => engine.whole
      BY <1>1, <2>2 DEF UndoPorts, IInv, RuntimeWhole
    <3> QED
      BY <2>1, <3>1, <3>2 DEF PortsReconciled
  <2>3. CASE RestoreEngine
    <3>1. \/ /\ Conclude(FALSE, op.running) /\ UNCHANGED engine
          \/ \E x \in Outcomes(active, FALSE) :
                /\ Call(active, FALSE, x)
                /\ IF x.kind = "ok" THEN Conclude(TRUE, TRUE) ELSE Return("failed", FALSE)
      BY <2>3 DEF RestoreEngine
    <3>2. UNCHANGED <<ports, doubt, active>> /\ pc = "restoreEngine"
      BY <2>3 DEF RestoreEngine, caller
    <3>3. ASSUME NEW b \in BOOLEAN, NEW r, Conclude(b, r)
          PROVE  active # None /\ ~op.errors /\ (~b => op.failure \in {"unchanged", "rolledBack"})
      <4>1. Restored(b, r)
        BY <3>3 DEF Conclude, Return
      <4> QED
        BY <4>1 DEF Restored
    <3>4. ~op.errors => ports = active \/ doubt = "flushed"
      BY <1>1, <3>2 DEF IInv, PortsKnown
    <3>5. CASE Conclude(FALSE, op.running) /\ UNCHANGED engine
      <4>1. active # None /\ ~op.errors /\ op.failure \in {"unchanged", "rolledBack"}
        BY <3>3, <3>5
      <4>2. op.intact => engine.whole
        BY <1>1, <3>2, <4>1 DEF IInv, RuntimeWhole
      <4> QED
        BY <2>1, <3>2, <3>4, <3>5, <4>1, <4>2
    <3>6. CASE \E x \in Outcomes(active, FALSE) :
                  /\ Call(active, FALSE, x)
                  /\ IF x.kind = "ok" THEN Conclude(TRUE, TRUE) ELSE Return("failed", FALSE)
      <4>1. PICK x \in Outcomes(active, FALSE) :
                  /\ Call(active, FALSE, x)
                  /\ IF x.kind = "ok" THEN Conclude(TRUE, TRUE) ELSE Return("failed", FALSE)
        BY <3>6
      <4>2. x.kind = "ok" /\ Conclude(TRUE, TRUE)
        <5>1. ~Return("failed", FALSE)
          BY DEF Return
        <5> QED
          BY <4>1, <5>1
      <4>3. active # None /\ ~op.errors
        BY <3>3, <4>2
      <4>4. engine'.whole
        BY <1>1, <4>1, <4>2, CallTyped DEF IInv, TypeOK
      <4> QED
        BY <2>1, <3>2, <3>4, <4>3, <4>4
    <3> QED
      BY <3>1, <3>5, <3>6
  <2>4. CASE PortsFail \/ RunEngine \/ ReconcileEngine
    BY <2>4 DEF PortsFail, RunEngine, ReconcileEngine, Settle, Return
  <2> QED
    <3>1. CASE \E t \in Topologies : Apply(t) \/ PrepareReload(t)
      BY <3>1 DEF Apply, PrepareReload, Start
    <3>2. CASE Reconcile \/ ConfigureReload \/ InstallPorts \/ PortsUnsure \/ RestorePorts
               \/ ReconcilePorts \/ Close \/ ClosePorts \/ CloseEngine
      BY <3>2 DEF Reconcile, Start, ConfigureReload, InstallPorts, PortsUnsure, RestorePorts,
                  ReconcilePorts, Close, ClosePorts, CloseEngine
    <3>3. CASE Environment \/ Terminated \/ UNCHANGED vars
      BY <3>3 DEF Environment, WatcherLost, WatcherRefreshed, ListenerDied, PortsFlushed,
                  BeginClose, Terminated, vars
    <3> QED
      BY <1>1, <2>2, <2>3, <2>4, <3>1, <3>2, <3>3 DEF Next, Progress
<1> QED
  BY <1>1, Invariance, PTL DEF Spec, RolledBackTruthful

=============================================================================
