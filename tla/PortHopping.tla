---------------------------- MODULE PortHopping ----------------------------
(***************************************************************************)
(* The port-hopping manager and its nftables backend                       *)
(* (porthopping/manager.rs, backend_linux.rs) against a kernel that other  *)
(* programs change too, acknowledgements that get lost, and an agent that  *)
(* crashes and starts again.                                               *)
(*                                                                         *)
(* The backend looks at the kernel, then submits one atomic batch.  What   *)
(* it may delete is what it proved to be its own (module PortPlan): here a *)
(* table is ours with some plan, or foreign.  Plans are model values.      *)
(***************************************************************************)
EXTENDS Integers, FiniteSets

CONSTANTS
    Plans, Empty,        \* forwarding plans; Empty removes everything
    NoTable,
    MaxFaults            \* bound on errors, lost answers, crashes, foreign changes

ASSUME PortHoppingAssumption ==
    /\ Empty \notin Plans /\ MaxFaults \in Nat
    /\ NoTable \notin [ours : BOOLEAN, plan : Plans \cup {Empty}]

VARIABLES
    table,     \* family -> NoTable, or [ours, plan]
    lacking,   \* families the kernel cannot list
    nat,       \* families in which it accepts NAT rules
    ext,       \* plans that foreign rules conflict with
    backend,   \* [managed, mode] of NftBackend
    closed,    \* Manager.closed
    want,      \* the plan last asked for
    call,      \* the apply in progress
    ghost,     \* what happened during it, and where this process put a table
    faults

vars == <<table, lacking, nat, ext, backend, closed, want, call, ghost, faults>>
kernel == <<table, lacking, nat, ext>>

Family == {"inet", "ip", "ip6"}
Families(mode) == CASE mode = "inet" -> {"inet"} [] mode = "split" -> {"ip", "ip6"} [] OTHER -> {}

Idle == [pc |-> "idle", plan |-> Empty, cur |-> Empty, mode |-> "unknown", fallback |-> FALSE,
         closing |-> FALSE, moved |-> {}, error |-> "none"]
NoGhost == [held |-> FALSE, commits |-> 0, raced |-> FALSE, blind |-> FALSE, result |-> "none",
            mine |-> {}]

Init ==
    /\ table = [f \in Family |-> NoTable]
    /\ lacking \in {{}, {"inet"}} /\ nat \in {Family, {"ip", "ip6"}} /\ (lacking # {} => nat # Family)
    /\ ext = {}
    /\ backend = [managed |-> FALSE, mode |-> "unknown"]
    /\ closed = FALSE /\ want = Empty /\ call = Idle /\ ghost = NoGhost /\ faults = 0

-----------------------------------------------------------------------------
(* inspect_snapshot *)

Listed(t) == {f \in Family \ lacking : t[f] # NoTable}
Tables == Listed(table)
\* A same-name table that is not provably ours: every look at it fails.
Ambiguous == \E f \in Tables : ~table[f].ours

Consistent == \A f, g \in Tables : table[f].plan = table[g].plan
Inspected ==
    LET mode == IF Tables = {"inet"} THEN "inet"
                ELSE IF Tables # {} /\ Tables \subseteq {"ip", "ip6"} THEN "split" ELSE "unknown"
        complete == Consistent /\ (Tables = {"inet"} \/ Tables = {"ip", "ip6"})
    IN  [tables |-> Tables, mode |-> mode, complete |-> complete,
         plan |-> IF Tables # {} /\ Consistent THEN table[CHOOSE f \in Tables : TRUE].plan ELSE Empty]

\* What the listable part of the kernel carries, with the tables t, is exactly p.
Carrying(t, p) ==
    IF p = Empty THEN Listed(t) = {}
    ELSE /\ Listed(t) \in {{"inet"}, {"ip", "ip6"}}
         /\ \A f \in Listed(t) : t[f] = [ours |-> TRUE, plan |-> p]
Carries(p) == Carrying(table, p)

Matches(cur, mode, plan) ==
    IF plan = Empty THEN cur.tables = {}
    ELSE cur.complete /\ cur.mode = mode /\ cur.plan = plan

SelectMode(cur) ==
    IF cur.complete THEN cur.mode
    ELSE IF backend.mode # "unknown" THEN backend.mode
    ELSE IF cur.mode # "unknown" THEN cur.mode
    ELSE IF cur.tables = {} /\ "inet" \in lacking THEN "split"
    ELSE "inet"

UnavailableFor(mode) == (IF mode = "unknown" THEN Family ELSE Families(mode)) \cap lacking # {}

-----------------------------------------------------------------------------
(* Manager::apply, reconcile and close *)

Return(result, blind) ==
    /\ call' = Idle
    /\ ghost' = [ghost EXCEPT !.result = result, !.blind = blind]
    /\ closed' = (closed \/ (call.closing /\ result = "ok"))

Start(p, closing) ==
    /\ call = Idle /\ ~closed
    /\ call' = [Idle EXCEPT !.pc = "look", !.plan = p, !.closing = closing]
    /\ want' = p /\ ghost' = [NoGhost EXCEPT !.mine = ghost.mine]
    /\ UNCHANGED <<kernel, backend, closed, faults>>

Apply(p) == Start(p, FALSE)
Close == Start(Empty, TRUE)
Reconcile == Start(want, FALSE)

\* The connection cannot be opened, or the snapshot fails.
LookFails(opened, error) ==
    /\ call.pc = "look" /\ faults < MaxFaults /\ faults' = faults + 1
    /\ IF call.plan = Empty /\ ~backend.managed /\ (error = "perm" \/ (error = "cap" /\ ~opened))
       THEN Return("ok", TRUE)
       ELSE Return(IF error = "cap" /\ ~opened THEN "unsupported" ELSE "error", FALSE)
    /\ UNCHANGED <<kernel, backend, want>>

Submit(cur, mode, fallback) ==
    /\ call' = [call EXCEPT !.pc = "execute", !.cur = cur, !.mode = mode, !.fallback = fallback,
                            !.moved = {}]
    /\ ghost' = [ghost EXCEPT !.raced = FALSE]
    /\ UNCHANGED closed

Seen(cur) ==
    [managed |-> backend.managed \/ cur.tables # {},
     mode |-> IF cur.complete THEN cur.mode ELSE backend.mode]

\* reject_external_conflicts
Conflicts(p) == p # Empty /\ p \in ext

\* Mutant: the other representation is never tried.
Fallback_Never(cur, seen, mode) == FALSE
\* can_fallback
Fallback(cur, seen, mode) == cur.tables = {} /\ seen.mode = "unknown" /\ mode = "inet"

\* The look at the kernel, and everything up to the batch.
Look ==
    /\ call.pc = "look"
    /\ IF Ambiguous THEN Return("error", FALSE) /\ UNCHANGED backend
       ELSE LET cur == Inspected
                seen == Seen(cur)
                mode == SelectMode(cur)
            IN  IF \/ call.plan = Empty /\ seen.managed /\ UnavailableFor(seen.mode)
                   \/ Conflicts(call.plan)
                THEN Return("error", FALSE) /\ backend' = seen
                ELSE IF Matches(cur, mode, call.plan)
                THEN Return("ok", FALSE) /\ backend' = seen
                ELSE Submit(cur, mode, Fallback(cur, seen, mode))
                     /\ backend' = seen
    /\ UNCHANGED <<kernel, want, faults>>

-----------------------------------------------------------------------------
(* apply_state *)

Create(p, mode) == IF p = Empty THEN {} ELSE Families(mode)

\* A delete names the handle of the inspected table.
Deletable(f) == f \notin call.moved
\* build_batch
Deleted(cur, mode) == cur.tables

\* The kernel takes the whole batch or nothing of it.
Accepted(p, mode) ==
    /\ \A f \in Deleted(call.cur, mode) : Deletable(f)
    /\ \A f \in Create(p, mode) \ Deleted(call.cur, mode) : table[f] = NoTable
    /\ Create(p, mode) \subseteq nat

Committed(p, mode) ==
    table' = [f \in Family |-> IF f \in Create(p, mode) THEN [ours |-> TRUE, plan |-> p]
                               ELSE IF f \in Deleted(call.cur, mode) THEN NoTable ELSE table[f]]

\* managed and mode after a batch that took effect
Applied == [managed |-> call.plan # Empty, mode |-> IF call.plan # Empty THEN call.mode ELSE backend.mode]
Trying == [backend EXCEPT !.managed = call.cur.tables # {} \/ call.plan # Empty]

Ask(error) ==
    /\ call' = [call EXCEPT !.pc = "verify", !.error = error]
    /\ backend' = Trying
    /\ UNCHANGED closed

\* The batch takes effect; its acknowledgement may get lost.
ExecuteCommits ==
    /\ call.pc = "execute" /\ Accepted(call.plan, call.mode)
    /\ Committed(call.plan, call.mode)
    /\ LET after == [ghost EXCEPT
                        !.held = @ \/ Carrying(table', call.plan), !.commits = @ + 1,
                        !.mine = (@ \ Deleted(call.cur, call.mode)) \cup Create(call.plan, call.mode)]
       IN  \/ /\ call' = Idle /\ backend' = Applied
              /\ ghost' = [after EXCEPT !.result = "ok"]
              /\ closed' = (closed \/ call.closing)
              /\ UNCHANGED faults
           \/ /\ faults < MaxFaults /\ faults' = faults + 1
              /\ Ask("lost") /\ ghost' = after
    /\ UNCHANGED <<lacking, nat, ext, want>>

\* It is rejected (ENOENT for a table gone counts as a missing capability), or
\* does not reach the kernel.
ExecuteFails ==
    /\ call.pc = "execute"
    /\ \/ /\ ~Accepted(call.plan, call.mode)
          /\ Ask(IF \/ ~(Create(call.plan, call.mode) \subseteq nat)
                    \/ \E f \in Deleted(call.cur, call.mode) : ~Deletable(f)
                 THEN "cap" ELSE "other")
          /\ UNCHANGED faults
       \/ faults < MaxFaults /\ faults' = faults + 1 /\ Ask("lost")
    /\ UNCHANGED <<kernel, want, ghost>>

\* Mutant: an error of the batch is an ordinary error.
Doubt_None == "error"
Doubt == "uncertain"

\* inspect_fresh after an error
Verify(fails) ==
    /\ call.pc = "verify"
    /\ fails => faults < MaxFaults
    /\ faults' = IF fails THEN faults + 1 ELSE faults
    /\ LET known == ~fails /\ ~Ambiguous
       IN  IF known /\ Matches(Inspected, call.mode, call.plan)
           THEN Return("ok", FALSE) /\ backend' = Applied
           ELSE IF call.cur.tables = {} /\ call.error = "cap" /\ known /\ Tables = {}
           THEN /\ backend' = [backend EXCEPT !.managed = FALSE]
                /\ IF call.fallback
                   THEN call' = [call EXCEPT !.pc = "retry"] /\ UNCHANGED <<ghost, closed>>
                   ELSE Return("unsupported", FALSE)
           ELSE Return(Doubt, FALSE) /\ UNCHANGED backend
    /\ UNCHANGED <<kernel, want>>

\* retry_split
Retry(fails) ==
    /\ call.pc = "retry"
    /\ fails => faults < MaxFaults
    /\ faults' = IF fails THEN faults + 1 ELSE faults
    /\ IF ~fails /\ ~Ambiguous /\ Matches(Inspected, "inet", call.plan)
       THEN Return("ok", FALSE) /\ backend' = [managed |-> TRUE, mode |-> "inet"]
       ELSE IF fails \/ Tables # {} \/ Conflicts(call.plan)
       THEN Return("error", FALSE) /\ UNCHANGED backend
       ELSE Submit(Inspected, "split", FALSE) /\ UNCHANGED backend
    /\ UNCHANGED <<kernel, want>>

-----------------------------------------------------------------------------
(* The environment *)

Touch(f) == call' = [call EXCEPT !.moved = IF call.pc = "execute" THEN @ \cup {f} ELSE @]
Fault == faults < MaxFaults /\ faults' = faults + 1

\* Another program deletes a table, puts one of its own in its place, restores
\* an old copy of ours, or changes its rules; a kernel module comes or goes.
Foreign ==
    /\ Fault
    /\ \/ \E f \in Family :
             /\ \/ table[f] # NoTable /\ table' = [table EXCEPT ![f] = NoTable]
                \/ table' = [table EXCEPT ![f] = [ours |-> FALSE, plan |-> Empty]]
                \/ f \in nat /\ \E p \in Plans : table' = [table EXCEPT ![f] = [ours |-> TRUE, plan |-> p]]
             /\ Touch(f) /\ UNCHANGED <<lacking, ext>>
       \/ \E p \in Plans :
             /\ ext' = IF p \in ext THEN ext \ {p} ELSE ext \cup {p}
             /\ UNCHANGED <<table, lacking, call>>
       \/ "inet" \notin nat /\ lacking' = {"inet"} \ lacking /\ UNCHANGED <<table, ext, call>>
    /\ ghost' = [ghost EXCEPT !.mine = {f \in @ : table'[f] = table[f]}, !.held = @ \/ Carries(call.plan)',
                              !.raced = @ \/ (call.pc = "execute" /\ (table' # table \/ lacking' # lacking))]
    /\ UNCHANGED <<nat, backend, closed, want>>

\* The agent dies, at any point, and starts again: the kernel keeps its tables.
Crash ==
    /\ Fault
    /\ backend' = [managed |-> FALSE, mode |-> "unknown"]
    /\ closed' = FALSE /\ call' = Idle /\ ghost' = NoGhost
    /\ UNCHANGED <<kernel, want>>

Steps ==
    \/ Look \/ ExecuteCommits \/ ExecuteFails
    \/ \E fails \in BOOLEAN : Verify(fails) \/ Retry(fails)
    \/ \E opened \in BOOLEAN, e \in {"perm", "cap", "other"} : LookFails(opened, e)

Next ==
    \/ \E p \in Plans \cup {Empty} : Apply(p)
    \/ Close \/ Reconcile \/ Steps \/ Foreign \/ Crash

Spec == Init /\ [][Next]_vars

\* What is left when no caller asks for other plans: the topology manager
\* reconciles again and again.
Settling == Reconcile \/ Steps \/ Foreign \/ Crash \/ (want = Empty /\ \E p \in Plans : Apply(p))

-----------------------------------------------------------------------------
(* Properties *)

Ours == {f \in Family : table[f] # NoTable /\ table[f].ours}
Batch == call.pc = "execute" /\ call'.pc # "execute"
Returned == call # Idle /\ call' = Idle /\ ghost'.result # "none"

AnswerIsTrue ==
    Returned =>
        /\ ghost'.blind => ghost.mine = {}
        /\ ghost'.result = "ok" /\ ~ghost'.blind =>
              ghost'.held \/ Carries(call.plan) \/ (call.pc = "execute" /\ ghost.raced)
        /\ ghost'.result \in {"error", "unsupported"} => ghost'.commits = 0
BatchIsSafe ==
    Batch =>
        /\ \A f \in Family : (table[f] # NoTable /\ ~table[f].ours) => table'[f] = table[f]
        /\ \/ table' = table \/ call.moved # {}
           \/ ~("inet" \in Ours' /\ {"ip", "ip6"} \cap Ours' # {})

\* What apply answers is true.  On success the kernel held exactly the plan asked for
\* at some moment of the call, unless another program changed its tables between the
\* look and the batch; an error that does not say "uncertain" left the
\* kernel as it was (the promise of the Backend trait on which the topology
\* transaction builds its rollback); and a kernel it may not look at is taken for
\* clean only while nothing that this process installed is there.  Its batches
\* never delete or replace a table not proved to be its own, though one may take its
\* place after the look, and never leave both representations, which would
\* redirect packets twice, unless another program put one there since the look.
ApplyIsTruthful == [][AnswerIsTrue /\ BatchIsSafe]_vars

\* When nothing disturbs it any more, the kernel ends up with the plan wanted, on
\* a kernel with inet NAT or without; unless what stands in the way is not ours, or
\* a clean-up cannot be verified because a family cannot be listed.
Converges ==
    <>[](\/ closed
         \/ \E f \in Family : table[f] # NoTable /\ ~table[f].ours
         \/ want \in ext \/ (want = Empty /\ lacking # {})
         \/ Carries(want))
=============================================================================
