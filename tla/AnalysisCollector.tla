--------------------------- MODULE AnalysisCollector ---------------------------
(***************************************************************************)
(* The traffic analysis collector: session epochs, registration of flows,  *)
(* observations that are in progress while sessions come and go, the       *)
(* classification of UDP targets, the sampler, and the memory budget every *)
(* retained object is charged to.                                          *)
(*                                                                         *)
(* Every completed operation moves one byte.  A flow, a target and a piece *)
(* of scratch storage each cost one unit of the budget.  The rows a sample *)
(* is written to are the subject of AnalysisMinute; here a sample has a    *)
(* number of bytes.                                                        *)
(***************************************************************************)
EXTENDS Integers, FiniteSets, SequencesExt

CONSTANTS Flows, Udp,      \* flows, and the ones that are UDP associations
          Ops, FlowOf,     \* I/O operations and the flow each one belongs to
          Targets,         \* UDP destinations
          SniffedWeb,      \* targets a UDP flow is registered with as Web
          Limits,          \* limits the panel may configure a session with: mem
                           \* (memory_max_bytes, in units), pend (the share of it
                           \* for unclassified storage), per and tg (UDP targets
                           \* of a flow and of all flows)
          PendingCap,
          MaxEpoch, MaxBytes

VARIABLES ses,   \* epoch, open, configured, active and limits of the collector
          flow,  \* the flows: registry, FlowState and PacketState
          op,    \* tokens held by I/O operations
          bud,   \* memory, pending memory, targets and pending targets
          smp,   \* the sampler, which holds the registry lock
          sum    \* bytes recorded in this epoch, sampled, and charged wrongly

vars == <<ses, flow, op, bud, smp, sum>>

Idle == [pc |-> "idle", tok |-> 0, at |-> 0]
NoBytes == [t \in Targets |-> 0]
NoFlow == [reg |-> "none", exp |-> 0, held |-> FALSE, epoch |-> 0, closed |-> FALSE,
           inflight |-> 0, web |-> FALSE, ctr |-> 0, unk |-> 0,
           tgt |-> [t \in Targets |-> "none"], tb |-> NoBytes, old |-> {}, scratch |-> "none"]

Init ==
  /\ ses = [epoch |-> 0, open |-> FALSE, configured |-> FALSE, active |-> 0,
            lim |-> CHOOSE l \in Limits : TRUE]
  /\ flow = [f \in Flows |-> NoFlow]
  /\ op = [o \in Ops |-> Idle]
  /\ bud = [mem |-> 0, pend |-> 0, tg |-> 0, ptg |-> 0]
  /\ smp = [pc |-> "idle", todo |-> {}, f |-> CHOOSE f \in Flows : TRUE, fin |-> FALSE]
  /\ sum = [charged |-> 0, sampled |-> 0, foreign |-> FALSE]

-----------------------------------------------------------------------------
(* The budget: reserve, reserve_pending, reserve_target,                    *)
(* reserve_pending_target, and the releases of the RAII guards.             *)

CanReserve(n) == bud.mem + n <= ses.lim.mem
CanReservePending(n) == CanReserve(n) /\ bud.pend + n <= ses.lim.pend
CanReserveTarget == CanReserve(1) /\ bud.tg < ses.lim.tg
CanReservePendingTarget(b) == b.mem < ses.lim.mem /\ b.pend < ses.lim.pend /\ b.ptg < ses.lim.tg

Release(b, n) == [b EXCEPT !.mem = @ - n]
ReleasePending(b, n) == [b EXCEPT !.mem = @ - n, !.pend = @ - n]
AddTarget(b) == [b EXCEPT !.mem = @ + 1, !.tg = @ + 1]
DropTargets(b, n) == [Release(b, n) EXCEPT !.tg = @ - n]
AddPendingTarget(b) == [b EXCEPT !.mem = @ + 1, !.pend = @ + 1, !.ptg = @ + 1]
DropPendingTargets(b, n) == [ReleasePending(b, n) EXCEPT !.ptg = @ - n]

Having(fl, st) == {t \in Targets : fl.tgt[t] = st}
Count(fl, st) == Cardinality(Having(fl, st))

(* PacketState with every pending target forgotten.                         *)
WithoutPending(fl) ==
  [fl EXCEPT !.tgt = [t \in Targets |-> IF @[t] = "pend" THEN "none" ELSE @[t]],
             !.tb = [t \in Targets |-> IF fl.tgt[t] = "pend" THEN 0 ELSE @[t]], !.old = {}]

(* Collector::retire, dropping the targets it hands back.                   *)
Retired(fl) ==
  [fl EXCEPT !.epoch = 0, !.ctr = 0, !.unk = 0, !.tgt = [t \in Targets |-> "none"],
             !.tb = NoBytes, !.old = {}]

(* What a set of retired flows gives back to the budget; a flow that nobody *)
(* else holds is dropped with it.                                           *)
FlowRefund(b, fl) ==
  IF fl.held THEN b
  ELSE IF ~fl.web THEN ReleasePending(b, 1) ELSE Release(b, 1)

RetireRefund(b, fl) ==
  DropPendingTargets(DropTargets(b, Count(fl, "web")), Count(fl, "pend"))

-----------------------------------------------------------------------------
(* Sessions: begin_session, pause and configure.                            *)

Unlocked == smp.pc = "idle"

BeginSession ==
  /\ Unlocked /\ ses.epoch < MaxEpoch
  /\ ses' = [ses EXCEPT !.epoch = @ + 1, !.open = TRUE, !.configured = FALSE, !.active = 0]
  /\ sum' = [sum EXCEPT !.charged = 0, !.sampled = 0]
  /\ UNCHANGED <<flow, op, bud, smp>>

(* The guard of the current generation is dropped; an older one is ignored. *)
Paused(fl) ==
  LET g == IF fl.reg = "handed" THEN [fl EXCEPT !.reg = "listed"] ELSE fl
  IN IF g.reg = "listed" THEN WithoutPending(g) ELSE g

PauseSession ==
  /\ Unlocked /\ ses.open
  /\ ses' = [ses EXCEPT !.open = FALSE, !.active = 0]
  /\ flow' = [f \in Flows |-> Paused(flow[f])]
  /\ bud' = DropPendingTargets(bud, MapThenSumSet(
       LAMBDA f : Count(flow[f], "pend"), {f \in Flows : flow[f].reg \in {"handed", "listed"}}))
  /\ sum' = [sum EXCEPT !.charged = 0, !.sampled = 0]
  /\ UNCHANGED <<op, smp>>

Removed(fl) == [Retired(fl) EXCEPT !.reg = "off"]


Fits(w, l) == w.kept < l.per /\ w.b.tg <= l.tg

KeepTarget(w, t, l) ==
  IF Fits(w, l) THEN [w EXCEPT !.kept = @ + 1]
  ELSE [w EXCEPT !.fl.tgt[t] = "none", !.b = DropTargets(@, 1)]

Migrated(fl, b, l, e, targets) ==
  LET moved == [fl EXCEPT !.reg = "listed", !.epoch = e, !.ctr = 0, !.unk = 0, !.tb = NoBytes]
  IN FoldLeft(LAMBDA w, t : KeepTarget(w, t, l), [fl |-> moved, b |-> b, kept |-> 0],
              SelectSeq(targets, LAMBDA t : fl.tgt[t] = "web"))

(* A flow of the registry under a new configuration: retired, and dropped   *)
(* when it is closed, when analysis is off or when the memory charged so    *)
(* far is over the new budget.                                              *)
MigrateFlow(w, f, enabled, l, targets) ==
  LET fl == WithoutPending(w.flow[f])
      b == DropPendingTargets(w.b, Count(w.flow[f], "pend"))
      next == Migrated(fl, b, l, ses.epoch, targets)
  IN IF ~enabled \/ fl.closed \/ b.mem > l.mem
     THEN [flow |-> [w.flow EXCEPT ![f] = Removed(fl)], b |-> FlowRefund(RetireRefund(b, fl), fl)]
     ELSE [flow |-> [w.flow EXCEPT ![f] = next.fl], b |-> next.b]

(* The registry and the targets of a flow are walked in the order of their  *)
(* hash maps.                                                               *)
ConfigureSession(enabled, l) ==
  /\ Unlocked /\ ses.open /\ ~ses.configured
  /\ ses' = [ses EXCEPT !.configured = TRUE, !.active = IF enabled THEN ses.epoch ELSE 0, !.lim = l]
  /\ \E flows \in SetToSeqs({f \in Flows : flow[f].reg \in {"handed", "listed"}}),
        targets \in SetToSeqs(Targets) :
       LET w == FoldLeft(LAMBDA v, f : MigrateFlow(v, f, enabled, l, targets),
                         [flow |-> flow, b |-> bud], flows)
       IN flow' = w.flow /\ bud' = w.b
  /\ UNCHANGED <<op, smp, sum>>

-----------------------------------------------------------------------------
(* Registration: the epoch is taken before the connection is routed.        *)

Route(f) ==
  /\ flow[f].reg = "none" /\ ses.active # 0
  /\ flow' = [flow EXCEPT ![f].reg = "routing", ![f].exp = ses.active]
  /\ UNCHANGED <<ses, op, bud, smp, sum>>

(* register_at_epoch, under the registration lock.                          *)
Enrollable(exp) == ses.active # 0 /\ ses.active = exp

RegisterFlow(f) ==
  /\ flow[f].reg = "routing"
  /\ LET tcp == f \notin Udp
         ok == /\ Enrollable(flow[f].exp)
               /\ IF tcp THEN CanReserve(1) ELSE CanReservePending(1)
     IN IF ok
        THEN /\ flow' = [flow EXCEPT ![f] = [NoFlow EXCEPT !.reg = "handed", !.held = TRUE,
                           !.epoch = ses.active, !.web = tcp, !.exp = @]]
             /\ bud' = [bud EXCEPT !.mem = @ + 1, !.pend = IF tcp THEN @ ELSE @ + 1]
             /\ sum' = [sum EXCEPT !.foreign = @ \/ flow[f].exp # ses.active]
        ELSE flow' = [flow EXCEPT ![f].reg = "off"] /\ UNCHANGED <<bud, sum>>
  /\ UNCHANGED <<ses, op, smp>>

CloseFlow(f) ==
  /\ flow[f].held /\ ~flow[f].closed
  /\ flow' = [flow EXCEPT ![f].closed = TRUE]
  /\ UNCHANGED <<ses, op, bud, smp, sum>>

(* The wrapper goes away; the flow is dropped when the registry has no      *)
(* reference left either.                                                   *)
DropWrapper(f) ==
  /\ flow[f].held /\ flow[f].closed /\ flow[f].scratch = "none"
  /\ \A o \in Ops : FlowOf[o] = f => op[o].pc = "idle"
  /\ flow' = [flow EXCEPT ![f].held = FALSE]
  /\ bud' = IF flow[f].reg = "off" THEN FlowRefund(bud, [flow[f] EXCEPT !.held = FALSE]) ELSE bud
  /\ UNCHANGED <<ses, op, smp, sum>>

-----------------------------------------------------------------------------
(* Observations: begin_token, finish_observation, cancel_token.             *)

Inflight(f, d) == [flow EXCEPT ![f].inflight = @ + d]

OpBegins(o) ==
  /\ op[o].pc = "idle" /\ flow[FlowOf[o]].held
  /\ sum.charged + Cardinality({p \in Ops : op[p].pc # "idle"}) < MaxBytes
  /\ flow' = Inflight(FlowOf[o], 1)
  /\ op' = [op EXCEPT ![o] = [Idle EXCEPT !.pc = "begin"]]
  /\ UNCHANGED <<ses, bud, smp, sum>>

(* The operation is counted before closed and epoch are looked at; a        *)
(* refused one is not an observation.                                       *)
OpChecks(o) ==
  LET f == FlowOf[o] IN
  /\ op[o].pc = "begin"
  /\ IF flow[f].closed \/ flow[f].epoch = 0 \/ flow[f].epoch # ses.active
     THEN flow' = Inflight(f, -1) /\ op' = [op EXCEPT ![o] = Idle]
     ELSE op' = [op EXCEPT ![o] = [Idle EXCEPT !.pc = "io", !.tok = flow[f].epoch]] /\ UNCHANGED flow
  /\ UNCHANGED <<ses, bud, smp, sum>>

OpCancels(o) ==
  /\ op[o].pc = "io"
  /\ flow' = Inflight(FlowOf[o], -1)
  /\ op' = [op EXCEPT ![o] = Idle]
  /\ UNCHANGED <<ses, bud, smp, sum>>

SameEpoch(f, tok) == flow[f].epoch = tok /\ ses.active = tok

OpLoads(o) ==
  /\ op[o].pc = "io" /\ SameEpoch(FlowOf[o], op[o].tok)
  /\ op' = [op EXCEPT ![o].pc = "loaded", ![o].at = flow[FlowOf[o]].epoch]
  /\ UNCHANGED <<ses, flow, bud, smp, sum>>

OpIgnored(o) ==
  /\ op[o].pc = "io" /\ ~SameEpoch(FlowOf[o], op[o].tok)
  /\ flow' = Inflight(FlowOf[o], -1)
  /\ op' = [op EXCEPT ![o] = Idle]
  /\ UNCHANGED <<ses, bud, smp, sum>>

Charge(n, tok) ==
  sum' = [sum EXCEPT !.charged = @ + n, !.foreign = @ \/ (n > 0 /\ tok # ses.active)]

(* TCP: the counters of the loaded state; they are nobody's when the flow   *)
(* has moved to another state since.                                        *)
TcpRecords(o) ==
  LET f == FlowOf[o]
      live == flow[f].epoch = op[o].at /\ ses.active = op[o].at
  IN /\ op[o].pc = "loaded" /\ f \notin Udp
     /\ flow' = IF flow[f].epoch = op[o].at
                THEN [flow EXCEPT ![f].ctr = @ + 1, ![f].inflight = @ - 1] ELSE Inflight(f, -1)
     /\ op' = [op EXCEPT ![o] = Idle]
     /\ Charge(IF live THEN 1 ELSE 0, op[o].tok)
     /\ UNCHANGED <<ses, bud, smp>>

(* record_web_packet and record_unknown_web, with mark_web_seen: an         *)
(* association first seen to carry Web traffic leaves the pending share.    *)
SeenWeb(b, fl) == IF fl.web THEN b ELSE [b EXCEPT !.pend = @ - 1]
WebBytes(fl, t, n) == [fl EXCEPT !.ctr = @ + n, !.tb[t] = @ + n, !.web = TRUE]
UnknownBytes(fl, n) == [fl EXCEPT !.ctr = @ + n, !.unk = @ + n, !.web = TRUE]

(* record_packet of a target: as a known Web target, as unknown Web when    *)
(* the target limits are reached, or as a pending one.                      *)
PacketOutcome(fl, t, knownWeb) ==
  LET initial == t \in SniffedWeb
      room == Count(fl, "web") < ses.lim.per /\ CanReserveTarget
      started == initial /\ fl.tgt[t] # "web" /\ room
  IN IF fl.tgt[t] = "web" \/ started
     THEN [fl |-> WebBytes([fl EXCEPT !.tgt[t] = "web"], t, 1),
           b |-> SeenWeb(IF started THEN AddTarget(bud) ELSE bud, fl), n |-> 1]
     ELSE IF initial \/ knownWeb
     THEN [fl |-> UnknownBytes(fl, 1), b |-> SeenWeb(bud, fl), n |-> 1]
     ELSE LET gone == fl.old
              kept == [fl EXCEPT !.tgt = [u \in Targets |-> IF u \in gone THEN "none" ELSE @[u]],
                                 !.tb = [u \in Targets |-> IF u \in gone THEN 0 ELSE @[u]], !.old = {}]
              b1 == DropPendingTargets(bud, Cardinality(gone))
              add == /\ kept.tgt[t] = "none" /\ Count(kept, "pend") < ses.lim.per
                     /\ CanReservePendingTarget(b1)
          IN IF kept.tgt[t] = "none" /\ ~add THEN [fl |-> kept, b |-> b1, n |-> 0]
             ELSE [fl |-> [kept EXCEPT !.tgt[t] = "pend",
                             !.tb[t] = IF @ < PendingCap THEN @ + 1 ELSE @],
                   b |-> IF add THEN AddPendingTarget(b1) ELSE b1, n |-> 0]

UdpRecords(o, t, knownWeb) ==
  LET f == FlowOf[o]
      live == flow[f].epoch = op[o].at /\ ses.active = op[o].at
      out == PacketOutcome(flow[f], t, knownWeb)
  IN /\ op[o].pc = "loaded" /\ f \in Udp
     /\ op' = [op EXCEPT ![o] = Idle]
     /\ IF live
        THEN /\ flow' = [flow EXCEPT ![f] = [out.fl EXCEPT !.inflight = @ - 1]]
             /\ bud' = out.b /\ Charge(out.n, op[o].tok)
        ELSE flow' = Inflight(f, -1) /\ UNCHANGED <<bud, sum>>
     /\ UNCHANGED <<ses, smp>>

(* classify_target, called with the token of the observation it belongs to: *)
(* pending bytes that are still young become Web bytes of the target, or    *)
(* unknown Web bytes when the limits are reached, or nothing.               *)
PromotedBytes(fl, t) == IF fl.tgt[t] = "pend" /\ t \notin fl.old THEN fl.tb[t] ELSE 0

Taken(fl, t) == [fl EXCEPT !.tgt[t] = "none", !.tb[t] = 0, !.old = @ \ {t}]

Classify(o, t, web) ==
  LET f == FlowOf[o]
      fl == flow[f]
      n == PromotedBytes(fl, t)
      b1 == IF fl.tgt[t] = "pend" THEN DropPendingTargets(bud, 1) ELSE bud
      room == Count(fl, "web") < ses.lim.per /\ CanReserveTarget
      fl1 == Taken(fl, t)
      Seen(b) == IF n > 0 THEN SeenWeb(b, fl) ELSE b
  IN /\ op[o].pc = "io" /\ f \in Udp /\ SameEpoch(f, op[o].tok)
     /\ fl.tgt[t] # "web" /\ t \notin SniffedWeb
     /\ IF ~web THEN flow' = [flow EXCEPT ![f] = fl1] /\ bud' = b1 /\ UNCHANGED sum
        ELSE /\ IF room
                THEN /\ flow' = [flow EXCEPT ![f] =
                           [(IF n > 0 THEN WebBytes(fl1, t, n) ELSE fl1) EXCEPT !.tgt[t] = "web"]]
                     /\ bud' = AddTarget(Seen(b1))
                ELSE /\ flow' = [flow EXCEPT ![f] = IF n > 0 THEN UnknownBytes(fl1, n) ELSE fl1]
                     /\ bud' = Seen(b1)
             /\ Charge(n, op[o].tok)
     /\ UNCHANGED <<ses, op, smp>>

(* discard_target: only pending bytes of the caller's own epoch.            *)
Discard(o, t) ==
  LET f == FlowOf[o] IN
  /\ op[o].pc = "io" /\ f \in Udp /\ flow[f].epoch = op[o].tok /\ flow[f].tgt[t] = "pend"
  /\ flow' = [flow EXCEPT ![f] = Taken(@, t)]
  /\ bud' = DropPendingTargets(bud, 1)
  /\ UNCHANGED <<ses, op, smp, sum>>

(* PENDING_AGE passes for a pending target.                                 *)
PendingAges(f, t) ==
  /\ flow[f].tgt[t] = "pend" /\ t \notin flow[f].old
  /\ flow' = [flow EXCEPT ![f].old = @ \cup {t}]
  /\ UNCHANGED <<ses, op, bud, smp, sum>>

-----------------------------------------------------------------------------
(* try_reserve_flow_storage checks again after it has reserved, because a   *)
(* close or a disable may have raced it; a grant may leave the pending      *)
(* share (promote_pending_storage) and is released by its owner.            *)

Eligible(f) == ~flow[f].closed /\ flow[f].epoch # 0

ScratchReserves(f) ==
  /\ flow[f].held /\ flow[f].scratch = "none" /\ Eligible(f) /\ CanReservePending(1)
  /\ flow' = [flow EXCEPT ![f].scratch = "asked"]
  /\ bud' = [bud EXCEPT !.mem = @ + 1, !.pend = @ + 1]
  /\ UNCHANGED <<ses, op, smp, sum>>

ScratchDecided(f) ==
  /\ flow[f].scratch = "asked"
  /\ flow' = [flow EXCEPT ![f].scratch = IF Eligible(f) THEN "granted" ELSE "none"]
  /\ bud' = IF Eligible(f) THEN bud ELSE ReleasePending(bud, 1)
  /\ UNCHANGED <<ses, op, smp, sum>>

ScratchPromoted(f) ==
  /\ flow[f].scratch = "granted"
  /\ flow' = [flow EXCEPT ![f].scratch = "promoted"]
  /\ bud' = [bud EXCEPT !.pend = @ - 1]
  /\ UNCHANGED <<ses, op, smp, sum>>

ScratchReleased(f) ==
  /\ flow[f].scratch \in {"granted", "promoted"}
  /\ flow' = [flow EXCEPT ![f].scratch = "none"]
  /\ bud' = IF flow[f].scratch = "granted" THEN ReleasePending(bud, 1) ELSE Release(bud, 1)
  /\ UNCHANGED <<ses, op, smp, sum>>

-----------------------------------------------------------------------------
(* sample: adopt what was handed over, then drain flow by flow.  Without an *)
(* active epoch only closed flows are removed.                              *)

SampleStarts ==
  /\ smp.pc = "idle" /\ \E f \in Flows : flow[f].reg \in {"handed", "listed"}
  /\ flow' = [f \in Flows |-> IF flow[f].reg = "handed" THEN [flow[f] EXCEPT !.reg = "listed"] ELSE flow[f]]
  /\ smp' = [smp EXCEPT !.pc = "walk",
               !.todo = {f \in Flows : flow[f].reg \in {"handed", "listed"}}]
  /\ UNCHANGED <<ses, op, bud, sum>>

SampleLooks(f) ==
  /\ smp.pc = "walk" /\ f \in smp.todo
  /\ smp' = [pc |-> "drain", todo |-> smp.todo \ {f}, f |-> f,
             fin |-> flow[f].closed /\ flow[f].inflight = 0]
  /\ UNCHANGED <<ses, flow, op, bud, sum>>

SampleDrains ==
  LET f == smp.f
      fl == flow[f]
      gone == fl.old
  IN /\ smp.pc = "drain"
     /\ smp' = [smp EXCEPT !.pc = "retire"]
     /\ IF ses.active # 0 /\ fl.epoch = ses.active
        THEN /\ sum' = [sum EXCEPT !.sampled = @ + fl.ctr]
             /\ flow' = [flow EXCEPT ![f] = [fl EXCEPT !.ctr = 0, !.unk = 0, !.old = {},
                  !.tgt = [t \in Targets |-> IF t \in gone THEN "none" ELSE fl.tgt[t]],
                  !.tb = [t \in Targets |-> IF fl.tgt[t] = "web" \/ t \in gone THEN 0 ELSE @[t]]]]
             /\ bud' = DropPendingTargets(bud, Cardinality(gone))
        ELSE UNCHANGED <<flow, bud, sum>>
     /\ UNCHANGED <<ses, op>>

Finished == smp.fin

SampleRetires ==
  LET f == smp.f
      remove == Finished /\ (ses.active = 0 \/ flow[f].epoch = ses.active)
  IN /\ smp.pc = "retire"
     /\ smp' = [smp EXCEPT !.pc = IF smp.todo = {} THEN "idle" ELSE "walk"]
     /\ IF remove
        THEN /\ flow' = [flow EXCEPT ![f] = Removed(@)]
             /\ bud' = FlowRefund(RetireRefund(bud, flow[f]), flow[f])
        ELSE UNCHANGED <<flow, bud>>
     /\ UNCHANGED <<ses, op, sum>>

Next ==
  \/ BeginSession \/ PauseSession
  \/ \E b \in BOOLEAN, l \in Limits : ConfigureSession(b, l)
  \/ \E f \in Flows : \/ Route(f) \/ RegisterFlow(f) \/ CloseFlow(f) \/ DropWrapper(f)
                      \/ ScratchReserves(f) \/ ScratchDecided(f) \/ ScratchPromoted(f)
                      \/ ScratchReleased(f) \/ SampleLooks(f)
                      \/ \E t \in Targets : PendingAges(f, t)
  \/ \E o \in Ops : \/ OpBegins(o) \/ OpChecks(o) \/ OpCancels(o) \/ OpLoads(o)
                    \/ OpIgnored(o) \/ TcpRecords(o)
                    \/ \E t \in Targets : \/ \E b \in BOOLEAN : UdpRecords(o, t, b) \/ Classify(o, t, b)
                                          \/ Discard(o, t)
  \/ SampleStarts \/ SampleDrains \/ SampleRetires

-----------------------------------------------------------------------------
(* The limits of the session hold at every step, whatever was retained when *)
(* the panel lowered them: the target limits are never exceeded, memory is  *)
(* over the budget only by what the wrappers of forgotten flows still hold, *)
(* the pending share only by flows and scratch storage carried over, and a  *)
(* pending target never counts more than its cap.                           *)
WithinLimits ==
  /\ bud.mem > ses.lim.mem => \A f \in Flows : flow[f].reg \notin {"handed", "listed"}
  /\ bud.pend > ses.lim.pend => bud.ptg = 0
  /\ bud.tg \in 0..ses.lim.tg /\ bud.ptg \in 0..ses.lim.tg /\ 0 <= bud.pend /\ bud.pend <= bud.mem
  /\ \A f \in Flows : Count(flow[f], "web") <= ses.lim.per /\ Count(flow[f], "pend") <= ses.lim.per
  /\ \A f \in Flows :
       /\ flow[f].inflight \in 0..Cardinality(Ops)
       /\ \A t \in Targets : flow[f].tgt[t] = "pend" => flow[f].tb[t] <= PendingCap

(* Epoch fences of register_at_epoch, begin_token and finish_observation:   *)
(* no operation or connection that began in one session is ever counted in  *)
(* another one.                                                             *)
EpochsAreSeparate == ~sum.foreign

(* sample against begin_token, finish_observation and close: while an epoch *)
(* is active every byte recorded in it is in a live counter or was sampled; *)
(* a flow is never retired with bytes it still holds or will still get.     *)
NothingRetiredEarly ==
  ses.active # 0 =>
    sum.charged = sum.sampled +
      MapThenSumSet(LAMBDA f : flow[f].ctr, {f \in Flows : flow[f].epoch = ses.active})

(* RAII reservations over registration, migration, retirement, promotion    *)
(* and racing closes: the budget is exactly what is still retained, in the  *)
(* pending share exactly what is still unclassified.                        *)
BudgetIsExact ==
  LET Exists(fl) == fl.held \/ fl.reg \in {"handed", "listed"}
      N(P(_)) == MapThenSumSet(LAMBDA f : P(flow[f]), Flows)
      B(b) == IF b THEN 1 ELSE 0
  IN /\ bud.mem = N(LAMBDA fl : B(Exists(fl)) + Count(fl, "web") + Count(fl, "pend") + B(fl.scratch # "none"))
     /\ bud.pend = N(LAMBDA fl : B(Exists(fl) /\ ~fl.web) + Count(fl, "pend")
                                 + B(fl.scratch \in {"asked", "granted"}))
     /\ bud.tg = N(LAMBDA fl : Count(fl, "web")) /\ bud.ptg = N(LAMBDA fl : Count(fl, "pend"))

(* record_packet, classify_target and sample: the bytes of a UDP flow are   *)
(* exactly the bytes of its Web targets and of unknown Web traffic; pending *)
(* bytes are in neither until they are promoted.                            *)
UdpBytesAgree ==
  \A f \in Udp : flow[f].ctr = flow[f].unk +
    MapThenSumSet(LAMBDA t : flow[f].tb[t], Having(flow[f], "web"))


=============================================================================
