---------------------------- MODULE PanelSessions ----------------------------
(***************************************************************************)
(* The panel session loop: one authenticated generation after another      *)
(* (dial, Hello, control registration, configuration, initial topology,    *)
(* readiness, streams), the cancellation domain of the streams of a        *)
(* generation, their retries, the reconnect delay, and the traffic         *)
(* analysis epoch that follows the generation.                             *)
(*                                                                         *)
(* The panel keeps one configuration, identified by its version; a digest  *)
(* is the version it was computed from.  A generation number is also the   *)
(* analysis epoch of that generation.  Every failure of the panel or of    *)
(* the network spends one of MaxFaults, so a run with finitely many        *)
(* failures is what the liveness properties are about.                     *)
(***************************************************************************)
EXTENDS Naturals, FiniteSets

CONSTANTS Aux,           \* auxiliary streams that always run
          OptOut,        \* disable_traffic_analysis of the local configuration
          Initial, MaxDelay,   \* RetryPolicy, in units of the initial delay
          MaxFaults, MaxVersion

VARIABLES stop,     \* the shutdown token of the session loop
          loop,     \* run_panel_sessions: control point and reconnect delay
          att,      \* run_panel_session: the current generation
          tasks,    \* tasks spawned into stream groups and not yet joined
          cut,      \* generations whose group token is cancelled
          grp,      \* StreamGroup::wait
          ana,      \* the session fields of the analysis collector
          topo,     \* the published topology: publication count and version
          panel,    \* version on the panel, command in flight, faults left, and
                    \* the version it was told on this stream has failed
          job,      \* version the worker is applying (0: none), and for which
                    \* generation
          rejected  \* generation whose credentials an auxiliary stream lost

vars == <<stop, loop, att, tasks, cut, grp, ana, topo, panel, job, rejected>>

Critical == {"control"} \cup (IF OptOut THEN {} ELSE {"sampler"})
Cancelled(g) == stop \/ g \in cut

(* ExponentialBackoff::advance; the jitter only shortens the sleep.         *)
NextDelay(current) ==
  IF current = 0 THEN Initial
  ELSE IF 2 * current < MaxDelay THEN 2 * current ELSE MaxDelay

(* Collector::begin_session, pause and configure.                           *)
BeginSession(a) == [epoch |-> a.epoch + 1, open |-> TRUE, configured |-> FALSE, active |-> 0]

Pause(a, e) ==
  IF a.epoch # e THEN a ELSE [a EXCEPT !.open = FALSE, !.active = 0]

Configurable(a, e) == a.epoch = e /\ a.open /\ ~a.configured

Configure(a, e, on) ==
  [a EXCEPT !.configured = TRUE, !.active = IF on THEN e ELSE 0]

NoJob == [ver |-> 0, gen |-> 0]

Init ==
  /\ stop = FALSE
  /\ loop = [pc |-> "attempt", delay |-> 0]
  /\ att = [pc |-> "idle", gen |-> 0, token |-> 0, local |-> 0, digest |-> 0, got |-> 0, on |-> FALSE]
  /\ tasks = {} /\ cut = {}
  /\ grp = [pc |-> "none", err |-> FALSE]
  /\ ana = [epoch |-> 0, open |-> FALSE, configured |-> FALSE, active |-> 0]
  /\ topo = [pub |-> 0, ver |-> 0]
  /\ panel = [ver |-> 1, cmd |-> 0, faults |-> MaxFaults, told |-> 0]
  /\ job = NoJob /\ rejected = 0

Spend == panel.faults > 0 /\ panel' = [panel EXCEPT !.faults = @ - 1]

-----------------------------------------------------------------------------
(* The attempt.  Returning drops the generation's SessionAnalysisGuard.     *)

Return(r) ==
  /\ att' = [att EXCEPT !.pc = r]
  /\ ana' = Pause(ana, att.gen)

(* The analysis epoch, the publication token and the local digest are taken *)
(* before the panel is contacted.                                           *)
AttemptBegins ==
  /\ loop.pc = "attempt" /\ att.pc = "idle" /\ ~stop
  /\ att' = [att EXCEPT !.pc = "dial", !.gen = @ + 1, !.token = topo.pub, !.local = topo.ver]
  /\ ana' = BeginSession(ana)
  /\ UNCHANGED <<stop, loop, tasks, cut, grp, topo, panel, job, rejected>>

Ready == {"dial", "hello", "register", "config", "users", "apply", "reconcile", "confirm"}

(* Any of these calls may fail or run into its own timeout.                 *)
AttemptFails ==
  /\ att.pc \in Ready
  /\ Return("err") /\ Spend
  /\ UNCHANGED <<stop, loop, tasks, cut, grp, topo, job, rejected>>

Dials ==
  /\ att.pc = "dial"
  /\ att' = [att EXCEPT !.pc = "hello"]
  /\ UNCHANGED <<stop, loop, tasks, cut, grp, ana, topo, panel, job, rejected>>

Authenticates ==
  /\ att.pc = "hello"
  /\ att' = [att EXCEPT !.pc = "register"]
  /\ UNCHANGED <<stop, loop, tasks, cut, grp, ana, topo, panel, job, rejected>>

(* The panel registers the stream, announces its digest, and from then on   *)
(* sends every change as a command.                                         *)
OpensControl ==
  /\ att.pc = "register"
  /\ att' = [att EXCEPT !.pc = "config", !.digest = panel.ver]
  /\ panel' = [panel EXCEPT !.cmd = 0, !.told = 0]
  /\ UNCHANGED <<stop, loop, tasks, cut, grp, ana, topo, job, rejected>>

(* Mutant: only a node without a topology asks for it.                     *)
ResyncNever(local, digest) == local = 0

(* topology_resync_required *)
ResyncRequired(local, digest) == local # digest

FetchesConfig(on) ==
  /\ att.pc = "config" /\ ~stop
  /\ att' = [att EXCEPT !.got = panel.ver, !.on = on /\ ~OptOut,
               !.pc = IF ResyncRequired(att.local, att.digest) THEN "users" ELSE "reconcile"]
  /\ UNCHANGED <<stop, loop, tasks, cut, grp, ana, topo, panel, job, rejected>>

FetchesUsers ==
  /\ att.pc = "users" /\ ~stop
  /\ att' = [att EXCEPT !.pc = "apply"]
  /\ UNCHANGED <<stop, loop, tasks, cut, grp, ana, topo, panel, job, rejected>>

(* The two fetches are raced against the cancellation of the attempt.       *)
FetchCancelled ==
  /\ att.pc \in {"config", "users"} /\ stop
  /\ Return("ok")
  /\ UNCHANGED <<stop, loop, tasks, cut, grp, topo, panel, job, rejected>>

(* apply_authoritative_if_unchanged refuses when something was published    *)
(* since the attempt began.                                                 *)
Applies ==
  /\ att.pc = "apply" /\ topo.pub = att.token
  /\ topo' = [pub |-> topo.pub + 1, ver |-> att.got]
  /\ att' = [att EXCEPT !.pc = "confirm"]
  /\ UNCHANGED <<stop, loop, tasks, cut, grp, ana, panel, job, rejected>>

ApplyConflicts ==
  /\ att.pc = "apply" /\ topo.pub # att.token
  /\ Return("err")
  /\ UNCHANGED <<stop, loop, tasks, cut, grp, topo, panel, job, rejected>>

Reconciles ==
  /\ att.pc = "reconcile"
  /\ att' = [att EXCEPT !.pc = "confirm"]
  /\ UNCHANGED <<stop, loop, tasks, cut, grp, ana, topo, panel, job, rejected>>

(* control_ready_ack wants a digest and a revision of the node's topology.  *)
ReadyAck(t) == t.ver # 0

(* confirm_ready, then configure and, without an await in between, the      *)
(* stream group with one task for every stream.                             *)
StartsStreams ==
  /\ att.pc = "confirm" /\ ReadyAck(topo) /\ ~stop /\ Configurable(ana, att.gen)
  /\ att' = [att EXCEPT !.pc = "streams"]
  /\ ana' = Configure(ana, att.gen, att.on)
  /\ grp' = [pc |-> "wait", err |-> FALSE]
  /\ tasks' = tasks \cup
       { [s |-> s, gen |-> att.gen, st |-> "run", delay |-> 0] :
           s \in Critical \cup Aux \cup (IF att.on THEN {"analysis"} ELSE {}) }
  /\ UNCHANGED <<stop, loop, cut, topo, panel, job, rejected>>

ConfirmedTooLate ==
  /\ att.pc = "confirm" /\ (stop \/ ~Configurable(ana, att.gen))
  /\ Return("ok")
  /\ UNCHANGED <<stop, loop, tasks, cut, grp, topo, panel, job, rejected>>

-----------------------------------------------------------------------------
(* Stream tasks.  Every session-critical runner holds a guard that pauses   *)
(* the analysis of its generation when it ends, however it ends.            *)

Becomes(t, st) == tasks' = (tasks \ {t}) \cup {[t EXCEPT !.st = st]}

CriticalAnalysis(t) == IF t.s \in Critical THEN Pause(ana, t.gen) ELSE ana

(* A runner returns because its group is cancelled.                         *)
TaskStops(t) ==
  /\ t.st \in {"run", "retry"} /\ Cancelled(t.gen)
  /\ Becomes(t, "ok")
  /\ ana' = CriticalAnalysis(t)
  /\ UNCHANGED <<stop, loop, att, cut, grp, topo, panel, job, rejected>>

(* start_session_critical: any other end of the control stream fails the    *)
(* session; commands the worker has not started are lost with it.           *)
ControlEnds(t) ==
  /\ t.s = "control" /\ t.st = "run" /\ ~Cancelled(t.gen)
  /\ panel.faults > 0 /\ panel' = [panel EXCEPT !.faults = @ - 1, !.cmd = 0]
  /\ Becomes(t, "err")
  /\ ana' = CriticalAnalysis(t)
  /\ UNCHANGED <<stop, loop, att, cut, grp, topo, job, rejected>>

(* run_auxiliary_stream: a lost session is fatal, anything else retries     *)
(* after a delay of the stream's own.                                       *)
AfterAuxError(unauthenticated) == IF unauthenticated THEN "err" ELSE "retry"

AuxFails(t, unauthenticated, stable) ==
  /\ t.s \notin Critical /\ t.st = "run" /\ ~Cancelled(t.gen)
  /\ Spend
  /\ LET delay == NextDelay(IF stable THEN 0 ELSE t.delay)
     IN tasks' = (tasks \ {t}) \cup
          {[t EXCEPT !.st = AfterAuxError(unauthenticated),
                     !.delay = IF unauthenticated THEN @ ELSE delay]}
  /\ rejected' = IF unauthenticated THEN t.gen ELSE rejected
  /\ UNCHANGED <<stop, loop, att, cut, grp, ana, topo, job>>

AuxRetries(t) ==
  /\ t.st = "retry" /\ ~Cancelled(t.gen)
  /\ Becomes(t, "run")
  /\ UNCHANGED <<stop, loop, att, cut, grp, ana, topo, panel, job, rejected>>

(* The analysis runner finds its epoch inactive and returns normally.       *)
AnalysisEnds(t) ==
  /\ t.s = "analysis" /\ t.st = "run" /\ ana.active # t.gen
  /\ Becomes(t, "ok")
  /\ UNCHANGED <<stop, loop, att, cut, grp, ana, topo, panel, job, rejected>>

(* A task aborted with a dropped group ends at its next await.              *)
TaskAborted(t) ==
  /\ t.st = "dying"
  /\ tasks' = tasks \ {t}
  /\ ana' = CriticalAnalysis(t)
  /\ UNCHANGED <<stop, loop, att, cut, grp, topo, panel, job, rejected>>

-----------------------------------------------------------------------------
(* StreamGroup::wait and drain.                                             *)

Mine == {t \in tasks : t.gen = att.gen}
Exited == {t \in Mine : t.st \in {"ok", "err"}}

GroupJoins(t) ==
  /\ grp.pc = "wait" /\ t \in Exited
  /\ tasks' = tasks \ {t}
  /\ IF t.st = "err"
     THEN grp' = [pc |-> "drain", err |-> TRUE] /\ cut' = cut \cup {att.gen}
     ELSE UNCHANGED <<grp, cut>>
  /\ UNCHANGED <<stop, loop, att, ana, topo, panel, job, rejected>>

GroupCancelled ==
  /\ grp.pc = "wait" /\ Exited = {} /\ Cancelled(att.gen)
  /\ grp' = [grp EXCEPT !.pc = "drain"]
  /\ UNCHANGED <<stop, loop, att, tasks, cut, ana, topo, panel, job, rejected>>

DrainJoins(t) ==
  /\ grp.pc = "drain" /\ t \in Exited
  /\ tasks' = tasks \ {t}
  /\ grp' = [grp EXCEPT !.err = @ \/ t.st = "err"]
  /\ UNCHANGED <<stop, loop, att, cut, ana, topo, panel, job, rejected>>

(* Mutant: what is left is forgotten.                                       *)
LeftByDrainForgotten == Mine

(* The grace period of drain: what is left is aborted and joined.           *)
LeftByDrain == {}

DrainTimesOut ==
  /\ grp.pc = "drain" /\ Mine \ Exited # {}
  /\ tasks' = (tasks \ Mine) \cup LeftByDrain
  /\ ana' = IF \E t \in Mine : t.s \in Critical THEN Pause(ana, att.gen) ELSE ana
  /\ grp' = [grp EXCEPT !.pc = "drained"]
  /\ UNCHANGED <<stop, loop, att, cut, topo, panel, job, rejected>>

(* wait returns the error that ended it, or the first one drain met.        *)
GroupResult(err) == IF err THEN "err" ELSE "ok"

GroupReturns ==
  /\ \/ grp.pc \in {"wait", "drain"} /\ Mine = {}
     \/ grp.pc = "drained"
  /\ grp' = [pc |-> "none", err |-> FALSE]
  /\ cut' = cut \cup {att.gen}
  /\ Return(GroupResult(grp.err))
  /\ UNCHANGED <<stop, loop, tasks, topo, panel, job, rejected>>

-----------------------------------------------------------------------------
(* run_panel_sessions_with_policy *)

AttemptReturned(stable) ==
  /\ loop.pc = "attempt" /\ att.pc \in {"ok", "err"}
  /\ att' = [att EXCEPT !.pc = "idle"]
  /\ cut' = cut \cup {att.gen}
  /\ LET reset == att.pc = "ok" \/ stable
     IN loop' = IF stop THEN [loop EXCEPT !.pc = "done"]
                ELSE IF att.pc = "ok" THEN [loop EXCEPT !.delay = 0]
                ELSE [pc |-> "sleep", delay |-> NextDelay(IF reset THEN 0 ELSE loop.delay)]
  /\ UNCHANGED <<stop, tasks, grp, ana, topo, panel, job, rejected>>

SleepEnds ==
  /\ loop.pc = "sleep" /\ ~stop
  /\ loop' = [loop EXCEPT !.pc = "attempt"]
  /\ UNCHANGED <<stop, att, tasks, cut, grp, ana, topo, panel, job, rejected>>

(* A stop ends the sleep or the loop at once; a running attempt is awaited  *)
(* for the grace period and then dropped, with its group.                   *)
StopSeen ==
  /\ stop
  /\ \/ loop.pc = "sleep" /\ loop' = [loop EXCEPT !.pc = "done"]
     \/ loop.pc = "attempt" /\ att.pc = "idle" /\ loop' = [loop EXCEPT !.pc = "done"]
     \/ /\ loop.pc = "attempt" /\ att.pc \in Ready \cup {"streams"}
        /\ loop' = [loop EXCEPT !.pc = "closing"]
  /\ UNCHANGED <<stop, att, tasks, cut, grp, ana, topo, panel, job, rejected>>

ClosingEnds ==
  /\ loop.pc = "closing" /\ att.pc \in {"ok", "err"}
  /\ loop' = [loop EXCEPT !.pc = "done"]
  /\ UNCHANGED <<stop, att, tasks, cut, grp, ana, topo, panel, job, rejected>>

ClosingTimesOut ==
  /\ loop.pc = "closing" /\ att.pc \notin {"ok", "err"}
  /\ loop' = [loop EXCEPT !.pc = "done"]
  /\ Return("ok")
  /\ tasks' = {[t EXCEPT !.st = "dying"] : t \in tasks}
  /\ cut' = cut \cup {att.gen}
  /\ grp' = [pc |-> "none", err |-> FALSE]
  /\ UNCHANGED <<stop, topo, panel, job, rejected>>

-----------------------------------------------------------------------------
(* The rest of the world.                                                   *)

StopRequested ==
  /\ ~stop /\ stop' = TRUE
  /\ UNCHANGED <<loop, att, tasks, cut, grp, ana, topo, panel, job, rejected>>

(* The panel changes its configuration and tells a registered stream.       *)
PanelChanges ==
  /\ panel.ver < MaxVersion
  /\ panel' = [panel EXCEPT !.ver = @ + 1,
       !.cmd = IF att.pc \in (Ready \ {"dial", "hello", "register"}) \cup {"streams"}
               THEN panel.ver + 1 ELSE @]
  /\ UNCHANGED <<stop, loop, att, tasks, cut, grp, ana, topo, job, rejected>>

(* The control stream hands a command to the worker, whose transaction      *)
(* outlives the session and is fenced by the revision it carries.           *)
Receiving(g) == \E t \in Mine : t.s = "control" /\ t.gen = g /\ t.st = "run" /\ ~Cancelled(g)

CommandStarts ==
  /\ panel.cmd # 0 /\ job = NoJob /\ Receiving(att.gen)
  /\ job' = [ver |-> panel.cmd, gen |-> att.gen]
  /\ panel' = [panel EXCEPT !.cmd = 0]
  /\ UNCHANGED <<stop, loop, att, tasks, cut, grp, ana, topo, rejected>>

CommandApplies ==
  /\ job # NoJob
  /\ job' = NoJob
  /\ topo' = IF job.ver > topo.ver THEN [pub |-> topo.pub + 1, ver |-> job.ver] ELSE topo
  /\ UNCHANGED <<stop, loop, att, tasks, cut, grp, ana, panel, rejected>>

(* RolledBack or Failed: the topology stays, and so does the session, which *)
(* tells the panel.  The end of the session stops a command that has not    *)
(* begun its transaction.                                                   *)
CommandFails ==
  /\ job # NoJob
  /\ job' = NoJob
  /\ \/ /\ panel.faults > 0
        /\ panel' = [panel EXCEPT !.faults = @ - 1, !.told = IF Receiving(job.gen) THEN job.ver ELSE @]
     \/ Cancelled(job.gen) /\ UNCHANGED panel
  /\ UNCHANGED <<stop, loop, att, tasks, cut, grp, ana, topo, rejected>>

Attempt ==
  \/ AttemptBegins \/ AttemptFails \/ Dials \/ Authenticates \/ OpensControl
  \/ \E on \in BOOLEAN : FetchesConfig(on)
  \/ FetchesUsers \/ FetchCancelled \/ Applies \/ ApplyConflicts \/ Reconciles
  \/ StartsStreams \/ ConfirmedTooLate

Tasks == \E t \in tasks :
  \/ TaskStops(t) \/ ControlEnds(t) \/ AuxRetries(t) \/ AnalysisEnds(t) \/ TaskAborted(t)
  \/ \E unauthenticated, stable \in BOOLEAN : AuxFails(t, unauthenticated, stable)

Group ==
  \/ \E t \in tasks : GroupJoins(t) \/ DrainJoins(t)
  \/ GroupCancelled \/ DrainTimesOut \/ GroupReturns

Loop ==
  \/ \E stable \in BOOLEAN : AttemptReturned(stable)
  \/ SleepEnds \/ StopSeen \/ ClosingEnds \/ ClosingTimesOut

Next ==
  \/ Attempt \/ Tasks \/ Group \/ Loop
  \/ StopRequested \/ PanelChanges \/ CommandStarts \/ CommandApplies \/ CommandFails

(* What the scheduler owes the node.  The attempt, the group and the loop   *)
(* only wait for calls with a timeout of their own; an aborted task is      *)
(* dropped.  A runner is not assumed to react to its cancellation.          *)
Unattended == \E t \in tasks : AuxRetries(t) \/ TaskAborted(t)

-----------------------------------------------------------------------------
(* StreamGroup: the streams of a generation are all joined or aborted       *)
(* before its attempt returns, so a reconnect never runs beside streams of  *)
(* the session it replaces.  SessionAnalysisGuard: traffic is analysed only *)
(* for the generation that is running its streams, and no longer than its   *)
(* control stream lives.  And without a stop no attempt reports success to  *)
(* the loop, which would then dial again without any delay.                 *)
OneGeneration ==
  /\ \A t \in tasks :
       \/ t.gen = att.gen /\ att.pc = "streams"
       \/ loop.pc = "done" /\ t.st = "dying"
  /\ ana.active # 0 =>
       /\ ana.active = att.gen
       /\ \E t \in tasks : t.s = "control" /\ t.gen = att.gen /\ t.st \in {"run", "dying"}
  /\ loop.pc = "attempt" /\ att.pc = "ok" => stop

(* run_panel_sessions, StreamGroup::drop: a requested stop ends the loop    *)
(* and every stream task, also when no runner reacts to its cancellation.   *)
StopCompletes == stop ~> (loop.pc = "done" /\ tasks = {})

(* Digest comparison at registration, commands while connected and resync   *)
(* after a reconnect together: once failures end, the node has the panel's  *)
(* configuration for good, or the panel knows better: the command with it   *)
(* failed, and that was answered on a stream that has lasted since then.    *)
(* Credentials an auxiliary stream found rejected are replaced by a new     *)
(* authentication, and not merely retried.                                  *)
SessionsRecover ==
  /\ ([](~stop)) => <>[](topo.ver = panel.ver \/ panel.told = panel.ver)
  /\ (rejected # 0) ~> (att.gen > rejected \/ stop)

=============================================================================
