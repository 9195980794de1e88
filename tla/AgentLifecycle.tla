---------------------------- MODULE AgentLifecycle ----------------------------
(***************************************************************************)
(* The process from start to exit: the two shutdown signals, the start-up  *)
(* steps, the supervisor that owns the four process-scoped background      *)
(* tasks, and its ordered shutdown: no more reconciliation, no more        *)
(* operations, samplers and flusher ended, data plane closed, tail traffic *)
(* delivered, and only then the panel session stopped.                     *)
(*                                                                         *)
(* The work of a task is left to other modules; here a task runs, ends by  *)
(* itself, or ends because it was told to.                                 *)
(***************************************************************************)
EXTENDS Naturals

VARIABLES main,    \* control point of main, and the exit code it returns
          signals, \* shutdown signals received so far
          token,   \* the shutdown token given to the agent
          sup,     \* run_owned: control point, trigger, result of the close
          task,    \* the background tasks
          told,    \* tasks whose own token is cancelled
          op,      \* the reconciliation's operation on the topology
          plane,   \* operations allowed, then refused, then closed
          flush    \* the final traffic flush

vars == <<main, signals, token, sup, task, told, op, plane, flush>>

Tasks == {"sampling", "flusher", "sessions", "reconciliation"}

Init ==
  /\ main = [pc |-> "load", code |-> 0]
  /\ signals = 0 /\ token = FALSE
  /\ sup = [pc |-> "off", trigger |-> "none", closed |-> "none"]
  /\ task = [t \in Tasks |-> "off"]
  /\ told = {}
  /\ op = "none" /\ plane = "open" /\ flush = "none"

(* sampling and reconciliation have child tokens of the shutdown token; the *)
(* tokens of the flusher and of the sessions are detached from it.          *)
IsTold(t) == t \in told \/ (token /\ t \in {"sampling", "reconciliation"})

-----------------------------------------------------------------------------
(* main and the signals.                                                    *)

(* real_main: loading the configuration, configuring the logger and         *)
(* bootstrapping the runtime may each fail, which exits with code 1.        *)
StartFails ==
  /\ main.pc \in {"load", "boot"}
  /\ main' = [pc |-> "exit", code |-> 1]
  /\ UNCHANGED <<signals, token, sup, task, told, op, plane, flush>>

ConfigLoads ==
  /\ main.pc = "load"
  /\ main' = [main EXCEPT !.pc = "boot"]
  /\ UNCHANGED <<signals, token, sup, task, told, op, plane, flush>>

(* Agent::run spawns the supervisor, which spawns the tasks.                *)
AgentStarts ==
  /\ main.pc = "boot"
  /\ main' = [main EXCEPT !.pc = "run"]
  /\ sup' = [sup EXCEPT !.pc = "watch"]
  /\ task' = [t \in Tasks |-> "run"]
  /\ UNCHANGED <<signals, token, told, op, plane, flush>>

(* The first signal, or a failure to listen for signals, cancels the token; *)
(* the second one ends the process.                                         *)
Signal ==
  /\ main.pc \in {"boot", "run"} /\ signals < 2
  /\ signals' = signals + 1
  /\ IF signals = 0
     THEN token' = TRUE /\ UNCHANGED main
     ELSE main' = [pc |-> "exit", code |-> 130] /\ UNCHANGED token
  /\ UNCHANGED <<sup, task, told, op, plane, flush>>

(* Whoever awaits Agent::run drops it: the drop guard cancels the token and *)
(* the spawned supervisor goes on.                                          *)
CallerDrops ==
  /\ main.pc = "run"
  /\ main' = [main EXCEPT !.pc = "gone"]
  /\ token' = TRUE
  /\ UNCHANGED <<signals, sup, task, told, op, plane, flush>>

ExitCode(trigger, closed) == IF trigger # "none" \/ closed = "failed" THEN 1 ELSE 0

MainReturns ==
  /\ main.pc = "run" /\ sup.pc = "done"
  /\ main' = [pc |-> "exit", code |-> ExitCode(sup.trigger, sup.closed)]
  /\ UNCHANGED <<signals, token, sup, task, told, op, plane, flush>>

-----------------------------------------------------------------------------
(* The background tasks.  A process that has exited does nothing.           *)

Alive == main.pc # "exit"

(* A task ends although nobody told it to.                                  *)
TaskFails(t) ==
  /\ Alive /\ task[t] = "run" /\ ~IsTold(t)
  /\ t = "reconciliation" => op = "none"
  /\ task' = [task EXCEPT ![t] = "ended"]
  /\ UNCHANGED <<main, signals, token, sup, told, op, plane, flush>>

TaskStops(t) ==
  /\ Alive /\ task[t] = "run" /\ IsTold(t)
  /\ t = "reconciliation" => op = "none"
  /\ task' = [task EXCEPT ![t] = "ended"]
  /\ UNCHANGED <<main, signals, token, sup, told, op, plane, flush>>

(* run_reconciliation: the cancellation is looked at between two ticks,     *)
(* never during an operation, whose timeout is only logged.                 *)
ReconcileStarts ==
  /\ Alive /\ task["reconciliation"] = "run" /\ op = "none" /\ ~IsTold("reconciliation")
  /\ op' = "live"
  /\ UNCHANGED <<main, signals, token, sup, task, told, plane, flush>>

ReconcileEnds ==
  /\ Alive /\ op # "none"
  /\ op' = "none"
  /\ UNCHANGED <<main, signals, token, sup, task, told, plane, flush>>

-----------------------------------------------------------------------------
(* run_owned *)

Order == <<"sampling", "flusher", "sessions", "reconciliation">>

(* The select is biased: a cancelled token wins over every ended task.      *)
Trigger ==
  IF token THEN "none"
  ELSE Order[CHOOSE i \in 1..4 : /\ task[Order[i]] = "ended"
                                 /\ \A j \in 1..(i - 1) : task[Order[j]] # "ended"]

Triggered ==
  /\ Alive /\ sup.pc = "watch"
  /\ token \/ \E t \in Tasks : task[t] = "ended"
  /\ sup' = [sup EXCEPT !.pc = "reconciliation", !.trigger = Trigger]
  /\ told' = told \cup {"reconciliation"}
  /\ UNCHANGED <<main, signals, token, task, op, plane, flush>>

(* wait_for_task: joined within the limit, or aborted and then joined.  An  *)
(* aborted reconciliation leaves its operation to the task that owns it.    *)
Joined(t) ==
  \/ task[t] = "ended" /\ UNCHANGED <<task, op>>
  \/ /\ task[t] = "run"
     /\ task' = [task EXCEPT ![t] = "ended"]
     /\ op' = IF t = "reconciliation" /\ op = "live" THEN "orphan" ELSE op

(* What follows a joined task: refuse operations, tell the next task.       *)
JoinsReconciliation ==
  /\ Alive /\ sup.pc = "reconciliation" /\ Joined("reconciliation")
  /\ sup' = [sup EXCEPT !.pc = "sampling"]
  /\ plane' = "refusing"
  /\ told' = told \cup {"sampling"}
  /\ UNCHANGED <<main, signals, token, flush>>

JoinsSampling ==
  /\ Alive /\ sup.pc = "sampling" /\ Joined("sampling")
  /\ sup' = [sup EXCEPT !.pc = "flusher"]
  /\ told' = told \cup {"flusher"}
  /\ UNCHANGED <<main, signals, token, plane, flush>>

JoinsFlusher ==
  /\ Alive /\ sup.pc = "flusher" /\ Joined("flusher")
  /\ sup' = [sup EXCEPT !.pc = "close"]
  /\ UNCHANGED <<main, signals, token, told, plane, flush>>

(* Mutant: the final flush is left out.                                     *)
AfterCloseNoFlush(trigger) == "sessions"

(* The close waits for an operation that is still running, and has no time  *)
(* limit of its own.  The final flush needs a session to answer it: it is   *)
(* skipped when the end of the sessions is what triggered the shutdown.     *)
AfterClose(trigger) == IF trigger = "sessions" THEN "sessions" ELSE "flush"

Closes(result) ==
  /\ Alive /\ sup.pc = "close" /\ op = "none"
  /\ sup' = [sup EXCEPT !.pc = AfterClose(sup.trigger), !.closed = result]
  /\ plane' = "closed"
  /\ told' = IF AfterClose(sup.trigger) = "sessions" THEN told \cup {"sessions"} ELSE told
  /\ UNCHANGED <<main, signals, token, task, op, flush>>

FlushDelivers ==
  /\ Alive /\ sup.pc = "flush" /\ flush = "none" /\ task["sessions"] = "run"
  /\ flush' = "delivered"
  /\ UNCHANGED <<main, signals, token, sup, task, told, op, plane>>

(* Mutant: the flush has no time limit.                                     *)
FlushWaits ==
  /\ Alive /\ sup.pc = "flush" /\ flush = "none" /\ task["sessions"] = "ended"
  /\ flush' = "gaveup"
  /\ UNCHANGED <<main, signals, token, sup, task, told, op, plane>>

FlushTimesOut ==
  /\ Alive /\ sup.pc = "flush" /\ flush = "none"
  /\ flush' = "gaveup"
  /\ UNCHANGED <<main, signals, token, sup, task, told, op, plane>>

FlushFinished ==
  /\ Alive /\ sup.pc = "flush" /\ flush # "none"
  /\ sup' = [sup EXCEPT !.pc = "sessions"]
  /\ told' = told \cup {"sessions"}
  /\ UNCHANGED <<main, signals, token, task, op, plane, flush>>

JoinsSessions ==
  /\ Alive /\ sup.pc = "sessions" /\ Joined("sessions")
  /\ sup' = [sup EXCEPT !.pc = "done"]
  /\ UNCHANGED <<main, signals, token, told, plane, flush>>

Supervisor ==
  \/ Triggered \/ JoinsReconciliation \/ JoinsSampling \/ JoinsFlusher
  \/ \E r \in {"ok", "failed"} : Closes(r)
  \/ FlushTimesOut \/ FlushFinished \/ JoinsSessions

Next ==
  \/ StartFails \/ ConfigLoads \/ AgentStarts \/ Signal \/ CallerDrops \/ MainReturns
  \/ \E t \in Tasks : TaskFails(t) \/ TaskStops(t)
  \/ ReconcileStarts \/ ReconcileEnds
  \/ Supervisor \/ FlushDelivers

-----------------------------------------------------------------------------
(* run_owned: the data plane is closed only when nothing can touch it any   *)
(* more: reconciliation, sampling and flusher have ended, no operation is   *)
(* left behind by an aborted reconciliation, and none can start.  The panel *)
(* session is told to stop only after that and after the tail traffic was   *)
(* offered to a session still alive; it goes unoffered only when the        *)
(* session's own end caused the shutdown.  Exit code 0 means a requested    *)
(* stop that closed the data plane without an error, every background task  *)
(* ended; a task that ended by itself is reported unless a stop had already *)
(* been requested.                                                          *)
ShutdownInOrder ==
  /\ plane = "closed" =>
       (\A t \in {"reconciliation", "sampling", "flusher"} : task[t] = "ended") /\ op = "none"
  /\ "sessions" \in told =>
       /\ plane = "closed"
       /\ flush # "none" \/ (sup.trigger = "sessions" /\ task["sessions"] = "ended")
  /\ main.pc = "exit" /\ main.code = 0 =>
       /\ token /\ plane = "closed" /\ sup.closed = "ok"
       /\ \A t \in Tasks : task[t] = "ended"

(* Agent::run: a stop, the loss of the caller or the end of any background  *)
(* task leads to a complete shutdown, or to the exit a second signal forces.*)
ShutdownCompletes ==
  (sup.pc = "watch" /\ (token \/ \E t \in Tasks : task[t] = "ended"))
    ~> (sup.pc = "done" \/ main.pc = "exit")

=============================================================================
