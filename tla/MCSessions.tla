------------------------------ MODULE MCSessions ------------------------------
(* The session loop with its streams (PanelSessions), the process and its      *)
(* ordered shutdown (AgentLifecycle), the panel's maintenance requests         *)
(* (RemoteControl) and the periodic user pull (PeriodicPull).  Each of them     *)
(* models what it needs of the others itself; they share no variables here, and *)
(* in one behaviour one of them moves, the one that part names.                *)
EXTENDS Integers

CONSTANTS r1, r2, Nobody

VARIABLES
    part,
    stop, loop, att, tasks, cut, grp, ana, topo, panel, job, rejected,
    main, signals, token, sup, task, told, op, plane, flush,
    str, ctl, req, log,
    set, pullAtt, pullLoop, used

\* Two failures and a change, without traffic analysis and with it.
Sessions == INSTANCE PanelSessions
    WITH Aux <- {"traffic"}, OptOut <- TRUE, Initial <- 1, MaxDelay <- 3, MaxFaults <- 2, MaxVersion <- 2
Analysed == INSTANCE PanelSessions
    WITH Aux <- {"traffic"}, OptOut <- FALSE, Initial <- 1, MaxDelay <- 3, MaxFaults <- 2, MaxVersion <- 2
Process == INSTANCE AgentLifecycle
Remote == INSTANCE RemoteControl
    WITH Reqs <- {r1, r2}, MaxStreams <- 2, Kinds <- {"simple", "config", "sync", "reload"},
         Slots <- 1, QueueSize <- 1, Pull <- 1, Stages <- 2, Chunks <- 1
\* Two reloads and two slots.
Reloads == INSTANCE RemoteControl
    WITH Reqs <- {r1, r2}, MaxStreams <- 2, Kinds <- {"reload"},
         Slots <- 2, QueueSize <- 1, Pull <- 1, Stages <- 2, Chunks <- 1
Pull == INSTANCE PeriodicPull
    WITH MaxStreams <- 2, MaxSettings <- 3, MaxAttempts <- 3, att <- pullAtt, loop <- pullLoop

sessions == <<stop, loop, att, tasks, cut, grp, ana, topo, panel, job, rejected>>
process == <<main, signals, token, sup, task, told, op, plane, flush>>
remote == <<str, ctl, req, log>>
pull == <<set, pullAtt, pullLoop, used>>

-----------------------------------------------------------------------------
Init ==
    /\ part \in {"sessions", "analysed", "process", "remote", "reloads", "pull"}
    /\ IF part = "analysed" THEN Analysed!Init ELSE Sessions!Init
    /\ Process!Init /\ Remote!Init /\ Pull!Init

Next ==
    /\ UNCHANGED part
    /\ \/ part = "sessions" /\ Sessions!Next /\ UNCHANGED <<process, remote, pull>>
       \/ part = "analysed" /\ Analysed!Next /\ UNCHANGED <<process, remote, pull>>
       \/ part = "process" /\ Process!Next /\ UNCHANGED <<sessions, remote, pull>>
       \/ part = "remote" /\ Remote!Next /\ UNCHANGED <<sessions, process, pull>>
       \/ part = "reloads" /\ Reloads!Next /\ UNCHANGED <<sessions, process, pull>>
       \/ part = "pull" /\ Pull!Next /\ UNCHANGED <<sessions, process, remote>>

\* Session loop: everything waits for calls with a time limit, and commands
\* come to an end.  Process: every wait of the supervisor has a time limit except the
\* close, which waits for the running operation, and operations end.  Reloads: their
\* tasks are scheduled, panel reads have deadlines and transactions end; the panel
\* need not read.  Pull: loops are scheduled, timers fire, reads and transactions end.
FairSpec ==
    /\ Init /\ [][Next]_<<part, sessions, process, remote, pull>>
    /\ WF_sessions(part = "sessions" /\ Sessions!Attempt)
    /\ WF_sessions(part = "sessions" /\ Sessions!Group)
    /\ WF_sessions(part = "sessions" /\ Sessions!Loop)
    /\ WF_sessions(part = "sessions" /\ Sessions!Unattended)
    /\ WF_sessions(part = "sessions" /\ Sessions!CommandStarts)
    /\ WF_sessions(part = "sessions" /\ (Sessions!CommandApplies \/ Sessions!CommandFails))
    /\ WF_process(part = "process" /\ Process!Supervisor)
    /\ WF_process(part = "process" /\ Process!ReconcileEnds)
    /\ WF_process(part = "process" /\ Process!MainReturns)
    /\ WF_remote(part = "reloads" /\ Reloads!TaskStep(r1))
    /\ WF_remote(part = "reloads" /\ Reloads!TaskStep(r2))
    /\ WF_pull(part = "pull" /\ Pull!Step(1))
    /\ WF_pull(part = "pull" /\ Pull!Step(2))

-----------------------------------------------------------------------------
\* StreamGroup and SessionAnalysisGuard of one generation.
OneGeneration == IF part = "analysed" THEN Analysed!OneGeneration ELSE Sessions!OneGeneration

\* run_owned's order.
ShutdownInOrder == Process!ShutdownInOrder

\* remote/control.rs: one reload and one periodic pull at a time over all streams, each
\* with the state reported for it, and one final answer for every request.
OneAtATime ==
    /\ IF part = "reloads" THEN Reloads!StateFollowsLease ELSE Remote!StateFollowsLease
    /\ Remote!OneFinalAnswer /\ Pull!OneAttempt

\* run_panel_sessions converges on the panel's configuration.
SessionsRecover == part = "sessions" => Sessions!SessionsRecover

\* A stop ends the session loop and its streams, and the process as a whole.
StopCompletes == (part = "sessions" => Sessions!StopCompletes) /\ Process!ShutdownCompletes

\* A reload gives the gate back, and an enabled pull with a live stream goes on.
RemoteWorkGoesOn == (part = "reloads" => Reloads!ReloadEnds) /\ Pull!KeepsPulling
=============================================================================
