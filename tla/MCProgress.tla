------------------------------ MODULE MCProgress ------------------------------
(* That operations of the topology manager (TopologyManager), commands on    *)
(* their way through the lanes (ControlWorker) and their execution           *)
(* (CommandExecutor) come to an end.  The three share no variables; in one   *)
(* behaviour one of them moves, the one that part names.                     *)
EXTENDS Naturals, Sequences

CONSTANT None

VARIABLES part,
          published, generation, runtime, conns, lock, pc, op, gone, stopped, closeState,
          cancelled, delivered, reader, queue, lane, registry, holder, order, acks, acked,
          panel, cmds, inbox, act, pub, res, ended, used

manager == <<published, generation, runtime, conns, lock, pc, op, gone, stopped, closeState>>
worker == <<cancelled, delivered, reader, queue, lane, registry, holder, order, acks, acked>>
executor == <<panel, cmds, inbox, act, pub, res, ended, used>>

Manager == INSTANCE TopologyManager
    WITH cancelled <- gone, Callers <- {"lane", "remote"}, SessionCallers <- {"lane"},
         Nodes <- {"n1"}, Users <- {"u1"}, Creds <- {"c1"}, NoCred <- "none",
         Revisions <- {0, 1}, Nobody <- "nobody", Closer <- "closer", MaxPublications <- 1

\* A command that is sent twice, to a lane with one place: the reader refuses what
\* does not fit into the refresh lane, and waits for a place in the regular one.
Twice(l) == {[id |-> i, key |-> "k1", lane |-> l] : i \in 1 .. 2}

Refreshing == INSTANCE ControlWorker
    WITH LaneNames <- {"refresh"}, Sessions <- {1, 2}, Deliveries <- Twice("refresh"), Keys <- {"k1"},
         NoKey <- "", QueueCapacity <- 1, AckCapacity <- 1, Capacity <- 1

Regular == INSTANCE ControlWorker
    WITH LaneNames <- {"regular"}, Sessions <- {1, 2}, Deliveries <- Twice("regular"), Keys <- {"k1"},
         NoKey <- "", QueueCapacity <- 1, AckCapacity <- 1, Capacity <- 1

Sends(type, parts, about) == [type |-> type, parts |-> parts, users |-> about, ok |-> TRUE]
Updates ==
    {<<[Sends("delta", {"nodes"}, {}) EXCEPT !.ok = FALSE]>>,
     <<Sends("delta", {"nodes"}, {}), Sends("refresh", {}, {"a"})>>}

Executor == INSTANCE CommandExecutor
    WITH queue <- inbox, cancelled <- ended, FirstUsers <- {"a"}, MaxRev <- 3,
         MaxAttempts <- 2, MaxFaults <- 0, MaxPulls <- 1, MayCancel <- TRUE

-----------------------------------------------------------------------------
Init ==
    /\ part \in {"manager", "refreshing", "regular", "executor"}
    /\ Manager!Init /\ Executor!Init
    /\ IF part = "regular" THEN Regular!Init ELSE Refreshing!Init

Next ==
    /\ UNCHANGED part
    /\ \/ part = "manager" /\ Manager!Next /\ UNCHANGED <<worker, executor>>
       \/ part = "refreshing" /\ Refreshing!Next /\ UNCHANGED <<manager, executor>>
       \/ part = "regular" /\ Regular!Next /\ UNCHANGED <<manager, executor>>
       \/ part = "executor" /\ Executor!Next /\ UNCHANGED <<manager, worker>>

\* Fetches are bounded by the timeout of a request, runtime transactions run in
\* tasks of their own, and tokio's mutex is first-in first-out.
ManagerIsFair ==
    /\ \A c \in {"lane", "remote"} : /\ WF_manager(part = "manager" /\ Manager!Progress(c))
                                     /\ SF_manager(part = "manager" /\ Manager!Acquire(c))
    /\ SF_manager(part = "manager" /\ Manager!CloseAcquire)
    /\ WF_manager(part = "manager" /\ (Manager!CloseRuntime \/ Manager!CloseFailed))

\* Tasks run; panel requests and local transactions are bounded, so execution
\* ends; the transport takes acknowledgements while the session lives.  A lane and
\* the reader contend for a gate and for the output channel only as often as
\* commands are sent, so that weak fairness is enough.
WorkerIsFair ==
    \A s \in {1, 2} :
        /\ WF_worker(\/ part = "refreshing" /\ Refreshing!LaneStep(<<s, "refresh">>)
                     \/ part = "regular" /\ Regular!LaneStep(<<s, "regular">>))
        /\ WF_worker(\/ part = "refreshing" /\ Refreshing!ReaderStep(s)
                     \/ part = "regular" /\ Regular!ReaderStep(s))
        /\ WF_worker(\/ part = "refreshing" /\ Refreshing!Forward(s)
                     \/ part = "regular" /\ Regular!Forward(s))

\* Every lane runs, its requests are answered or time out (bounded_unary).
ExecutorIsFair ==
    \A l \in {"regular", "refresh", "pull"} : WF_executor(part = "executor" /\ Executor!Step(l))

FairSpec ==
    /\ Init /\ [][Next]_<<part, manager, worker, executor>>
    /\ ManagerIsFair /\ WorkerIsFair /\ ExecutorIsFair

-----------------------------------------------------------------------------
\* begin_operation, close: every operation and a requested close come to an end.
OperationsEnd == Manager!OperationsEnd

\* spawn_lane, submit: every accepted command is answered unless its session ends
\* first, also when it waits for a lane of an earlier session.
Answered == Refreshing!Answered /\ Regular!Answered

\* apply_with_recovery, execute_refresh: recovery and retries are bounded, so
\* every command gets its result.
CommandsEnd == Executor!CommandsEnd
=============================================================================
