--------------------------- MODULE ControlWorker ---------------------------
(***************************************************************************)
(* Control commands on their way from the panel to a terminal              *)
(* acknowledgement (crates/node-agent/src/control/worker.rs and ack.rs).   *)
(*                                                                         *)
(* Every panel session has a reader, which accepts commands into two       *)
(* bounded lanes, and one task per lane, which executes them in order.     *)
(* Sessions follow one another, but the lanes of a session that ended may  *)
(* still be executing when the next one receives the same command again:   *)
(* the store of acknowledgements and the execution gate of each            *)
(* idempotency key are shared by all of them.                              *)
(*                                                                         *)
(* The executor is represented by the results it may return.               *)
(***************************************************************************)
EXTENDS Naturals, Sequences, FiniteSets

CONSTANTS
    LaneNames,       \* "regular" and "refresh"
    Sessions,        \* numbers of the panel sessions, in their order
    Deliveries,      \* records [id, key, lane]: one arrival of a command each
    Keys, NoKey,     \* idempotency keys; NoKey: the empty one
    QueueCapacity,   \* MAX_QUEUED_CONTROL_COMMANDS, MAX_QUEUED_USER_REFRESH_COMMANDS
    AckCapacity,     \* MAX_QUEUED_CONTROL_ACKS
    Capacity,        \* AckStore.capacity
    None

Lanes == Sessions \X LaneNames

ASSUME WorkerAssumption ==
    /\ LaneNames \subseteq {"regular", "refresh"} /\ Sessions \subseteq Nat
    /\ \A d \in Deliveries : d.key \in Keys \cup {NoKey} /\ d.lane \in LaneNames
    /\ NoKey \notin Keys /\ None \notin Deliveries \cup Lanes
    /\ QueueCapacity \in Nat \ {0} /\ AckCapacity \in Nat \ {0} /\ Capacity \in Nat

Terminal == {"Applied", "Failed", "RolledBack"}

VARIABLES
    cancelled,   \* per session: its cancellation token
    delivered,   \* commands the panel has sent
    reader,      \* per session: the call of submit, [pc, cmd]
    queue,       \* per lane: accepted commands
    lane,        \* per lane: its task, [pc, cmd, gate, ack]
    registry,    \* State.executions: per key the gate its weak reference names
    holder,      \* per gate: the lane that owns its mutex
    order,       \* State.order, oldest first; State.seen holds the same keys
    acks,        \* per session: acknowledgements waiting in the output channel
    acked        \* per command: the statuses put into that channel

input == <<delivered, reader>>
gates == <<registry, holder>>
vars == <<cancelled, input, queue, lane, gates, order, acks, acked>>

\* A gate is named after the command that created it.
Gates == Deliveries
Idle == [pc |-> "recv", cmd |-> None, gate |-> None, ack |-> None]

Init ==
    /\ cancelled = [s \in Sessions |-> FALSE]
    /\ delivered = {}
    /\ reader = [s \in Sessions |-> [pc |-> "idle", cmd |-> None]]
    /\ queue = [w \in Lanes |-> <<>>]
    /\ lane = [w \in Lanes |-> Idle]
    /\ registry = [k \in Keys |-> None]
    /\ holder = [g \in Gates |-> None]
    /\ order = <<>>
    /\ acks = [s \in Sessions |-> 0]
    /\ acked = [d \in Deliveries |-> <<>>]

-----------------------------------------------------------------------------
(* The reader: run_control_stream_parts and submit *)

\* Sessions do not overlap, except for the lanes of those that ended.
Current(s) == ~cancelled[s] /\ \A t \in Sessions : t < s => cancelled[t]

Deliver(s, d) ==
    /\ Current(s) /\ reader[s].pc = "idle"
    /\ d \notin delivered
    /\ delivered' = delivered \cup {d}
    /\ reader' = [reader EXCEPT ![s] = [pc |-> "accept", cmd |-> d]]
    /\ UNCHANGED <<cancelled, queue, lane, gates, order, acks, acked>>

\* An acknowledgement enters the bounded output channel of the session.
Send(s, d, status) ==
    /\ acks[s] < AckCapacity
    /\ acks' = [acks EXCEPT ![s] = @ + 1]
    /\ acked' = [acked EXCEPT ![d] = Append(@, status)]

HasRoom(w) == Len(queue[w]) < QueueCapacity

Enqueue(s, w, d) ==
    /\ queue' = [queue EXCEPT ![w] = Append(@, d)]
    /\ reader' = [reader EXCEPT ![s] = [pc |-> "idle", cmd |-> None]]

\* Mutant: a full refresh lane drops the command silently.
Accept_DropFull(s) ==
    LET d == reader[s].cmd  w == <<s, d.lane>>
    IN  /\ reader[s].pc = "accept" /\ ~cancelled[s]
        /\ d.lane = "regular" => HasRoom(w)
        /\ Send(s, d, "Accepted")
        /\ reader' = [reader EXCEPT ![s] = [pc |-> "idle", cmd |-> None]]
        /\ queue' = IF HasRoom(w) THEN [queue EXCEPT ![w] = Append(@, d)] ELSE queue
        /\ UNCHANGED <<cancelled, delivered, lane, gates, order>>

\* A regular command reserves its place before it is acknowledged; a refresh is
\* acknowledged first and never waits for a place.
Accept(s) ==
    LET d == reader[s].cmd  w == <<s, d.lane>>
    IN  /\ reader[s].pc = "accept" /\ ~cancelled[s]
        /\ d.lane = "regular" => HasRoom(w)
        /\ Send(s, d, "Accepted")
        /\ \/ HasRoom(w) /\ Enqueue(s, w, d)
           \/ /\ ~HasRoom(w)
              /\ reader' = [reader EXCEPT ![s].pc = "full"]
              /\ UNCHANGED queue
        /\ UNCHANGED <<cancelled, delivered, lane, gates, order>>

\* "user refresh queue is full"
RefuseFull(s) ==
    /\ reader[s].pc = "full" /\ ~cancelled[s]
    /\ Send(s, reader[s].cmd, "Failed")
    /\ reader' = [reader EXCEPT ![s] = [pc |-> "idle", cmd |-> None]]
    /\ UNCHANGED <<cancelled, delivered, queue, lane, gates, order>>

\* forward_acks hands one acknowledgement to the transport.
Forward(s) ==
    /\ acks[s] > 0 /\ ~cancelled[s]
    /\ acks' = [acks EXCEPT ![s] = @ - 1]
    /\ UNCHANGED <<cancelled, input, queue, lane, gates, order, acked>>

\* The session ends: reader and forwarder are dropped, the lanes see the token.
EndSession(s) ==
    /\ Current(s)
    /\ cancelled' = [cancelled EXCEPT ![s] = TRUE]
    /\ reader' = [reader EXCEPT ![s] = [pc |-> "idle", cmd |-> None]]
    /\ acks' = [acks EXCEPT ![s] = 0]
    /\ UNCHANGED <<delivered, queue, lane, gates, order, acked>>

-----------------------------------------------------------------------------
(* A lane: spawn_lane *)

At(w, pc) == lane[w].pc = pc
Gone(w) == cancelled[w[1]]
KeyOf(w) == lane[w].cmd.key
Goto(w, pc) == lane' = [lane EXCEPT ![w].pc = pc]
Leave(w) ==
    /\ lane' = [lane EXCEPT ![w] = [Idle EXCEPT !.pc = "stopped"]]
    /\ queue' = [queue EXCEPT ![w] = <<>>]

Receive(w) ==
    /\ At(w, "recv")
    /\ \/ Gone(w) /\ Leave(w)
       \/ /\ ~Gone(w) /\ queue[w] # <<>>
          /\ lane' = [lane EXCEPT ![w].pc = "gate", ![w].cmd = Head(queue[w])]
          /\ queue' = [queue EXCEPT ![w] = Tail(@)]
    /\ UNCHANGED <<cancelled, input, gates, order, acks, acked>>

\* Strong references to a gate; the lane that runs its destructor has none.
Refs(g) == {w \in Lanes : lane[w].gate = g /\ ~At(w, "deregister")}

\* execution_gate: upgrades the registered gate, or replaces a dead one.
TakeGate(w) ==
    LET d == lane[w].cmd
        g == IF registry[d.key] # None /\ Refs(registry[d.key]) # {}
             THEN registry[d.key] ELSE d
    IN  /\ At(w, "gate")
        /\ \/ Gone(w) /\ Leave(w) /\ UNCHANGED registry
           \/ ~Gone(w) /\ d.key = NoKey /\ Goto(w, "check") /\ UNCHANGED <<registry, queue>>
           \/ /\ ~Gone(w) /\ d.key # NoKey
              /\ registry' = [registry EXCEPT ![d.key] = g]
              /\ lane' = [lane EXCEPT ![w].pc = "waitGate", ![w].gate = g]
              /\ UNCHANGED queue
        /\ UNCHANGED <<cancelled, input, holder, order, acks, acked>>

\* gate.lock(), unless the session ends first.
LockGate(w) ==
    LET g == lane[w].gate
    IN  /\ At(w, "waitGate")
        /\ \/ Gone(w) /\ Goto(w, "dropRef") /\ UNCHANGED holder
           \/ /\ ~Gone(w) /\ holder[g] = None
              /\ holder' = [holder EXCEPT ![g] = w]
              /\ Goto(w, "check")
        /\ UNCHANGED <<cancelled, input, queue, registry, order, acks, acked>>

Seen == {order[i] : i \in 1 .. Len(order)}

\* replay, under the gate of the key.
Check(w) ==
    /\ At(w, "check")
    /\ \/ Gone(w) /\ Goto(w, "unlock")
       \/ /\ ~Gone(w) /\ KeyOf(w) \in Seen
          /\ lane' = [lane EXCEPT ![w].pc = "unlock", ![w].ack = "Applied"]
       \/ ~Gone(w) /\ KeyOf(w) \notin Seen /\ Goto(w, "run")
    /\ UNCHANGED <<cancelled, input, queue, gates, order, acks, acked>>

\* Failed and rolled back commands may be retried, and are not remembered.
Remembers(w, result) == result = "Applied" /\ KeyOf(w) # NoKey

\* The oldest acknowledgements make room for the newest.
Remember(k) ==
    IF k \in Seen THEN order
    ELSE LET o == Append(order, k)
         IN  IF Len(o) > Capacity THEN SubSeq(o, Len(o) - Capacity + 1, Len(o)) ELSE o

\* The executor, in a task that is joined and never dropped (a panic, or a result
\* that is not terminal, is a failure), and complete.
Execute(w) ==
    /\ At(w, "run")
    /\ \E result \in Terminal :
          /\ lane' = [lane EXCEPT ![w].pc = "unlock", ![w].ack = result]
          /\ order' = IF Remembers(w, result) THEN Remember(KeyOf(w)) ELSE order
    /\ UNCHANGED <<cancelled, input, queue, gates, acks, acked>>

\* drop(execution): the mutex is unlocked before the reference is dropped.
Unlock(w) ==
    LET g == lane[w].gate
    IN  /\ At(w, "unlock")
        /\ \/ g = None /\ Goto(w, "ack") /\ UNCHANGED holder
           \/ /\ g # None
              /\ holder' = [holder EXCEPT ![g] = None]
              /\ Goto(w, "dropRef")
        /\ UNCHANGED <<cancelled, input, queue, registry, order, acks, acked>>

\* The last reference starts the destructor of the gate.
DropRef(w) ==
    /\ At(w, "dropRef")
    /\ \/ Refs(lane[w].gate) = {w} /\ Goto(w, "deregister")
       \/ /\ Refs(lane[w].gate) # {w}
          /\ lane' = [lane EXCEPT ![w].pc = "ack", ![w].gate = None]
    /\ UNCHANGED <<cancelled, input, queue, gates, order, acks, acked>>

\* Mutant: the destructor removes whatever gate is registered.
Deregister_Any(w) ==
    /\ At(w, "deregister")
    /\ registry' = [registry EXCEPT ![KeyOf(w)] = None]
    /\ lane' = [lane EXCEPT ![w].pc = "ack", ![w].gate = None]
    /\ UNCHANGED <<cancelled, input, queue, holder, order, acks, acked>>

\* ExecutionGate::drop: another caller may have replaced the dead gate already.
Deregister(w) ==
    /\ At(w, "deregister")
    /\ registry' = [registry EXCEPT ![KeyOf(w)] = IF @ = lane[w].gate THEN None ELSE @]
    /\ lane' = [lane EXCEPT ![w].pc = "ack", ![w].gate = None]
    /\ UNCHANGED <<cancelled, input, queue, holder, order, acks, acked>>

\* send_lane_ack; a lane whose session ended stops here.
Acknowledge(w) ==
    /\ At(w, "ack")
    /\ \/ Gone(w) /\ Leave(w) /\ UNCHANGED <<acks, acked>>
       \/ /\ ~Gone(w)
          /\ Send(w[1], lane[w].cmd, lane[w].ack)
          /\ lane' = [lane EXCEPT ![w] = Idle]
          /\ UNCHANGED queue
    /\ UNCHANGED <<cancelled, input, gates, order>>

LaneStep(w) ==
    \/ Receive(w) \/ TakeGate(w) \/ LockGate(w) \/ Check(w) \/ Execute(w)
    \/ Unlock(w) \/ DropRef(w) \/ Deregister(w) \/ Acknowledge(w)

ReaderStep(s) == Accept(s) \/ RefuseFull(s)

\* Every session has ended and every lane has stopped.
Terminated ==
    /\ \A s \in Sessions : cancelled[s]
    /\ \A w \in Lanes : At(w, "stopped")
    /\ UNCHANGED vars

Next ==
    \/ \E s \in Sessions : (\E d \in Deliveries : Deliver(s, d)) \/ ReaderStep(s)
                              \/ Forward(s) \/ EndSession(s)
    \/ \E w \in Lanes : LaneStep(w)
    \/ Terminated

Spec == Init /\ [][Next]_vars

-----------------------------------------------------------------------------
(* Properties *)

\* Together the lanes of all sessions implement the promise of the store.
Executing == {KeyOf(w) : w \in {v \in DOMAIN lane : At(v, "run")}} \ {NoKey}
Promise == INSTANCE IdempotentExecution WITH busy <- Executing, done <- Seen
Idempotent == Promise!Spec

\* Accepted, and then a terminal status.
Settled == {d \in DOMAIN acked : Len(acked[d]) = 2}

\* Every accepted command is answered unless its session ends first, also when it
\* waits for a lane of an earlier session that is executing the same key.
Answered ==
    \A s \in Sessions, d \in Deliveries : reader[s].cmd = d ~> (d \in Settled \/ cancelled[s])

=============================================================================
