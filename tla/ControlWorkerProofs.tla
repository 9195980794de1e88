-------------------------- MODULE ControlWorkerProofs --------------------------
(***************************************************************************)
(* ControlWorker implements IdempotentExecution, for every number of       *)
(* sessions, lanes, commands and keys and for every size of the            *)
(* acknowledgement store.                                                  *)
(*                                                                         *)
(* The heart of it is that the lanes that work on one key share one gate,  *)
(* although gates die with their last reference and are replaced while the *)
(* destructor of the dead one is still on its way to the registry.         *)
(***************************************************************************)
EXTENDS ControlWorkerLemmas, FiniteSetTheorems

USE WorkerAssumption

-----------------------------------------------------------------------------
(* Induction: the steps of a lane. *)

\* One lemma per step of a lane: the invariant is preserved.
\* A command taken from the queue comes without a gate.
LEMMA ReceiveInv ==
    ASSUME IInv, NEW w \in Lanes, Receive(w)
    PROVE  IInv'
<1> USE DEF IInv
<1>0. /\ UNCHANGED <<delivered, reader, registry, holder, order>>
      /\ lane[w].pc = "recv" /\ lane[w].gate = None
  BY DEF Receive, input, gates, LaneShape, At
<1>1. Typed'
  BY <1>0, ReceiveMoves DEF Typed
<1>2. OneWay' /\ GatesAreOld'
  BY ReceiveWays
<1>3. PICK pc \in {"stopped", "gate"}, cmd \in Deliveries \cup {None} :
        Moved(w, pc, cmd, None) /\ (pc = "gate" => cmd \in Deliveries)
  <2>1. queue[w] # <<>> => Head(queue[w]) \in Deliveries
    BY HeadTail DEF Typed
  <2> QED
    BY <1>0, <2>1, ReceiveMoves
<1>4. LaneShape'
  BY <1>3, ShapeMoved DEF Inside
<1>5. GatesAreShared'
  BY <1>0, <1>3, SharedMoved DEF Inside
<1>6. StoreIsExact'
  BY <1>0, <1>3, StoreMoved
<1> QED
  BY <1>1, <1>2, <1>4, <1>5, <1>6

\* The step on which the sharing of gates rests: a gate is taken over only while it
\* is referenced, and replaced only when it is not.
LEMMA TakeGateInv ==
    ASSUME IInv, NEW w \in Lanes, TakeGate(w)
    PROVE  IInv'
<1> USE DEF IInv
<1>0. /\ UNCHANGED <<delivered, reader, holder, order>>
      /\ lane[w].pc = "gate" /\ lane[w].gate = None /\ lane[w].cmd \in Deliveries
      /\ lane[w].cmd # None
  BY DEF TakeGate, input, LaneShape, At
<1>1. Typed'
  BY <1>0, TakeGateMoves DEF Typed
<1>2. OneWay' /\ GatesAreOld'
  BY TakeGateWays
<1>3. CASE Moved(w, "stopped", None, None) /\ UNCHANGED registry
  <2>1. LaneShape'
    BY <1>3, ShapeMoved DEF Inside
  <2>2. GatesAreShared'
    BY <1>0, <1>3, SharedMoved DEF Inside
  <2>3. StoreIsExact'
    BY <1>0, <1>3, StoreMoved
  <2> QED
    BY <1>1, <1>2, <2>1, <2>2, <2>3
<1>4. CASE KeyOf(w) = NoKey /\ Moved(w, "check", lane[w].cmd, None) /\ UNCHANGED registry
  <2>1. LaneShape'
    BY <1>0, <1>4, ShapeMoved DEF Inside, KeyOf
  <2>2. GatesAreShared'
    BY <1>0, <1>4 DEF GatesAreShared, Moved
  <2>3. StoreIsExact'
    BY <1>0, <1>4, StoreMoved
  <2> QED
    BY <1>1, <1>2, <2>1, <2>2, <2>3
<1>5. CASE /\ KeyOf(w) \in Keys /\ Refs(registry[KeyOf(w)]) # {} /\ registry[KeyOf(w)] \in Gates
           /\ Moved(w, "waitGate", lane[w].cmd, registry[KeyOf(w)]) /\ UNCHANGED registry
  <2>1. LaneShape'
    BY <1>0, <1>5, ShapeMoved DEF Inside, KeyOf, Gates
  <2>2. PICK u \in Lanes : lane[u].gate = registry[KeyOf(w)] /\ lane[u].pc # "deregister"
    BY <1>5 DEF Refs, At
  <2>3. GatesAreShared'
    BY <1>0, <1>5, <2>2 DEF GatesAreShared, Moved, KeyOf, Inside
  <2>4. StoreIsExact'
    BY <1>0, <1>5, StoreMoved
  <2> QED
    BY <1>1, <1>2, <2>1, <2>3, <2>4
<1>6. CASE /\ KeyOf(w) \in Keys
           /\ registry[KeyOf(w)] = None \/ Refs(registry[KeyOf(w)]) = {}
           /\ Moved(w, "waitGate", lane[w].cmd, lane[w].cmd)
           /\ registry'[KeyOf(w)] = lane[w].cmd
           /\ \A k \in Keys : k # KeyOf(w) => registry'[k] = registry[k]
  <2>1. LaneShape'
    BY <1>0, <1>6, ShapeMoved DEF Inside, KeyOf
  <2>2. \A v \in Lanes : lane[v].gate # lane[w].cmd
    <3>1. Used(lane[w].cmd) => FALSE
      BY <1>0 DEF GatesAreOld, At, Gates
    <3> QED
      BY <3>1 DEF Used
  <2>3. \A v \in Lanes : lane[v].gate # None /\ lane[v].pc # "deregister" => lane[v].cmd.key # KeyOf(w)
    BY <1>6 DEF GatesAreShared, Refs, At
  <2>4. \A v \in Lanes : lane[v].gate # None => lane[v].cmd.key \in Keys
    BY DEF LaneShape, KeyOf
  <2>5. GatesAreShared'
    BY <1>0, <1>6, <2>2, <2>3, <2>4 DEF GatesAreShared, Moved, KeyOf, Inside
  <2>6. StoreIsExact'
    BY <1>0, <1>6, StoreMoved
  <2> QED
    BY <1>1, <1>2, <2>1, <2>5, <2>6
<1> QED
  BY <1>3, <1>4, <1>5, <1>6, TakeGateMoves

\* Only a gate nobody holds can be locked, so its key has nobody else inside.
LEMMA LockGateInv ==
    ASSUME IInv, NEW w \in Lanes, LockGate(w)
    PROVE  IInv'
<1> USE DEF IInv
<1>0. /\ UNCHANGED <<delivered, reader, queue, registry, order>>
      /\ lane[w].pc = "waitGate" /\ lane[w].cmd \in Deliveries
      /\ lane[w].gate \in Gates /\ lane[w].gate # None /\ lane[w].cmd.key \in Keys
  BY LockGateMoves DEF LockGate, input, LaneShape, At, KeyOf
<1>1. Typed'
  BY <1>0, LockGateMoves DEF Typed
<1>2. PICK pc \in {"dropRef", "check"} : Moved(w, pc, lane[w].cmd, lane[w].gate)
  BY LockGateMoves
<1>3. OneWay' /\ GatesAreOld'
  BY <1>0, <1>2, LaneWays
<1>4. LaneShape'
  BY <1>0, <1>2, ShapeMoved DEF Inside
<1>5. StoreIsExact'
  BY <1>0, <1>2, StoreMoved
<1>6. CASE Moved(w, "dropRef", lane[w].cmd, lane[w].gate) /\ UNCHANGED holder
  <2>1. GatesAreShared'
    BY <1>0, <1>6, SharedMoved DEF Inside
  <2> QED
    BY <1>1, <1>3, <1>4, <1>5, <2>1
<1>7. CASE /\ Moved(w, "check", lane[w].cmd, lane[w].gate)
           /\ holder[lane[w].gate] = None /\ holder'[lane[w].gate] = w
           /\ \A g \in Gates : g # lane[w].gate => holder'[g] = holder[g]
  <2>1. \A v \in Lanes : v # None
    OBVIOUS
  <2>2. \A v \in Lanes : lane[v].gate # None => lane[v].gate \in Gates
    BY LaneTyped DEF LaneRecord
  <2>3. /\ \A v \in Lanes : v # w => lane'[v] = lane[v]
        /\ lane'[w].pc = "check" /\ lane'[w].cmd = lane[w].cmd /\ lane'[w].gate = lane[w].gate
    BY <1>7 DEF Moved
  <2>4. \A v \in Lanes : lane[v].pc \in Inside /\ lane[v].gate # None => lane[v].gate # lane[w].gate
    BY <1>7, <2>1 DEF GatesAreShared
  <2>5. \A v \in Lanes : lane'[v].pc \in Inside /\ lane'[v].gate # None => holder'[lane'[v].gate] = v
    BY <1>7, <2>2, <2>3, <2>4 DEF GatesAreShared
  <2>6. \A v \in Lanes : lane'[v].gate # None =>
           /\ lane'[v].pc # "deregister" => registry[lane'[v].cmd.key] = lane'[v].gate
           /\ lane'[v].pc = "deregister" =>
                 \A u \in Lanes : lane'[u].gate = lane'[v].gate => lane'[u].pc = "deregister"
    BY <1>0, <2>3 DEF GatesAreShared
  <2>7. GatesAreShared'
    BY <1>0, <2>5, <2>6 DEF GatesAreShared
  <2> QED
    BY <1>1, <1>3, <1>4, <1>5, <2>7
<1> QED
  BY <1>6, <1>7, LockGateMoves

\* What the lane reads in the store under the lock is what StoreIsExact says of it.
LEMMA CheckInv ==
    ASSUME IInv, NEW w \in Lanes, Check(w)
    PROVE  IInv'
<1> USE DEF IInv
<1>0. /\ UNCHANGED <<delivered, reader, queue, registry, holder, order>>
      /\ lane[w].pc = "check" /\ lane[w].cmd \in Deliveries
      /\ lane[w].cmd.key # NoKey => lane[w].gate # None
      /\ lane[w].gate # None => lane[w].cmd.key \in Keys
  BY DEF Check, input, gates, LaneShape, At, KeyOf, Inside
<1>1. Typed'
  BY <1>0, CheckMoves DEF Typed
<1>2. PICK pc \in {"unlock", "run"} :
        Moved(w, pc, lane[w].cmd, lane[w].gate) /\ (pc = "run" => lane[w].cmd.key \notin Seen)
  BY CheckMoves DEF KeyOf
<1>3. OneWay' /\ GatesAreOld'
  BY <1>0, <1>2, LaneWays
<1>4. LaneShape'
  BY <1>0, <1>2, ShapeMoved DEF Inside
<1>5. GatesAreShared'
  BY <1>0, <1>2, SharedMoved DEF Inside
<1>6. StoreIsExact'
  BY <1>0, <1>2, StoreMoved
<1> QED
  BY <1>1, <1>3, <1>4, <1>5, <1>6

\* Only the key that was executed enters the store, and nobody else executes it.
LEMMA ExecuteInv ==
    ASSUME IInv, NEW w \in Lanes, Execute(w)
    PROVE  IInv'
<1> USE DEF IInv
<1>0. /\ UNCHANGED <<delivered, reader, queue, registry, holder>>
      /\ lane[w].pc = "run" /\ lane[w].cmd \in Deliveries
      /\ lane[w].cmd.key # NoKey => lane[w].gate # None
      /\ lane[w].gate # None => lane[w].cmd.key \in Keys
      /\ lane[w].cmd.key \notin Seen
  BY DEF Execute, input, gates, LaneShape, At, KeyOf, Inside, StoreIsExact
<1>2. Moved(w, "unlock", lane[w].cmd, lane[w].gate)
  BY ExecuteMoves
<1>3. OneWay' /\ GatesAreOld'
  BY <1>0, <1>2, LaneWays
<1>4. LaneShape'
  BY <1>0, <1>2, ShapeMoved DEF Inside
<1>5. GatesAreShared'
  BY <1>0, <1>2, SharedMoved DEF Inside
<1>6. CASE order' = order
  <2>1. Typed'
    BY <1>0, <1>6, ExecuteMoves DEF Typed
  <2>2. StoreIsExact'
    BY <1>2, <1>6, StoreMoved
  <2> QED
    BY <1>3, <1>4, <1>5, <2>1, <2>2
<1>7. CASE KeyOf(w) # NoKey /\ order' = Remember(KeyOf(w))
  <2> DEFINE k == lane[w].cmd.key
  <2>0. k \in Keys /\ k \notin Seen /\ order' = Remember(k) /\ k # NoKey
    BY <1>0, <1>7 DEF KeyOf
  <2>1. /\ order' \in Seq(Keys) /\ Injective(order')
        /\ Elements(order') \subseteq Seen \cup {k}
        /\ Len(order') = IF Len(order) < Capacity THEN Len(order) + 1 ELSE Capacity
    BY <2>0, RememberShape DEF StoreIsExact, Typed
  <2>2. Typed'
    BY <1>0, <2>1, ExecuteMoves DEF Typed
  <2>3. Len(order') <= Capacity
    BY <2>1 DEF Typed
  <2>4. ASSUME NEW v \in Lanes, lane'[v].pc = "run" PROVE lane'[v].cmd.key \notin Elements(order')
    <3>1. v # w /\ lane'[v] = lane[v] /\ lane[v].pc = "run"
      BY <1>2, <2>4 DEF Moved
    <3>2. lane[v].cmd.key # k
      BY <1>0, <2>0, <3>1, OneInside DEF KeyOf, Inside
    <3>3. lane[v].cmd.key \notin Seen
      BY <3>1 DEF StoreIsExact
    <3> QED
      BY <2>1, <3>1, <3>2, <3>3
  <2>5. StoreIsExact'
    BY <2>1, <2>3, <2>4 DEF StoreIsExact, Seen, Elements, Injective
  <2> QED
    BY <1>3, <1>4, <1>5, <2>2, <2>5
<1> QED
  BY <1>6, <1>7, ExecuteMoves

\* A lane unlocks only the gate it holds itself.
LEMMA UnlockInv ==
    ASSUME IInv, NEW w \in Lanes, Unlock(w)
    PROVE  IInv'
<1> USE DEF IInv
<1>0. /\ UNCHANGED <<delivered, reader, queue, registry, order>>
      /\ lane[w].pc = "unlock" /\ lane[w].cmd \in Deliveries
      /\ lane[w].gate # None => lane[w].cmd.key \in Keys
  BY DEF Unlock, input, LaneShape, At, KeyOf
<1>1. Typed'
  BY <1>0, UnlockMoves DEF Typed
<1>2. PICK pc \in {"ack", "dropRef"} :
        /\ Moved(w, pc, lane[w].cmd, lane[w].gate)
        /\ IF pc = "ack" THEN lane[w].gate = None ELSE lane[w].gate \in Gates
  BY UnlockMoves
<1>3. OneWay' /\ GatesAreOld'
  BY <1>0, <1>2, LaneWays
<1>4. LaneShape'
  BY <1>0, <1>2, ShapeMoved DEF Inside, Gates
<1>5. StoreIsExact'
  BY <1>0, <1>2, StoreMoved
<1>6. /\ \A v \in Lanes : v # w => lane'[v] = lane[v]
      /\ lane'[w].pc = pc /\ lane'[w].cmd = lane[w].cmd /\ lane'[w].gate = lane[w].gate
  BY <1>2 DEF Moved
<1>7. \A v \in Lanes : lane'[v].pc \in Inside /\ lane'[v].gate # None => holder'[lane'[v].gate] = v
  <2> SUFFICES ASSUME NEW v \in Lanes, lane'[v].pc \in Inside, lane'[v].gate # None
               PROVE  holder'[lane'[v].gate] = v
    OBVIOUS
  <2>1. v # w /\ lane'[v] = lane[v]
    BY <1>6 DEF Inside
  <2>2. holder[lane[v].gate] = v /\ lane[v].gate \in Gates
    BY <2>1, LaneTyped DEF GatesAreShared, LaneRecord
  <2>3. lane[w].gate # None => holder[lane[w].gate] = w
    BY <1>0 DEF GatesAreShared, Inside
  <2> QED
    BY <2>1, <2>2, <2>3, UnlockMoves
<1>8. \A v \in Lanes : lane'[v].gate # None =>
         /\ lane'[v].pc # "deregister" => registry[lane'[v].cmd.key] = lane'[v].gate
         /\ lane'[v].pc = "deregister" =>
               \A u \in Lanes : lane'[u].gate = lane'[v].gate => lane'[u].pc = "deregister"
  BY <1>0, <1>6 DEF GatesAreShared
<1>9. GatesAreShared'
  BY <1>0, <1>7, <1>8 DEF GatesAreShared
<1> QED
  BY <1>1, <1>3, <1>4, <1>5, <1>9

\* Dropping a reference never makes a gate held by somebody else disappear.
LEMMA DropRefInv ==
    ASSUME IInv, NEW w \in Lanes, DropRef(w)
    PROVE  IInv'
<1> USE DEF IInv
<1>0. /\ UNCHANGED <<delivered, reader, queue, registry, holder, order>>
      /\ lane[w].pc = "dropRef" /\ lane[w].cmd \in Deliveries
      /\ lane[w].gate # None /\ lane[w].cmd.key \in Keys
  BY DEF DropRef, input, gates, LaneShape, At, KeyOf
<1>1. Typed'
  BY <1>0, DropRefMoves DEF Typed
<1>2. CASE Moved(w, "ack", lane[w].cmd, None)
  <2>1. OneWay' /\ GatesAreOld'
    BY <1>0, <1>2, LaneWays
  <2>2. LaneShape'
    BY <1>0, <1>2, ShapeMoved DEF Inside
  <2>3. GatesAreShared'
    BY <1>0, <1>2, SharedMoved DEF Inside
  <2>4. StoreIsExact'
    BY <1>0, <1>2, StoreMoved
  <2> QED
    BY <1>1, <2>1, <2>2, <2>3, <2>4
<1>3. CASE Refs(lane[w].gate) = {w} /\ Moved(w, "deregister", lane[w].cmd, lane[w].gate)
  <2>1. OneWay' /\ GatesAreOld'
    BY <1>0, <1>3, LaneWays
  <2>2. LaneShape'
    BY <1>0, <1>3, ShapeMoved DEF Inside
  <2>3. StoreIsExact'
    BY <1>0, <1>3, StoreMoved
  <2>4. \A v \in Lanes : v # w /\ lane[v].gate = lane[w].gate => lane[v].pc = "deregister"
    BY <1>3 DEF Refs, At
  <2>5. /\ \A v \in Lanes : v # w => lane'[v] = lane[v]
        /\ lane'[w].pc = "deregister" /\ lane'[w].cmd = lane[w].cmd /\ lane'[w].gate = lane[w].gate
    BY <1>3 DEF Moved
  <2>6. GatesAreShared'
    BY <1>0, <2>4, <2>5 DEF GatesAreShared, Inside
  <2> QED
    BY <1>1, <2>1, <2>2, <2>3, <2>6
<1> QED
  BY <1>2, <1>3, DropRefMoves

\* The destructor removes its own gate only, and that one has no reference left.
LEMMA DeregisterInv ==
    ASSUME IInv, NEW w \in Lanes, Deregister(w)
    PROVE  IInv'
<1> USE DEF IInv
<1>0. /\ UNCHANGED <<delivered, reader, queue, holder, order>>
      /\ lane[w].pc = "deregister" /\ lane[w].cmd \in Deliveries /\ lane[w].gate # None
  BY DEF Deregister, input, LaneShape, At
<1>1. Typed'
  BY <1>0, DeregisterMoves DEF Typed
<1>2. /\ Moved(w, "ack", lane[w].cmd, None)
      /\ \A k \in Keys : \/ registry'[k] = registry[k]
                         \/ registry[k] = lane[w].gate /\ registry'[k] = None
  BY DeregisterMoves
<1>3. OneWay' /\ GatesAreOld'
  BY <1>0, <1>2, LaneWays
<1>4. LaneShape'
  BY <1>0, <1>2, ShapeMoved DEF Inside
<1>5. StoreIsExact'
  BY <1>0, <1>2, StoreMoved
<1>6. /\ \A v \in Lanes : v # w => lane'[v] = lane[v]
      /\ lane'[w].pc = "ack" /\ lane'[w].gate = None
  BY <1>2 DEF Moved
<1>7. \A v \in Lanes : lane[v].gate = lane[w].gate => lane[v].pc = "deregister"
  BY <1>0 DEF GatesAreShared
<1>8. \A v \in Lanes : lane[v].gate # None => lane[v].cmd.key \in Keys
  BY DEF LaneShape, KeyOf
<1>9. \A v \in Lanes : lane'[v].gate # None /\ lane'[v].pc # "deregister" =>
         registry'[lane'[v].cmd.key] = lane'[v].gate
  BY <1>2, <1>6, <1>7, <1>8 DEF GatesAreShared
<1>10. GatesAreShared'
  BY <1>0, <1>6, <1>9 DEF GatesAreShared
<1> QED
  BY <1>1, <1>3, <1>4, <1>5, <1>10

\* An acknowledged lane has no gate left to keep consistent.
LEMMA AcknowledgeInv ==
    ASSUME IInv, NEW w \in Lanes, Acknowledge(w)
    PROVE  IInv'
<1> USE DEF IInv
<1>0. UNCHANGED <<delivered, reader, registry, holder, order>> /\ lane[w].pc = "ack"
  BY DEF Acknowledge, input, gates, At
<1>1. Typed'
  BY <1>0, AcknowledgeMoves DEF Typed
<1>2. PICK pc \in {"stopped", "recv"} : Moved(w, pc, None, None)
  BY AcknowledgeMoves
<1>3. OneWay' /\ GatesAreOld'
  BY <1>0, <1>2, LaneWays, AcknowledgeMoves
<1>4. LaneShape'
  BY <1>2, ShapeMoved DEF Inside
<1>5. GatesAreShared'
  BY <1>0, <1>2, SharedMoved DEF Inside
<1>6. StoreIsExact'
  BY <1>0, <1>2, StoreMoved
<1> QED
  BY <1>1, <1>3, <1>4, <1>5, <1>6

-----------------------------------------------------------------------------
(* Induction: the reader and the end of a session. *)

\* Steps that leave the lanes, the gates and the store alone.
LEMMA LanesUntouched ==
    ASSUME LaneShape, GatesAreShared, StoreIsExact, UNCHANGED <<lane, registry, holder, order>>
    PROVE  LaneShape' /\ GatesAreShared' /\ StoreIsExact'
<1>1. LaneShape'
  BY DEF LaneShape, KeyOf
<1>2. GatesAreShared'
  BY DEF GatesAreShared
<1>3. StoreIsExact'
  BY DEF StoreIsExact, Seen, Injective
<1> QED
  BY <1>1, <1>2, <1>3

\* A reader that drops, or refuses, its command.
LEMMA ReaderStops ==
    ASSUME IInv, NEW s \in Sessions, NEW r \in ReaderRecord, r.pc # "accept",
           reader' = [reader EXCEPT ![s] = r], UNCHANGED <<delivered, queue, lane, gates, order>>
    PROVE  IInv'
<1> USE DEF IInv, gates
<1>1. Typed'
  BY DEF Typed
<1>2. \A t \in Sessions : reader'[t].pc = "accept" => reader'[t] = reader[t]
  BY DEF Typed
<1>3. ASSUME NEW g \in Gates, Used(g)' PROVE Used(g)
  BY <1>3 DEF Used
<1>4. OneWay' /\ GatesAreOld'
  BY <1>2, <1>3, WaysShrink
<1> QED
  BY <1>1, <1>4, LanesUntouched

\* The steps of sessions and readers touch neither lanes, nor gates, nor the store.
LEMMA DeliverInv ==
    ASSUME IInv, NEW s \in Sessions, NEW d \in Deliveries, Deliver(s, d)
    PROVE  IInv'
<1> USE DEF IInv
<1>1. UNCHANGED <<queue, lane, registry, holder, order>>
  BY DEF Deliver, gates
<1>2. [pc |-> "accept", cmd |-> d] \in ReaderRecord
  BY DEF ReaderRecord
<1>3. Typed'
  BY <1>1, <1>2 DEF Deliver, Typed
<1> QED
  BY <1>1, <1>3, DeliverWays, LanesUntouched

\* A reader only queues commands that were delivered, on their own lane.
LEMMA AcceptInv ==
    ASSUME IInv, NEW s \in Sessions, Accept(s)
    PROVE  IInv'
<1> USE DEF IInv
<1> DEFINE d == reader[s].cmd
           w == <<s, d.lane>>
<1>1. /\ UNCHANGED <<delivered, lane, registry, holder, order>>
      /\ reader[s].pc = "accept"
  BY DEF Accept, gates
<1>2. d \in Deliveries /\ w \in Lanes
  BY <1>1 DEF OneWay, Typed, Lanes
<1>3. [pc |-> "idle", cmd |-> None] \in ReaderRecord
  BY DEF ReaderRecord
<1>4. CASE Enqueue(s, w, d)
  <2>1. OneWay' /\ GatesAreOld' /\ queue' \in [Lanes -> Seq(Deliveries)]
    <3> HIDE DEF w
    <3> QED
      BY <1>1, <1>2, <1>4, EnqueueWays
  <2>2. Typed'
    BY <1>1, <1>3, <1>4, <2>1 DEF Enqueue, Typed
  <2> QED
    BY <1>1, <2>1, <2>2, LanesUntouched
<1>5. CASE reader' = [reader EXCEPT ![s].pc = "full"] /\ UNCHANGED queue
  <2> DEFINE r == [reader[s] EXCEPT !.pc = "full"]
  <2>0. reader[s] \in ReaderRecord
    BY DEF Typed
  <2>1. r \in ReaderRecord /\ r.pc = "full"
    BY <2>0 DEF ReaderRecord
  <2>2. reader' = [reader EXCEPT ![s] = r]
    BY <1>5 DEF Typed
  <2> HIDE DEF r
  <2> QED
    BY <1>1, <1>5, <2>1, <2>2, ReaderStops DEF gates
<1> QED
  BY <1>4, <1>5 DEF Accept

\* The inductive step.
LEMMA NextInv ==
    IInv /\ [Next]_vars => IInv'
<1> SUFFICES ASSUME IInv, [Next]_vars PROVE IInv'
  OBVIOUS
<1>0. [pc |-> "idle", cmd |-> None] \in ReaderRecord /\ [pc |-> "idle", cmd |-> None].pc = "idle"
  BY DEF ReaderRecord
<1>1. ASSUME NEW s \in Sessions, RefuseFull(s) \/ EndSession(s) PROVE IInv'
  BY <1>0, <1>1, ReaderStops DEF RefuseFull, EndSession
<1>2. CASE UNCHANGED <<delivered, reader, queue, lane, registry, holder, order>>
  <2>1. Typed'
    BY <1>2 DEF IInv, Typed
  <2>2. ASSUME NEW g \in Gates, Used(g)' PROVE Used(g)
    BY <1>2, <2>2 DEF Used
  <2>3. OneWay' /\ GatesAreOld'
    BY <1>2, <2>2, WaysShrink DEF IInv
  <2> QED
    BY <1>2, <2>1, <2>3, LanesUntouched DEF IInv
<1>3. ASSUME NEW s \in Sessions, Forward(s) PROVE IInv'
  BY <1>2, <1>3 DEF Forward, input, gates
<1>4. ASSUME NEW w \in Lanes, LaneStep(w) PROVE IInv'
  BY <1>4, ReceiveInv, TakeGateInv, LockGateInv, CheckInv, ExecuteInv, UnlockInv, DropRefInv,
     DeregisterInv, AcknowledgeInv DEF LaneStep
<1>5. CASE UNCHANGED vars
  BY <1>2, <1>5 DEF vars, input, gates
<1> QED
  BY <1>1, <1>3, <1>4, <1>5, DeliverInv, AcceptInv DEF Next, ReaderStep, Terminated

\* At the start every lane is idle, no gate exists and nothing is remembered.
LEMMA InitInv ==
    Init => IInv
<1> SUFFICES ASSUME Init PROVE IInv
  OBVIOUS
<1>1. Idle \in LaneRecord /\ Idle.pc = "recv" /\ Idle.gate = None
  BY DEF Idle, LaneRecord, LanePcs
<1>2. [pc |-> "idle", cmd |-> None] \in ReaderRecord /\ [pc |-> "idle", cmd |-> None].pc = "idle"
  BY DEF ReaderRecord
<1>3. Typed
  BY <1>1, <1>2 DEF Init, Typed
<1>4. /\ \A w \in Lanes : lane[w].pc = "recv" /\ lane[w].gate = None /\ Len(queue[w]) = 0
      /\ \A s \in Sessions : reader[s].pc = "idle"
      /\ \A k \in Keys : registry[k] = None
  BY <1>1, <1>2 DEF Init
<1>5. OneWay /\ GatesAreOld
  BY <1>4 DEF OneWay, GatesAreOld, Used, At, Gates
<1>6. LaneShape /\ GatesAreShared
  BY <1>4 DEF LaneShape, GatesAreShared, Inside
<1>7. StoreIsExact
  BY <1>4 DEF Init, StoreIsExact, Injective
<1> QED
  BY <1>3, <1>5, <1>6, <1>7 DEF IInv

\* IInv holds in every state.
THEOREM Invariance == Spec => []IInv
<1>1. Init => IInv
  BY InitInv
<1>2. IInv /\ [Next]_vars => IInv'
  BY NextInv
<1> QED
  BY <1>1, <1>2, PTL DEF Spec

\* The mutual exclusion that the gates are there for: two lanes, of one session or of
\* two, never work on the same idempotency key at the same time (execution_gate).
Exclusive ==
    \A v, w \in Lanes :
        /\ lane[v].pc \in Inside /\ lane[w].pc \in Inside
        /\ KeyOf(v) = KeyOf(w) /\ KeyOf(w) # NoKey
        => v = w

\* Exclusive holds in every state, however sessions end and gates are replaced.
THEOREM ExclusiveAlways == Spec => []Exclusive
<1>1. IInv => Exclusive
  BY OneInside DEF IInv, Exclusive
<1> QED
  BY <1>1, Invariance, PTL

-----------------------------------------------------------------------------
(* Refinement. *)

\* The keys being executed, lane by lane.
LEMMA ExecutingIs ==
    ASSUME lane \in [Lanes -> LaneRecord], lane' \in [Lanes -> LaneRecord]
    PROVE  /\ \A k : k \in Executing <=>
                 k # NoKey /\ \E w \in Lanes : lane[w].pc = "run" /\ lane[w].cmd.key = k
           /\ \A k : k \in Executing' <=>
                 k # NoKey /\ \E w \in Lanes : lane'[w].pc = "run" /\ lane'[w].cmd.key = k
  BY DEF Executing, At, KeyOf

\* A lane that is not executing before its step, nor after it.
LEMMA ExecutingKept ==
    ASSUME lane \in [Lanes -> LaneRecord], lane' \in [Lanes -> LaneRecord], NEW w \in Lanes,
           NEW pc, NEW cmd, NEW gate, Moved(w, pc, cmd, gate), lane[w].pc # "run", pc # "run"
    PROVE  Executing' = Executing
<1>1. \A v \in Lanes : lane'[v].pc = "run" \/ lane[v].pc = "run" => lane'[v] = lane[v]
  BY DEF Moved
<1>2. \A k : k \in Executing' <=> k \in Executing
  BY <1>1, ExecutingIs
<1> QED
  BY <1>2

\* Check lets a lane begin to execute a key that nobody executes or remembers.
LEMMA CheckRefines ==
    ASSUME IInv, IInv', NEW w \in Lanes, Check(w)
    PROVE  Promise!Next \/ UNCHANGED <<Executing, Seen>>
<1>0. /\ lane \in [Lanes -> LaneRecord] /\ lane' \in [Lanes -> LaneRecord]
      /\ lane[w].pc = "check" /\ lane[w].cmd \in Deliveries /\ UNCHANGED order
  BY DEF IInv, Typed, Check, At, LaneShape
<1>1. Seen' = Seen
  BY <1>0 DEF Seen
<1>2. CASE Moved(w, "unlock", lane[w].cmd, lane[w].gate)
  BY <1>0, <1>1, <1>2, ExecutingKept
<1>3. CASE KeyOf(w) \notin Seen /\ Moved(w, "run", lane[w].cmd, lane[w].gate)
  <2> DEFINE k == lane[w].cmd.key
  <2>1. /\ \A v \in Lanes : v # w => lane'[v] = lane[v]
        /\ lane'[w].pc = "run" /\ lane'[w].cmd.key = k
    BY <1>3 DEF Moved
  <2>2. \A x : x \in Executing' <=> x \in Executing \/ (x = k /\ x # NoKey)
    BY <1>0, <2>1, ExecutingIs
  <2>3. CASE k = NoKey
    <3>1. Executing' = Executing
      BY <2>2, <2>3
    <3> QED
      BY <1>1, <3>1
  <2>4. CASE k # NoKey
    <3>1. k \in Keys /\ k \notin Seen
      BY <1>0, <1>3, <2>4 DEF KeyOf
    <3>2. k \notin Executing
      <4>1. \A v \in Lanes : lane[v].pc = "run" => lane[v].cmd.key # k
        BY <1>0, <2>4, OneInside DEF IInv, KeyOf, Inside
      <4> QED
        BY <1>0, <4>1, ExecutingIs
    <3>3. Executing' = Executing \cup {k}
      BY <2>2, <2>4
    <3>4. Promise!Start(k)
      BY <1>1, <3>1, <3>2, <3>3 DEF Promise!Start
    <3> QED
      BY <3>1, <3>4 DEF Promise!Next
  <2> QED
    BY <2>3, <2>4
<1> QED
  BY <1>0, <1>2, <1>3, CheckMoves DEF IInv

\* A sequence without repetitions has as many elements as it is long.
LEMMA ElementCount ==
    ASSUME NEW q \in Seq(Keys), Injective(q)
    PROVE  Cardinality(Elements(q)) = Len(q)
<1>1. q \in [1 .. Len(q) -> Elements(q)] /\ Len(q) \in Nat
  BY DEF Elements
<1>2. q \in Bijection(1 .. Len(q), Elements(q))
  BY <1>1 DEF Bijection, Injection, Surjection, IsInjective, Injective, Elements
<1>3. ExistsBijection(1 .. Len(q), Elements(q))
  BY <1>2 DEF ExistsBijection
<1> QED
  BY <1>1, <1>3, FS_CountingElements

\* The promise counts what it remembers as the store does.
LEMMA SameCount == \A S : Promise!Cardinality(S) = Cardinality(S)
  BY DEF Promise!Cardinality, Cardinality

\* The executor's result ends the execution of its key; a success is remembered.
LEMMA ExecuteRefines ==
    ASSUME IInv, IInv', NEW w \in Lanes, Execute(w)
    PROVE  Promise!Next \/ UNCHANGED <<Executing, Seen>>
<1> DEFINE k == lane[w].cmd.key
<1>0. /\ lane \in [Lanes -> LaneRecord] /\ lane' \in [Lanes -> LaneRecord]
      /\ lane[w].pc = "run" /\ lane[w].cmd \in Deliveries
  BY DEF IInv, Typed, Execute, At, LaneShape
<1>1. /\ \A v \in Lanes : v # w => lane'[v] = lane[v]
      /\ lane'[w].pc = "unlock"
      /\ order' = order \/ (k # NoKey /\ order' = Remember(k))
  BY ExecuteMoves DEF IInv, Moved, KeyOf
<1>2. CASE k = NoKey
  <2>1. \A x : x \in Executing' <=> x \in Executing
    BY <1>0, <1>1, <1>2, ExecutingIs
  <2>2. Executing' = Executing
    BY <2>1
  <2>3. Seen' = Seen
    BY <1>1, <1>2 DEF Seen
  <2> QED
    BY <2>2, <2>3
<1>3. CASE k # NoKey
  <2>1. k \in Keys /\ k \notin Seen
    BY <1>0, <1>3 DEF IInv, StoreIsExact
  <2>2. \A v \in Lanes : lane[v].pc = "run" /\ lane[v].cmd.key = k => v = w
    BY <1>0, <1>3, OneInside DEF IInv, KeyOf, Inside
  <2>3. k \in Executing
    BY <1>0, <1>3, ExecutingIs
  <2>4. \A x : x \in Executing' <=> x \in Executing /\ x # k
    BY <1>0, <1>1, <2>2, ExecutingIs
  <2>5. Executing' = Executing \ {k}
    BY <2>4
  <2>6. CASE order' = order
    <3>1. Seen' = Seen
      BY <2>6 DEF Seen
    <3>2. Promise!Fail(k)
      BY <2>3, <2>5, <3>1 DEF Promise!Fail
    <3> QED
      BY <2>1, <3>2 DEF Promise!Next
  <2>7. CASE order' = Remember(k)
    <3>1. /\ order \in Seq(Keys) /\ Injective(order) /\ Len(order) <= Capacity /\ Len(order) \in Nat
      BY DEF IInv, Typed, StoreIsExact
    <3>2. /\ order' \in Seq(Keys) /\ Injective(order')
          /\ Elements(order') \subseteq Seen \cup {k}
          /\ Len(order') = IF Len(order) < Capacity THEN Len(order) + 1 ELSE Capacity
      BY <2>1, <2>7, <3>1, RememberShape
    <3>3. Seen = Elements(order) /\ Seen' = Elements(order')
      BY DEF Seen, Elements
    <3>4. Cardinality(Seen) = Len(order)
      BY <3>1, <3>3, ElementCount
    <3>5. Cardinality(Seen') = Len(order')
      BY <3>2, <3>3, ElementCount
    <3>6. Cardinality(Seen') =
             IF Cardinality(Seen) < Capacity THEN Cardinality(Seen) + 1 ELSE Capacity
      BY <3>2, <3>4, <3>5
    <3>7. Seen' \subseteq Seen \cup {k}
      BY <3>2, <3>3
    <3>8. Promise!Succeed(k)
      BY <2>3, <2>5, <3>6, <3>7, SameCount DEF Promise!Succeed
    <3> QED
      BY <2>1, <3>8 DEF Promise!Next
  <2> QED
    BY <1>1, <2>6, <2>7
<1> QED
  BY <1>2, <1>3

\* Every other step is a stuttering step of the promise.
LEMMA LaneStepRefines ==
    ASSUME IInv, IInv', NEW w \in Lanes, LaneStep(w)
    PROVE  Promise!Next \/ UNCHANGED <<Executing, Seen>>
<1> USE DEF IInv
<1>0. lane \in [Lanes -> LaneRecord] /\ lane' \in [Lanes -> LaneRecord]
  BY DEF Typed
<1>1. ASSUME UNCHANGED order, lane[w].pc # "run",
             \E pc \in LanePcs \ {"run"} : \E cmd, gate : Moved(w, pc, cmd, gate)
      PROVE  UNCHANGED <<Executing, Seen>>
  <2>1. Seen' = Seen
    BY <1>1 DEF Seen
  <2> QED
    BY <1>0, <1>1, <2>1, ExecutingKept
<1>2. CASE Receive(w)
  <2>1. UNCHANGED order /\ lane[w].pc # "run"
    BY <1>2 DEF Receive, At
  <2> QED
    BY <1>1, <1>2, <2>1, ReceiveMoves DEF LanePcs
<1>3. CASE TakeGate(w)
  <2>1. UNCHANGED order /\ lane[w].pc # "run"
    BY <1>3 DEF TakeGate, At
  <2>2. \E pc \in {"stopped", "check", "waitGate"} : \E cmd, gate : Moved(w, pc, cmd, gate)
    BY <1>3, TakeGateMoves
  <2> QED
    BY <1>1, <2>1, <2>2 DEF LanePcs
<1>4. CASE LockGate(w)
  <2>1. UNCHANGED order /\ lane[w].pc # "run"
    BY <1>4 DEF LockGate, At
  <2> QED
    BY <1>1, <1>4, <2>1, LockGateMoves DEF LanePcs
<1>5. CASE Unlock(w)
  <2>1. UNCHANGED order /\ lane[w].pc # "run"
    BY <1>5 DEF Unlock, At
  <2> QED
    BY <1>1, <1>5, <2>1, UnlockMoves DEF LanePcs
<1>6. CASE DropRef(w)
  <2>1. UNCHANGED order /\ lane[w].pc # "run"
    BY <1>6 DEF DropRef, At
  <2> QED
    BY <1>1, <1>6, <2>1, DropRefMoves DEF LanePcs
<1>7. CASE Deregister(w)
  <2>1. UNCHANGED order /\ lane[w].pc # "run"
    BY <1>7 DEF Deregister, At
  <2> QED
    BY <1>1, <1>7, <2>1, DeregisterMoves DEF LanePcs
<1>8. CASE Acknowledge(w)
  <2>1. UNCHANGED order /\ lane[w].pc # "run"
    BY <1>8 DEF Acknowledge, At
  <2> QED
    BY <1>1, <1>8, <2>1, AcknowledgeMoves DEF LanePcs
<1> QED
  BY <1>2, <1>3, <1>4, <1>5, <1>6, <1>7, <1>8, CheckRefines, ExecuteRefines DEF LaneStep

\* Whatever the panel sends again, however sessions overlap and end, and whatever the
\* store has forgotten, the lanes execute a keyed command one at a time, never while its
\* success is remembered, and forget only under the pressure of newer successes.
THEOREM Refinement == Spec => Idempotent
<1>1. Init => Promise!Init
  <2> SUFFICES ASSUME Init PROVE Executing = {} /\ Seen = {}
    BY DEF Promise!Init
  <2>1. \A w \in Lanes : lane[w].pc = "recv"
    BY DEF Init, Idle
  <2>2. Executing = {}
    BY <2>1 DEF Init, Executing, At
  <2>3. Seen = {}
    BY DEF Init, Seen
  <2> QED
    BY <2>2, <2>3
<1>2. IInv /\ IInv' /\ [Next]_vars => [Promise!Next]_<<Executing, Seen>>
  <2> SUFFICES ASSUME IInv, IInv', [Next]_vars
               PROVE  Promise!Next \/ UNCHANGED <<Executing, Seen>>
    OBVIOUS
  <2>1. CASE UNCHANGED <<lane, order>>
    BY <2>1 DEF Executing, Seen, At, KeyOf
  <2>2. ASSUME NEW s \in Sessions, NEW d \in Deliveries, Deliver(s, d)
        PROVE  UNCHANGED <<lane, order>>
    BY <2>2 DEF Deliver
  <2>3. ASSUME NEW s \in Sessions, ReaderStep(s) \/ Forward(s) \/ EndSession(s)
        PROVE  UNCHANGED <<lane, order>>
    BY <2>3 DEF ReaderStep, Accept, RefuseFull, Forward, EndSession
  <2>4. CASE UNCHANGED vars
    BY <2>1, <2>4 DEF vars
  <2> QED
    BY <2>1, <2>2, <2>3, <2>4, LaneStepRefines DEF Next, Terminated
<1> QED
  BY <1>1, <1>2, Invariance, PTL DEF Spec, Idempotent, Promise!Spec

=============================================================================
