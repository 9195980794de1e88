-------------------------- MODULE ControlWorkerLemmas --------------------------
(***************************************************************************)
(* The inductive invariant of ControlWorker, and what its steps do to each *)
(* part of it: to the records of the lanes, to the store, to the way of a  *)
(* command and to the gates.                                               *)
(***************************************************************************)
EXTENDS ControlWorker, TLAPS

USE WorkerAssumption

-----------------------------------------------------------------------------
(* The inductive invariant. *)

LanePcs == {"recv", "gate", "waitGate", "check", "run", "unlock", "dropRef", "deregister", "ack",
            "stopped"}

LaneRecord == [pc : LanePcs, cmd : Deliveries \cup {None}, gate : Gates \cup {None},
               ack : Terminal \cup {None}]
ReaderRecord == [pc : {"idle", "accept", "full"}, cmd : Deliveries \cup {None}]

\* acks and acked play no part in what follows.
Typed ==
    /\ delivered \subseteq Deliveries
    /\ reader \in [Sessions -> ReaderRecord]
    /\ queue \in [Lanes -> Seq(Deliveries)]
    /\ lane \in [Lanes -> LaneRecord]
    /\ registry \in [Keys -> Gates \cup {None}]
    /\ holder \in [Gates -> Lanes \cup {None}]
    /\ order \in Seq(Keys)

\* A command on its way to a lane is in the hands of one reader, at one place of
\* one queue, or at the gate of one lane.
OneWay ==
    /\ \A s \in Sessions : reader[s].pc = "accept" =>
          /\ reader[s].cmd \in delivered
          /\ \A t \in Sessions : reader[t].pc = "accept" /\ reader[t].cmd = reader[s].cmd => t = s
          /\ \A w \in Lanes : lane[w].pc = "gate" => lane[w].cmd # reader[s].cmd
          /\ \A w \in Lanes : \A i \in 1 .. Len(queue[w]) : queue[w][i] # reader[s].cmd
    /\ \A w \in Lanes : \A i \in 1 .. Len(queue[w]) :
          /\ queue[w][i] \in delivered
          /\ \A v \in Lanes : lane[v].pc = "gate" => lane[v].cmd # queue[w][i]
          /\ \A v \in Lanes : \A j \in 1 .. Len(queue[v]) :
                queue[v][j] = queue[w][i] => v = w /\ j = i
    /\ \A w \in Lanes : lane[w].pc = "gate" =>
          /\ lane[w].cmd \in delivered
          /\ \A v \in Lanes : lane[v].pc = "gate" /\ lane[v].cmd = lane[w].cmd => v = w

Used(g) == (\E w \in Lanes : lane[w].gate = g) \/ (\E k \in Keys : registry[k] = g)

\* A gate in use was created by a command that is past the gate.
GatesAreOld ==
    \A g \in Gates : Used(g) =>
        /\ g \in delivered
        /\ \A s \in Sessions : reader[s].pc = "accept" => reader[s].cmd # g
        /\ \A w \in Lanes : \A i \in 1 .. Len(queue[w]) : queue[w][i] # g
        /\ \A w \in Lanes : lane[w].pc = "gate" => lane[w].cmd # g

Inside == {"check", "run", "unlock"}

\* The lanes that have a gate, and those that need none.
LaneShape ==
    \A w \in Lanes :
        /\ lane[w].pc \notin {"recv", "stopped"} => lane[w].cmd \in Deliveries
        /\ lane[w].pc \in {"recv", "gate", "ack", "stopped"} => lane[w].gate = None
        /\ lane[w].pc \in {"waitGate", "dropRef", "deregister"} => lane[w].gate # None
        /\ lane[w].pc \in Inside /\ KeyOf(w) # NoKey => lane[w].gate # None
        /\ lane[w].gate # None => KeyOf(w) \in Keys

\* A live gate is the registered one of its key; one whose destructor runs has no
\* reference left; who is inside owns the mutex.
GatesAreShared ==
    \A w \in Lanes : lane[w].gate # None =>
        /\ lane[w].pc # "deregister" => registry[lane[w].cmd.key] = lane[w].gate
        /\ lane[w].pc = "deregister" =>
              \A v \in Lanes : lane[v].gate = lane[w].gate => lane[v].pc = "deregister"
        /\ lane[w].pc \in Inside => holder[lane[w].gate] = w

Injective(q) == \A i, j \in 1 .. Len(q) : q[i] = q[j] => i = j

\* The store remembers every key once, within its capacity, and none that is
\* being executed.
StoreIsExact ==
    /\ Injective(order) /\ Len(order) <= Capacity
    /\ \A w \in Lanes : lane[w].pc = "run" => lane[w].cmd.key \notin Seen

IInv == Typed /\ OneWay /\ GatesAreOld /\ LaneShape /\ GatesAreShared /\ StoreIsExact

-----------------------------------------------------------------------------
(* Sequences. *)

\* What a queue looks like after a command was taken from its front.
LEMMA HeadTail ==
    ASSUME NEW S, NEW q \in Seq(S), q # <<>>
    PROVE  /\ Head(q) \in S /\ Tail(q) \in Seq(S) /\ Len(Tail(q)) = Len(q) - 1
           /\ \A i \in 1 .. Len(Tail(q)) : Tail(q)[i] = q[i + 1]
  OBVIOUS

\* What a queue or the store looks like after something was added at its end.
LEMMA Appended ==
    ASSUME NEW S, NEW q \in Seq(S), NEW e \in S
    PROVE  /\ Append(q, e) \in Seq(S) /\ Len(Append(q, e)) = Len(q) + 1
           /\ \A i \in 1 .. Len(q) : Append(q, e)[i] = q[i]
           /\ Append(q, e)[Len(q) + 1] = e
  OBVIOUS

\* The store without its oldest entries.
LEMMA Suffix ==
    ASSUME NEW S, NEW q \in Seq(S), NEW m \in Nat \ {0}, m <= Len(q) + 1
    PROVE  /\ SubSeq(q, m, Len(q)) \in Seq(S) /\ Len(SubSeq(q, m, Len(q))) = Len(q) - m + 1
           /\ \A i \in 1 .. Len(q) - m + 1 : SubSeq(q, m, Len(q))[i] = q[m + i - 1]
  OBVIOUS

-----------------------------------------------------------------------------
(* Types. *)

\* What a step of lane w does to the lanes.
Moved(w, pc, cmd, gate) ==
    /\ \A v \in Lanes : v # w => lane'[v] = lane[v]
    /\ lane'[w].pc = pc /\ lane'[w].cmd = cmd /\ lane'[w].gate = gate

\* A lane is moved by assigning it a record, or some fields of its record.
LEMMA LaneAssigned ==
    ASSUME Typed, NEW w \in Lanes, NEW r \in LaneRecord, lane' = [lane EXCEPT ![w] = r]
    PROVE  lane' \in [Lanes -> LaneRecord] /\ Moved(w, r.pc, r.cmd, r.gate)
  BY DEF Typed, LaneRecord, Moved

\* The record of a lane is a lane record.
LEMMA LaneTyped ==
    ASSUME Typed, NEW w \in Lanes
    PROVE  lane[w] \in LaneRecord
  BY DEF Typed, LaneRecord

\* The lane moves of the worker: what each of them does to its lane, as a value of Moved.
\* A lane that goes on keeps its command and its gate.
LEMMA GotoMoves ==
    ASSUME Typed, NEW w \in Lanes, NEW pc \in LanePcs, Goto(w, pc)
    PROVE  lane' \in [Lanes -> LaneRecord] /\ Moved(w, pc, lane[w].cmd, lane[w].gate)
<1> DEFINE r == [lane[w] EXCEPT !.pc = pc]
<1>1. lane[w] \in LaneRecord
  BY DEF Typed, LaneRecord
<1>2. r \in LaneRecord /\ r.pc = pc /\ r.cmd = lane[w].cmd /\ r.gate = lane[w].gate
  BY <1>1 DEF LaneRecord
<1>3. lane' = [lane EXCEPT ![w] = r]
  BY DEF Goto
<1> HIDE DEF r
<1> QED
  BY <1>2, <1>3, LaneAssigned

\* A lane that finds its session cancelled stops with nothing in its hands.
LEMMA LeaveMoves ==
    ASSUME Typed, NEW w \in Lanes, Leave(w)
    PROVE  /\ lane' \in [Lanes -> LaneRecord] /\ Moved(w, "stopped", None, None)
           /\ queue' \in [Lanes -> Seq(Deliveries)] /\ queue'[w] = <<>>
           /\ \A v \in Lanes : v # w => queue'[v] = queue[v]
<1> DEFINE r == [Idle EXCEPT !.pc = "stopped"]
<1>1. r \in LaneRecord /\ r.pc = "stopped" /\ r.cmd = None /\ r.gate = None
  BY DEF Idle, LaneRecord, LanePcs
<1>2. lane' = [lane EXCEPT ![w] = r] /\ queue' = [queue EXCEPT ![w] = <<>>]
  BY DEF Leave
<1>3. <<>> \in Seq(Deliveries)
  OBVIOUS
<1>4. /\ queue' \in [Lanes -> Seq(Deliveries)] /\ queue'[w] = <<>>
      /\ \A v \in Lanes : v # w => queue'[v] = queue[v]
  BY <1>2, <1>3 DEF Typed
<1>5. lane' \in [Lanes -> LaneRecord] /\ Moved(w, r.pc, r.cmd, r.gate)
  BY <1>1, <1>2, LaneAssigned
<1> HIDE DEF r
<1> QED
  BY <1>1, <1>4, <1>5

\* The steps of a lane, in terms of what they move.
LEMMA ReceiveMoves ==
    ASSUME Typed, NEW w \in Lanes, Receive(w)
    PROVE  /\ lane' \in [Lanes -> LaneRecord] /\ queue' \in [Lanes -> Seq(Deliveries)]
           /\ \A v \in Lanes : v # w => queue'[v] = queue[v]
           /\ \/ Moved(w, "stopped", None, None) /\ queue'[w] = <<>>
              \/ /\ queue[w] # <<>> /\ queue'[w] = Tail(queue[w])
                 /\ Moved(w, "gate", Head(queue[w]), lane[w].gate)
<1>1. CASE Leave(w)
  BY <1>1, LeaveMoves
<1>2. CASE /\ queue[w] # <<>>
           /\ lane' = [lane EXCEPT ![w].pc = "gate", ![w].cmd = Head(queue[w])]
           /\ queue' = [queue EXCEPT ![w] = Tail(@)]
  <2>1. queue[w] \in Seq(Deliveries) /\ lane[w] \in LaneRecord
    BY DEF Typed, LaneRecord
  <2>2. Head(queue[w]) \in Deliveries /\ Tail(queue[w]) \in Seq(Deliveries)
    BY <1>2, <2>1, HeadTail
  <2> DEFINE r == [lane[w] EXCEPT !.pc = "gate", !.cmd = Head(queue[w])]
  <2>3. lane' = [lane EXCEPT ![w] = r]
    BY <1>2 DEF Typed
  <2>4. r \in LaneRecord /\ r.pc = "gate" /\ r.cmd = Head(queue[w]) /\ r.gate = lane[w].gate
    BY <2>1, <2>2 DEF LaneRecord, LanePcs
  <2>5. /\ queue' \in [Lanes -> Seq(Deliveries)] /\ queue'[w] = Tail(queue[w])
        /\ \A v \in Lanes : v # w => queue'[v] = queue[v]
    BY <1>2, <2>2 DEF Typed
  <2>6. lane' \in [Lanes -> LaneRecord] /\ Moved(w, r.pc, r.cmd, r.gate)
    BY <2>3, <2>4, LaneAssigned
  <2> HIDE DEF r
  <2> QED
    BY <1>2, <2>4, <2>5, <2>6
<1> QED
  BY <1>1, <1>2 DEF Receive

\* Asking the registry for the gate of a key: none is needed, or it is found, or it is created.
LEMMA TakeGateMoves ==
    ASSUME Typed, LaneShape, NEW w \in Lanes, TakeGate(w)
    PROVE  /\ lane' \in [Lanes -> LaneRecord] /\ queue' \in [Lanes -> Seq(Deliveries)]
           /\ registry' \in [Keys -> Gates \cup {None}]
           /\ \A v \in Lanes : queue'[v] = queue[v] \/ queue'[v] = <<>>
           /\ \/ Moved(w, "stopped", None, None) /\ UNCHANGED registry
              \/ /\ KeyOf(w) = NoKey /\ Moved(w, "check", lane[w].cmd, None)
                 /\ UNCHANGED <<registry, queue>>
              \/ /\ KeyOf(w) \in Keys /\ UNCHANGED queue
                 /\ \/ /\ Refs(registry[KeyOf(w)]) # {} /\ registry[KeyOf(w)] \in Gates
                       /\ Moved(w, "waitGate", lane[w].cmd, registry[KeyOf(w)])
                       /\ UNCHANGED registry
                    \/ /\ registry[KeyOf(w)] = None \/ Refs(registry[KeyOf(w)]) = {}
                       /\ Moved(w, "waitGate", lane[w].cmd, lane[w].cmd)
                       /\ registry'[KeyOf(w)] = lane[w].cmd
                       /\ \A k \in Keys : k # KeyOf(w) => registry'[k] = registry[k]
<1> DEFINE d == lane[w].cmd
           g == IF registry[d.key] # None /\ Refs(registry[d.key]) # {} THEN registry[d.key] ELSE d
<1>1. lane[w].pc = "gate" /\ d \in Deliveries /\ d.key \in Keys \cup {NoKey} /\ lane[w].gate = None
  BY DEF TakeGate, LaneShape, At
<1>2. CASE Leave(w) /\ UNCHANGED registry
  BY <1>2, LeaveMoves DEF Typed
<1>3. CASE d.key = NoKey /\ Goto(w, "check") /\ UNCHANGED <<registry, queue>>
  BY <1>1, <1>3, GotoMoves DEF Typed, LanePcs, KeyOf
<1>4. CASE /\ d.key # NoKey
           /\ registry' = [registry EXCEPT ![d.key] = g]
           /\ lane' = [lane EXCEPT ![w].pc = "waitGate", ![w].gate = g]
           /\ UNCHANGED queue
  <2>1. d.key \in Keys /\ registry[d.key] \in Gates \cup {None} /\ lane[w] \in LaneRecord
    BY <1>1, <1>4 DEF Typed, LaneRecord
  <2>2. g \in Gates
    BY <1>1, <2>1 DEF Gates
  <2> DEFINE r == [lane[w] EXCEPT !.pc = "waitGate", !.gate = g]
  <2> HIDE DEF g
  <2>3. lane' = [lane EXCEPT ![w] = r]
    BY <1>4 DEF Typed
  <2>4. r \in LaneRecord /\ r.pc = "waitGate" /\ r.cmd = d /\ r.gate = g
    BY <2>1, <2>2 DEF LaneRecord, LanePcs
  <2>5. lane' \in [Lanes -> LaneRecord] /\ Moved(w, "waitGate", d, g)
    <3> HIDE DEF r, d
    <3> QED
      BY <2>3, <2>4, LaneAssigned
  <2>6. /\ registry' \in [Keys -> Gates \cup {None}] /\ registry'[d.key] = g
        /\ \A k \in Keys : k # d.key => registry'[k] = registry[k]
    BY <1>4, <2>1, <2>2 DEF Typed
  <2>7. CASE registry[d.key] # None /\ Refs(registry[d.key]) # {}
    <3>1. g = registry[d.key]
      BY <2>7 DEF g
    <3>2. UNCHANGED registry
      BY <1>4, <3>1, <2>1 DEF Typed
    <3> QED
      BY <1>4, <2>1, <2>2, <2>5, <2>6, <2>7, <3>1, <3>2 DEF Typed, KeyOf
  <2>8. CASE registry[d.key] = None \/ Refs(registry[d.key]) = {}
    <3>1. g = d
      BY <2>8 DEF g
    <3> QED
      BY <1>4, <2>1, <2>5, <2>6, <2>8, <3>1 DEF Typed, KeyOf
  <2> QED
    BY <2>7, <2>8
<1> QED
  BY <1>1, <1>2, <1>3, <1>4 DEF TakeGate

\* A lane that gets the lock of its gate goes on to look at the store.
LEMMA LockGateMoves ==
    ASSUME Typed, LaneShape, NEW w \in Lanes, LockGate(w)
    PROVE  /\ lane' \in [Lanes -> LaneRecord] /\ holder' \in [Gates -> Lanes \cup {None}]
           /\ lane[w].gate \in Gates
           /\ \/ Moved(w, "dropRef", lane[w].cmd, lane[w].gate) /\ UNCHANGED holder
              \/ /\ Moved(w, "check", lane[w].cmd, lane[w].gate)
                 /\ holder[lane[w].gate] = None /\ holder'[lane[w].gate] = w
                 /\ \A g \in Gates : g # lane[w].gate => holder'[g] = holder[g]
<1>1. lane[w].gate \in Gates
  BY LaneTyped DEF LockGate, At, LaneShape, LaneRecord
<1>2. CASE Goto(w, "dropRef") /\ UNCHANGED holder
  BY <1>1, <1>2, GotoMoves DEF Typed, LanePcs
<1>3. CASE /\ holder[lane[w].gate] = None
           /\ holder' = [holder EXCEPT ![lane[w].gate] = w]
           /\ Goto(w, "check")
  BY <1>1, <1>3, GotoMoves DEF Typed, LanePcs
<1> QED
  BY <1>2, <1>3 DEF LockGate

\* With the lock, either the success is remembered and the lane releases, or it executes.
LEMMA CheckMoves ==
    ASSUME Typed, NEW w \in Lanes, Check(w)
    PROVE  /\ lane' \in [Lanes -> LaneRecord]
           /\ \/ Moved(w, "unlock", lane[w].cmd, lane[w].gate)
              \/ KeyOf(w) \notin Seen /\ Moved(w, "run", lane[w].cmd, lane[w].gate)
<1>1. CASE Goto(w, "unlock") \/ (KeyOf(w) \notin Seen /\ Goto(w, "run"))
  BY <1>1, GotoMoves DEF LanePcs
<1>2. CASE lane' = [lane EXCEPT ![w].pc = "unlock", ![w].ack = "Applied"]
  <2> DEFINE r == [lane[w] EXCEPT !.pc = "unlock", !.ack = "Applied"]
  <2>1. r \in LaneRecord /\ r.pc = "unlock" /\ r.cmd = lane[w].cmd /\ r.gate = lane[w].gate
    BY LaneTyped DEF LaneRecord, LanePcs, Terminal
  <2>2. lane' = [lane EXCEPT ![w] = r]
    BY <1>2 DEF Typed
  <2> HIDE DEF r
  <2> QED
    BY <2>1, <2>2, LaneAssigned
<1> QED
  BY <1>1, <1>2 DEF Check

\* An execution ends with the lock still held; a success of a keyed command is remembered.
LEMMA ExecuteMoves ==
    ASSUME Typed, NEW w \in Lanes, Execute(w)
    PROVE  /\ lane' \in [Lanes -> LaneRecord] /\ Moved(w, "unlock", lane[w].cmd, lane[w].gate)
           /\ order' = order \/ (KeyOf(w) # NoKey /\ order' = Remember(KeyOf(w)))
<1>1. PICK result \in Terminal :
        /\ lane' = [lane EXCEPT ![w].pc = "unlock", ![w].ack = result]
        /\ order' = IF Remembers(w, result) THEN Remember(KeyOf(w)) ELSE order
  BY DEF Execute
<1> DEFINE r == [lane[w] EXCEPT !.pc = "unlock", !.ack = result]
<1>2. r \in LaneRecord /\ r.pc = "unlock" /\ r.cmd = lane[w].cmd /\ r.gate = lane[w].gate
  BY LaneTyped DEF LaneRecord, LanePcs
<1>3. lane' = [lane EXCEPT ![w] = r]
  BY <1>1 DEF Typed
<1>4. order' = order \/ (KeyOf(w) # NoKey /\ order' = Remember(KeyOf(w)))
  BY <1>1 DEF Remembers
<1> HIDE DEF r
<1> QED
  BY <1>2, <1>3, <1>4, LaneAssigned

\* The lock is given up while the lane still refers to the gate.
LEMMA UnlockMoves ==
    ASSUME Typed, NEW w \in Lanes, Unlock(w)
    PROVE  /\ lane' \in [Lanes -> LaneRecord] /\ holder' \in [Gates -> Lanes \cup {None}]
           /\ \/ lane[w].gate = None /\ Moved(w, "ack", lane[w].cmd, None) /\ UNCHANGED holder
              \/ /\ lane[w].gate \in Gates /\ Moved(w, "dropRef", lane[w].cmd, lane[w].gate)
                 /\ \A g \in Gates : g # lane[w].gate => holder'[g] = holder[g]
<1>1. CASE lane[w].gate = None /\ Goto(w, "ack") /\ UNCHANGED holder
  BY <1>1, GotoMoves DEF Typed, LanePcs
<1>2. CASE /\ lane[w].gate # None
           /\ holder' = [holder EXCEPT ![lane[w].gate] = None]
           /\ Goto(w, "dropRef")
  <2>1. lane[w].gate \in Gates
    BY <1>2, LaneTyped DEF LaneRecord
  <2> QED
    BY <1>2, <2>1, GotoMoves DEF Typed, LanePcs
<1> QED
  BY <1>1, <1>2 DEF Unlock

\* A lane that releases its gate keeps its command, to acknowledge it.
LEMMA ReleaseMoves ==
    ASSUME Typed, NEW w \in Lanes, lane' = [lane EXCEPT ![w].pc = "ack", ![w].gate = None]
    PROVE  lane' \in [Lanes -> LaneRecord] /\ Moved(w, "ack", lane[w].cmd, None)
<1> DEFINE r == [lane[w] EXCEPT !.pc = "ack", !.gate = None]
<1>1. r \in LaneRecord /\ r.pc = "ack" /\ r.cmd = lane[w].cmd /\ r.gate = None
  BY LaneTyped DEF LaneRecord, LanePcs
<1>2. lane' = [lane EXCEPT ![w] = r]
  BY DEF Typed
<1>3. lane' \in [Lanes -> LaneRecord] /\ Moved(w, r.pc, r.cmd, r.gate)
  BY <1>1, <1>2, LaneAssigned
<1> HIDE DEF r
<1> QED
  BY <1>1, <1>3

\* The last reference to a gate goes on to deregister it, any other is just dropped.
LEMMA DropRefMoves ==
    ASSUME Typed, NEW w \in Lanes, DropRef(w)
    PROVE  /\ lane' \in [Lanes -> LaneRecord]
           /\ \/ /\ Refs(lane[w].gate) = {w}
                 /\ Moved(w, "deregister", lane[w].cmd, lane[w].gate)
              \/ Moved(w, "ack", lane[w].cmd, None)
<1>1. CASE Refs(lane[w].gate) = {w} /\ Goto(w, "deregister")
  BY <1>1, GotoMoves DEF LanePcs
<1>2. CASE lane' = [lane EXCEPT ![w].pc = "ack", ![w].gate = None]
  BY <1>2, ReleaseMoves
<1> QED
  BY <1>1, <1>2 DEF DropRef

\* The last lane to use a gate leaves it, whether the registry still names it or not.
LEMMA DeregisterMoves ==
    ASSUME Typed, LaneShape, NEW w \in Lanes, Deregister(w)
    PROVE  /\ lane' \in [Lanes -> LaneRecord] /\ registry' \in [Keys -> Gates \cup {None}]
           /\ Moved(w, "ack", lane[w].cmd, None)
           /\ KeyOf(w) \in Keys
           /\ \A k \in Keys : \/ registry'[k] = registry[k]
                              \/ /\ k = KeyOf(w) /\ registry[k] = lane[w].gate
                                 /\ registry'[k] = None
<1>1. KeyOf(w) \in Keys
  BY DEF Deregister, At, LaneShape
<1>2. lane' \in [Lanes -> LaneRecord] /\ Moved(w, "ack", lane[w].cmd, None)
  BY ReleaseMoves DEF Deregister
<1>3. registry' = [registry EXCEPT ![KeyOf(w)] =
                      IF registry[KeyOf(w)] = lane[w].gate THEN None ELSE registry[KeyOf(w)]]
  BY DEF Deregister
<1>4. /\ registry' \in [Keys -> Gates \cup {None}]
      /\ \A k \in Keys : \/ registry'[k] = registry[k]
                         \/ k = KeyOf(w) /\ registry[k] = lane[w].gate /\ registry'[k] = None
  BY <1>1, <1>3 DEF Typed
<1> QED
  BY <1>1, <1>2, <1>4

\* The acknowledgement frees the lane for the next command.
LEMMA AcknowledgeMoves ==
    ASSUME Typed, NEW w \in Lanes, Acknowledge(w)
    PROVE  /\ lane' \in [Lanes -> LaneRecord] /\ queue' \in [Lanes -> Seq(Deliveries)]
           /\ \A v \in Lanes : queue'[v] = queue[v] \/ queue'[v] = <<>>
           /\ \E pc \in {"stopped", "recv"} : Moved(w, pc, None, None)
<1>1. CASE Leave(w)
  BY <1>1, LeaveMoves
<1>2. CASE lane' = [lane EXCEPT ![w] = Idle] /\ UNCHANGED queue
  <2>1. Idle \in LaneRecord /\ Idle.pc = "recv" /\ Idle.cmd = None /\ Idle.gate = None
    BY DEF Idle, LaneRecord, LanePcs
  <2>2. lane' \in [Lanes -> LaneRecord] /\ Moved(w, Idle.pc, Idle.cmd, Idle.gate)
    BY <1>2, <2>1, LaneAssigned
  <2> QED
    BY <1>2, <2>1, <2>2 DEF Typed
<1> QED
  BY <1>1, <1>2 DEF Acknowledge

-----------------------------------------------------------------------------
(* The store. *)

Elements(q) == {q[i] : i \in 1 .. Len(q)}

\* Remembering a new key keeps the store free of repetitions and within its
\* capacity, adds that key only, and forgets no more than it must.
LEMMA RememberShape ==
    ASSUME order \in Seq(Keys), Injective(order), Len(order) <= Capacity,
           NEW k \in Keys, k \notin Seen
    PROVE  /\ Remember(k) \in Seq(Keys) /\ Injective(Remember(k))
           /\ Elements(Remember(k)) \subseteq Seen \cup {k}
           /\ Len(Remember(k)) = IF Len(order) < Capacity THEN Len(order) + 1 ELSE Capacity
<1> DEFINE n == Len(order)
           o == Append(order, k)
<1>1. /\ o \in Seq(Keys) /\ Len(o) = n + 1 /\ n \in Nat
      /\ \A i \in 1 .. n : o[i] = order[i]
      /\ o[n + 1] = k
  BY Appended
<1>2. \A i \in 1 .. n + 1 : o[i] \in Keys /\ o[i] \in Seen \cup {k}
  BY <1>1 DEF Seen
<1>3. \A i, j \in 1 .. n + 1 : o[i] = o[j] => i = j
  BY <1>1 DEF Seen, Injective
<1>4. Remember(k) = IF Len(o) > Capacity THEN SubSeq(o, Len(o) - Capacity + 1, Len(o)) ELSE o
  BY DEF Remember
<1> HIDE DEF o
<1>5. CASE n < Capacity
  <2>1. Remember(k) = o
    BY <1>1, <1>4, <1>5
  <2> QED
    BY <1>1, <1>2, <1>3, <1>5, <2>1 DEF Injective, Elements
<1>6. CASE n = Capacity
  <2>1. Remember(k) = SubSeq(o, 2, n + 1)
    BY <1>1, <1>4, <1>6
  <2> DEFINE q == SubSeq(o, 2, n + 1)
  <2>2. /\ q \in Seq(Keys) /\ Len(q) = n
        /\ \A i \in 1 .. n : q[i] = o[i + 1]
    BY <1>1, <1>2, Suffix
  <2> HIDE DEF q
  <2>3. Injective(q)
    BY <1>1, <1>3, <2>2 DEF Injective
  <2>4. Elements(q) \subseteq Seen \cup {k}
    BY <1>1, <1>2, <2>2 DEF Elements
  <2>5. Remember(k) = q
    BY <2>1 DEF q
  <2> QED
    BY <1>6, <2>2, <2>3, <2>4, <2>5
<1> QED
  BY <1>1, <1>5, <1>6

-----------------------------------------------------------------------------
(* The way of a command. *)

\* A step that gives no command to a reader, a queue or a lane at its gate, and
\* uses no new gate, disturbs neither OneWay nor GatesAreOld.
LEMMA WaysShrink ==
    ASSUME OneWay, GatesAreOld, delivered \subseteq delivered',
           \A s \in Sessions : reader'[s].pc = "accept" => reader'[s] = reader[s],
           \A w \in Lanes : queue'[w] = queue[w] \/ queue'[w] = <<>>,
           \A w \in Lanes : lane'[w].pc = "gate" => lane'[w] = lane[w],
           \A g \in Gates : Used(g)' => Used(g)
    PROVE  OneWay' /\ GatesAreOld'
<1>1. \A w \in Lanes : \A i \in 1 .. Len(queue'[w]) :
         i \in 1 .. Len(queue[w]) /\ queue'[w][i] = queue[w][i]
  OBVIOUS
<1>2. \A w \in Lanes : lane'[w].pc = "gate" => lane[w].pc = "gate" /\ lane'[w].cmd = lane[w].cmd
  OBVIOUS
<1>3. OneWay'
  <2>1. ASSUME NEW s \in Sessions, reader'[s].pc = "accept"
        PROVE  /\ reader'[s].cmd \in delivered'
               /\ \A t \in Sessions :
                     reader'[t].pc = "accept" /\ reader'[t].cmd = reader'[s].cmd => t = s
               /\ \A w \in Lanes : lane'[w].pc = "gate" => lane'[w].cmd # reader'[s].cmd
               /\ \A w \in Lanes : \A i \in 1 .. Len(queue'[w]) : queue'[w][i] # reader'[s].cmd
    <3>1. reader'[s] = reader[s] /\ reader[s].pc = "accept"
      BY <2>1
    <3>2. /\ reader[s].cmd \in delivered
          /\ \A t \in Sessions : reader[t].pc = "accept" /\ reader[t].cmd = reader[s].cmd => t = s
          /\ \A w \in Lanes : lane[w].pc = "gate" => lane[w].cmd # reader[s].cmd
          /\ \A w \in Lanes : \A i \in 1 .. Len(queue[w]) : queue[w][i] # reader[s].cmd
      BY <3>1 DEF OneWay
    <3> QED
      BY <1>1, <1>2, <3>1, <3>2
  <2>2. ASSUME NEW w \in Lanes, NEW i \in 1 .. Len(queue'[w])
        PROVE  /\ queue'[w][i] \in delivered'
               /\ \A v \in Lanes : lane'[v].pc = "gate" => lane'[v].cmd # queue'[w][i]
               /\ \A v \in Lanes : \A j \in 1 .. Len(queue'[v]) :
                     queue'[v][j] = queue'[w][i] => v = w /\ j = i
    <3>1. i \in 1 .. Len(queue[w]) /\ queue'[w][i] = queue[w][i]
      BY <1>1
    <3>2. /\ queue[w][i] \in delivered
          /\ \A v \in Lanes : lane[v].pc = "gate" => lane[v].cmd # queue[w][i]
          /\ \A v \in Lanes : \A j \in 1 .. Len(queue[v]) :
                queue[v][j] = queue[w][i] => v = w /\ j = i
      BY <3>1 DEF OneWay
    <3> QED
      BY <1>1, <1>2, <3>1, <3>2
  <2>3. ASSUME NEW w \in Lanes, lane'[w].pc = "gate"
        PROVE  /\ lane'[w].cmd \in delivered'
               /\ \A v \in Lanes : lane'[v].pc = "gate" /\ lane'[v].cmd = lane'[w].cmd => v = w
    BY <1>2, <2>3 DEF OneWay
  <2> QED
    BY <2>1, <2>2, <2>3 DEF OneWay
<1>4. ASSUME NEW g \in Gates, Used(g)'
      PROVE  /\ g \in delivered'
             /\ \A s \in Sessions : reader'[s].pc = "accept" => reader'[s].cmd # g
             /\ \A w \in Lanes : \A i \in 1 .. Len(queue'[w]) : queue'[w][i] # g
             /\ \A w \in Lanes : lane'[w].pc = "gate" => lane'[w].cmd # g
  <2>1. Used(g)
    BY <1>4
  <2>2. /\ g \in delivered
        /\ \A s \in Sessions : reader[s].pc = "accept" => reader[s].cmd # g
        /\ \A w \in Lanes : \A i \in 1 .. Len(queue[w]) : queue[w][i] # g
        /\ \A w \in Lanes : lane[w].pc = "gate" => lane[w].cmd # g
    BY <2>1 DEF GatesAreOld
  <2>3. \A w \in Lanes : \A i \in 1 .. Len(queue'[w]) : queue'[w][i] # g
    BY <1>1, <2>2
  <2>4. \A s \in Sessions : reader'[s].pc = "accept" => reader'[s].cmd # g
    BY <2>2
  <2> QED
    BY <1>2, <2>2, <2>3, <2>4
<1> QED
  BY <1>3, <1>4 DEF GatesAreOld

\* A command that is delivered was nowhere before.
LEMMA DeliverWays ==
    ASSUME Typed, OneWay, GatesAreOld, NEW s \in Sessions, NEW d \in Deliveries, Deliver(s, d)
    PROVE  OneWay' /\ GatesAreOld'
<1>1. /\ d \notin delivered /\ delivered' = delivered \cup {d}
      /\ UNCHANGED <<queue, lane, registry>>
      /\ reader'[s].pc = "accept" /\ reader'[s].cmd = d
      /\ \A t \in Sessions : t # s => reader'[t] = reader[t]
  BY DEF Deliver, Typed, gates
<1>2. \A w \in Lanes : lane'[w].pc = "gate" <=> lane[w].pc = "gate"
  BY <1>1
<1>3. OneWay'
  <2>1. \A t \in Sessions : reader[t].pc = "accept" => reader[t].cmd # d
    BY <1>1 DEF OneWay
  <2>2. \A w \in Lanes : \A i \in 1 .. Len(queue[w]) : queue[w][i] # d
    BY <1>1 DEF OneWay
  <2>3. \A w \in Lanes : lane[w].pc = "gate" => lane[w].cmd # d
    BY <1>1 DEF OneWay
  <2>4. ASSUME NEW t \in Sessions, reader'[t].pc = "accept"
        PROVE  /\ reader'[t].cmd \in delivered'
               /\ \A u \in Sessions :
                     reader'[u].pc = "accept" /\ reader'[u].cmd = reader'[t].cmd => u = t
               /\ \A w \in Lanes : lane'[w].pc = "gate" => lane'[w].cmd # reader'[t].cmd
               /\ \A w \in Lanes : \A i \in 1 .. Len(queue'[w]) : queue'[w][i] # reader'[t].cmd
    <3>1. CASE t = s
      BY <1>1, <2>1, <2>2, <2>3, <3>1
    <3>2. CASE t # s
      <4>1. reader'[t] = reader[t] /\ reader[t].pc = "accept"
        BY <1>1, <2>4, <3>2
      <4>2. /\ reader[t].cmd \in delivered
            /\ \A u \in Sessions : reader[u].pc = "accept" /\ reader[u].cmd = reader[t].cmd => u = t
            /\ \A w \in Lanes : lane[w].pc = "gate" => lane[w].cmd # reader[t].cmd
            /\ \A w \in Lanes : \A i \in 1 .. Len(queue[w]) : queue[w][i] # reader[t].cmd
        BY <4>1 DEF OneWay
      <4> QED
        BY <1>1, <2>1, <4>1, <4>2
    <3> QED
      BY <3>1, <3>2
  <2> QED
    BY <1>1, <2>4 DEF OneWay
<1>4. ASSUME NEW g \in Gates, Used(g)'
      PROVE  /\ g \in delivered'
             /\ \A t \in Sessions : reader'[t].pc = "accept" => reader'[t].cmd # g
             /\ \A w \in Lanes : \A i \in 1 .. Len(queue'[w]) : queue'[w][i] # g
             /\ \A w \in Lanes : lane'[w].pc = "gate" => lane'[w].cmd # g
  <2>1. Used(g)
    BY <1>1, <1>4 DEF Used
  <2> QED
    BY <1>1, <1>2, <2>1 DEF GatesAreOld
<1> QED
  BY <1>3, <1>4 DEF GatesAreOld

\* The reader hands its command to the end of a queue.
LEMMA EnqueueWays ==
    ASSUME Typed, OneWay, GatesAreOld, NEW s \in Sessions, NEW w \in Lanes,
           reader[s].pc = "accept", reader[s].cmd \in Deliveries, Enqueue(s, w, reader[s].cmd),
           UNCHANGED <<delivered, lane, registry>>
    PROVE  OneWay' /\ GatesAreOld' /\ queue' \in [Lanes -> Seq(Deliveries)]
<1> DEFINE d == reader[s].cmd
           n == Len(queue[w])
<1>1. queue[w] \in Seq(Deliveries) /\ n \in Nat
  BY DEF Typed
<1>2. /\ queue' \in [Lanes -> Seq(Deliveries)]
      /\ \A v \in Lanes : v # w => queue'[v] = queue[v]
      /\ Len(queue'[w]) = n + 1 /\ queue'[w][n + 1] = d
      /\ \A i \in 1 .. n : queue'[w][i] = queue[w][i]
  BY <1>1, Appended DEF Enqueue, Typed
<1>3. reader'[s].pc = "idle" /\ \A t \in Sessions : t # s => reader'[t] = reader[t]
  BY DEF Enqueue, Typed
<1>4. \A v \in Lanes : lane'[v].pc = "gate" <=> lane[v].pc = "gate"
  OBVIOUS
<1>5. \A v \in Lanes : \A i \in 1 .. Len(queue'[v]) :
         \/ i \in 1 .. Len(queue[v]) /\ queue'[v][i] = queue[v][i]
         \/ v = w /\ i = n + 1 /\ queue'[v][i] = d
  BY <1>1, <1>2
<1>6. /\ d \in delivered
      /\ \A t \in Sessions : reader[t].pc = "accept" /\ reader[t].cmd = d => t = s
      /\ \A v \in Lanes : lane[v].pc = "gate" => lane[v].cmd # d
      /\ \A v \in Lanes : \A i \in 1 .. Len(queue[v]) : queue[v][i] # d
  BY DEF OneWay
<1>7. \A t \in Sessions : reader'[t].pc = "accept" =>
         /\ t # s /\ reader'[t] = reader[t]
         /\ \A v \in Lanes : \A i \in 1 .. Len(queue'[v]) : queue'[v][i] # reader'[t].cmd
  BY <1>3, <1>5, <1>6 DEF OneWay
<1>8. \A v \in Lanes : \A i \in 1 .. Len(queue'[v]) :
         /\ queue'[v][i] \in delivered
         /\ \A u \in Lanes : lane[u].pc = "gate" => lane[u].cmd # queue'[v][i]
         /\ \A u \in Lanes : \A j \in 1 .. Len(queue'[u]) :
               queue'[u][j] = queue'[v][i] => u = v /\ j = i
  BY <1>5, <1>6 DEF OneWay
<1>9. OneWay'
  <2>1. ASSUME NEW t \in Sessions, reader'[t].pc = "accept"
        PROVE  /\ reader'[t].cmd \in delivered'
               /\ \A u \in Sessions :
                     reader'[u].pc = "accept" /\ reader'[u].cmd = reader'[t].cmd => u = t
               /\ \A v \in Lanes : lane'[v].pc = "gate" => lane'[v].cmd # reader'[t].cmd
               /\ \A v \in Lanes : \A i \in 1 .. Len(queue'[v]) : queue'[v][i] # reader'[t].cmd
    <3>1. reader'[t] = reader[t] /\ reader[t].pc = "accept"
      BY <1>7, <2>1
    <3>2. /\ reader[t].cmd \in delivered
          /\ \A u \in Sessions : reader[u].pc = "accept" /\ reader[u].cmd = reader[t].cmd => u = t
          /\ \A v \in Lanes : lane[v].pc = "gate" => lane[v].cmd # reader[t].cmd
      BY <3>1 DEF OneWay
    <3> QED
      BY <1>7, <2>1, <3>1, <3>2
  <2>2. ASSUME NEW v \in Lanes, NEW i \in 1 .. Len(queue'[v])
        PROVE  /\ queue'[v][i] \in delivered'
               /\ \A u \in Lanes : lane'[u].pc = "gate" => lane'[u].cmd # queue'[v][i]
               /\ \A u \in Lanes : \A j \in 1 .. Len(queue'[u]) :
                     queue'[u][j] = queue'[v][i] => u = v /\ j = i
    BY <1>8
  <2>3. \A v \in Lanes : lane'[v].pc = "gate" =>
           /\ lane'[v].cmd \in delivered'
           /\ \A u \in Lanes : lane'[u].pc = "gate" /\ lane'[u].cmd = lane'[v].cmd => u = v
    BY DEF OneWay
  <2> QED
    BY <2>1, <2>2, <2>3 DEF OneWay
<1>10. ASSUME NEW g \in Gates, Used(g)'
       PROVE  /\ g \in delivered'
              /\ \A t \in Sessions : reader'[t].pc = "accept" => reader'[t].cmd # g
              /\ \A v \in Lanes : \A i \in 1 .. Len(queue'[v]) : queue'[v][i] # g
              /\ \A v \in Lanes : lane'[v].pc = "gate" => lane'[v].cmd # g
  <2>1. Used(g)
    BY <1>10 DEF Used
  <2>2. /\ g \in delivered /\ d # g
        /\ \A t \in Sessions : reader[t].pc = "accept" => reader[t].cmd # g
        /\ \A v \in Lanes : \A i \in 1 .. Len(queue[v]) : queue[v][i] # g
        /\ \A v \in Lanes : lane[v].pc = "gate" => lane[v].cmd # g
    BY <2>1 DEF GatesAreOld
  <2>3. \A v \in Lanes : \A i \in 1 .. Len(queue'[v]) : queue'[v][i] # g
    BY <1>5, <2>2
  <2> QED
    BY <1>4, <1>7, <2>2, <2>3
<1> QED
  BY <1>2, <1>9, <1>10 DEF GatesAreOld

\* The lane takes its next command to the gate.
LEMMA ReceiveWays ==
    ASSUME Typed, OneWay, GatesAreOld, LaneShape, NEW w \in Lanes, Receive(w)
    PROVE  OneWay' /\ GatesAreOld'
<1>0. UNCHANGED <<delivered, reader, registry>> /\ lane[w].gate = None
  BY DEF Receive, input, gates, LaneShape, At
<1>1. CASE Moved(w, "stopped", None, None) /\ queue'[w] = <<>>
  <2>1. \A v \in Lanes : queue'[v] = queue[v] \/ queue'[v] = <<>>
    BY <1>1, ReceiveMoves
  <2>2. \A v \in Lanes : lane'[v].pc = "gate" => lane'[v] = lane[v]
    BY <1>1 DEF Moved
  <2>3. ASSUME NEW g \in Gates, Used(g)' PROVE Used(g)
    BY <1>0, <1>1, <2>3 DEF Used, Moved, Gates
  <2> QED
    BY <1>0, <2>1, <2>2, <2>3, WaysShrink
<1>2. CASE /\ queue[w] # <<>> /\ queue'[w] = Tail(queue[w])
           /\ Moved(w, "gate", Head(queue[w]), lane[w].gate)
  <2>1. /\ queue[w] \in Seq(Deliveries) /\ Head(queue[w]) = queue[w][1]
        /\ Len(queue[w]) \in Nat /\ Len(queue[w]) >= 1
        /\ Len(queue'[w]) = Len(queue[w]) - 1
        /\ \A i \in 1 .. Len(queue'[w]) : queue'[w][i] = queue[w][i + 1]
    BY <1>2, HeadTail DEF Typed
  <2>2. \A v \in Lanes : v # w => queue'[v] = queue[v] /\ lane'[v] = lane[v]
    BY <1>2, ReceiveMoves DEF Moved
  <2>3. lane'[w].pc = "gate" /\ lane'[w].cmd = queue[w][1] /\ lane'[w].gate = None
    BY <1>0, <1>2, <2>1 DEF Moved
  <2>4. \A v \in Lanes : \A i \in 1 .. Len(queue'[v]) :
           \E j \in 1 .. Len(queue[v]) :
              /\ queue'[v][i] = queue[v][j]
              /\ j = IF v = w THEN i + 1 ELSE i
    BY <2>1, <2>2
  <2>5. \A v \in Lanes : lane'[v].pc = "gate" =>
           IF v = w THEN lane'[v].cmd = queue[w][1] ELSE lane[v].pc = "gate" /\ lane'[v].cmd = lane[v].cmd
    BY <2>2, <2>3
  <2>6. 1 \in 1 .. Len(queue[w])
    BY <2>1
  <2>7. \A v \in Lanes : \A i \in 1 .. Len(queue'[v]) :
           /\ queue'[v][i] \in delivered
           /\ \A u \in Lanes : lane'[u].pc = "gate" => lane'[u].cmd # queue'[v][i]
           /\ \A u \in Lanes : \A j \in 1 .. Len(queue'[u]) :
                 queue'[u][j] = queue'[v][i] => u = v /\ j = i
    <3> SUFFICES ASSUME NEW v \in Lanes, NEW i \in 1 .. Len(queue'[v])
                 PROVE  /\ queue'[v][i] \in delivered
                        /\ \A u \in Lanes : lane'[u].pc = "gate" => lane'[u].cmd # queue'[v][i]
                        /\ \A u \in Lanes : \A j \in 1 .. Len(queue'[u]) :
                              queue'[u][j] = queue'[v][i] => u = v /\ j = i
      OBVIOUS
    <3>1. PICK k \in 1 .. Len(queue[v]) :
             queue'[v][i] = queue[v][k] /\ k = IF v = w THEN i + 1 ELSE i
      BY <2>4
    <3>2. ASSUME NEW u \in Lanes, lane'[u].pc = "gate" PROVE lane'[u].cmd # queue'[v][i]
      <4>1. CASE u = w
        BY <2>5, <2>6, <3>1, <3>2, <4>1 DEF OneWay
      <4>2. CASE u # w
        BY <2>5, <3>1, <3>2, <4>2 DEF OneWay
      <4> QED
        BY <4>1, <4>2
    <3>3. ASSUME NEW u \in Lanes, NEW j \in 1 .. Len(queue'[u]), queue'[u][j] = queue'[v][i]
          PROVE  u = v /\ j = i
      <4>1. PICK l \in 1 .. Len(queue[u]) :
               queue'[u][j] = queue[u][l] /\ l = IF u = w THEN j + 1 ELSE j
        BY <2>4
      <4>2. u = v /\ l = k
        BY <3>1, <3>3, <4>1 DEF OneWay
      <4> QED
        BY <3>1, <4>1, <4>2
    <3> QED
      BY <3>1, <3>2, <3>3 DEF OneWay
  <2>8. \A s \in Sessions : reader[s].pc = "accept" =>
           /\ \A v \in Lanes : lane'[v].pc = "gate" => lane'[v].cmd # reader[s].cmd
           /\ \A v \in Lanes : \A i \in 1 .. Len(queue'[v]) : queue'[v][i] # reader[s].cmd
    <3> SUFFICES ASSUME NEW s \in Sessions, reader[s].pc = "accept"
                 PROVE  /\ \A v \in Lanes : lane'[v].pc = "gate" => lane'[v].cmd # reader[s].cmd
                        /\ \A v \in Lanes : \A i \in 1 .. Len(queue'[v]) :
                              queue'[v][i] # reader[s].cmd
      OBVIOUS
    <3>1. /\ \A v \in Lanes : lane[v].pc = "gate" => lane[v].cmd # reader[s].cmd
          /\ \A v \in Lanes : \A i \in 1 .. Len(queue[v]) : queue[v][i] # reader[s].cmd
      BY DEF OneWay
    <3>2. \A v \in Lanes : lane'[v].pc = "gate" => lane'[v].cmd # reader[s].cmd
      BY <2>5, <2>6, <3>1
    <3>3. \A v \in Lanes : \A i \in 1 .. Len(queue'[v]) : queue'[v][i] # reader[s].cmd
      BY <2>4, <3>1
    <3> QED
      BY <3>2, <3>3
  <2>9. \A v \in Lanes : lane'[v].pc = "gate" =>
           /\ lane'[v].cmd \in delivered
           /\ \A u \in Lanes : lane'[u].pc = "gate" /\ lane'[u].cmd = lane'[v].cmd => u = v
    BY <2>5, <2>6 DEF OneWay
  <2>10. OneWay'
    BY <1>0, <2>7, <2>8, <2>9 DEF OneWay
  <2>11. ASSUME NEW g \in Gates, Used(g)'
         PROVE  /\ g \in delivered
                /\ \A s \in Sessions : reader[s].pc = "accept" => reader[s].cmd # g
                /\ \A v \in Lanes : \A i \in 1 .. Len(queue'[v]) : queue'[v][i] # g
                /\ \A v \in Lanes : lane'[v].pc = "gate" => lane'[v].cmd # g
    <3>1. Used(g)
      BY <1>0, <2>2, <2>3, <2>11 DEF Used, Gates
    <3> QED
      BY <2>4, <2>5, <2>6, <3>1 DEF GatesAreOld
  <2> QED
    BY <1>0, <2>10, <2>11 DEF GatesAreOld
<1> QED
  BY <1>1, <1>2, ReceiveMoves

\* A lane that moves away from its gate, or elsewhere, and uses no new gate.
LEMMA LaneWays ==
    ASSUME OneWay, GatesAreOld, NEW w \in Lanes, NEW pc, NEW cmd, NEW gate \in {lane[w].gate, None},
           pc # "gate", Moved(w, pc, cmd, gate), UNCHANGED <<delivered, reader>>,
           \A v \in Lanes : queue'[v] = queue[v] \/ queue'[v] = <<>>,
           \A k \in Keys : registry'[k] = registry[k] \/ registry'[k] = None
    PROVE  OneWay' /\ GatesAreOld'
<1>1. \A v \in Lanes : lane'[v].pc = "gate" => lane'[v] = lane[v]
  BY DEF Moved
<1>2. ASSUME NEW g \in Gates, Used(g)' PROVE Used(g)
  BY <1>2 DEF Used, Moved, Gates
<1> QED
  BY <1>1, <1>2, WaysShrink

\* A lane that creates a gate names it after its own command.
LEMMA TakeGateWays ==
    ASSUME Typed, OneWay, GatesAreOld, LaneShape, NEW w \in Lanes, TakeGate(w)
    PROVE  OneWay' /\ GatesAreOld'
<1>0. /\ UNCHANGED <<delivered, reader>> /\ lane[w].pc = "gate" /\ lane[w].gate = None
      /\ lane[w].cmd \in Deliveries
  BY DEF TakeGate, input, LaneShape, At
<1>1. \A v \in Lanes : queue'[v] = queue[v] \/ queue'[v] = <<>>
  BY TakeGateMoves
<1>2. CASE Moved(w, "stopped", None, None) /\ UNCHANGED registry
  BY <1>0, <1>1, <1>2, LaneWays
<1>3. CASE Moved(w, "check", lane[w].cmd, None) /\ UNCHANGED registry
  BY <1>0, <1>1, <1>3, LaneWays
<1>4. CASE /\ KeyOf(w) \in Keys /\ registry[KeyOf(w)] \in Gates
           /\ Moved(w, "waitGate", lane[w].cmd, registry[KeyOf(w)]) /\ UNCHANGED registry
  <2>1. \A v \in Lanes : lane'[v].pc = "gate" => lane'[v] = lane[v]
    BY <1>4 DEF Moved
  <2>2. ASSUME NEW g \in Gates, Used(g)' PROVE Used(g)
    BY <1>4, <2>2 DEF Used, Moved
  <2> QED
    BY <1>0, <1>1, <2>1, <2>2, WaysShrink
<1>5. CASE /\ KeyOf(w) \in Keys /\ UNCHANGED queue
           /\ Moved(w, "waitGate", lane[w].cmd, lane[w].cmd)
           /\ registry'[KeyOf(w)] = lane[w].cmd
           /\ \A k \in Keys : k # KeyOf(w) => registry'[k] = registry[k]
  <2>1. \A v \in Lanes : lane'[v].pc = "gate" => v # w /\ lane[v].pc = "gate" /\ lane'[v].cmd = lane[v].cmd
    BY <1>5 DEF Moved
  <2>2. OneWay'
    BY <1>0, <1>5, <2>1 DEF OneWay
  <2>3. ASSUME NEW g \in Gates, Used(g)'
        PROVE  /\ g \in delivered
               /\ \A s \in Sessions : reader[s].pc = "accept" => reader[s].cmd # g
               /\ \A v \in Lanes : \A i \in 1 .. Len(queue[v]) : queue[v][i] # g
               /\ \A v \in Lanes : lane'[v].pc = "gate" => lane'[v].cmd # g
    <3>1. Used(g) \/ g = lane[w].cmd
      BY <1>5, <2>3 DEF Used, Moved
    <3>2. CASE Used(g)
      BY <2>1, <3>2 DEF GatesAreOld
    <3>3. CASE g = lane[w].cmd
      BY <1>0, <2>1, <3>3 DEF OneWay
    <3> QED
      BY <3>1, <3>2, <3>3
  <2> QED
    BY <1>0, <1>5, <2>2, <2>3 DEF GatesAreOld
<1> QED
  BY <1>2, <1>3, <1>4, <1>5, TakeGateMoves

-----------------------------------------------------------------------------
(* Gates. *)

\* What a lane that has moved must satisfy for its shape.
LEMMA ShapeMoved ==
    ASSUME LaneShape, NEW w \in Lanes, NEW pc, NEW cmd, NEW gate, Moved(w, pc, cmd, gate),
           pc \notin {"recv", "stopped"} => cmd \in Deliveries,
           pc \in {"recv", "gate", "ack", "stopped"} => gate = None,
           pc \in {"waitGate", "dropRef", "deregister"} => gate # None,
           pc \in Inside /\ cmd.key # NoKey => gate # None,
           gate # None => cmd.key \in Keys
    PROVE  LaneShape'
<1>1. \A v \in Lanes : v # w => lane'[v] = lane[v]
  BY DEF Moved
<1>2. lane'[w].pc = pc /\ lane'[w].cmd = cmd /\ lane'[w].gate = gate
  BY DEF Moved
<1> QED
  BY <1>1, <1>2 DEF LaneShape, KeyOf

\* A lane that gives up or keeps the gate it has: the other references stay.
LEMMA SharedMoved ==
    ASSUME GatesAreShared, NEW w \in Lanes, NEW pc, NEW cmd, NEW gate \in {lane[w].gate, None},
           Moved(w, pc, cmd, gate), gate # None => cmd = lane[w].cmd,
           lane[w].pc # "deregister", pc # "deregister", UNCHANGED <<registry, holder>>,
           pc \in Inside => lane[w].pc \in Inside
    PROVE  GatesAreShared'
<1>1. \A v \in Lanes : v # w => lane'[v] = lane[v]
  BY DEF Moved
<1>2. lane'[w].pc = pc /\ lane'[w].gate = gate /\ (gate # None => lane'[w].cmd = lane[w].cmd)
  BY DEF Moved
<1> SUFFICES ASSUME NEW v \in Lanes, lane'[v].gate # None
             PROVE  /\ lane'[v].pc # "deregister" => registry[lane'[v].cmd.key] = lane'[v].gate
                    /\ lane'[v].pc = "deregister" =>
                          \A u \in Lanes : lane'[u].gate = lane'[v].gate => lane'[u].pc = "deregister"
                    /\ lane'[v].pc \in Inside => holder[lane'[v].gate] = v
  BY DEF GatesAreShared
<1>3. CASE v # w
  BY <1>1, <1>2, <1>3 DEF GatesAreShared
<1>4. CASE v = w
  BY <1>2, <1>4 DEF GatesAreShared
<1> QED
  BY <1>3, <1>4

\* Two lanes are never inside for the same key.
LEMMA OneInside ==
    ASSUME LaneShape, GatesAreShared, NEW v \in Lanes, NEW w \in Lanes,
           lane[v].pc \in Inside, lane[w].pc \in Inside,
           KeyOf(v) = KeyOf(w), KeyOf(w) # NoKey
    PROVE  v = w
<1>1. lane[v].gate # None /\ lane[w].gate # None
  BY DEF LaneShape
<1>2. lane[v].gate = lane[w].gate
  BY <1>1 DEF GatesAreShared, KeyOf, Inside
<1> QED
  BY <1>1, <1>2 DEF GatesAreShared

\* A lane that does not begin to execute leaves the store exact.
LEMMA StoreMoved ==
    ASSUME StoreIsExact, NEW w \in Lanes, NEW pc, NEW cmd, NEW gate, Moved(w, pc, cmd, gate),
           pc = "run" => cmd.key \notin Seen, UNCHANGED order
    PROVE  StoreIsExact'
<1>1. Seen' = Seen /\ Injective(order)'
  BY DEF Seen, StoreIsExact, Injective
<1> QED
  BY <1>1 DEF StoreIsExact, Moved

=============================================================================
