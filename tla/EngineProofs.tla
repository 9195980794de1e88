----------------------------- MODULE EngineProofs -----------------------------
(***************************************************************************)
(* The calls that start or reload a slot keep the invariant of             *)
(* EngineLemmas, and the theorems about Engine follow.                     *)
(***************************************************************************)
EXTENDS EngineLemmas

USE EngineAssumption DEF Free

-----------------------------------------------------------------------------
(* The calls that start or reload a slot. *)

\* A listener of a slot that starts binds its socket.
Listening(s, g) == [s EXCEPT !.group[g].sock = "run"]

\* The slot stays sound.
LEMMA GroupStarts ==
    ASSUME NEW s, Sound(s), NEW g
    PROVE  /\ Sound(Listening(s, g)) /\ Listening(s, g).state = s.state
           /\ Listening(s, g).tag = s.tag /\ Listening(s, g).cfg = s.cfg
           /\ Listening(s, g).line = s.line
           /\ Listening(s, g).res = s.res /\ Listening(s, g).born = s.born
<1> DEFINE r == Listening(s, g)
           gr == [s.group EXCEPT ![g] = [s.group[g] EXCEPT !.sock = "run"]]
<1>1. s \in SlotRecord /\ s.group \in [DOMAIN s.group -> GroupRecord]
  BY DEF Sound
<1>2. \A h \in DOMAIN s.group : /\ gr[h] \in GroupRecord /\ gr[h].cfg = s.group[h].cfg
                                /\ gr[h].sock = IF h = g THEN "run" ELSE s.group[h].sock
  BY <1>1 DEF GroupRecord, Socks
<1>3. gr \in [DOMAIN s.group -> GroupRecord] /\ DOMAIN gr = DOMAIN s.group
  BY <1>1, <1>2
<1>4. /\ r \in SlotRecord /\ r.tag = s.tag /\ r.state = s.state
      /\ r.cfg = s.cfg /\ r.line = s.line /\ r.res = s.res /\ r.born = s.born
      /\ r.group = gr /\ r.failed = s.failed
  BY <1>1, <1>3, GroupsTyped DEF SlotRecord, Listening
<1>5. \A h \in DOMAIN s.group : s.group[h].cfg = s.cfg /\ (s.group[h].sock = "taken" => s.failed)
  BY DEF Sound
<1> HIDE DEF gr, r
<1>6. gr \in [DOMAIN r.cfg.groups -> GroupRecord]
  BY <1>3, <1>4, GroupsTyped
<1>7. Sound(r)
  BY <1>2, <1>3, <1>4, <1>5, <1>6 DEF Sound
<1> QED
  BY <1>4, <1>7 DEF r

\* One listener after the other is started, or all are abandoned.
LEMMA AddStartsStep ==
    ASSUME IInv, NEW p \in Callers, AddStarts(p)
    PROVE  IInv'
<1> DEFINE n == call[p].slot
           s == slots[n]
           todo == {g \in DOMAIN s.group : s.group[g].sock = "none"}
           x == IF Cardinality(todo) = 1 THEN "health" ELSE "start"
           r == Listening(s, Min(todo))
<1>1. Starting(p) /\ call[p].op = "add"
  BY DEF AddStarts, At, Starting
<1>2. lock = p /\ n \in DOMAIN slots /\ s.state = "starting" /\ Sound(s)
  BY <1>1, LockHeld
<1>3. CASE /\ slots' = [slots EXCEPT ![n] = [HardShutdown(s) EXCEPT !.state = "failed"]]
           /\ Done(p) /\ lock' = Free
  <2>1. Fades(s, HardShutdown(s)) /\ Silent(HardShutdown(s))
    BY <1>2, ShutdownFades
  <2>2. slots' = [slots EXCEPT ![n] = Settled(HardShutdown(s), "failed")]
    BY <1>3 DEF Settled
  <2> QED
    BY <1>1, <1>3, <2>1, <2>2, GivenUp DEF AddStarts
<1>4. CASE /\ slots' = [slots EXCEPT ![n].group[Min(todo)].sock = "run"]
           /\ call' = [call EXCEPT ![p].pc = x]
           /\ UNCHANGED lock
  <2>1. slots' = [slots EXCEPT ![n] = r] /\ x \in {"health", "start"}
    BY <1>4 DEF Listening
  <2>2. /\ Sound(r) /\ r.state = s.state /\ r.tag = s.tag /\ r.cfg = s.cfg /\ r.line = s.line
        /\ r.res = s.res /\ r.born = s.born
    BY <1>2, GroupStarts
  <2> HIDE DEF r, x, todo
  <2>3. FadesInto(n, r)
    BY <1>2, <2>1, <2>2 DEF FadesInto, Owned, Started
  <2>4. /\ DOMAIN slots' = DOMAIN slots
        /\ slots'[n] = r /\ (\A m \in DOMAIN slots \ {n} : slots'[m] = slots[m])
    BY <2>3, SlotStep
  <2>5. CallsOK'
    <3>1. call \in [Callers -> CallRecord] /\ call' = [call EXCEPT ![p] = [call[p] EXCEPT !.pc = x]]
      BY <1>4 DEF IInv, TypeOK
    <3>2. /\ call' \in [Callers -> CallRecord] /\ (\A q \in Callers : q # p => call'[q] = call[q])
          /\ call'[p].op = "add" /\ call'[p].pc = x /\ call'[p].slot = n
          /\ call'[p].tag = call[p].tag /\ call'[p].cfg = call[p].cfg
      BY <1>1, <2>1, <3>1 DEF CallRecord
    <3>3. CallShape /\ SlotOwner
      BY DEF IInv, Structure
    <3>4. CallShape'
      BY <1>1, <1>2, <1>4, <2>1, <3>2, <3>3 DEF CallShape, Starting, Removing
    <3>5. LockOwner'
      BY <1>2, <1>4, <2>1, <2>2, <2>4, <3>2 DEF LockOwner, Starting, Removing
    <3>6. SlotOwner'
      BY <1>2, <1>4, <2>2, <2>4, <3>2, <3>3 DEF SlotOwner
    <3> QED
      BY <1>2, <1>4, <3>2, <3>4, <3>5, <3>6 DEF CallsOK
  <2> QED
    BY <2>2, <2>3, <2>5, PlainFade DEF AddStarts
<1> QED
  BY <1>3, <1>4 DEF AddStarts

\* A slot is registered: its tag, its keys, its lineage and its resolver with it.
LEMMA RegistrationStep ==
    ASSUME IInv, NEW p \in Callers, AddEnds(p),
           ~\E g \in DOMAIN slots[call[p].slot].group : slots[call[p].slot].group[g].sock = "dead"
    PROVE  IInv'
<1> DEFINE n == call[p].slot
           s == slots[n]
           r == Settled(s, "live")
<1>1. Starting(p) /\ ~Removing(p)
  BY DEF AddEnds, At, Starting, Removing
<1>2. lock = p /\ n \in DOMAIN slots /\ s.state = "starting" /\ Sound(s) /\ s \in SlotRecord
  BY <1>1, LockHeld
<1>3. /\ slots' = [slots EXCEPT ![n] = r]
      /\ inbounds' = Inserted(inbounds, {s.tag}, n)
      /\ bound' = Inserted(bound, Keys(s.cfg), s.tag)
      /\ lines' = Inserted(Retained, {s.tag}, s.line)
      /\ dns' = [dns EXCEPT !.cache = Published(s.cfg, s.res)]
      /\ Done(p) /\ lock' = Free /\ UNCHANGED leases
  BY DEF AddEnds, Settled
<1>4. /\ Sound(r) /\ r.state = "live"
      /\ r.tag = s.tag /\ r.cfg = s.cfg /\ r.line = s.line /\ r.res = s.res /\ r.born = s.born
      /\ ScopeAlive(r) => ScopeAlive(s)
  <2>1. Fades(s, s)
    BY <1>2 DEF Fades
  <2> QED
    BY <2>1, StateChanged
<1> HIDE DEF r
<1>5. slots \in Seq(SlotRecord) /\ r \in SlotRecord
  BY <1>4 DEF IInv, TypeOK, Sound
<1>6. /\ slots' \in Seq(SlotRecord) /\ DOMAIN slots' = DOMAIN slots
      /\ slots'[n] = r /\ (\A m \in DOMAIN slots \ {n} : slots'[m] = slots[m])
  BY <1>2, <1>3, <1>5, OneSlot
<1>7. \A m \in DOMAIN slots \ {n} : slots[m].state \notin {"starting", "removing"}
  BY <1>2 DEF IInv, Structure, SlotOwner
<1>8. SlotShape'
  <2>1. \A m \in DOMAIN slots : Sound(slots[m]) /\ (~Owned(slots[m]) => Silent(slots[m]))
    BY <1>5, SlotFacts DEF IInv, Structure
  <2>2. Owned(r)
    BY <1>4 DEF Owned
  <2> QED
    BY <1>4, <1>6, <2>1, <2>2, ShapeAfter
<1>9. CallsOK'
  BY <1>2, <1>3, <1>4, <1>6, CallsFact, CallEnds
<1>10. Registered'
  <2>1. /\ DOMAIN inbounds' = {s.tag} \cup DOMAIN inbounds
        /\ \A t \in DOMAIN inbounds' : inbounds'[t] = IF t = s.tag THEN n ELSE inbounds[t]
    BY <1>3 DEF Inserted
  <2>2. Registered /\ s.tag \notin DOMAIN inbounds
    BY <1>2 DEF IInv, Structure, Registered
  <2>3. ASSUME NEW t \in DOMAIN inbounds'
        PROVE  /\ inbounds'[t] \in DOMAIN slots'
               /\ slots'[inbounds'[t]].tag = t /\ slots'[inbounds'[t]].state = "live"
    <3>1. CASE t = s.tag
      BY <1>2, <1>4, <1>6, <2>1, <3>1
    <3>2. CASE t # s.tag
      BY <1>2, <1>6, <2>1, <2>2, <3>2 DEF Registered
    <3> QED
      BY <3>1, <3>2
  <2>4. ASSUME NEW m \in DOMAIN slots'
        PROVE  /\ slots'[m].state = "live" =>
                     slots'[m].tag \in DOMAIN inbounds' /\ inbounds'[slots'[m].tag] = m
               /\ slots'[m].state # "starting"
    <3>1. CASE m = n
      BY <1>4, <1>6, <2>1, <3>1
    <3>2. CASE m # n
      <4>1. slots'[m] = slots[m] /\ m \in DOMAIN slots /\ slots[m].state # "starting"
        BY <1>6, <1>7, <3>2
      <4>2. slots[m].state = "live" =>
               slots[m].tag \in DOMAIN inbounds /\ inbounds[slots[m].tag] = m
        BY <2>2, <4>1 DEF Registered
      <4>3. slots[m].state = "live" => slots[m].tag # s.tag
        BY <2>2, <4>2
      <4> QED
        BY <2>1, <4>1, <4>2, <4>3
    <3> QED
      BY <3>1, <3>2
  <2> QED
    BY <2>3, <2>4 DEF Registered
<1>11. Claims'
  <2>1. /\ DOMAIN bound' = Keys(s.cfg) \cup DOMAIN bound
        /\ \A k \in DOMAIN bound' : bound'[k] = IF k \in Keys(s.cfg) THEN s.tag ELSE bound[k]
    BY <1>3 DEF Inserted
  <2>2. Claims
    BY DEF IInv
  <2>3. \A m \in DOMAIN slots : Owned(slots'[m]) <=> Owned(slots[m])
    BY <1>2, <1>4, <1>6 DEF Owned
  <2>4. \A m \in DOMAIN slots : slots'[m].cfg = slots[m].cfg /\ slots'[m].tag = slots[m].tag
    BY <1>4, <1>6
  <2>5. ASSUME NEW l \in DOMAIN slots', NEW m \in DOMAIN slots', l # m,
               Owned(slots'[l]), Owned(slots'[m])
        PROVE  Keys(slots'[l].cfg) \cap Keys(slots'[m].cfg) = {}
    BY <1>6, <2>2, <2>3, <2>4, <2>5 DEF Claims
  <2>6. ASSUME NEW m \in DOMAIN slots', slots'[m].state \in {"live", "removing"},
               NEW k \in Keys(slots'[m].cfg)
        PROVE  k \in DOMAIN bound' /\ bound'[k] = slots'[m].tag
    <3>1. CASE m = n
      BY <1>4, <1>6, <2>1, <2>6, <3>1
    <3>2. CASE m # n
      <4>1. m \in DOMAIN slots /\ slots'[m] = slots[m]
        BY <1>6, <3>2
      <4>2. Owned(slots[m]) /\ Owned(s)
        BY <1>2, <2>6, <4>1 DEF Owned
      <4>3. k \notin Keys(s.cfg)
        BY <1>2, <2>2, <2>6, <3>2, <4>1, <4>2 DEF Claims
      <4> QED
        BY <2>1, <2>2, <2>6, <4>1, <4>3 DEF Claims
    <3> QED
      BY <3>1, <3>2
  <2>7. ASSUME NEW k \in DOMAIN bound'
        PROVE  \E m \in DOMAIN slots' :
                  slots'[m].state \in {"live", "removing"} /\ k \in Keys(slots'[m].cfg)
    <3>1. CASE k \in Keys(s.cfg)
      BY <1>2, <1>4, <1>6, <3>1
    <3>2. CASE k \notin Keys(s.cfg)
      <4>1. PICK m \in DOMAIN slots : slots[m].state \in {"live", "removing"} /\ k \in Keys(slots[m].cfg)
        BY <2>1, <2>2, <2>7, <3>2 DEF Claims
      <4>2. m # n
        BY <1>2, <4>1
      <4> QED
        BY <1>6, <4>1, <4>2
    <3> QED
      BY <3>1, <3>2
  <2> QED
    BY <2>5, <2>6, <2>7 DEF Claims
<1>12. Generations' /\ dns' = [gen |-> dns.gen, cache |-> dns'.cache]
  <2>1. s.res = dns.gen /\ s.res = s.born /\ Generations
    BY <1>2 DEF IInv, Generations
  <2>2. dns = [gen |-> dns.gen, cache |-> dns.cache]
    BY DEF IInv, TypeOK
  <2>3. dns' = [gen |-> dns.gen, cache |-> Published(s.cfg, s.res)]
    BY <1>3, <2>2
  <2>4. \A k \in DOMAIN Published(s.cfg, s.res) : Published(s.cfg, s.res)[k] = dns.gen
    BY <2>1 DEF Published, Inserted, Generations
  <2>5. \A m \in DOMAIN slots' : slots'[m].res = slots'[m].born /\ slots'[m].state # "starting"
    BY <1>4, <1>6, <1>7, <2>1 DEF Generations
  <2> QED
    BY <2>3, <2>4, <2>5 DEF Generations
<1>13. Lineages'
  <2>1. /\ DOMAIN lines' = {s.tag} \cup DOMAIN Retained
        /\ \A t \in DOMAIN lines' : lines'[t] = IF t = s.tag THEN s.line ELSE Retained[t]
    BY <1>3 DEF Inserted
  <2>2. \A m \in DOMAIN slots' : slots'[m].state # "starting"
    BY <1>4, <1>6, <1>7
  <2>3. ASSUME NEW m \in DOMAIN slots', Started(slots'[m]), ScopeAlive(slots'[m])
        PROVE  slots'[m].tag \in DOMAIN lines' /\ lines'[slots'[m].tag] = slots'[m].line
    <3>1. CASE m = n
      BY <1>4, <1>6, <2>1, <3>1
    <3>2. CASE m # n
      <4>1. m \in DOMAIN slots /\ slots'[m] = slots[m]
        BY <1>6, <3>2
      <4>2. /\ slots[m].tag \in DOMAIN lines /\ lines[slots[m].tag] = slots[m].line
            /\ s.tag = slots[m].tag => s.line = slots[m].line
        BY <1>2, <2>3, <4>1 DEF IInv, Lineages
      <4>3. LiveLine(lines[slots[m].tag])
        BY <2>3, <4>1, <4>2 DEF LiveLine
      <4>4. slots[m].tag \in DOMAIN Retained /\ Retained[slots[m].tag] = slots[m].line
        BY <4>2, <4>3 DEF Retained
      <4> QED
        BY <2>1, <4>1, <4>2, <4>4
    <3> QED
      BY <3>1, <3>2
  <2> QED
    BY <2>2, <2>3 DEF Lineages, Started
<1>14. TypeOK'
  <2>1. inbounds' = [t \in DOMAIN inbounds' |-> inbounds'[t]] /\ bound' = [k \in DOMAIN bound' |-> bound'[k]]
    BY <1>3 DEF Inserted
  <2>2. \A t \in DOMAIN lines' : lines'[t] \in Nat
    <3>1. s.line \in Nat
      BY <1>2 DEF SlotRecord
    <3>2. \A t \in DOMAIN lines : lines[t] \in Nat
      BY DEF IInv, TypeOK
    <3> QED
      BY <1>3, <3>1, <3>2 DEF Inserted, Retained
  <2>3. dns' = [gen |-> dns'.gen, cache |-> dns'.cache] /\ dns'.gen \in Nat
    BY <1>12 DEF IInv, TypeOK
  <2>4. \A x \in leases' : x[2] \in Nat
    BY <1>3 DEF IInv, TypeOK
  <2> QED
    BY <1>6, <1>9, <2>1, <2>2, <2>3, <2>4 DEF TypeOK, CallsOK
<1> QED
  BY <1>8, <1>9, <1>10, <1>11, <1>12, <1>13, <1>14 DEF IInv, Structure, CallsOK

\* The health grace ends in a registration or, when a listener died, in nothing.
LEMMA AddEndsStep ==
    ASSUME IInv, NEW p \in Callers, AddEnds(p)
    PROVE  IInv'
<1> DEFINE n == call[p].slot
           s == slots[n]
<1>1. CASE \E g \in DOMAIN s.group : s.group[g].sock = "dead"
  <2>1. Starting(p)
    BY DEF AddEnds, At, Starting
  <2>2. Fades(s, HardShutdown(s)) /\ Silent(HardShutdown(s))
    BY <2>1, LockHeld, ShutdownFades
  <2>3. /\ slots' = [slots EXCEPT ![n] = Settled(HardShutdown(s), "failed")]
        /\ UNCHANGED <<inbounds, bound, lines, leases, dns>> /\ Done(p) /\ lock' = Free
    BY <1>1 DEF AddEnds, Settled
  <2> QED
    BY <2>1, <2>2, <2>3, GivenUp
<1>2. CASE ~\E g \in DOMAIN s.group : s.group[g].sock = "dead"
  BY <1>2, RegistrationStep
<1> QED
  BY <1>1, <1>2

\* A resolver is only found in the cache while it is of this generation.
LEMMA ResolvedNow ==
    ASSUME IInv, NEW c
    PROVE  Resolved(c) = dns.gen
  BY DEF IInv, Generations, Resolved

\* The lineage granted is a number, and that of what is still alive under the tag.
LEMMA PreparedShared ==
    ASSUME IInv, NEW t, NEW l \in Nat
    PROVE  /\ Prepared(t, l) \in Nat
           /\ Prepared(t, l) # 0 =>
                 \A m \in DOMAIN slots :
                     Started(slots[m]) /\ ScopeAlive(slots[m]) /\ slots[m].tag = t =>
                         Prepared(t, l) = slots[m].line
<1>1. /\ slots \in Seq(SlotRecord) /\ Len(slots) + 1 \in Nat
      /\ \A x \in DOMAIN Retained : x \in DOMAIN lines /\ Retained[x] = lines[x] /\ Retained[x] \in Nat
  BY DEF IInv, TypeOK, Retained
<1>2. Fresh(t) \in Nat /\ Preserved(t, l) \in Nat
  BY <1>1 DEF Fresh, Preserved
<1>3. ASSUME Prepared(t, l) # 0, NEW m \in DOMAIN slots,
             Started(slots[m]), ScopeAlive(slots[m]), slots[m].tag = t
      PROVE  Prepared(t, l) = slots[m].line
  <2>1. t \in DOMAIN lines /\ lines[t] = slots[m].line
    BY <1>3 DEF IInv, Lineages
  <2>2. LiveScope(lines[t]) /\ LiveLine(lines[t])
    BY <1>3, <2>1 DEF LiveScope, LiveLine
  <2>3. t \in DOMAIN Retained /\ Retained[t] = slots[m].line
    BY <2>1, <2>2 DEF Retained
  <2>4. Fresh(t) = slots[m].line
    BY <2>1, <2>2, <2>3 DEF Fresh
  <2>5. Preserved(t, l) # 0 => Preserved(t, l) = slots[m].line
    BY <2>3 DEF Preserved
  <2> QED
    BY <1>3, <2>4, <2>5 DEF Prepared
<1> QED
  BY <1>2, <1>3 DEF Prepared

\* The lock is taken again; a slot is made, or the call fails.
LEMMA AddLocksStep ==
    ASSUME IInv, NEW p \in Callers, AddLocks(p)
    PROVE  IInv'
<1> DEFINE t == call[p].tag
           c == call[p].cfg
           line == Prepared(t, call[p].lease)
           n == Len(slots) + 1
           s == NewSlot(t, c, line, Resolved(c))
<1>1. call \in [Callers -> CallRecord] /\ slots \in Seq(SlotRecord) /\ dns.gen \in Nat
  BY DEF IInv, TypeOK
<1>2. /\ call[p].op = "add" /\ call[p].pc = "resolved" /\ lock = Free
      /\ t \in Tags /\ c \in Configs /\ call[p].lease \in Nat
  <2>1. call[p].op = "add" /\ call[p].pc = "resolved" /\ lock = Free
    BY DEF AddLocks, At, LockFree
  <2>2. t \in Tags /\ c \in Configs
    BY <2>1 DEF IInv, Structure, CallShape
  <2>3. call[p].lease \in Nat
    BY <1>1 DEF CallRecord
  <2> QED
    BY <2>1, <2>2, <2>3
<1>3. CASE Done(p) /\ UNCHANGED <<slots, lock>>
  <2>1. CallsOK'
    BY <1>2, <1>3, CallsFact, CallWaits, IdleWaits DEF SameStates, Done
  <2> QED
    BY <1>3, <2>1, TablesStay DEF AddLocks, IInv, TypeOK
<1>4. CASE /\ MayStart(t, c, line) /\ slots' = Append(slots, s) /\ lock' = p
           /\ call' = [call EXCEPT ![p].pc = "start", ![p].slot = n]
  <2>1. UNCHANGED <<inbounds, bound, lines, leases, dns>>
    BY DEF AddLocks
  <2>2. /\ line \in Nat /\ line # 0
        /\ \A m \in DOMAIN slots :
              Started(slots[m]) /\ ScopeAlive(slots[m]) /\ slots[m].tag = t => line = slots[m].line
    BY <1>2, <1>4, PreparedShared DEF MayStart
  <2>3. Resolved(c) = dns.gen
    BY ResolvedNow
  <2> DEFINE gr == [g \in 1 .. Len(c.groups) |-> [sock |-> "none", cfg |-> c]]
  <2>4. /\ gr \in [DOMAIN c.groups -> GroupRecord] /\ gr \in Groups
        /\ \A g \in DOMAIN gr : gr[g].cfg = c /\ gr[g].sock = "none"
    BY <1>2, GroupDomain DEF GroupRecord, Socks, Groups
  <2>5. /\ s = [tag |-> t, state |-> "starting", cfg |-> c, rev |-> 0, group |-> gr,
                conns |-> "none", line |-> line, res |-> dns.gen, kept |-> dns.gen,
                born |-> dns.gen, failed |-> FALSE]
    BY <2>3 DEF NewSlot
  <2> HIDE DEF s, gr, line
  <2>6. /\ s \in SlotRecord /\ s.tag = t /\ s.state = "starting" /\ s.cfg = c /\ s.group = gr
        /\ s.conns = "none" /\ s.line = line /\ s.res = dns.gen /\ s.born = dns.gen
    BY <1>1, <1>2, <2>2, <2>4, <2>5 DEF SlotRecord
  <2>7. Sound(s) /\ Owned(s)
    BY <2>4, <2>6 DEF Sound, Owned
  <2>8. /\ slots' \in Seq(SlotRecord) /\ DOMAIN slots' = DOMAIN slots \cup {n}
        /\ n \notin DOMAIN slots /\ n \in Nat
        /\ slots'[n] = s /\ \A m \in DOMAIN slots : slots'[m] = slots[m]
    BY <1>1, <1>4, <2>6
  <2> HIDE DEF n
  <2>9. \A m \in DOMAIN slots : slots[m].state \notin {"starting", "removing"}
    BY <1>2 DEF IInv, Structure, SlotOwner
  <2>10. SlotShape'
    <3>1. \A m \in DOMAIN slots : Sound(slots[m]) /\ (~Owned(slots[m]) => Silent(slots[m]))
      BY <1>1, SlotFacts DEF IInv, Structure
    <3> QED
      BY <2>7, <2>8, <3>1, ShapeAfter
  <2>11. CallsOK'
    <3> DEFINE r == [call[p] EXCEPT !.pc = "start", !.slot = n]
    <3>1. call' = [call EXCEPT ![p] = r]
      BY <1>1, <1>4
    <3>2. /\ r \in CallRecord /\ r.op = "add" /\ r.pc = "start" /\ r.slot = n
          /\ r.tag = t /\ r.cfg = c
      BY <1>1, <1>2, <2>8 DEF CallRecord
    <3> HIDE DEF r
    <3>3. /\ call' \in [Callers -> CallRecord] /\ call'[p] = r
          /\ \A q \in Callers : q # p => call'[q] = call[q]
      BY <1>1, <3>1, <3>2
    <3>4. CallShape
      BY DEF IInv, Structure
    <3>5. CallShape'
      BY <1>2, <1>4, <3>2, <3>3, <3>4 DEF CallShape, Starting, Removing
    <3>6. LockOwner'
      BY <1>4, <2>6, <2>8, <3>2, <3>3 DEF LockOwner, Starting, Removing
    <3>7. SlotOwner'
      BY <1>4, <2>8, <2>9, <3>2, <3>3 DEF SlotOwner
    <3> QED
      BY <1>4, <3>3, <3>5, <3>6, <3>7 DEF CallsOK
  <2>12. Registered'
    <3>1. Registered /\ t \notin DOMAIN inbounds
      BY <1>4 DEF IInv, Structure, MayStart
    <3> QED
      BY <2>1, <2>6, <2>8, <2>9, <3>1 DEF Registered
  <2>13. Claims'
    <3>1. Claims /\ Keys(c) \cap DOMAIN bound = {}
      BY <1>4 DEF IInv, MayStart
    <3>2. \A m \in DOMAIN slots : Owned(slots[m]) => Keys(slots[m].cfg) \subseteq DOMAIN bound
      BY <2>9, <3>1 DEF Claims, Owned
    <3>3. ASSUME NEW l \in DOMAIN slots', NEW m \in DOMAIN slots', l # m,
                 Owned(slots'[l]), Owned(slots'[m])
          PROVE  Keys(slots'[l].cfg) \cap Keys(slots'[m].cfg) = {}
      <4>1. CASE l # n /\ m # n
        BY <2>8, <3>1, <3>3, <4>1 DEF Claims
      <4>2. CASE l = n
        <5>1. m \in DOMAIN slots /\ Owned(slots[m]) /\ slots'[l] = s /\ slots'[m] = slots[m]
          BY <2>8, <3>3, <4>2
        <5> QED
          BY <2>6, <3>1, <3>2, <5>1
      <4>3. CASE m = n
        <5>1. l \in DOMAIN slots /\ Owned(slots[l]) /\ slots'[m] = s /\ slots'[l] = slots[l]
          BY <2>8, <3>3, <4>3
        <5> QED
          BY <2>6, <3>1, <3>2, <5>1
      <4> QED
        BY <4>1, <4>2, <4>3
    <3>4. ASSUME NEW m \in DOMAIN slots', slots'[m].state \in {"live", "removing"},
                 NEW k \in Keys(slots'[m].cfg)
          PROVE  k \in DOMAIN bound' /\ bound'[k] = slots'[m].tag
      <4>1. m \in DOMAIN slots /\ slots'[m] = slots[m]
        BY <2>6, <2>8, <3>4
      <4> QED
        BY <2>1, <3>1, <3>4, <4>1 DEF Claims
    <3>5. ASSUME NEW k \in DOMAIN bound'
          PROVE  \E m \in DOMAIN slots' :
                    slots'[m].state \in {"live", "removing"} /\ k \in Keys(slots'[m].cfg)
      BY <2>1, <2>8, <3>1, <3>5 DEF Claims
    <3> QED
      BY <3>3, <3>4, <3>5 DEF Claims
  <2>14. Generations'
    BY <2>1, <2>6, <2>8 DEF IInv, Generations
  <2>15. Lineages'
    <3>1. ~Started(s)
      BY <2>6 DEF Started
    <3>2. ASSUME NEW m \in DOMAIN slots', Started(slots'[m]), ScopeAlive(slots'[m])
          PROVE  /\ slots'[m].tag \in DOMAIN lines' /\ lines'[slots'[m].tag] = slots'[m].line
                 /\ \A l \in DOMAIN slots' :
                       slots'[l].state = "starting" /\ slots'[l].tag = slots'[m].tag =>
                           slots'[l].line = slots'[m].line
      <4>1. m \in DOMAIN slots /\ slots'[m] = slots[m]
        BY <2>8, <3>1, <3>2
      <4>2. slots[m].tag \in DOMAIN lines /\ lines[slots[m].tag] = slots[m].line
        BY <3>2, <4>1 DEF IInv, Lineages
      <4>3. slots[m].tag = t => line = slots[m].line
        BY <2>2, <3>2, <4>1
      <4> QED
        BY <2>1, <2>6, <2>8, <2>9, <4>1, <4>2, <4>3
    <3> QED
      BY <3>2 DEF Lineages, Started
  <2>16. TypeOK'
    BY <2>1, <2>8, <2>11 DEF IInv, TypeOK, CallsOK
  <2> QED
    BY <2>10, <2>11, <2>12, <2>13, <2>14, <2>15, <2>16 DEF IInv, Structure, CallsOK
<1> QED
  BY <1>3, <1>4 DEF AddLocks

\* A slot that is reloaded stays sound, and serves the same addresses.
LEMMA ReloadedSound ==
    ASSUME IInv, NEW s, Sound(s), NEW c \in Configs, MayReload(s, c)
    PROVE  /\ Sound(Reloaded(s, c)) /\ Reloaded(s, c).state = s.state /\ Reloaded(s, c).tag = s.tag
           /\ Reloaded(s, c).line = s.line /\ Reloaded(s, c).cfg = c /\ Keys(c) = Keys(s.cfg)
           /\ Reloaded(s, c).res = dns.gen /\ Reloaded(s, c).born = dns.gen
           /\ Silent(s) => Silent(Reloaded(s, c))
           /\ ScopeAlive(Reloaded(s, c)) => ScopeAlive(s)
<1> DEFINE r == Reloaded(s, c)
           gr == [g \in DOMAIN s.group |-> [s.group[g] EXCEPT !.cfg = c]]
<1>1. s \in SlotRecord /\ s.group \in [DOMAIN s.group -> GroupRecord] /\ dns.gen \in Nat
  BY DEF Sound, IInv, TypeOK
<1>2. \A g \in DOMAIN s.group : /\ gr[g] \in GroupRecord /\ gr[g].cfg = c
                                /\ gr[g].sock = s.group[g].sock
  BY <1>1 DEF GroupRecord
<1>3. gr \in [DOMAIN s.group -> GroupRecord] /\ DOMAIN gr = DOMAIN s.group
  BY <1>2
<1>4. Resolved(c) = dns.gen
  BY ResolvedNow
<1>5. /\ r \in SlotRecord /\ r.tag = s.tag /\ r.state = s.state
      /\ r.cfg = c /\ r.line = s.line /\ r.res = dns.gen /\ r.born = dns.gen
      /\ r.group = gr /\ r.conns = s.conns /\ r.failed = s.failed
  <2>1. gr \in Groups /\ s.rev + 1 \in Nat
    BY <1>1, <1>3, GroupsTyped DEF SlotRecord
  <2>2. r = [s EXCEPT !.rev = s.rev + 1, !.cfg = c, !.group = gr, !.res = dns.gen, !.born = dns.gen]
    BY <1>4 DEF Reloaded
  <2> HIDE DEF r, gr
  <2> QED
    BY <1>1, <2>1, <2>2 DEF SlotRecord
<1>6. c.groups = s.cfg.groups /\ Keys(c) = Keys(s.cfg)
  BY DEF MayReload, Keys
<1>7. \A g \in DOMAIN s.group : s.group[g].sock = "taken" => s.failed
  BY DEF Sound
<1> HIDE DEF r, gr
<1>8. gr \in [DOMAIN c.groups -> GroupRecord]
  BY <1>3, <1>6, GroupsTyped
<1>9. Sound(r)
  BY <1>2, <1>3, <1>5, <1>7, <1>8 DEF Sound
<1>10. (Silent(s) => Silent(r)) /\ (ScopeAlive(r) => ScopeAlive(s))
  BY <1>2, <1>3, <1>5 DEF Silent, ScopeAlive
<1> QED
  BY <1>5, <1>6, <1>9, <1>10 DEF r

\* update_inbound reloads the slot it noted, or changes nothing.
LEMMA UpdateEndsStep ==
    ASSUME IInv, NEW p \in Callers, UpdateEnds(p)
    PROVE  IInv'
<1> DEFINE n == call[p].slot
           s == slots[n]
           c == call[p].cfg
           r == Reloaded(s, c)
<1>1. /\ call[p].op = "update" /\ c \in Configs /\ lock = Free /\ lock # p /\ Done(p)
      /\ UNCHANGED <<inbounds, bound, lines, leases, lock>>
  BY DEF UpdateEnds, At, LockFree, IInv, Structure, CallShape
<1>2. CASE UNCHANGED <<slots, dns>>
  <2>1. CallsOK'
    BY <1>1, <1>2, CallsFact, CallWaits, IdleWaits DEF SameStates, Done
  <2> QED
    BY <1>1, <1>2, <2>1, TablesStay DEF IInv, TypeOK
<1>3. CASE /\ Verified(p) /\ MayReload(s, c) /\ slots' = [slots EXCEPT ![n] = r]
           /\ dns' = [dns EXCEPT !.cache = Published(c, Resolved(c))]
  <2>1. n \in DOMAIN slots /\ s.state = "live"
    BY <1>3 DEF Verified, IInv, Structure, Registered
  <2>2. slots \in Seq(SlotRecord) /\ Sound(s)
    BY <2>1, SlotFacts DEF IInv, TypeOK, Structure
  <2>3. /\ Sound(r) /\ r.state = s.state /\ r.tag = s.tag /\ r.line = s.line /\ r.cfg = c
        /\ Keys(c) = Keys(s.cfg) /\ r.res = dns.gen /\ r.born = dns.gen
        /\ ScopeAlive(r) => ScopeAlive(s)
    BY <1>1, <1>3, <2>2, ReloadedSound
  <2> HIDE DEF r
  <2>4. /\ slots' \in Seq(SlotRecord) /\ DOMAIN slots' = DOMAIN slots
        /\ slots'[n] = r /\ (\A m \in DOMAIN slots \ {n} : slots'[m] = slots[m])
    BY <1>3, <2>1, <2>2, <2>3, OneSlot DEF Sound
  <2>5. SlotShape'
    <3>1. \A m \in DOMAIN slots : Sound(slots[m]) /\ (~Owned(slots[m]) => Silent(slots[m]))
      BY <2>2, SlotFacts DEF IInv, Structure
    <3>2. Owned(r)
      BY <2>1, <2>3 DEF Owned
    <3> QED
      BY <2>3, <2>4, <3>1, <3>2, ShapeAfter
  <2>6. Peaceful /\ SameStates
    BY <2>1, <2>3, <2>4 DEF Peaceful, SameStates
  <2>7. CallsOK'
    BY <1>1, <2>6, CallsFact, CallWaits, IdleWaits DEF Done
  <2>8. Registered'
    BY <1>1, <2>3, <2>4, RegisteredKept DEF IInv, Structure
  <2>9. Claims'
    BY <1>1, <2>6, ClaimsKept DEF IInv, SameStates
  <2>10. Lineages'
    BY <1>1, <2>6, LineagesKept DEF IInv
  <2>11. dns' = [gen |-> dns.gen, cache |-> Published(c, dns.gen)]
    <3>1. dns = [gen |-> dns.gen, cache |-> dns.cache] /\ Resolved(c) = dns.gen
      BY ResolvedNow DEF IInv, TypeOK
    <3> QED
      BY <1>3, <3>1
  <2>12. Generations'
    <3>1. Generations
      BY DEF IInv
    <3>2. \A k \in DOMAIN Published(c, dns.gen) : Published(c, dns.gen)[k] = dns.gen
      BY <3>1 DEF Published, Inserted, Generations
    <3> QED
      BY <2>1, <2>3, <2>4, <2>11, <3>1, <3>2 DEF Generations
  <2>13. TypeOK'
    BY <1>1, <2>4, <2>7, <2>11 DEF IInv, TypeOK, CallsOK
  <2> QED
    BY <2>5, <2>7, <2>8, <2>9, <2>10, <2>12, <2>13 DEF IInv, Structure, CallsOK
<1> QED
  BY <1>2, <1>3 DEF UpdateEnds

-----------------------------------------------------------------------------
(* The theorems. *)

\* The engine starts without inbounds and calls.
LEMMA InitInv == Init => IInv
<1> SUFFICES ASSUME Init PROVE IInv
  OBVIOUS
<1>1. slots = <<>> /\ DOMAIN slots = {} /\ call = [p \in Callers |-> Idle]
  BY DEF Init
<1>2. TypeOK
  <2>1. call \in [Callers -> CallRecord] /\ slots \in Seq(SlotRecord)
    BY <1>1, IdleWaits DEF Waiting
  <2>2. /\ inbounds = [t \in DOMAIN inbounds |-> inbounds[t]]
        /\ bound = [k \in DOMAIN bound |-> bound[k]]
        /\ \A t \in DOMAIN lines : lines[t] \in Nat
    BY DEF Init, EmptyFun
  <2>3. dns = [gen |-> dns.gen, cache |-> dns.cache] /\ dns.gen \in Nat
    BY DEF Init
  <2> QED
    BY <2>1, <2>2, <2>3 DEF Init, TypeOK
<1>3. CallShape
  BY <1>1, IdleWaits DEF CallShape, Starting, Removing
<1>4. LockOwner /\ SlotOwner /\ SlotShape /\ Registered
  BY <1>1 DEF Init, LockOwner, SlotOwner, SlotShape, Registered, EmptyFun
<1>5. Claims /\ Generations /\ Lineages
  BY <1>1 DEF Init, Claims, Generations, Lineages, EmptyFun
<1> QED
  BY <1>2, <1>3, <1>4, <1>5 DEF IInv, Structure

\* Every step of a call, of the listeners and of the DNS client keeps the invariant.
LEMMA NextInv == IInv /\ [Next]_vars => IInv'
<1> SUFFICES ASSUME IInv, [Next]_vars PROVE IInv'
  OBVIOUS
<1>1. CASE UNCHANGED vars
  <2>1. CallsOK'
    BY <1>1, CallsFact, CallsStay DEF vars, SameStates
  <2> QED
    BY <1>1, <2>1, TablesStay DEF vars, IInv, TypeOK
<1>2. ASSUME NEW p \in Callers,
             \/ \E t \in Tags, c \in Configs, l \in {NoLease} \cup {x[2] : x \in leases} : Add(p, t, c, l)
             \/ AddChecks(p)
             \/ \E t \in Tags, c \in Configs : Update(p, t, c)
      PROVE  IInv'
  BY <1>2, WaitingSteps
<1>3. ASSUME NEW p \in Callers, AddLocks(p) \/ AddStarts(p) \/ AddEnds(p) \/ UpdateEnds(p)
      PROVE  IInv'
  BY <1>3, AddLocksStep, AddStartsStep, AddEndsStep, UpdateEndsStep
<1>4. ASSUME NEW p \in Callers,
             (\E t \in Tags, hard \in BOOLEAN : Remove(p, t, hard)) \/ RemoveEnds(p) \/ Cancel(p)
      PROVE  IInv'
  BY <1>4, RemoveStep, RemoveEndsStep, CancelStep
<1>5. CASE (\E t \in Tags : Preserve(t)) \/ DropLease \/ Rotate
  BY <1>5, LeaseSteps, RotateStep
<1>6. ASSUME NEW n \in DOMAIN slots, FailedListeners(n) \/ Plane(n)
      PROVE  IInv'
  BY <1>6, SlotPlane
<1> QED
  BY <1>1, <1>2, <1>3, <1>4, <1>5, <1>6 DEF Next

\* In every reachable state of the engine, whatever calls run and are dropped.
THEOREM Invariance == Spec => []IInv
  BY InitInv, NextInv, PTL DEF Spec

\* The registry, the claims and the calls are well formed.
THEOREM TypeCorrect == Spec => []TypeOK
<1>1. IInv => TypeOK
  BY DEF IInv
<1> QED
  BY <1>1, Invariance, PTL

\* A slot only accepts on keys of its configuration.
LEMMA AcceptsOnItsKeys ==
    ASSUME NEW s, Sound(s)
    PROVE  Accepting(s) \subseteq Keys(s.cfg)
  BY DEF Accepting, Keys, Sound

\* No listener accepts connections that the engine does not know of, whatever calls
\* fail or are dropped; no two accept on one address; and the claims are those of the
\* registered inbounds whenever the lock is free.
THEOREM ListenersKnownAlways == Spec => []ListenersAreKnown
<1>1. ASSUME IInv
      PROVE  ListenersAreKnown
  <2>1. ASSUME NEW n \in DOMAIN slots
        PROVE  /\ Sound(slots[n]) /\ (~Owned(slots[n]) => Silent(slots[n]))
    BY <1>1, SlotFacts DEF IInv, TypeOK, Structure
  <2>2. ASSUME NEW n \in DOMAIN slots, \E g \in DOMAIN slots[n].group : slots[n].group[g].sock = "run"
        PROVE  \/ slots[n].tag \in DOMAIN inbounds /\ inbounds[slots[n].tag] = n
               \/ lock # Free /\ call[lock].slot = n
    <3>1. slots[n].state \in {"starting", "live", "removing"}
      BY <2>1, <2>2 DEF Silent, Owned
    <3> QED
      BY <1>1, <3>1 DEF IInv, Structure, SlotOwner, Registered
  <2>3. ASSUME NEW n \in DOMAIN slots
        PROVE  /\ \A g, h \in DOMAIN slots[n].group : slots[n].group[g].cfg = slots[n].group[h].cfg
               /\ (slots[n].state = "live"
                   /\ \E g \in DOMAIN slots[n].group : slots[n].group[g].sock = "taken") => slots[n].failed
    BY <2>1 DEF Sound
  <2>4. ASSUME NEW n \in DOMAIN slots, NEW m \in DOMAIN slots \ {n}
        PROVE  Accepting(slots[n]) \cap Accepting(slots[m]) = {}
    <3>1. CASE Owned(slots[n]) /\ Owned(slots[m])
      <4>1. Keys(slots[n].cfg) \cap Keys(slots[m].cfg) = {}
        BY <1>1, <3>1 DEF IInv, Claims
      <4> QED
        BY <2>1, <4>1, AcceptsOnItsKeys
    <3>2. CASE ~Owned(slots[n]) \/ ~Owned(slots[m])
      <4>1. \A x \in DOMAIN slots : Silent(slots[x]) => Accepting(slots[x]) = {}
        BY DEF Silent, Accepting
      <4> QED
        BY <2>1, <3>2, <4>1
    <3> QED
      BY <3>1, <3>2
  <2>5. ASSUME LockFree
        PROVE  bound = [k \in UNION {Keys(slots[inbounds[t]].cfg) : t \in DOMAIN inbounds} |->
                           CHOOSE t \in DOMAIN inbounds : k \in Keys(slots[inbounds[t]].cfg)]
    <3>1. bound = [k \in DOMAIN bound |-> bound[k]] /\ Claims /\ Registered
      BY <1>1 DEF IInv, TypeOK, Structure
    <3>2. \A n \in DOMAIN slots : slots[n].state \notin {"starting", "removing"}
      BY <1>1, <2>5 DEF IInv, Structure, SlotOwner, LockFree
    <3>3. ASSUME NEW k \in DOMAIN bound
          PROVE  \E t \in DOMAIN inbounds : k \in Keys(slots[inbounds[t]].cfg)
      <4>1. PICK n \in DOMAIN slots : slots[n].state \in {"live", "removing"} /\ k \in Keys(slots[n].cfg)
        BY <3>1, <3>3 DEF Claims
      <4>2. slots[n].tag \in DOMAIN inbounds /\ inbounds[slots[n].tag] = n
        BY <3>1, <3>2, <4>1 DEF Registered
      <4> QED
        BY <4>1, <4>2
    <3>4. ASSUME NEW t \in DOMAIN inbounds, NEW k \in Keys(slots[inbounds[t]].cfg)
          PROVE  k \in DOMAIN bound /\ bound[k] = t
      <4>1. /\ inbounds[t] \in DOMAIN slots
            /\ slots[inbounds[t]].tag = t /\ slots[inbounds[t]].state = "live"
        BY <3>1 DEF Registered
      <4> QED
        BY <3>1, <3>4, <4>1 DEF Claims
    <3>5. DOMAIN bound = UNION {Keys(slots[inbounds[t]].cfg) : t \in DOMAIN inbounds}
      <4>1. \A k \in DOMAIN bound : k \in UNION {Keys(slots[inbounds[t]].cfg) : t \in DOMAIN inbounds}
        BY <3>3
      <4>2. \A k \in UNION {Keys(slots[inbounds[t]].cfg) : t \in DOMAIN inbounds} : k \in DOMAIN bound
        BY <3>4
      <4> QED
        BY <4>1, <4>2
    <3>6. \A k \in DOMAIN bound :
             bound[k] = CHOOSE t \in DOMAIN inbounds : k \in Keys(slots[inbounds[t]].cfg)
      BY <3>3, <3>4
    <3> QED
      BY <3>1, <3>5, <3>6
  <2> QED
    BY <2>2, <2>3, <2>4, <2>5 DEF ListenersAreKnown
<1> QED
  BY <1>1, Invariance, PTL

\* All that serves a tag has one replay lineage, and a resolver is of the generation
\* of the DNS client at the moment it was chosen.
THEOREM SharesCurrentAlways == Spec => []SharesCurrentState
<1>1. ASSUME IInv
      PROVE  SharesCurrentState
  <2>1. ASSUME NEW n \in DOMAIN slots
        PROVE  slots[n].res = slots[n].born
    BY <1>1 DEF IInv, Generations
  <2>2. ASSUME NEW n \in DOMAIN slots, NEW m \in DOMAIN slots, slots[n].tag = slots[m].tag,
               ScopeAlive(slots[n]), ScopeAlive(slots[m]),
               slots[n].state # "failed", slots[m].state # "failed"
        PROVE  slots[n].line = slots[m].line
    <3>1. slots[n] \in SlotRecord /\ slots[m] \in SlotRecord
      BY <1>1, SlotFacts DEF IInv, TypeOK, Structure
    <3>2. /\ Started(slots[n]) \/ slots[n].state = "starting"
          /\ Started(slots[m]) \/ slots[m].state = "starting"
      BY <2>2, <3>1 DEF SlotRecord, Started
    <3>3. CASE slots[n].state = "starting" /\ slots[m].state = "starting"
      BY <1>1, <3>3 DEF IInv, Structure, SlotOwner
    <3>4. CASE Started(slots[n])
      BY <1>1, <2>2, <3>2, <3>4 DEF IInv, Lineages
    <3>5. CASE Started(slots[m])
      BY <1>1, <2>2, <3>2, <3>5 DEF IInv, Lineages
    <3> QED
      BY <3>2, <3>3, <3>4, <3>5
  <2> QED
    BY <2>1, <2>2 DEF SharesCurrentState
<1> QED
  BY <1>1, Invariance, PTL
=============================================================================
