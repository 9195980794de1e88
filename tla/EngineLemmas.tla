----------------------------- MODULE EngineLemmas -----------------------------
(***************************************************************************)
(* The inductive invariant of Engine, and the lemmas its proof needs: what *)
(* happens to one slot, to the calls and the control lock, and that the    *)
(* steps that wait, stop or remove keep it.  For any tags, callers and     *)
(* configurations and any bounds.                                          *)
(***************************************************************************)
EXTENDS Engine, TLAPS

USE EngineAssumption DEF Free

-----------------------------------------------------------------------------
(* The inductive invariant. *)

Socks == {"none", "run", "stopping", "dead", "taken"}
GroupRecord == [sock : Socks, cfg : Configs]
Groups == UNION {[DOMAIN c.groups -> GroupRecord] : c \in Configs}
SlotRecord == [tag : Tags, state : {"starting", "live", "removing", "failed", "gone"},
               cfg : Configs, rev : Nat, group : Groups, conns : {"none", "open", "told"},
               line : Nat, res : Nat, kept : Nat, born : Nat, failed : BOOLEAN]
CallRecord == [op : {"idle", "add", "update", "remove"},
               pc : {"", "check", "resolved", "start", "health", "validated", "drain"},
               tag : Tags \cup {0}, cfg : Configs \cup {0}, lease : Nat, slot : Nat, rev : Nat,
               hard : BOOLEAN]

TypeOK ==
    /\ inbounds = [t \in DOMAIN inbounds |-> inbounds[t]]
    /\ bound = [k \in DOMAIN bound |-> bound[k]]
    /\ slots \in Seq(SlotRecord)
    /\ \A t \in DOMAIN lines : lines[t] \in Nat
    /\ \A x \in leases : x[2] \in Nat
    /\ dns = [gen |-> dns.gen, cache |-> dns.cache] /\ dns.gen \in Nat
    /\ lock \in Callers \cup {Free}
    /\ call \in [Callers -> CallRecord]

\* The calls that own the control lock, and what the others know.
Starting(p) == call[p].op = "add" /\ call[p].pc \in {"start", "health"}
Removing(p) == call[p].op = "remove"
CallShape ==
    \A p \in Callers :
        /\ Starting(p) \/ Removing(p) => lock = p
        /\ call[p].op = "add" => /\ call[p].tag \in Tags /\ call[p].cfg \in Configs
                                 /\ call[p].pc \in {"check", "resolved", "start", "health"}
        /\ call[p].op = "add" /\ ~Starting(p) => call[p].slot = 0
        /\ call[p].op = "update" => call[p].cfg \in Configs /\ call[p].pc = "validated"
        /\ call[p].op = "remove" => call[p].pc = "drain"

\* The lock is held for a slot: one that starts or one that is removed.
LockOwner ==
    lock # Free =>
        /\ Starting(lock) \/ Removing(lock)
        /\ call[lock].slot \in DOMAIN slots
        /\ Starting(lock) => slots[call[lock].slot].state = "starting"
        /\ Removing(lock) => slots[call[lock].slot].state = "removing"
SlotOwner ==
    \A n \in DOMAIN slots :
        slots[n].state \in {"starting", "removing"} => lock # Free /\ call[lock].slot = n

\* The groups of a slot run its configuration, a listener that was taken has been
\* noticed, and a slot that is given up accepts nothing.
SlotShape ==
    \A n \in DOMAIN slots :
        /\ slots[n].group \in [DOMAIN slots[n].cfg.groups -> GroupRecord]
        /\ \A g \in DOMAIN slots[n].group :
              /\ slots[n].group[g].cfg = slots[n].cfg
              /\ slots[n].group[g].sock = "taken" => slots[n].failed
              /\ slots[n].group[g].sock = "run" => Owned(slots[n])

\* The registered slots are the live ones; the tag of a starting one is not taken.
Registered ==
    /\ \A t \in DOMAIN inbounds :
          /\ inbounds[t] \in DOMAIN slots
          /\ slots[inbounds[t]].tag = t /\ slots[inbounds[t]].state = "live"
    /\ \A n \in DOMAIN slots :
          /\ slots[n].state = "live" =>
                slots[n].tag \in DOMAIN inbounds /\ inbounds[slots[n].tag] = n
          /\ slots[n].state = "starting" => slots[n].tag \notin DOMAIN inbounds

\* Slots that may accept have different keys; those of the live slots and of the one
\* being removed are claimed, and no others.
Claims ==
    /\ \A n, m \in DOMAIN slots :
          n # m /\ Owned(slots[n]) /\ Owned(slots[m]) =>
              Keys(slots[n].cfg) \cap Keys(slots[m].cfg) = {}
    /\ \A n \in DOMAIN slots : slots[n].state \in {"live", "removing"} =>
          \A k \in Keys(slots[n].cfg) : k \in DOMAIN bound /\ bound[k] = slots[n].tag
    /\ \A k \in DOMAIN bound : \E n \in DOMAIN slots :
          slots[n].state \in {"live", "removing"} /\ k \in Keys(slots[n].cfg)

\* Candidates of the resolver cache and of the slot that starts are of this generation.
Generations ==
    /\ \A k \in DOMAIN dns.cache : dns.cache[k] = dns.gen
    /\ \A n \in DOMAIN slots :
          /\ slots[n].res = slots[n].born
          /\ slots[n].state = "starting" => slots[n].res = dns.gen

\* What was registered and is still alive has the lineage its tag is entered with, and
\* a slot that starts beside it was given the same.
Started(s) == s.state \in {"live", "removing", "gone"}
Lineages ==
    \A m \in DOMAIN slots : Started(slots[m]) /\ ScopeAlive(slots[m]) =>
        /\ slots[m].tag \in DOMAIN lines /\ lines[slots[m].tag] = slots[m].line
        /\ \A n \in DOMAIN slots : slots[n].state = "starting" /\ slots[n].tag = slots[m].tag =>
              slots[n].line = slots[m].line

Structure == CallShape /\ LockOwner /\ SlotOwner /\ SlotShape /\ Registered
IInv == TypeOK /\ Structure /\ Claims /\ Generations /\ Lineages

-----------------------------------------------------------------------------
(* What happens to one slot. *)

\* Listener groups are numbered from one.
LEMMA GroupDomain ==
    ASSUME NEW c \in Configs
    PROVE  Len(c.groups) \in Nat /\ DOMAIN c.groups = 1 .. Len(c.groups)
  OBVIOUS

Sound(s) ==
    /\ s \in SlotRecord
    /\ s.group \in [DOMAIN s.cfg.groups -> GroupRecord]
    /\ \A g \in DOMAIN s.group :
          s.group[g].cfg = s.cfg /\ (s.group[g].sock = "taken" => s.failed)
Silent(s) == \A g \in DOMAIN s.group : s.group[g].sock # "run"

\* s becomes r, which serves no more than s did.
Fades(s, r) ==
    /\ Sound(r)
    /\ r.tag = s.tag /\ r.state = s.state /\ r.cfg = s.cfg /\ r.line = s.line
    /\ r.res = s.res /\ r.born = s.born
    /\ Silent(s) => Silent(r)
    /\ ScopeAlive(r) => ScopeAlive(s)

\* The groups of a sound slot, with other sockets.
LEMMA GroupsTyped ==
    ASSUME NEW s, Sound(s), NEW gr \in [DOMAIN s.group -> GroupRecord]
    PROVE  gr \in [DOMAIN s.cfg.groups -> GroupRecord] /\ gr \in Groups
  BY DEF Sound, SlotRecord, Groups

\* Changing sockets and connections alone, and to less, keeps a slot sound.
LEMMA Refitted ==
    ASSUME NEW s, Sound(s), NEW r \in SlotRecord,
           r.tag = s.tag, r.state = s.state, r.cfg = s.cfg, r.line = s.line,
           r.res = s.res, r.born = s.born,
           r.group \in [DOMAIN s.group -> GroupRecord],
           \A g \in DOMAIN s.group :
              /\ r.group[g].cfg = s.group[g].cfg
              /\ r.group[g].sock \in {"run", "stopping"} => s.group[g].sock \in {"run", "stopping"}
              /\ r.group[g].sock = "run" => s.group[g].sock = "run"
              /\ r.group[g].sock = "taken" => r.failed,
           r.conns # "none" => s.conns # "none"
    PROVE  Fades(s, r)
<1>1. DOMAIN r.group = DOMAIN s.group
  OBVIOUS
<1>2. Sound(r)
  BY <1>1, GroupsTyped DEF Sound
<1>3. Silent(s) => Silent(r)
  BY <1>1 DEF Silent
<1>4. ScopeAlive(r) => ScopeAlive(s)
  BY <1>1 DEF ScopeAlive
<1> QED
  BY <1>2, <1>3, <1>4 DEF Fades

\* Told to stop, its listeners accept nothing more and its connections are told too.
LEMMA HardStopFades ==
    ASSUME NEW s, Sound(s)
    PROVE  /\ Fades(s, HardStop(s)) /\ Silent(HardStop(s))
           /\ Fades(s, SetSockets(s, "stopping")) /\ Silent(SetSockets(s, "stopping"))
<1> DEFINE gr == [g \in DOMAIN s.group |->
                    [s.group[g] EXCEPT !.sock = IF s.group[g].sock = "run" THEN "stopping"
                                                ELSE s.group[g].sock]]
           co == IF s.conns = "open" THEN "told" ELSE s.conns
<1>1. s \in SlotRecord /\ s.group \in [DOMAIN s.group -> GroupRecord]
  BY DEF Sound
<1>2. \A g \in DOMAIN s.group : /\ gr[g] \in GroupRecord /\ gr[g].cfg = s.group[g].cfg
                                /\ gr[g].sock = IF s.group[g].sock = "run" THEN "stopping"
                                                ELSE s.group[g].sock
  BY <1>1 DEF GroupRecord, Socks
<1>3. gr \in [DOMAIN s.group -> GroupRecord]
  BY <1>2
<1>4. /\ HardStop(s) \in SlotRecord /\ HardStop(s).tag = s.tag /\ HardStop(s).state = s.state
      /\ HardStop(s).cfg = s.cfg /\ HardStop(s).line = s.line /\ HardStop(s).res = s.res
      /\ HardStop(s).born = s.born
      /\ HardStop(s).group = gr /\ HardStop(s).conns = co /\ HardStop(s).failed = s.failed
  BY <1>1, <1>3, GroupsTyped DEF HardStop, SetSockets, SlotRecord
<1>5. /\ SetSockets(s, "stopping") \in SlotRecord /\ SetSockets(s, "stopping").tag = s.tag
      /\ SetSockets(s, "stopping").state = s.state
      /\ SetSockets(s, "stopping").cfg = s.cfg /\ SetSockets(s, "stopping").line = s.line
      /\ SetSockets(s, "stopping").res = s.res /\ SetSockets(s, "stopping").born = s.born
      /\ SetSockets(s, "stopping").group = gr /\ SetSockets(s, "stopping").conns = s.conns
      /\ SetSockets(s, "stopping").failed = s.failed
  BY <1>1, <1>3, GroupsTyped DEF SetSockets, SlotRecord
<1>6. s.conns \in {"none", "open", "told"} /\ s.failed \in BOOLEAN
  BY <1>1 DEF SlotRecord
<1>7. co \in {"none", "open", "told"} /\ (co # "none" => s.conns # "none")
  BY <1>6
<1>8. \A g \in DOMAIN s.group :
          /\ gr[g].cfg = s.group[g].cfg
          /\ gr[g].sock \in {"run", "stopping"} => s.group[g].sock \in {"run", "stopping"}
          /\ gr[g].sock # "run"
          /\ gr[g].sock = "taken" => s.failed
  BY <1>2 DEF Sound
<1> HIDE DEF gr, co
<1>9. Fades(s, HardStop(s)) /\ Fades(s, SetSockets(s, "stopping"))
  BY <1>3, <1>4, <1>5, <1>6, <1>7, <1>8, Refitted
<1> QED
  BY <1>3, <1>4, <1>5, <1>8, <1>9 DEF Silent

\* Once awaited, its listeners have closed their sockets.
LEMMA ShutdownFades ==
    ASSUME NEW s, Sound(s)
    PROVE  /\ Fades(s, HardShutdown(s)) /\ Silent(HardShutdown(s))
           /\ Fades(s, Shutdown(s)) /\ Silent(Shutdown(s))
<1> DEFINE gr == [g \in DOMAIN s.group |-> [s.group[g] EXCEPT !.sock = "none"]]
           co == IF s.conns = "open" THEN "told" ELSE s.conns
<1>1. s \in SlotRecord /\ s.group \in [DOMAIN s.group -> GroupRecord]
  BY DEF Sound
<1>2. \A g \in DOMAIN s.group : /\ gr[g] \in GroupRecord /\ gr[g].cfg = s.group[g].cfg
                                /\ gr[g].sock = "none"
  BY <1>1 DEF GroupRecord, Socks
<1>3. gr \in [DOMAIN s.group -> GroupRecord]
  BY <1>2
<1>4. /\ HardShutdown(s) \in SlotRecord /\ HardShutdown(s).tag = s.tag
      /\ HardShutdown(s).state = s.state
      /\ HardShutdown(s).cfg = s.cfg /\ HardShutdown(s).line = s.line
      /\ HardShutdown(s).res = s.res /\ HardShutdown(s).born = s.born
      /\ HardShutdown(s).group = gr /\ HardShutdown(s).conns = co
      /\ HardShutdown(s).failed = s.failed
  BY <1>1, <1>3, GroupsTyped DEF HardShutdown, SlotRecord
<1>5. /\ Shutdown(s) \in SlotRecord /\ Shutdown(s).tag = s.tag /\ Shutdown(s).state = s.state
      /\ Shutdown(s).cfg = s.cfg /\ Shutdown(s).line = s.line /\ Shutdown(s).res = s.res
      /\ Shutdown(s).born = s.born
      /\ Shutdown(s).group = gr /\ Shutdown(s).conns = s.conns /\ Shutdown(s).failed = s.failed
  BY <1>1, <1>3, GroupsTyped DEF Shutdown, SlotRecord
<1>6. s.conns \in {"none", "open", "told"} /\ s.failed \in BOOLEAN
  BY <1>1 DEF SlotRecord
<1>7. co \in {"none", "open", "told"} /\ (co # "none" => s.conns # "none")
  BY <1>6
<1> HIDE DEF gr, co
<1>8. Fades(s, HardShutdown(s)) /\ Fades(s, Shutdown(s))
  BY <1>2, <1>3, <1>4, <1>5, <1>6, <1>7, Refitted
<1> QED
  BY <1>2, <1>3, <1>4, <1>5, <1>8 DEF Silent

\* listener_failed remembers the listener it takes.
LEMMA ObservedFades ==
    ASSUME NEW s, Sound(s)
    PROVE  Fades(s, Observed(s))
<1> DEFINE gr == [g \in DOMAIN s.group |->
                    [s.group[g] EXCEPT !.sock = IF s.group[g].sock = "dead" THEN "taken"
                                                ELSE s.group[g].sock]]
<1>1. s \in SlotRecord /\ s.group \in [DOMAIN s.group -> GroupRecord]
  BY DEF Sound
<1>2. \A g \in DOMAIN s.group : /\ gr[g] \in GroupRecord /\ gr[g].cfg = s.group[g].cfg
                                /\ gr[g].sock = IF s.group[g].sock = "dead" THEN "taken"
                                                ELSE s.group[g].sock
  BY <1>1 DEF GroupRecord, Socks
<1>3. gr \in [DOMAIN s.group -> GroupRecord]
  BY <1>2
<1>4. /\ Observed(s) \in SlotRecord /\ Observed(s).tag = s.tag /\ Observed(s).state = s.state
      /\ Observed(s).cfg = s.cfg /\ Observed(s).line = s.line /\ Observed(s).res = s.res
      /\ Observed(s).born = s.born
      /\ Observed(s).group = gr /\ Observed(s).conns = s.conns /\ Observed(s).failed = TRUE
  BY <1>1, <1>3, GroupsTyped DEF Observed, SlotRecord
<1>5. s.conns \in {"none", "open", "told"}
  BY <1>1 DEF SlotRecord
<1> HIDE DEF gr
<1> QED
  BY <1>2, <1>3, <1>4, <1>5, Refitted

\* A listener task that stops or dies.
LEMMA TaskFades ==
    ASSUME NEW s, Sound(s), NEW g \in DOMAIN s.group, s.group[g].sock \in {"run", "stopping"},
           NEW to \in {"none", "dead"}
    PROVE  Fades(s, [s EXCEPT !.group[g].sock = to])
<1> DEFINE gr == [s.group EXCEPT ![g] = [s.group[g] EXCEPT !.sock = to]]
           r == [s EXCEPT !.group[g].sock = to]
<1>1. s \in SlotRecord /\ s.group \in [DOMAIN s.group -> GroupRecord]
  BY DEF Sound
<1>2. \A h \in DOMAIN s.group : /\ gr[h] \in GroupRecord /\ gr[h].cfg = s.group[h].cfg
                                /\ gr[h].sock = IF h = g THEN to ELSE s.group[h].sock
  BY <1>1 DEF GroupRecord, Socks
<1>3. gr \in [DOMAIN s.group -> GroupRecord]
  BY <1>1, <1>2
<1>4. /\ r \in SlotRecord /\ r.tag = s.tag /\ r.state = s.state
      /\ r.cfg = s.cfg /\ r.line = s.line /\ r.res = s.res /\ r.born = s.born
      /\ r.group = gr /\ r.conns = s.conns /\ r.failed = s.failed
  BY <1>1, <1>3, GroupsTyped DEF SlotRecord
<1>5. \A h \in DOMAIN s.group : s.group[h].sock = "taken" => s.failed
  BY DEF Sound
<1> HIDE DEF gr, r
<1>6. Fades(s, r)
  BY <1>2, <1>3, <1>4, <1>5, Refitted
<1> QED
  BY <1>6 DEF r

\* A connection that ends, or that is accepted on a listener that runs.
LEMMA ConnectionFades ==
    ASSUME NEW s, Sound(s)
    PROVE  /\ Fades(s, [s EXCEPT !.conns = "none"])
           /\ ~Silent(s) => Fades(s, [s EXCEPT !.conns = "open", !.kept = s.res])
<1> DEFINE q == [s EXCEPT !.conns = "none"]
           r == [s EXCEPT !.conns = "open", !.kept = s.res]
<1>1. s \in SlotRecord /\ s.group \in [DOMAIN s.group -> GroupRecord]
  BY DEF Sound
<1>2. /\ q \in SlotRecord /\ q.tag = s.tag /\ q.state = s.state
      /\ q.cfg = s.cfg /\ q.line = s.line /\ q.res = s.res /\ q.born = s.born
      /\ q.group = s.group /\ q.conns = "none" /\ q.failed = s.failed
  BY <1>1 DEF SlotRecord
<1>3. /\ r \in SlotRecord /\ r.tag = s.tag /\ r.state = s.state
      /\ r.cfg = s.cfg /\ r.line = s.line /\ r.res = s.res /\ r.born = s.born
      /\ r.group = s.group /\ r.failed = s.failed
  BY <1>1 DEF SlotRecord
<1>4. \A g \in DOMAIN s.group : s.group[g].sock = "taken" => s.failed
  BY DEF Sound
<1> HIDE DEF q, r
<1>5. Fades(s, q)
  BY <1>1, <1>2, <1>4, Refitted
<1>6. ~Silent(s) => ScopeAlive(s)
  BY DEF Silent, ScopeAlive
<1>7. Sound(r) /\ (Silent(s) => Silent(r))
  BY <1>3 DEF Sound, Silent
<1>8. ~Silent(s) => Fades(s, r)
  BY <1>3, <1>6, <1>7 DEF Fades
<1> QED
  BY <1>5, <1>8 DEF q, r

\* A slot that fades may change its state at the same time.
Settled(r, x) == [r EXCEPT !.state = x]

\* It is as alive as before, or less.
LEMMA StateChanged ==
    ASSUME NEW s, NEW r, Fades(s, r), NEW x \in {"failed", "gone", "removing", "live"}
    PROVE  /\ Sound(Settled(r, x)) /\ (Silent(r) => Silent(Settled(r, x)))
           /\ Settled(r, x).state = x /\ Settled(r, x).tag = s.tag /\ Settled(r, x).cfg = s.cfg
           /\ Settled(r, x).line = s.line /\ Settled(r, x).res = s.res
           /\ Settled(r, x).born = s.born
           /\ ScopeAlive(Settled(r, x)) => ScopeAlive(s)
<1> DEFINE q == Settled(r, x)
<1>1. /\ q \in SlotRecord /\ q.state = x /\ q.group = r.group /\ q.conns = r.conns
      /\ q.tag = r.tag /\ q.cfg = r.cfg /\ q.line = r.line /\ q.res = r.res /\ q.born = r.born
      /\ q.failed = r.failed
  BY DEF Fades, Sound, SlotRecord, Settled
<1> HIDE DEF q
<1>2. Sound(q) /\ (Silent(r) => Silent(q)) /\ (ScopeAlive(q) => ScopeAlive(r))
  BY <1>1 DEF Fades, Sound, Silent, ScopeAlive
<1>3. /\ Sound(q) /\ (Silent(r) => Silent(q)) /\ q.state = x
      /\ q.tag = s.tag /\ q.cfg = s.cfg /\ q.line = s.line /\ q.res = s.res /\ q.born = s.born
      /\ ScopeAlive(q) => ScopeAlive(s)
  BY <1>1, <1>2 DEF Fades
<1> QED
  BY <1>3 DEF q

-----------------------------------------------------------------------------
(* What happens to all slots. *)

\* One slot is replaced.
LEMMA OneSlot ==
    ASSUME slots \in Seq(SlotRecord), NEW n \in DOMAIN slots, NEW r \in SlotRecord,
           slots' = [slots EXCEPT ![n] = r]
    PROVE  /\ slots' \in Seq(SlotRecord) /\ DOMAIN slots' = DOMAIN slots /\ Len(slots') = Len(slots)
           /\ slots'[n] = r /\ \A m \in DOMAIN slots : m # n => slots'[m] = slots[m]
  OBVIOUS

\* The parts of the invariant about one slot, as facts of that slot.
LEMMA SlotFacts ==
    ASSUME slots \in Seq(SlotRecord), SlotShape, NEW n \in DOMAIN slots
    PROVE  /\ Sound(slots[n]) /\ (~Owned(slots[n]) => Silent(slots[n]))
           /\ slots[n] \in SlotRecord
  BY DEF SlotShape, Sound, Silent

\* And back, after a step.
LEMMA ShapeAfter ==
    ASSUME \A n \in DOMAIN slots' : Sound(slots'[n]) /\ (~Owned(slots'[n]) => Silent(slots'[n]))
    PROVE  SlotShape'
  BY DEF SlotShape, Sound, Silent

\* No slot changes hands or keys, though one may be given up or begin to be removed.
Peaceful ==
    /\ DOMAIN slots' = DOMAIN slots
    /\ \A n \in DOMAIN slots :
          /\ slots'[n].tag = slots[n].tag /\ slots'[n].line = slots[n].line
          /\ Keys(slots'[n].cfg) = Keys(slots[n].cfg)
          /\ \/ slots'[n].state = slots[n].state
             \/ slots[n].state = "starting" /\ slots'[n].state = "failed"
             \/ slots[n].state = "live" /\ slots'[n].state = "removing"
             \/ slots[n].state = "removing" /\ slots'[n].state = "gone"
          /\ Started(slots[n]) /\ ScopeAlive(slots'[n]) => ScopeAlive(slots[n])

\* Lineages stay right when slots only fade.
LEMMA LineagesKept ==
    ASSUME Lineages, Peaceful, UNCHANGED lines
    PROVE  Lineages'
<1> SUFFICES ASSUME NEW m \in DOMAIN slots', Started(slots'[m]), ScopeAlive(slots'[m])
             PROVE  /\ slots'[m].tag \in DOMAIN lines' /\ lines'[slots'[m].tag] = slots'[m].line
                    /\ \A n \in DOMAIN slots' :
                          slots'[n].state = "starting" /\ slots'[n].tag = slots'[m].tag =>
                              slots'[n].line = slots'[m].line
  BY DEF Lineages, Started
<1>1. m \in DOMAIN slots /\ Started(slots[m])
  BY DEF Peaceful, Started
<1>2. ScopeAlive(slots[m])
  BY <1>1 DEF Peaceful
<1>3. \A n \in DOMAIN slots' : slots'[n].state = "starting" => slots[n].state = "starting"
  BY DEF Peaceful
<1> QED
  BY <1>1, <1>2, <1>3 DEF Lineages, Peaceful

\* Claims stay right unless a slot is given up that had some.
LEMMA ClaimsKept ==
    ASSUME Claims, Peaceful, UNCHANGED bound,
           \A n \in DOMAIN slots : slots[n].state = "removing" => slots'[n].state = "removing"
    PROVE  Claims'
<1>1. \A n \in DOMAIN slots' : Owned(slots'[n]) => Owned(slots[n])
  BY DEF Peaceful, Owned
<1>2. \A n \in DOMAIN slots : slots'[n].state \in {"live", "removing"}
                                <=> slots[n].state \in {"live", "removing"}
  BY DEF Peaceful
<1>3. ASSUME NEW n \in DOMAIN slots', NEW m \in DOMAIN slots', n # m,
             Owned(slots'[n]), Owned(slots'[m])
      PROVE  Keys(slots'[n].cfg) \cap Keys(slots'[m].cfg) = {}
  BY <1>1, <1>3 DEF Claims, Peaceful
<1>4. ASSUME NEW n \in DOMAIN slots', slots'[n].state \in {"live", "removing"},
             NEW k \in Keys(slots'[n].cfg)
      PROVE  k \in DOMAIN bound' /\ bound'[k] = slots'[n].tag
  BY <1>2, <1>4 DEF Claims, Peaceful
<1>5. ASSUME NEW k \in DOMAIN bound'
      PROVE  \E n \in DOMAIN slots' :
                slots'[n].state \in {"live", "removing"} /\ k \in Keys(slots'[n].cfg)
  BY <1>2, <1>5 DEF Claims, Peaceful
<1> QED
  BY <1>3, <1>4, <1>5 DEF Claims

\* The slot that was being removed gives its claims back.
LEMMA ClaimsReleased ==
    ASSUME Claims, Peaceful, NEW n \in DOMAIN slots, bound' = Released(slots[n]),
           slots[n].state = "removing", slots'[n].state = "gone",
           \A m \in DOMAIN slots : m # n => slots'[m] = slots[m]
    PROVE  Claims'
<1>1. \A m \in DOMAIN slots' : Owned(slots'[m]) => Owned(slots[m]) /\ m # n /\ slots'[m] = slots[m]
  BY DEF Peaceful, Owned
<1>2. \A m \in DOMAIN slots : m # n /\ Owned(slots[m]) =>
         Keys(slots[n].cfg) \cap Keys(slots[m].cfg) = {}
  BY DEF Claims, Owned
<1>3. /\ DOMAIN bound' = DOMAIN bound \ Keys(slots[n].cfg)
      /\ \A k \in DOMAIN bound' : bound'[k] = bound[k]
  BY DEF Released
<1>4. ASSUME NEW l \in DOMAIN slots', NEW m \in DOMAIN slots', l # m,
             Owned(slots'[l]), Owned(slots'[m])
      PROVE  Keys(slots'[l].cfg) \cap Keys(slots'[m].cfg) = {}
  BY <1>1, <1>4 DEF Claims, Peaceful
<1>5. ASSUME NEW m \in DOMAIN slots', slots'[m].state \in {"live", "removing"},
             NEW k \in Keys(slots'[m].cfg)
      PROVE  k \in DOMAIN bound' /\ bound'[k] = slots'[m].tag
  <2>1. m \in DOMAIN slots /\ m # n /\ slots'[m] = slots[m] /\ Owned(slots[m])
    BY <1>1, <1>5 DEF Peaceful, Owned
  <2>2. k \in DOMAIN bound /\ bound[k] = slots[m].tag
    BY <1>5, <2>1 DEF Claims
  <2>3. k \notin Keys(slots[n].cfg)
    BY <1>2, <1>5, <2>1
  <2> QED
    BY <1>3, <2>1, <2>2, <2>3
<1>6. ASSUME NEW k \in DOMAIN bound'
      PROVE  \E m \in DOMAIN slots' :
                slots'[m].state \in {"live", "removing"} /\ k \in Keys(slots'[m].cfg)
  <2>1. PICK m \in DOMAIN slots :
            slots[m].state \in {"live", "removing"} /\ k \in Keys(slots[m].cfg)
    BY <1>3, <1>6 DEF Claims
  <2>2. m # n
    BY <1>3, <1>6, <2>1
  <2> QED
    BY <2>1, <2>2 DEF Peaceful
<1> QED
  BY <1>4, <1>5, <1>6 DEF Claims

\* One slot fades, with or without a change of its state: what it shares stays right.
FadesInto(n, r) ==
    /\ n \in DOMAIN slots /\ slots' = [slots EXCEPT ![n] = r]
    /\ Sound(r) /\ (~Owned(r) => Silent(r))
    /\ r.tag = slots[n].tag /\ r.cfg = slots[n].cfg /\ r.line = slots[n].line
    /\ r.res = slots[n].res /\ r.born = slots[n].born
    /\ Started(slots[n]) /\ ScopeAlive(r) => ScopeAlive(slots[n])
    /\ \/ r.state = slots[n].state
       \/ slots[n].state = "starting" /\ r.state = "failed"
       \/ slots[n].state = "live" /\ r.state = "removing"
       \/ slots[n].state = "removing" /\ r.state = "gone"

\* The other slots are as they were, and all of them are sound.
LEMMA SlotStep ==
    ASSUME IInv, NEW n, NEW r, FadesInto(n, r)
    PROVE  /\ slots' \in Seq(SlotRecord) /\ DOMAIN slots' = DOMAIN slots
           /\ slots'[n] = r /\ (\A m \in DOMAIN slots \ {n} : slots'[m] = slots[m])
           /\ SlotShape' /\ Peaceful
<1>1. slots \in Seq(SlotRecord)
  BY DEF IInv, TypeOK
<1>2. n \in DOMAIN slots /\ r \in SlotRecord
  BY DEF FadesInto, Sound
<1>3. /\ slots' \in Seq(SlotRecord) /\ DOMAIN slots' = DOMAIN slots
      /\ slots'[n] = r /\ (\A m \in DOMAIN slots \ {n} : slots'[m] = slots[m])
  BY <1>1, <1>2, OneSlot DEF FadesInto
<1>4. \A m \in DOMAIN slots : Sound(slots[m]) /\ (~Owned(slots[m]) => Silent(slots[m]))
  BY <1>1, SlotFacts DEF IInv, Structure
<1>5. SlotShape'
  BY <1>3, <1>4, ShapeAfter DEF FadesInto
<1>6. Peaceful
  BY <1>3 DEF Peaceful, FadesInto
<1> QED
  BY <1>3, <1>5, <1>6

\* So do the resolvers, which a slot that fades keeps.
LEMMA GenerationsKept ==
    ASSUME IInv, NEW n, NEW r, FadesInto(n, r), UNCHANGED dns
    PROVE  Generations'
<1>1. /\ DOMAIN slots' = DOMAIN slots
      /\ slots'[n] = r /\ (\A m \in DOMAIN slots \ {n} : slots'[m] = slots[m])
  BY SlotStep
<1>2. /\ r.res = slots[n].res /\ r.born = slots[n].born /\ n \in DOMAIN slots
      /\ r.state = "starting" => slots[n].state = "starting"
  BY DEF FadesInto
<1> QED
  BY <1>1, <1>2 DEF IInv, Generations

\* The table of inbounds stays right while no slot is registered or taken out.
LEMMA RegisteredKept ==
    ASSUME Registered, UNCHANGED inbounds, DOMAIN slots' = DOMAIN slots,
           \A m \in DOMAIN slots :
              /\ slots'[m].tag = slots[m].tag
              /\ slots'[m].state = "live" <=> slots[m].state = "live"
              /\ slots'[m].state = "starting" => slots[m].state = "starting"
    PROVE  Registered'
  BY DEF Registered

-----------------------------------------------------------------------------
(* What happens to calls and to the control lock. *)

CallsOK == lock \in Callers \cup {Free} /\ call \in [Callers -> CallRecord]
           /\ CallShape /\ LockOwner /\ SlotOwner

\* A call that waits without the lock, or no call at all.
Waiting(r) ==
    /\ r \in CallRecord /\ r.op # "remove"
    /\ r.op = "add" => /\ r.tag \in Tags /\ r.cfg \in Configs /\ r.slot = 0
                       /\ r.pc \in {"check", "resolved"}
    /\ r.op = "update" => r.cfg \in Configs /\ r.pc = "validated"

\* No call waits for nothing.
LEMMA IdleWaits == Waiting(Idle) /\ Idle.op = "idle"
  BY DEF Waiting, Idle, CallRecord

\* The slots a call works on are where they were.
SameStates == DOMAIN slots' = DOMAIN slots
              /\ \A n \in DOMAIN slots : slots'[n].state = slots[n].state

\* A call that does not hold the lock goes on.
LEMMA CallWaits ==
    ASSUME CallsOK, SameStates, NEW p \in Callers, lock # p, UNCHANGED lock,
           NEW r, Waiting(r), call' = [call EXCEPT ![p] = r]
    PROVE  CallsOK'
<1>1. call' \in [Callers -> CallRecord] /\ call'[p] = r
  BY DEF CallsOK, Waiting
<1>2. \A q \in Callers : q # p => call'[q] = call[q]
  BY DEF CallsOK
<1>3. CallShape'
  <2> SUFFICES ASSUME NEW q \in Callers
               PROVE  /\ Starting(q)' \/ Removing(q)' => lock' = q
                      /\ call'[q].op = "add" => /\ call'[q].tag \in Tags /\ call'[q].cfg \in Configs
                                                /\ call'[q].pc \in {"check", "resolved", "start", "health"}
                      /\ call'[q].op = "add" /\ ~Starting(q)' => call'[q].slot = 0
                      /\ call'[q].op = "update" => call'[q].cfg \in Configs /\ call'[q].pc = "validated"
                      /\ call'[q].op = "remove" => call'[q].pc = "drain"
    BY DEF CallShape
  <2>1. CASE q = p
    BY <1>1, <2>1 DEF Waiting, Starting, Removing
  <2>2. CASE q # p
    BY <1>2, <2>2 DEF CallsOK, CallShape, Starting, Removing
  <2> QED
    BY <2>1, <2>2
<1>4. lock # Free => call'[lock] = call[lock]
  BY <1>2 DEF CallsOK
<1>5. LockOwner'
  BY <1>4 DEF CallsOK, LockOwner, SameStates, Starting, Removing
<1>6. SlotOwner'
  BY <1>4 DEF CallsOK, SlotOwner, SameStates
<1> QED
  BY <1>1, <1>3, <1>5, <1>6 DEF CallsOK

\* No call goes on.
LEMMA CallsStay ==
    ASSUME CallsOK, SameStates, UNCHANGED <<lock, call>>
    PROVE  CallsOK'
<1>1. CallShape'
  BY DEF CallsOK, CallShape, Starting, Removing
<1>2. LockOwner'
  BY DEF CallsOK, LockOwner, SameStates, Starting, Removing
<1>3. SlotOwner'
  BY DEF CallsOK, SlotOwner, SameStates
<1> QED
  BY <1>1, <1>2, <1>3 DEF CallsOK

\* The call that holds the lock ends, its slot settled.
LEMMA CallEnds ==
    ASSUME CallsOK, NEW p \in Callers, lock = p, Done(p), lock' = Free,
           DOMAIN slots' = DOMAIN slots,
           slots'[call[p].slot].state \notin {"starting", "removing"},
           \A m \in DOMAIN slots \ {call[p].slot} : slots'[m] = slots[m]
    PROVE  CallsOK'
<1>1. call' \in [Callers -> CallRecord] /\ call'[p] = Idle
  BY IdleWaits DEF CallsOK, Waiting, Done
<1>2. \A q \in Callers : q # p => call'[q] = call[q]
  BY DEF CallsOK, Done
<1>3. CallShape'
  <2> SUFFICES ASSUME NEW q \in Callers
               PROVE  /\ Starting(q)' \/ Removing(q)' => lock' = q
                      /\ call'[q].op = "add" => /\ call'[q].tag \in Tags /\ call'[q].cfg \in Configs
                                                /\ call'[q].pc \in {"check", "resolved", "start", "health"}
                      /\ call'[q].op = "add" /\ ~Starting(q)' => call'[q].slot = 0
                      /\ call'[q].op = "update" => call'[q].cfg \in Configs /\ call'[q].pc = "validated"
                      /\ call'[q].op = "remove" => call'[q].pc = "drain"
    BY DEF CallShape
  <2>1. CASE q = p
    BY <1>1, <2>1, IdleWaits DEF Starting, Removing
  <2>2. CASE q # p
    BY <1>2, <2>2 DEF CallsOK, CallShape, Starting, Removing
  <2> QED
    BY <2>1, <2>2
<1>4. LockOwner'
  BY DEF LockOwner
<1>5. SlotOwner'
  BY DEF CallsOK, SlotOwner
<1> QED
  BY <1>1, <1>3, <1>4, <1>5 DEF CallsOK

-----------------------------------------------------------------------------
(* Steps of calls that change nothing else, and of slots that only fade. *)

\* The invariant says of calls what the lemmas above keep.
LEMMA CallsFact == IInv => CallsOK
  BY DEF IInv, TypeOK, Structure, CallsOK

\* A step of a call or of a lease that leaves slots and tables alone.
LEMMA TablesStay ==
    ASSUME IInv, UNCHANGED <<inbounds, bound, slots, lines, dns>>, CallsOK',
           \A x \in leases' : x[2] \in Nat
    PROVE  IInv'
<1>1. TypeOK'
  BY DEF IInv, TypeOK, CallsOK
<1>2. SlotShape' /\ Registered'
  BY DEF IInv, Structure, SlotShape, Registered
<1>3. Claims' /\ Generations' /\ Lineages'
  BY DEF IInv, Claims, Generations, Lineages, Started
<1> QED
  BY <1>1, <1>2, <1>3 DEF IInv, Structure, CallsOK

\* A step in which one slot fades, given that tables and calls stay right.
LEMMA FadeStep ==
    ASSUME IInv, NEW n, NEW r, FadesInto(n, r), UNCHANGED <<lines, leases, dns>>,
           CallsOK', Registered', Claims',
           inbounds' = [t \in DOMAIN inbounds' |-> inbounds'[t]],
           bound' = [k \in DOMAIN bound' |-> bound'[k]]
    PROVE  IInv'
<1>1. slots' \in Seq(SlotRecord) /\ SlotShape' /\ Peaceful
  BY SlotStep
<1>2. TypeOK'
  BY <1>1 DEF IInv, TypeOK, CallsOK
<1>3. Generations'
  BY GenerationsKept
<1>4. Lineages'
  BY <1>1, LineagesKept DEF IInv
<1> QED
  BY <1>1, <1>2, <1>3, <1>4 DEF IInv, Structure, CallsOK

\* A slot that fades and keeps its state disturbs neither tables nor calls.
LEMMA PlainFade ==
    ASSUME IInv, NEW n, NEW r, FadesInto(n, r), r.state = slots[n].state,
           UNCHANGED <<inbounds, bound, lines, leases, dns>>, CallsOK'
    PROVE  IInv'
<1>1. /\ DOMAIN slots' = DOMAIN slots /\ Peaceful
      /\ slots'[n] = r /\ (\A m \in DOMAIN slots \ {n} : slots'[m] = slots[m])
  BY SlotStep
<1>2. \A m \in DOMAIN slots : slots'[m].state = slots[m].state /\ slots'[m].tag = slots[m].tag
  BY <1>1 DEF Peaceful
<1>3. Registered'
  BY <1>1, <1>2, RegisteredKept DEF IInv, Structure
<1>4. Claims'
  BY <1>1, <1>2, ClaimsKept DEF IInv
<1> QED
  BY <1>3, <1>4, FadeStep DEF IInv, TypeOK

\* Listener tasks, connections and the poll for dead listeners.
LEMMA SlotPlane ==
    ASSUME IInv, NEW n \in DOMAIN slots, FailedListeners(n) \/ Plane(n)
    PROVE  IInv'
<1> DEFINE s == slots[n]
<1>1. Sound(s) /\ (~Owned(s) => Silent(s)) /\ s \in SlotRecord
  BY SlotFacts DEF IInv, TypeOK, Structure
<1>2. ASSUME NEW r, Fades(s, r), slots' = [slots EXCEPT ![n] = r],
             UNCHANGED <<inbounds, bound, lines, leases, dns, lock, call>>
      PROVE  IInv'
  <2>1. FadesInto(n, r) /\ r.state = s.state
    BY <1>1, <1>2 DEF FadesInto, Fades, Owned
  <2>2. SameStates
    BY <2>1, SlotStep DEF SameStates
  <2>3. CallsOK'
    BY <1>2, <2>2, CallsFact, CallsStay
  <2> QED
    BY <1>2, <2>1, <2>3, PlainFade
<1>3. CASE FailedListeners(n)
  BY <1>1, <1>2, <1>3, ObservedFades DEF FailedListeners
<1>4. CASE Plane(n)
  <2>1. CASE /\ \E g \in DOMAIN s.group : s.group[g].sock = "run"
             /\ slots' = [slots EXCEPT ![n].conns = "open", ![n].kept = s.res]
    <3>1. ~Silent(s)
      BY <2>1 DEF Silent
    <3>2. Fades(s, [s EXCEPT !.conns = "open", !.kept = s.res])
      BY <1>1, <3>1, ConnectionFades
    <3>3. slots' = [slots EXCEPT ![n] = [s EXCEPT !.conns = "open", !.kept = s.res]]
      BY <2>1, <1>1 DEF IInv, TypeOK
    <3> QED
      BY <1>2, <1>4, <3>2, <3>3 DEF Plane
  <2>2. CASE slots' = [slots EXCEPT ![n].conns = "none"]
    <3>1. Fades(s, [s EXCEPT !.conns = "none"])
      BY <1>1, ConnectionFades
    <3> QED
      BY <1>2, <1>4, <2>2, <3>1 DEF Plane
  <2>3. ASSUME NEW g \in DOMAIN s.group, NEW to \in {"none", "dead"},
               s.group[g].sock \in {"run", "stopping"},
               slots' = [slots EXCEPT ![n].group[g].sock = to]
        PROVE  IInv'
    <3>1. Fades(s, [s EXCEPT !.group[g].sock = to])
      BY <1>1, <2>3, TaskFades
    <3> QED
      BY <1>2, <1>4, <2>3, <3>1 DEF Plane
  <2> QED
    BY <1>4, <2>1, <2>2, <2>3 DEF Plane
<1> QED
  BY <1>3, <1>4

\* remove_inbound: the slot leaves the table and waits for its removal to end.
LEMMA RemoveStep ==
    ASSUME IInv, NEW p \in Callers, NEW t \in Tags, NEW hard \in BOOLEAN, Remove(p, t, hard)
    PROVE  IInv'
<1> DEFINE n == inbounds[t]
           s == slots[n]
           q == IF hard THEN HardStop(s) ELSE s
           r == Settled(q, "removing")
<1>1. n \in DOMAIN slots /\ s.tag = t /\ s.state = "live" /\ t \in DOMAIN inbounds
  BY DEF Remove, IInv, Structure, Registered
<1>2. Sound(s) /\ s \in SlotRecord
  BY <1>1, SlotFacts DEF IInv, TypeOK, Structure
<1>3. Fades(s, q)
  BY <1>2, HardStopFades DEF Fades
<1>4. slots' = [slots EXCEPT ![n] = r]
  BY DEF Remove, Settled
<1> HIDE DEF q
<1>5. FadesInto(n, r) /\ r.state = "removing"
  <2>1. /\ Sound(r) /\ r.state = "removing"
        /\ r.tag = s.tag /\ r.cfg = s.cfg /\ r.line = s.line /\ r.res = s.res /\ r.born = s.born
        /\ ScopeAlive(r) => ScopeAlive(s)
    BY <1>3, StateChanged
  <2> QED
    BY <1>1, <1>4, <2>1 DEF FadesInto, Owned
<1>6. /\ DOMAIN slots' = DOMAIN slots /\ Peaceful
      /\ slots'[n] = r /\ (\A m \in DOMAIN slots \ {n} : slots'[m] = slots[m])
  BY <1>5, SlotStep
<1>7. lock = Free /\ lock' = p /\ UNCHANGED <<bound, lines, leases, dns>>
      /\ inbounds' = [x \in DOMAIN inbounds \ {t} |-> inbounds[x]]
  BY DEF Remove, LockFree
<1>8. \A m \in DOMAIN slots : slots[m].state \notin {"starting", "removing"}
  BY <1>7 DEF IInv, Structure, SlotOwner
<1>9. Claims'
  BY <1>6, <1>7, <1>8, ClaimsKept DEF IInv
<1>10. Registered'
  <2>1. ASSUME NEW x \in DOMAIN inbounds'
        PROVE  /\ inbounds'[x] \in DOMAIN slots'
               /\ slots'[inbounds'[x]].tag = x /\ slots'[inbounds'[x]].state = "live"
    <3>1. /\ x \in DOMAIN inbounds /\ x # t /\ inbounds'[x] = inbounds[x]
          /\ inbounds[x] \in DOMAIN slots /\ slots[inbounds[x]].tag = x
          /\ slots[inbounds[x]].state = "live"
      BY <1>7 DEF IInv, Structure, Registered
    <3>2. inbounds[x] # n
      BY <1>1, <3>1
    <3> QED
      BY <1>6, <3>1, <3>2
  <2>2. ASSUME NEW m \in DOMAIN slots'
        PROVE  /\ slots'[m].state = "live" =>
                     slots'[m].tag \in DOMAIN inbounds' /\ inbounds'[slots'[m].tag] = m
               /\ slots'[m].state # "starting"
    <3>1. CASE m = n
      BY <1>5, <1>6, <3>1
    <3>2. CASE m # n
      <4>1. slots'[m] = slots[m] /\ slots[m].state # "starting" /\ m \in DOMAIN slots
        BY <1>6, <1>8, <3>2
      <4>2. slots[m].state = "live" =>
               slots[m].tag \in DOMAIN inbounds /\ inbounds[slots[m].tag] = m
        BY <4>1 DEF IInv, Structure, Registered
      <4> QED
        BY <1>7, <3>2, <4>1, <4>2
    <3> QED
      BY <3>1, <3>2
  <2> QED
    BY <2>1, <2>2 DEF Registered
<1>11. CallsOK'
  <2> DEFINE c == [Idle EXCEPT !.op = "remove", !.pc = "drain", !.tag = t, !.slot = n, !.hard = hard]
  <2>0. n \in Nat
    BY <1>1 DEF IInv, TypeOK
  <2>1. c \in CallRecord /\ c.op = "remove" /\ c.pc = "drain" /\ c.slot = n
    BY <2>0 DEF CallRecord, Idle
  <2>2. call' = [call EXCEPT ![p] = c] /\ call \in [Callers -> CallRecord]
    BY DEF Remove, IInv, TypeOK
  <2> HIDE DEF c
  <2>3. /\ call' \in [Callers -> CallRecord] /\ call'[p] = c
        /\ \A x \in Callers : x # p => call'[x] = call[x]
    BY <2>1, <2>2
  <2>4. CallShape'
    <3>1. CallShape
      BY DEF IInv, Structure
    <3> QED
      BY <1>7, <2>1, <2>3, <3>1 DEF CallShape, Starting, Removing
  <2>5. LockOwner'
    BY <1>1, <1>5, <1>6, <1>7, <2>1, <2>3 DEF LockOwner, Starting, Removing
  <2>6. SlotOwner'
    BY <1>6, <1>7, <1>8, <2>1, <2>3 DEF SlotOwner
  <2> QED
    BY <1>7, <2>3, <2>4, <2>5, <2>6 DEF CallsOK
<1> QED
  BY <1>5, <1>7, <1>9, <1>10, <1>11, FadeStep DEF IInv, TypeOK

\* The call that holds the lock works on a slot that starts or is removed.
LEMMA LockHeld ==
    ASSUME IInv, NEW p \in Callers, Starting(p) \/ Removing(p)
    PROVE  /\ lock = p /\ call[p].slot \in DOMAIN slots
           /\ Starting(p) => slots[call[p].slot].state = "starting"
           /\ Removing(p) => slots[call[p].slot].state = "removing"
           /\ Sound(slots[call[p].slot]) /\ slots[call[p].slot] \in SlotRecord
<1>1. /\ lock = p /\ call[p].slot \in DOMAIN slots
      /\ Starting(p) => slots[call[p].slot].state = "starting"
      /\ Removing(p) => slots[call[p].slot].state = "removing"
  BY DEF IInv, Structure, CallShape, LockOwner
<1> QED
  BY <1>1, SlotFacts DEF IInv, TypeOK, Structure

\* A call that gives its slot up, silent, and lets the lock go: a start that failed,
\* a removal that ended, either one cancelled.
LEMMA GivenUp ==
    ASSUME IInv, NEW p \in Callers, Starting(p) \/ Removing(p),
           NEW q, Fades(slots[call[p].slot], q), Silent(q),
           slots' = [slots EXCEPT ![call[p].slot] =
                        Settled(q, IF Starting(p) THEN "failed" ELSE "gone")],
           bound' = IF Starting(p) THEN bound ELSE Released(slots[call[p].slot]),
           Done(p), lock' = Free, UNCHANGED <<inbounds, lines, leases, dns>>
    PROVE  IInv'
<1> DEFINE n == call[p].slot
           s == slots[n]
           x == IF Starting(p) THEN "failed" ELSE "gone"
           r == Settled(q, x)
<1>1. /\ lock = p /\ n \in DOMAIN slots /\ x \in {"failed", "gone"}
      /\ \/ Starting(p) /\ s.state = "starting" /\ x = "failed"
         \/ ~Starting(p) /\ s.state = "removing" /\ x = "gone"
  BY LockHeld
<1>2. slots' = [slots EXCEPT ![n] = r]
  OBVIOUS
<1>3. /\ Sound(r) /\ Silent(r) /\ r.state = x
      /\ r.tag = s.tag /\ r.cfg = s.cfg /\ r.line = s.line /\ r.res = s.res /\ r.born = s.born
      /\ ScopeAlive(r) => ScopeAlive(s)
  BY <1>1, StateChanged
<1>4. bound' = IF s.state = "starting" THEN bound ELSE Released(s)
  BY <1>1
<1> HIDE DEF x, r
<1>5. FadesInto(n, r)
  BY <1>1, <1>2, <1>3 DEF FadesInto
<1>6. /\ DOMAIN slots' = DOMAIN slots /\ Peaceful
      /\ slots'[n] = r /\ (\A m \in DOMAIN slots \ {n} : slots'[m] = slots[m])
  BY <1>5, SlotStep
<1>7. CallsOK'
  BY <1>1, <1>3, <1>6, CallsFact, CallEnds
<1>8. Registered'
  BY <1>1, <1>3, <1>6, RegisteredKept DEF IInv, Structure
<1>9. Claims' /\ bound' = [k \in DOMAIN bound' |-> bound'[k]]
  <2>1. CASE s.state = "starting"
    <3>1. \A m \in DOMAIN slots : slots[m].state = "removing" => slots'[m].state = "removing"
      BY <1>6, <2>1
    <3> QED
      BY <1>4, <1>6, <2>1, <3>1, ClaimsKept DEF IInv, TypeOK
  <2>2. CASE s.state = "removing"
    <3>1. bound' = Released(s) /\ r.state = "gone"
      BY <1>1, <1>3, <1>4, <2>2
    <3>2. Claims'
      BY <1>1, <1>6, <2>2, <3>1, ClaimsReleased DEF IInv
    <3> QED
      BY <3>1, <3>2 DEF Released
  <2> QED
    BY <1>1, <2>1, <2>2
<1> QED
  BY <1>5, <1>7, <1>8, <1>9, FadeStep DEF IInv, TypeOK

\* A removal ends when its listeners have closed their sockets.
LEMMA RemoveEndsStep ==
    ASSUME IInv, NEW p \in Callers, RemoveEnds(p)
    PROVE  IInv'
<1> DEFINE s == slots[call[p].slot]
           q == IF call[p].hard THEN HardShutdown(s) ELSE Shutdown(s)
<1>1. Removing(p) /\ ~Starting(p)
  BY DEF RemoveEnds, At, Removing, Starting
<1>2. Fades(s, q) /\ Silent(q)
  BY <1>1, LockHeld, ShutdownFades
<1>3. slots' = [slots EXCEPT ![call[p].slot] = Settled(q, "gone")]
  BY DEF RemoveEnds, Settled
<1> HIDE DEF q
<1> QED
  BY <1>1, <1>2, <1>3, GivenUp DEF RemoveEnds

\* The guards of a call that is dropped stop what it had started or was removing.
LEMMA CancelStep ==
    ASSUME IInv, NEW p \in Callers, Cancel(p)
    PROVE  IInv'
<1> DEFINE n == call[p].slot
           s == slots[n]
<1>1. CASE Starting(p) \/ Removing(p)
  <2>1. lock = p /\ lock' = Free /\ n \in DOMAIN slots /\ Sound(s)
    BY <1>1, LockHeld DEF Cancel
  <2>2. n # 0
    BY <2>1 DEF IInv, TypeOK
  <2>3. CASE Starting(p)
    <3>1. slots' = [slots EXCEPT ![n] = Settled(HardStop(s), "failed")] /\ bound' = bound
      BY <2>2, <2>3 DEF Cancel, Cancelled, Unbound, Settled, Starting
    <3>2. Fades(s, HardStop(s)) /\ Silent(HardStop(s))
      BY <2>1, HardStopFades
    <3> QED
      BY <1>1, <2>1, <2>3, <3>1, <3>2, GivenUp DEF Cancel
  <2>4. CASE Removing(p)
    <3> DEFINE q == IF call[p].hard THEN HardStop(s) ELSE SetSockets(s, "stopping")
    <3>0. ~Starting(p)
      BY <2>4 DEF Starting, Removing
    <3>1. slots' = [slots EXCEPT ![n] = Settled(q, "gone")] /\ bound' = Released(s)
      BY <2>4 DEF Cancel, Cancelled, Unbound, Settled, Removing
    <3>2. Fades(s, q) /\ Silent(q)
      BY <2>1, HardStopFades
    <3> HIDE DEF q
    <3> QED
      BY <1>1, <2>1, <3>0, <3>1, <3>2, GivenUp DEF Cancel
  <2> QED
    BY <1>1, <2>3, <2>4
<1>2. CASE ~(Starting(p) \/ Removing(p))
  <2>1. lock # p
    BY <1>2 DEF IInv, Structure, LockOwner
  <2>2. call[p].op # "remove" /\ (call[p].op = "add" => n = 0)
    BY <1>2 DEF IInv, Structure, CallShape, Removing
  <2>3. UNCHANGED <<inbounds, bound, slots, lines, leases, dns, lock>> /\ Done(p)
    BY <2>1, <2>2 DEF Cancel, Cancelled, Unbound
  <2>4. CallsOK'
    BY <2>1, <2>3, CallsFact, CallWaits, IdleWaits DEF SameStates, Done
  <2> QED
    BY <2>3, <2>4, TablesStay DEF IInv, TypeOK
<1> QED
  BY <1>1, <1>2

-----------------------------------------------------------------------------
(* Calls that wait, leases and the DNS client. *)

\* add_inbound validates and looks for the tag; update_inbound notes what it found.
LEMMA WaitingSteps ==
    ASSUME IInv, NEW p \in Callers,
           \/ \E t \in Tags, c \in Configs, l \in {NoLease} \cup {x[2] : x \in leases} : Add(p, t, c, l)
           \/ AddChecks(p)
           \/ \E t \in Tags, c \in Configs : Update(p, t, c)
    PROVE  IInv'
<1>1. ASSUME NEW r, Waiting(r), call' = [call EXCEPT ![p] = r], lock # p,
             UNCHANGED <<inbounds, bound, slots, lines, leases, dns, lock>>
      PROVE  IInv'
  <2>1. CallsOK'
    BY <1>1, CallsFact, CallWaits DEF SameStates
  <2> QED
    BY <1>1, <2>1, TablesStay DEF IInv, TypeOK
<1>2. ~Starting(p) /\ ~Removing(p) => lock # p
  BY DEF IInv, Structure, LockOwner
<1>3. call[p] = Idle => lock # p
  BY <1>2, IdleWaits DEF Starting, Removing
<1>4. ASSUME NEW t \in Tags, NEW c \in Configs, NEW l \in {NoLease} \cup {x[2] : x \in leases},
             Add(p, t, c, l)
      PROVE  IInv'
  <2> DEFINE r == [Idle EXCEPT !.op = "add", !.pc = "check", !.tag = t, !.cfg = c, !.lease = l]
  <2>1. l \in Nat
    BY DEF IInv, TypeOK, NoLease
  <2>2. Waiting(r)
    BY <2>1 DEF Waiting, CallRecord, Idle
  <2>3. call' = [call EXCEPT ![p] = r]
    BY <1>4 DEF Add
  <2> HIDE DEF r
  <2> QED
    BY <1>1, <1>3, <1>4, <2>2, <2>3 DEF Add
<1>5. CASE AddChecks(p)
  <2> DEFINE c == call[p]
             r == [c EXCEPT !.pc = "resolved"]
  <2>1. c \in CallRecord /\ c.op = "add" /\ c.pc = "check" /\ lock # p
    BY <1>2, <1>5 DEF AddChecks, At, IInv, TypeOK, Starting, Removing
  <2>2. c.tag \in Tags /\ c.cfg \in Configs /\ c.slot = 0
    BY <2>1 DEF IInv, Structure, CallShape, Starting
  <2>3. Waiting(r)
    BY <2>1, <2>2 DEF Waiting, CallRecord
  <2>4. \E x \in {Idle, r} : call' = [call EXCEPT ![p] = x]
    BY <1>5 DEF AddChecks
  <2> HIDE DEF r
  <2> QED
    BY <1>1, <1>5, <2>1, <2>3, <2>4, IdleWaits DEF AddChecks
<1>6. ASSUME NEW t \in Tags, NEW c \in Configs, Update(p, t, c)
      PROVE  IInv'
  <2> DEFINE n == inbounds[t]
             v == slots[n].rev
             r == [Idle EXCEPT !.op = "update", !.pc = "validated", !.tag = t, !.cfg = c,
                               !.slot = n, !.rev = v]
  <2>1. n \in DOMAIN slots
    BY <1>6 DEF Update, IInv, Structure, Registered
  <2>2. n \in Nat /\ v \in Nat
    <3>1. n \in Nat
      BY <2>1 DEF IInv, TypeOK
    <3>2. slots[n] \in SlotRecord
      BY <2>1, SlotFacts DEF IInv, TypeOK, Structure
    <3> QED
      BY <3>1, <3>2 DEF SlotRecord
  <2>3. call' = [call EXCEPT ![p] = r]
    BY <1>6 DEF Update
  <2> HIDE DEF n, v
  <2>4. Waiting(r)
    BY <2>2 DEF Waiting, CallRecord, Idle
  <2> HIDE DEF r
  <2> QED
    BY <1>1, <1>3, <1>6, <2>3, <2>4 DEF Update
<1> QED
  BY <1>4, <1>5, <1>6

\* Leases are taken of registered lineages, and given back.
LEMMA LeaseSteps ==
    ASSUME IInv, (\E t \in Tags : Preserve(t)) \/ DropLease
    PROVE  IInv'
<1>1. CallsOK' /\ UNCHANGED <<inbounds, bound, slots, lines, dns>>
  BY CallsFact, CallsStay DEF Preserve, DropLease, SameStates
<1>2. \A x \in leases' : x[2] \in Nat
  <2>1. ASSUME NEW t \in Tags, Preserve(t)
        PROVE  \A x \in leases' : x[2] \in Nat
    <3>1. inbounds[t] \in DOMAIN slots
      BY <2>1 DEF Preserve, IInv, Structure, Registered
    <3>2. slots[inbounds[t]].line \in Nat
      <4>1. slots[inbounds[t]] \in SlotRecord
        BY <3>1, SlotFacts DEF IInv, TypeOK, Structure
      <4> QED
        BY <4>1 DEF SlotRecord
    <3> QED
      BY <2>1, <3>2 DEF Preserve, IInv, TypeOK
  <2>2. CASE DropLease
    BY <2>2 DEF DropLease, IInv, TypeOK
  <2> QED
    BY <2>1, <2>2
<1> QED
  BY <1>1, <1>2, TablesStay

\* The DNS client is rotated between calls, when no slot starts.
LEMMA RotateStep ==
    ASSUME IInv, Rotate
    PROVE  IInv'
<1>1. CallsOK' /\ UNCHANGED <<inbounds, bound, slots, lines, leases>> /\ dns' = Rotated
               /\ lock = Free
  BY CallsFact, CallsStay DEF Rotate, SameStates, LockFree
<1>2. TypeOK'
  BY <1>1 DEF IInv, TypeOK, CallsOK, Rotated
<1>3. SlotShape' /\ Registered'
  BY <1>1 DEF IInv, Structure, SlotShape, Registered
<1>4. Claims' /\ Lineages'
  BY <1>1 DEF IInv, Claims, Lineages, Started
<1>5. \A n \in DOMAIN slots : slots[n].state # "starting"
  BY <1>1 DEF IInv, Structure, SlotOwner
<1>6. Generations'
  BY <1>1, <1>5 DEF IInv, Generations, Rotated, EmptyFun
<1> QED
  BY <1>1, <1>2, <1>3, <1>4, <1>6 DEF IInv, Structure, CallsOK
=============================================================================
