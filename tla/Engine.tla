------------------------------- MODULE Engine -------------------------------
(***************************************************************************)
(* Inbound lifecycle of the proxy engine (crates/shoes-engine/src/lib.rs   *)
(* and inbound.rs).                                                        *)
(*                                                                         *)
(* Callers add, update and remove inbounds concurrently.  A control lock   *)
(* serialises what must be, but names are resolved and configurations      *)
(* validated without it, and a caller may be cancelled wherever it waits.  *)
(* Listeners, connections and resolvers outlive the registration of their  *)
(* inbound.                                                                *)
(*                                                                         *)
(* Listeners and their handles belong to the shoes crate: a stopped one    *)
(* keeps its socket until its task noticed.                                *)
(***************************************************************************)
EXTENDS Integers, Sequences, FiniteSets, FiniteSetsExt

CONSTANTS
    Tags, Callers,
    Configs,       \* [groups: a sequence of sets of bind keys, dns, kinds, opts]
    NoDns,         \* a configuration without a DNS section of its own
    MaxSlots,      \* bound on inbound slots ever made
    MaxLineages,   \* MAX_REPLAY_LINEAGES
    MaxGen,        \* bound on rotations of the DNS client
    MaxRev,        \* bound on updates of a slot
    MaxLeases,     \* bound on leases held at a time
    Planes         \* what the instance lets listener tasks do: "serve", "die"

ASSUME EngineAssumption ==
    /\ MaxSlots \in Nat /\ MaxLineages \in Nat /\ MaxGen \in Nat /\ MaxLeases \in Nat /\ MaxRev \in Nat
    /\ \A c \in Configs : c.groups \in Seq({c.groups[g] : g \in DOMAIN c.groups}) \ {<<>>}
    /\ "free" \notin Callers

VARIABLES
    inbounds,   \* tag -> slot
    bound,      \* bind key -> tag
    slots,      \* every slot made so far, registered or not (see NewSlot)
    lines,      \* tag -> the lineage of ReplayLineages.entries
    leases,     \* replay leases held by callers: <<tag, lineage>>
    dns,        \* [gen, cache]: the client generation, key -> generation built
    lock,       \* the caller that holds the control lock
    call        \* caller -> its running call

vars == <<inbounds, bound, slots, lines, leases, dns, lock, call>>

Free == "free"
EmptyFun == [x \in {} |-> x]
\* HashMap::insert, of one value under each of the keys ks.
Inserted(f, ks, v) == [x \in ks \cup DOMAIN f |-> IF x \in ks THEN v ELSE f[x]]
Idle == [op |-> "idle", pc |-> "", tag |-> 0, cfg |-> 0, lease |-> 0, slot |-> 0, rev |-> 0,
         hard |-> FALSE]
\* A lineage asked for anew.
NoLease == 0

\* A slot: its listener groups (socket state and the configuration they run), the
\* reload count, connections, lineage, and the DNS generation of its resolver, of
\* the one its connections keep, and of the moment it was chosen.
NewSlot(t, c, line, gen) ==
    [tag |-> t, state |-> "starting", cfg |-> c, rev |-> 0,
     group |-> [g \in 1 .. Len(c.groups) |-> [sock |-> "none", cfg |-> c]],
     conns |-> "none", line |-> line, res |-> gen, kept |-> gen, born |-> dns.gen,
     failed |-> FALSE]

Init ==
    /\ inbounds = EmptyFun /\ bound = EmptyFun /\ slots = <<>> /\ lines = EmptyFun
    /\ leases = {} /\ lock = Free
    /\ dns = [gen |-> 0, cache |-> EmptyFun]
    /\ call = [p \in Callers |-> Idle]

-----------------------------------------------------------------------------
(* What keeps a lineage, a scope, a resolver, a socket alive *)

\* The keys on which a slot accepts connections.
Accepting(s) == UNION {s.cfg.groups[g] : g \in {g \in DOMAIN s.group : s.group[g].sock = "run"}}
ScopeAlive(s) == s.conns # "none" \/ \E g \in DOMAIN s.group : s.group[g].sock \in {"run", "stopping"}
Owned(s) == s.state \in {"starting", "live", "removing"}

LiveScope(l) == \E n \in DOMAIN slots : slots[n].line = l /\ ScopeAlive(slots[n])
LiveLine(l) ==
    \/ \E x \in leases : x[2] = l
    \/ \E n \in DOMAIN slots : slots[n].line = l /\ (Owned(slots[n]) \/ ScopeAlive(slots[n]))

ResolverAlive(k, gen) ==
    \E n \in DOMAIN slots :
        /\ slots[n].cfg.dns = k
        /\ \/ slots[n].res = gen /\ Owned(slots[n])
           \/ slots[n].kept = gen /\ slots[n].conns # "none"

-----------------------------------------------------------------------------
(* ReplayLineages::prepare: the lineage granted, or 0 *)

Retained == [t \in {t \in DOMAIN lines : LiveLine(lines[t])} |-> lines[t]]

\* Mutant: a live scope of the tag is not looked for.
Fresh_Always(t) == IF Cardinality(DOMAIN Retained \cup {t}) > MaxLineages THEN 0 ELSE Len(slots) + 1

Fresh(t) ==
    IF t \in DOMAIN Retained /\ LiveScope(Retained[t]) THEN Retained[t]
    ELSE IF t \notin DOMAIN Retained /\ Cardinality(DOMAIN Retained) >= MaxLineages THEN 0
    ELSE Len(slots) + 1

Preserved(t, l) == IF t \in DOMAIN Retained /\ Retained[t] = l THEN l ELSE 0

Prepared(t, lease) == IF lease = NoLease THEN Fresh(t) ELSE Preserved(t, lease)

\* CandidateResolvers::resolve
Resolved(c) ==
    IF c.dns # NoDns /\ c.dns \in DOMAIN dns.cache /\ ResolverAlive(c.dns, dns.cache[c.dns])
    THEN dns.cache[c.dns] ELSE dns.gen

\* CandidateResolvers::publish, dead candidates pruned
Published(c, gen) ==
    LET kept == [k \in {k \in DOMAIN dns.cache : ResolverAlive(k, dns.cache[k])} |-> dns.cache[k]]
    IN  IF c.dns = NoDns THEN kept ELSE Inserted(kept, {c.dns}, gen)

-----------------------------------------------------------------------------
(* Listeners *)

SetSockets(s, to) ==
    [s EXCEPT !.group = [g \in DOMAIN s.group |->
                            [s.group[g] EXCEPT !.sock = IF @ = "run" THEN to ELSE @]]]

\* hard_stop: listeners and connections are told to stop.
HardStop(s) ==
    [SetSockets(s, "stopping") EXCEPT !.conns = IF @ = "open" THEN "told" ELSE @]
\* abandon, and hard_shutdown: ... and awaited.
HardShutdown(s) ==
    [s EXCEPT !.group = [g \in DOMAIN s.group |-> [s.group[g] EXCEPT !.sock = "none"]],
              !.conns = IF @ = "open" THEN "told" ELSE @]
\* shutdown: connections go on.
Shutdown(s) ==
    [s EXCEPT !.group = [g \in DOMAIN s.group |-> [s.group[g] EXCEPT !.sock = "none"]]]

-----------------------------------------------------------------------------
(* Calls *)

Done(p) == call' = [call EXCEPT ![p] = Idle]
At(p, op, pc) == call[p].op = op /\ call[p].pc = pc
LockFree == lock = Free

\* add_inbound and add_inbound_with_replay: validation, without the lock.
Add(p, t, c, lease) ==
    /\ call[p] = Idle
    /\ lease = NoLease \/ <<t, lease>> \in leases
    /\ call' = [call EXCEPT ![p] = [Idle EXCEPT !.op = "add", !.pc = "check", !.tag = t,
                                                !.cfg = c, !.lease = lease]]
    /\ UNCHANGED <<inbounds, bound, slots, lines, leases, dns, lock>>

AddChecks(p) ==
    /\ At(p, "add", "check") /\ LockFree
    /\ call' = [call EXCEPT ![p] =
                   IF @.tag \in DOMAIN inbounds THEN Idle ELSE [@ EXCEPT !.pc = "resolved"]]
    /\ UNCHANGED <<inbounds, bound, slots, lines, leases, dns, lock>>

Keys(c) == UNION {c.groups[g] : g \in DOMAIN c.groups}
Distinct(c) == \A g, h \in DOMAIN c.groups : g # h => c.groups[g] \cap c.groups[h] = {}

\* Mutant: the tag is not checked again after the names were resolved.
MayStart_Unchecked(t, c, line) ==
    line # 0 /\ Distinct(c) /\ Keys(c) \cap DOMAIN bound = {}
\* The tag is new, a lineage granted, and no key claimed, here or in the payload.
MayStart(t, c, line) ==
    /\ t \notin DOMAIN inbounds
    /\ line # 0 /\ Distinct(c)
    /\ Keys(c) \cap DOMAIN bound = {}

\* The lock is taken again; the probe of an address or a resolver may also fail.
AddLocks(p) ==
    /\ At(p, "add", "resolved") /\ LockFree
    /\ \/ Done(p) /\ UNCHANGED <<slots, lock>>
       \/ LET t == call[p].tag  c == call[p].cfg  line == Prepared(t, call[p].lease)
          IN  /\ MayStart(t, c, line) /\ Len(slots) < MaxSlots
              /\ slots' = Append(slots, NewSlot(t, c, line, Resolved(c)))
              /\ lock' = p
              /\ call' = [call EXCEPT ![p].pc = "start", ![p].slot = Len(slots) + 1]
    /\ UNCHANGED <<inbounds, bound, lines, leases, dns>>

\* One listener group after the other; a failure abandons those that run.
AddStarts(p) ==
    /\ At(p, "add", "start")
    /\ LET n == call[p].slot  todo == {g \in DOMAIN slots[n].group : slots[n].group[g].sock = "none"}
       IN  \/ /\ todo # {}
              /\ slots' = [slots EXCEPT ![n].group[Min(todo)].sock = "run"]
              /\ call' = [call EXCEPT ![p].pc = IF Cardinality(todo) = 1 THEN "health" ELSE "start"]
              /\ UNCHANGED lock
           \/ /\ slots' = [slots EXCEPT ![n] = [HardShutdown(@) EXCEPT !.state = "failed"]]
              /\ Done(p) /\ lock' = Free
    /\ UNCHANGED <<inbounds, bound, lines, leases, dns>>

\* The health grace: a listener that died fails the call; otherwise registration.
AddEnds(p) ==
    /\ At(p, "add", "health")
    /\ LET n == call[p].slot  s == slots[n]
       IN  IF \E g \in DOMAIN s.group : s.group[g].sock = "dead"
           THEN /\ slots' = [slots EXCEPT ![n] = [HardShutdown(s) EXCEPT !.state = "failed"]]
                /\ UNCHANGED <<inbounds, bound, lines, dns>>
           ELSE /\ slots' = [slots EXCEPT ![n].state = "live"]
                /\ inbounds' = Inserted(inbounds, {s.tag}, n)
                /\ bound' = Inserted(bound, Keys(s.cfg), s.tag)
                /\ lines' = Inserted(Retained, {s.tag}, s.line)
                /\ dns' = [dns EXCEPT !.cache = Published(s.cfg, s.res)]
    /\ Done(p) /\ lock' = Free
    /\ UNCHANGED leases

\* update_inbound: the slot and its revision are noted under the lock.
Update(p, t, c) ==
    /\ call[p] = Idle /\ LockFree
    /\ t \in DOMAIN inbounds /\ slots[inbounds[t]].rev < MaxRev
    /\ call' = [call EXCEPT ![p] = [Idle EXCEPT !.op = "update", !.pc = "validated", !.tag = t,
                   !.cfg = c, !.slot = inbounds[t], !.rev = slots[inbounds[t]].rev]]
    /\ UNCHANGED <<inbounds, bound, slots, lines, leases, dns, lock>>

\* InboundUpdateSnapshot::verify
Verified(p) ==
    /\ call[p].tag \in DOMAIN inbounds /\ inbounds[call[p].tag] = call[p].slot
    /\ slots[call[p].slot].rev = call[p].rev

\* InboundSlot::reload checks every group before it swaps one.
MayReload(s, c) == c.groups = s.cfg.groups /\ c.kinds = s.cfg.kinds
Reloaded(s, c) ==
    [s EXCEPT !.rev = @ + 1, !.cfg = c,
              !.group = [g \in DOMAIN s.group |-> [s.group[g] EXCEPT !.cfg = c]],
              !.res = Resolved(c), !.born = dns.gen]

UpdateEnds(p) ==
    /\ At(p, "update", "validated") /\ LockFree
    /\ LET n == call[p].slot  c == call[p].cfg
       IN  IF Verified(p) /\ MayReload(slots[n], c)
           THEN /\ slots' = [slots EXCEPT ![n] = Reloaded(@, c)]
                /\ dns' = [dns EXCEPT !.cache = Published(c, Resolved(c))]
           ELSE UNCHANGED <<slots, dns>>
    /\ Done(p)
    /\ UNCHANGED <<inbounds, bound, lines, leases, lock>>

\* remove_inbound and remove_inbound_hard: the slot is taken out, then drained
\* with the lock held.
Remove(p, t, hard) ==
    /\ call[p] = Idle /\ LockFree /\ t \in DOMAIN inbounds
    /\ lock' = p
    /\ inbounds' = [x \in DOMAIN inbounds \ {t} |-> inbounds[x]]
    /\ LET n == inbounds[t]
       IN  /\ slots' = [slots EXCEPT ![n] =
                           [(IF hard THEN HardStop(@) ELSE @) EXCEPT !.state = "removing"]]
           /\ call' = [call EXCEPT ![p] = [Idle EXCEPT !.op = "remove", !.pc = "drain", !.tag = t,
                                                       !.slot = n, !.hard = hard]]
    /\ UNCHANGED <<bound, lines, leases, dns>>

\* ReleaseOnDrop
Released(s) == [k \in DOMAIN bound \ Keys(s.cfg) |-> bound[k]]

RemoveEnds(p) ==
    /\ At(p, "remove", "drain")
    /\ LET n == call[p].slot  s == slots[n]
       IN  /\ slots' = [slots EXCEPT ![n] = [(IF call[p].hard THEN HardShutdown(s) ELSE Shutdown(s))
                                                EXCEPT !.state = "gone"]]
           /\ bound' = Released(s)
    /\ Done(p) /\ lock' = Free
    /\ UNCHANGED <<inbounds, lines, leases, dns>>

\* The call's future is dropped; its guards run.
Cancelled(p) ==
    LET n == call[p].slot
    IN  CASE call[p].op = "add" /\ n # 0 ->
               [slots EXCEPT ![n] = [HardStop(@) EXCEPT !.state = "failed"]]
          [] call[p].op = "remove" ->
               [slots EXCEPT ![n] = [(IF call[p].hard THEN HardStop(@) ELSE SetSockets(@, "stopping"))
                                        EXCEPT !.state = "gone"]]
          [] OTHER -> slots
Unbound(p) == IF call[p].op = "remove" THEN Released(slots[call[p].slot]) ELSE bound

Cancel(p) ==
    /\ call[p] # Idle
    /\ slots' = Cancelled(p) /\ bound' = Unbound(p)
    /\ lock' = IF lock = p THEN Free ELSE lock
    /\ Done(p)
    /\ UNCHANGED <<inbounds, lines, leases, dns>>

Preserve(t) ==
    /\ t \in DOMAIN inbounds /\ Cardinality(leases) < MaxLeases
    /\ leases' = leases \cup {<<t, slots[inbounds[t]].line>>}
    /\ UNCHANGED <<inbounds, bound, slots, lines, dns, lock, call>>

DropLease ==
    /\ leases # {} /\ leases' \in SUBSET leases /\ leases' # leases
    /\ \A p \in Callers : call[p].lease # NoLease => \E x \in leases' : x[2] = call[p].lease
    /\ UNCHANGED <<inbounds, bound, slots, lines, dns, lock, call>>

Rotated == [gen |-> dns.gen + 1, cache |-> EmptyFun]

Rotate ==
    /\ LockFree /\ dns.gen < MaxGen
    /\ dns' = Rotated
    /\ UNCHANGED <<inbounds, bound, slots, lines, leases, lock, call>>

\* InboundSlot::listener_failed takes the dead task and remembers.
Observed(s) == [s EXCEPT !.failed = TRUE,
    !.group = [g \in DOMAIN s.group |-> [s.group[g] EXCEPT !.sock = IF @ = "dead" THEN "taken" ELSE @]]]

FailedListeners(n) ==
    /\ slots[n].state = "live" /\ \E g \in DOMAIN slots[n].group : slots[n].group[g].sock = "dead"
    /\ slots' = [slots EXCEPT ![n] = Observed(@)]
    /\ UNCHANGED <<inbounds, bound, lines, leases, dns, lock, call>>

\* Listener tasks and connections: accept, end, stop when told, die.
Plane(n) ==
    /\ LET s == slots[n]
       IN  \/ /\ "serve" \in Planes /\ \E g \in DOMAIN s.group : s.group[g].sock = "run"
              /\ s.conns = "none"
              /\ slots' = [slots EXCEPT ![n].conns = "open", ![n].kept = s.res]
           \/ s.conns # "none" /\ slots' = [slots EXCEPT ![n].conns = "none"]
           \/ \E g \in DOMAIN s.group :
                 \/ s.group[g].sock = "stopping" /\ slots' = [slots EXCEPT ![n].group[g].sock = "none"]
                 \/ /\ "die" \in Planes /\ s.group[g].sock = "run"
                    /\ slots' = [slots EXCEPT ![n].group[g].sock = "dead"]
    /\ UNCHANGED <<inbounds, bound, lines, leases, dns, lock, call>>

Next ==
    \/ \E p \in Callers :
          \/ \E t \in Tags, c \in Configs, l \in {NoLease} \cup {x[2] : x \in leases} : Add(p, t, c, l)
          \/ AddChecks(p) \/ AddLocks(p) \/ AddStarts(p) \/ AddEnds(p)
          \/ \E t \in Tags, c \in Configs : Update(p, t, c)
          \/ UpdateEnds(p)
          \/ \E t \in Tags, hard \in BOOLEAN : Remove(p, t, hard)
          \/ RemoveEnds(p) \/ Cancel(p)
    \/ \E t \in Tags : Preserve(t)
    \/ DropLease \/ Rotate
    \/ \E n \in DOMAIN slots : FailedListeners(n) \/ Plane(n)

Spec == Init /\ [][Next]_vars

-----------------------------------------------------------------------------
(* Properties *)

\* Every listener that accepts connections belongs to a registered inbound, or to
\* the call in progress: no cancelled or failed call leaves one that no tag names.
\* No two inbounds accept on the same address, and between calls exactly the keys
\* of registered inbounds are claimed (a cancelled removal gives its address back).
\* The groups of an inbound run one and the same configuration, and a listener that
\* died is reported on every later poll until its inbound goes.
ListenersAreKnown ==
    /\ \A n \in DOMAIN slots :
          /\ (\E g \in DOMAIN slots[n].group : slots[n].group[g].sock = "run") =>
                 \/ slots[n].tag \in DOMAIN inbounds /\ inbounds[slots[n].tag] = n
                 \/ lock # Free /\ call[lock].slot = n
          /\ \A g, h \in DOMAIN slots[n].group : slots[n].group[g].cfg = slots[n].group[h].cfg
          /\ \A m \in DOMAIN slots \ {n} : Accepting(slots[n]) \cap Accepting(slots[m]) = {}
          /\ (slots[n].state = "live"
              /\ \E g \in DOMAIN slots[n].group : slots[n].group[g].sock = "taken") => slots[n].failed
    /\ LockFree =>
          bound = [k \in UNION {Keys(slots[inbounds[t]].cfg) : t \in DOMAIN inbounds} |->
                      CHOOSE t \in DOMAIN inbounds : k \in Keys(slots[inbounds[t]].cfg)]

\* What outlives an inbound is shared by all that serves its tag, and nothing stale
\* is: they have one replay lineage, through hard and graceful removals and stale
\* leases (a start that failed is not counted), and an inbound started or updated
\* after a rotation of the DNS client never gets a resolver of an older generation,
\* though old connections keep one alive.
SharesCurrentState ==
    \A n, m \in DOMAIN slots :
        /\ slots[n].res = slots[n].born
        /\ /\ slots[n].tag = slots[m].tag /\ ScopeAlive(slots[n]) /\ ScopeAlive(slots[m])
           /\ slots[n].state # "failed" /\ slots[m].state # "failed"
           => slots[n].line = slots[m].line
=============================================================================
