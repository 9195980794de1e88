---------------------------- MODULE ShoesRuntime ----------------------------
(***************************************************************************)
(* The transactional proxy runtime (crates/node-agent/src/runtime.rs).     *)
(*                                                                         *)
(* A configuration is applied to the engine one listener and one user at a *)
(* time.  Every step can fail; the steps done are recorded in an undo      *)
(* journal, undoing can fail as well, and what is left is then rebuilt by  *)
(* the next transaction.  Meanwhile the data plane carries bytes that must *)
(* be billed to the right node, a watcher refreshes downloaded rule sets,  *)
(* and the process may shut down.                                          *)
(*                                                                         *)
(* The engine is modelled by the errors it can return: starting a listener *)
(* fails on a taken address, a stale replay lease or a fault of the system;*)
(* a user is refused when somebody else holds the credential.  Removing a  *)
(* registered listener or user succeeds (a lost finalizer is collected by  *)
(* the retry).                                                             *)
(***************************************************************************)
EXTENDS Integers, Sequences, FiniteSets, TLC, FiniteSetsExt, SequencesExt

CONSTANTS
    Tags,        \* inbound tags, in BTreeMap order
    Users,       \* user ids, in BTreeMap order
    Configs,     \* the configurations the control plane applies (see Config)
    NoSlot,      \* tags whose protocol has no reload slot
    Lines,       \* replay lineages are numbered modulo Lines
    MaxFaults    \* bound on failing engine calls

ASSUME RuntimeAssumption ==
    /\ Tags \subseteq Nat /\ Users \subseteq Nat /\ NoSlot \subseteq Tags
    /\ Lines \in Nat \ {0} /\ MaxFaults \in Nat

VARIABLES
    plane,      \* the engine and the bytes it accounts for (see Plane)
    st,         \* AppliedState, and the replay leases kept for recovery
    closing,    \* RuntimeInner.closing
    tx,         \* the running transaction; it owns the configuration lock
    watch,      \* the rule-set watcher, and the tasks it retired
    content,    \* the version of the remote rule sets
    result,     \* what the last external call returned
    wanted,     \* history: the configuration of the last external success
    lineage     \* history: the replay lineage of each published tag

vars == <<plane, st, closing, tx, watch, content, result, wanted, lineage>>

-----------------------------------------------------------------------------
(* Configurations *)

\* An inbound: the node that owns it, its listener, its protocol settings, and
\* its users if it has a user registry.
EmptyFun == [x \in {} |-> x]
Empty == [inb |-> EmptyFun, dns |-> 0, remote |-> FALSE]
\* NormalizedConfig: a configuration and the digest of its prepared rule sets.
Normal(c, d) == [c |-> c, digest |-> d]
TagsOf(n) == DOMAIN n.c.inb
Sorted(S) == SetToSortSeq(S, <)

\* engine.update_inbound classifies: another listen set, or no reload slot.
Reloadable(t, old, new) == t \notin NoSlot /\ old.listen = new.listen

-----------------------------------------------------------------------------
(* The engine.  Its operations map a plane to the set of possible outcomes. *)

\* run     tag -> running inbound: the settings it runs, its registered users,
\*         per user the owners of each batch of bytes counted, its lineage
\* auth    the lineage a replay lease must name
\* stray   receipts filed under an owner that was neither published when the
\*         bytes were carried nor about to be by the transaction then running
Running(i, line) ==
    [in |-> i, users |-> i.users, bytes |-> [u \in Users |-> {}], line |-> line]

Faulty(p) == IF p.faults < MaxFaults THEN {[p EXCEPT !.faults = @ + 1]} ELSE {}

\* The published owner of a tag (a tag nobody published is its own owner), and
\* the one the running transaction is about to publish.
Owners(t) ==
    {IF t \in TagsOf(st.cfg) THEN st.cfg.c.inb[t].node ELSE t}
    \cup (IF tx.phase \in {"steps", "undo"} /\ t \in TagsOf(tx.want)
          THEN {tx.want.c.inb[t].node} ELSE {})

\* reserve_traffic, take or remove, queue_traffic, for the users in S.
Collect(p, t, S, acct) ==
    [p EXCEPT !.stray = @ \cup {o \in UNION {p.run[t].bytes[u] : u \in S} :
                                   acct.node \notin o},
              !.run[t].bytes = [u \in Users |-> IF u \in S THEN {} ELSE @[u]]]

Without(p, t) == [p EXCEPT !.run = [x \in DOMAIN @ \ {t} |-> @[x]]]

Drop(p, t, S) ==
    [p EXCEPT !.run[t].users = [u \in DOMAIN @ \ S |-> @[u]]]

\* add_user: refused when another user holds the credential.
CanUpsert(p, t, u, cred) ==
    \A w \in DOMAIN p.run[t].users \ {u} : p.run[t].users[w] # cred

Upsert(p, t, u, cred) == [p EXCEPT !.run[t].users = (u :> cred) @@ @]

\* add_inbound ("fresh") and add_inbound_with_replay.
Fresh == -1

StartInbound(p, t, i, lease) ==
    LET line  == IF lease = Fresh THEN (p.auth[t] + 1) % Lines ELSE lease
        clash == \/ t \in DOMAIN p.run
                 \/ lease \notin {Fresh, p.auth[t]}
                 \/ \E x \in DOMAIN p.run : p.run[x].in.listen = i.listen
    IN  IF clash THEN {[p |-> p, ok |-> FALSE]}
        ELSE {[p |-> [p EXCEPT !.run = (t :> Running(i, line)) @@ @, !.auth[t] = line],
               ok |-> TRUE]}
             \cup {[p |-> q, ok |-> FALSE] : q \in Faulty(p)}

\* stop_inbound_with_owners: users first, so that a failure can put them back.
\* The outcome tells whether the step changed something, and was restored.
StopInbound(p, t, registry, acct) ==
    LET users == DOMAIN p.run[t].users
        known == users \cap DOMAIN registry.users
        \* the users in S were removed when the next one could not be
        Halted(q, S) ==
            LET back == {u \in S : CanUpsert(Drop(q, t, S), t, u, registry.users[u])}
                r    == Drop(Collect(q, t, S, acct), t, S)
            IN  [p |-> [r EXCEPT !.run[t].users =
                                     [u \in back |-> registry.users[u]] @@ @],
                 out |-> IF S = {} THEN "unchanged"
                         ELSE IF back = S THEN "restored" ELSE "lost"]
    IN  IF users # known
        THEN {Halted(p, S) : S \in SUBSET known}
        ELSE {[p |-> Without(Collect(p, t, users, acct), t), out |-> "ok"]}
             \cup {Halted(q, S) : q \in Faulty(p), S \in (SUBSET users) \ {users}}

\* replace_inbound_with_replay_owners
ReplaceInbound(p, t, cur, registry, acct, new, lease) ==
    LET stops == StopInbound(p, t, registry, acct)
        next(x) == {IF y.ok THEN {[p |-> y.p, out |-> "ok"]}
                    ELSE {[p |-> z.p, out |-> IF z.ok THEN "restored" ELSE "lost"] :
                             z \in StartInbound(y.p, t, cur, lease)} :
                       y \in StartInbound(x.p, t, new, lease)}
    IN  UNION {IF x.out = "ok" THEN UNION next(x) ELSE {x} : x \in stops}

\* force_stop_tag: nothing is put back, and a listener of unknown owner with
\* users is left alone.
ForceStop(p, t, known) ==
    LET users == DOMAIN p.run[t].users
        ids   == IF t \in DOMAIN known
                 THEN users \cup IF known[t].live.dyn
                                 THEN DOMAIN known[t].live.users \cup DOMAIN known[t].acct.users
                                 ELSE {}
                 ELSE users
    IN  IF t \notin DOMAIN known
        THEN IF users # {} THEN {[p |-> p, bad |-> {t}]}
             ELSE {[p |-> Without(p, t), bad |-> {}]}
        ELSE {[p |-> Without(Collect(p, t, users, known[t].acct), t), bad |-> {}]}
             \cup {[p |-> Drop(Collect(q, t, S, known[t].acct), t, S), bad |-> {t}] :
                      q \in Faulty(p), S \in {S \in SUBSET users : S # ids}}

\* ... of every listener the engine reports.
Sweep(p, known) ==
    FoldSet(LAMBDA t, acc :
                UNION {{[p |-> y.p, bad |-> x.bad \cup y.bad] : y \in ForceStop(x.p, t, known)} :
                          x \in acc},
            {[p |-> p, bad |-> {}]}, DOMAIN p.run)

-----------------------------------------------------------------------------
(* Planning: diff_configs and the order of execute_apply *)

Each(S, o) == [k \in 1 .. Cardinality(S) |-> [op |-> o, tag |-> Sorted(S)[k], user |-> 0]]

UserSteps(t, old, new) ==
    LET gone   == DOMAIN old.users \ DOMAIN new.users
        upsert == {u \in DOMAIN new.users :
                      u \notin DOMAIN old.users \/ old.users[u] # new.users[u]}
        For(S, o) == [k \in 1 .. Cardinality(S) |->
                         [op |-> o, tag |-> t, user |-> Sorted(S)[k]]]
    IN  For(gone, "removeUser") \o For(upsert, "upsertUser")

ConfigChanged(old, new) == old.listen # new.listen \/ old.opts # new.opts
\* Both in the engine: a new user mode or an update the engine refuses.
Replaced(prev, want) ==
    {t \in TagsOf(prev) \cap TagsOf(want) :
        LET old == prev.c.inb[t]  new == want.c.inb[t]
        IN  \/ old.dyn # new.dyn
            \/ ConfigChanged(old, new) /\ ~Reloadable(t, old, new)}

\* Removals, updates in place, all replacements stopped, then started; users of
\* the listeners that stayed, users that go first; additions.
DiffSteps(prev, want) ==
    LET both == TagsOf(prev) \cap TagsOf(want)
        hard == Replaced(prev, want)
        stay == both \ hard
        hot  == {t \in stay : ConfigChanged(prev.c.inb[t], want.c.inb[t])}
    IN  Each(TagsOf(prev) \ TagsOf(want), "stop") \o Each(hot, "hot")
        \o Each(hard, "stop") \o Each(hard, "start")
        \o FlattenSeq([k \in 1 .. Cardinality(stay) |->
               LET t == Sorted(stay)[k] IN UserSteps(t, prev.c.inb[t], want.c.inb[t])])
        \o Each(TagsOf(want) \ TagsOf(prev), "start")

\* execute_full_reload
FullSteps(prev, want) == Each(TagsOf(prev), "stop") \o Each(TagsOf(want), "start")

-----------------------------------------------------------------------------
(* One step of a transaction, and its undoing *)

Entry(o, t, live, acct, u, line) ==
    [op |-> o, tag |-> t, live |-> live, acct |-> acct, user |-> u, line |-> line]

\* uncommitted_accounting_owner
AcctOwner(prev, t, new) ==
    IF t \in TagsOf(prev) THEN prev.c.inb[t] ELSE [new EXCEPT !.node = t]

Done(p, undo) == [p |-> p, out |-> "ok", undo |-> <<undo>>]
Undone(q) == [p |-> q, out |-> "unchanged", undo |-> <<>>]

StopStep(p, t, old) ==
    {[p |-> x.p, out |-> x.out,
      undo |-> IF x.out = "ok" THEN <<Entry("addInbound", t, old, old, 0, p.run[t].line)>>
               ELSE <<>>] : x \in StopInbound(p, t, old, old)}

\* update_inbound; the registry is not touched.
HotStep(p, t, old, new) ==
    {Done([p EXCEPT !.run[t].in = new], Entry("restoreHot", t, new, old, 0, p.run[t].line))}
    \cup {Undone(q) : q \in Faulty(p)}

StartStep(p, t, new) ==
    LET lease == IF t \in TagsOf(tx.prev) THEN tx.leases[t] ELSE Fresh
    IN  {IF x.ok THEN Done(x.p, Entry("removeInbound", t, new, AcctOwner(tx.prev, t, new), 0, 0))
         ELSE Undone(x.p) : x \in StartInbound(p, t, new, lease)}

RemoveUserStep(p, t, u, old) ==
    {Done(Drop(Collect(p, t, {u}, old), t, {u}), Entry("addUser", t, old, old, u, 0))}
    \cup {Undone(q) : q \in Faulty(p)}

\* Mutant: the journal takes every upsert for an addition.
UpsertUserStep_Added(p, t, u, old, new) ==
    IF ~CanUpsert(p, t, u, new.users[u]) THEN {Undone(p)}
    ELSE {Done(Upsert(p, t, u, new.users[u]), Entry("removeUser", t, new, old, u, 0))}

\* add_user, and kick_user after a changed credential.
UpsertUserStep(p, t, u, old, new) ==
    IF ~CanUpsert(p, t, u, new.users[u]) THEN {Undone(p)}
    ELSE {Done(Upsert(p, t, u, new.users[u]),
               IF u \in DOMAIN old.users THEN Entry("restoreUser", t, old, old, u, 0)
               ELSE Entry("removeUser", t, new, old, u, 0))}

Perform(p, s) ==
    LET old == tx.prev.c.inb[s.tag]  new == tx.want.c.inb[s.tag]
    IN  CASE s.op = "stop"       -> StopStep(p, s.tag, old)
          [] s.op = "hot"        -> HotStep(p, s.tag, old, new)
          [] s.op = "start"      -> StartStep(p, s.tag, new)
          [] s.op = "removeUser" -> RemoveUserStep(p, s.tag, s.user, old)
          [] s.op = "upsertUser" -> UpsertUserStep(p, s.tag, s.user, old, new)

\* rollback_journal, one entry: the plane, whether it worked, recovery_live.
Keep(L, t, live, acct) == (t :> [live |-> live, acct |-> acct]) @@ L
Forget(L, t) == [x \in DOMAIN L \ {t} |-> L[x]]
Survivor(q, L, e) == IF e.tag \in DOMAIN q.run THEN Keep(L, e.tag, e.live, e.acct) ELSE L

RollBack(p, e, L) ==
    LET t == e.tag
        Back(cred) == IF CanUpsert(p, t, e.user, cred)
                      THEN {[p |-> Upsert(p, t, e.user, cred), ok |-> TRUE, live |-> L]}
                      ELSE {[p |-> p, ok |-> FALSE, live |-> L]}
    IN  CASE e.op = "addInbound" ->
               {[p |-> x.p, ok |-> x.ok, live |-> IF x.ok THEN Keep(L, t, e.live, e.acct) ELSE L] :
                   x \in StartInbound(p, t, e.live, e.line)}
          [] e.op = "removeInbound" ->
               {[p |-> x.p, ok |-> x.out = "ok",
                 live |-> IF x.out = "ok" THEN Forget(L, t) ELSE Survivor(x.p, L, e)] :
                   x \in StopInbound(p, t, e.live, e.acct)}
          [] e.op = "restoreHot" ->
               {[p |-> x.p, ok |-> x.out = "ok",
                 live |-> IF x.out = "ok" THEN Keep(L, t, e.acct, e.acct)
                          ELSE Survivor(x.p, L, e)] :
                   x \in ReplaceInbound(p, t, e.live, e.acct, e.acct, e.acct, e.line)}
          [] e.op = "removeUser" ->
               {[p |-> Drop(Collect(p, t, {e.user}, e.acct), t, {e.user}), ok |-> TRUE, live |-> L]}
               \cup {[p |-> q, ok |-> FALSE, live |-> Survivor(q, L, e)] : q \in Faulty(p)}
          [] e.op \in {"addUser", "restoreUser"} -> Back(e.live.users[e.user])

-----------------------------------------------------------------------------
(* The transaction *)

NoTx ==
    [phase |-> "idle", by |-> "external", want |-> Normal(Empty, 0), prepared |-> TRUE,
     force |-> FALSE, prev |-> Normal(Empty, 0), full |-> FALSE, rotated |-> FALSE,
     todo |-> <<>>, journal |-> <<>>, leases |-> EmptyFun, live |-> EmptyFun,
     changed |-> FALSE, restored |-> TRUE, errs |-> FALSE, stuck |-> FALSE,
     before |-> [cfg |-> Empty, whole |-> TRUE, live |-> FALSE, dead |-> FALSE]]

Init ==
    /\ plane = [run |-> EmptyFun, auth |-> [t \in Tags |-> 0], stray |-> {}, faults |-> 0]
    /\ st = [cfg |-> Normal(Empty, 0), known |-> TRUE, live |-> EmptyFun, leases |-> EmptyFun,
             committed |-> FALSE, closed |-> FALSE]
    /\ closing = FALSE /\ tx = NoTx
    /\ watch = [active |-> {}, stale |-> {}]
    /\ content = 0
    /\ result = [kind |-> "none", running |-> FALSE]
    /\ wanted = Empty
    /\ lineage = [t \in Tags |-> 0]

Listening(p) == DOMAIN p.run # {}
Lines_(p, n) == [t \in TagsOf(n) |-> p.run[t].line]
\* What the adapter above can tell of this runtime (see RuntimeAdapter).
AbsEngine ==
    [cfg |-> st.cfg.c, whole |-> st.known, live |-> ~st.known /\ Listening(plane), dead |-> FALSE]

\* The rule sets are prepared while only the configuration lock is held.
Prepare(by, c, force) ==
    /\ tx.phase = "idle"
    /\ \E q \in {plane} \cup (IF c.remote THEN Faulty(plane) ELSE {}) :
          /\ plane' = q
          /\ tx' = [NoTx EXCEPT !.phase = "ready", !.by = by, !.force = force,
                                !.want = Normal(c, IF c.remote THEN content ELSE 0),
                                !.prepared = (q = plane)]
    /\ UNCHANGED <<st, closing, content, result, wanted, lineage>>

\* apply_external_owned, for apply and reload.
Apply(c, force) == Prepare("external", c, force) /\ UNCHANGED watch

\* rule_set_watcher_is_active; its token is a child of the closing token.
IsActive(c) == c \in watch.active /\ ~closing /\ ~st.closed

\* refresh_rule_sets_owned of a task that slept its interval.  One that was
\* retired meanwhile ends.
Refresh(c) ==
    \/ /\ IsActive(c)
       /\ Prepare("watcher", c, FALSE) /\ UNCHANGED watch
    \/ /\ c \in watch.stale
       /\ watch' = [watch EXCEPT !.stale = @ \ {c}]
       /\ UNCHANGED <<plane, st, closing, tx, content, result, wanted, lineage>>

Return(kind, running) ==
    /\ tx' = NoTx
    /\ result' = IF tx.by = "external" THEN [kind |-> kind, running |-> running] ELSE result

\* apply_transaction_locked up to recover_if_needed.
Begin ==
    /\ tx.phase = "ready"
    /\ \/ /\ tx.by = "watcher" /\ ~IsActive(tx.want.c)
          /\ tx' = NoTx /\ UNCHANGED result
       \/ /\ tx.by = "external" \/ IsActive(tx.want.c)
          /\ IF ~tx.prepared \/ closing \/ st.closed
             THEN Return("unchanged", Listening(plane))
             ELSE /\ tx' = [tx EXCEPT !.phase = IF st.known THEN "preflight" ELSE "recover",
                                      !.before = AbsEngine]
                  /\ UNCHANGED result
    /\ UNCHANGED <<plane, st, closing, watch, content, wanted, lineage>>

\* recover_if_needed: what runs, with its owners as far as they are known ...
KnownLive == [t \in DOMAIN plane.run \cap (DOMAIN st.live \cup TagsOf(st.cfg)) |->
                 IF t \in DOMAIN st.live THEN st.live[t]
                 ELSE [live |-> st.cfg.c.inb[t], acct |-> st.cfg.c.inb[t]]]

\* ... is stopped, and the probe DNS configured;
RecoverStop ==
    /\ tx.phase = "recover" /\ tx.todo = <<>>
    /\ \E x \in Sweep(plane, KnownLive) :
          \/ /\ x.bad # {}
             /\ plane' = x.p
             /\ st' = [st EXCEPT !.live = [t \in x.bad \cap DOMAIN KnownLive |-> KnownLive[t]]]
             /\ Return("failed", Listening(x.p))
          \/ /\ x.bad = {}
             /\ st' = [st EXCEPT !.live = EmptyFun]
             /\ \/ plane' \in Faulty(x.p) /\ Return("failed", FALSE)
                \/ /\ plane' = x.p
                   /\ tx' = [tx EXCEPT !.phase = "rebuild", !.todo = Sorted(TagsOf(st.cfg))]
                   /\ UNCHANGED result
    /\ UNCHANGED <<closing, watch, content, wanted, lineage>>

\* then the retained configuration is started again, one inbound at a time.
Rebuild ==
    /\ tx.phase = "rebuild" /\ tx.todo # <<>>
    /\ LET t == Head(tx.todo)  i == st.cfg.c.inb[t]
       IN  \E x \in IF t \in DOMAIN st.leases THEN StartInbound(plane, t, i, st.leases[t])
                    ELSE {[p |-> plane, ok |-> FALSE]} :
             /\ plane' = x.p
             /\ IF x.ok
                THEN /\ st' = [st EXCEPT !.live = Keep(@, t, i, i)]
                     /\ tx' = [tx EXCEPT !.todo = Tail(@)]
                     /\ UNCHANGED result
                ELSE Return("failed", t \in DOMAIN st.leases /\ Listening(x.p)) /\ UNCHANGED st
    /\ UNCHANGED <<closing, watch, content, wanted, lineage>>

Recovered ==
    /\ tx.phase = "rebuild" /\ tx.todo = <<>>
    /\ st' = [st EXCEPT !.known = TRUE, !.live = EmptyFun, !.leases = EmptyFun]
    /\ tx' = [tx EXCEPT !.phase = "preflight"]
    /\ UNCHANGED <<plane, closing, watch, content, result, wanted, lineage>>

\* The first part of finish_failed_transaction: a full reload rotates the DNS
\* client once more and restores the probe DNS.
Fail(t, p, out) ==
    \E q \in {p} \cup (IF t.full THEN Faulty(p) ELSE {}) :
        /\ plane' = q
        /\ tx' = [t EXCEPT !.phase = "undo", !.errs = (q # p),
                           !.changed = t.full \/ t.journal # <<>> \/ out \in {"restored", "lost"},
                           !.restored = (out # "lost")]
        /\ UNCHANGED <<st, result, watch, wanted, lineage>>

\* Validation of every inbound; leases; DNS generation and probe.
Preflight ==
    /\ tx.phase = "preflight"
    /\ \/ /\ plane' \in Faulty(plane)
          /\ Return("unchanged", Listening(plane))
          /\ UNCHANGED <<st, watch, wanted, lineage>>
       \/ LET full == \/ tx.force \/ st.cfg.c.dns # tx.want.c.dns
                      \/ st.cfg.digest # tx.want.digest
              t == [tx EXCEPT !.prev = st.cfg, !.leases = Lines_(plane, st.cfg), !.full = full,
                              !.rotated = full /\ st.committed, !.phase = "steps",
                              !.todo = IF full THEN FullSteps(st.cfg, tx.want)
                                       ELSE DiffSteps(st.cfg, tx.want)]
          IN  \/ tx' = t /\ UNCHANGED <<plane, st, result, watch, wanted, lineage>>
              \/ /\ full \/ ~st.committed
                 /\ \E q \in Faulty(plane) : Fail(t, q, "unchanged")
    /\ UNCHANGED <<closing, content>>

Step ==
    /\ tx.phase = "steps" /\ tx.todo # <<>>
    /\ \E x \in Perform(plane, Head(tx.todo)) :
          IF x.out = "ok"
          THEN /\ plane' = x.p
               /\ tx' = [tx EXCEPT !.todo = Tail(@), !.journal = @ \o x.undo]
               /\ UNCHANGED <<st, result, watch, wanted, lineage>>
          ELSE Fail(tx, x.p, x.out)
    /\ UNCHANGED <<closing, content>>

\* Mutant: no flush.
Moved_None == {}

\* flush_changed_traffic_metadata: listeners that stay but change owner.
Moved == IF tx.full THEN {}
         ELSE {t \in (TagsOf(tx.prev) \cap TagsOf(tx.want)) \ Replaced(tx.prev, tx.want) :
                  /\ tx.prev.c.inb[t].node # tx.want.c.inb[t].node
                  /\ tx.prev.c.inb[t].dyn}

FlushTags(p, S) ==
    FoldSet(LAMBDA t, q : Collect(q, t, DOMAIN q.run[t].users, tx.prev.c.inb[t]), p, S)

\* install_ and cancel_rule_set_watcher_locked
Watcher(c) ==
    [active |-> IF c.remote THEN {c} ELSE {}, stale |-> watch.stale \cup watch.active]

\* The candidate is published together with the flush, and the watcher of an
\* external call replaced before the apply lock is released.
Commit ==
    /\ tx.phase = "steps" /\ tx.todo = <<>>
    /\ \/ /\ plane' = FlushTags(plane, Moved)
          /\ st' = [st EXCEPT !.cfg = tx.want, !.known = TRUE, !.live = EmptyFun,
                              !.leases = EmptyFun, !.committed = TRUE]
          /\ Return("ok", TRUE)
          /\ IF tx.by = "external"
             THEN /\ watch' = Watcher(tx.want.c)
                  /\ wanted' = tx.want.c
             ELSE UNCHANGED <<watch, wanted>>
          /\ lineage' = [t \in Tags |-> IF t \in TagsOf(tx.prev) \cap TagsOf(tx.want)
                                        THEN lineage[t]
                                        ELSE IF t \in DOMAIN plane.run THEN plane.run[t].line
                                        ELSE 0]
       \/ \E S \in SUBSET Moved, q \in Faulty(plane) :
             Moved # {} /\ Fail(tx, FlushTags(q, S), "unchanged")
    /\ UNCHANGED <<closing, content>>

\* stuck: an entry could not be undone.
Undo ==
    /\ tx.phase = "undo" /\ tx.journal # <<>>
    /\ \E x \in RollBack(plane, Last(tx.journal), tx.live) :
          /\ plane' = x.p
          /\ tx' = [tx EXCEPT !.journal = Front(@), !.live = x.live, !.errs = @ \/ ~x.ok,
                              !.stuck = @ \/ ~x.ok]
    /\ UNCHANGED <<st, closing, watch, content, result, wanted, lineage>>

\* After a full reload every restored listener is rebuilt on the new DNS client.
UndoDone ==
    /\ tx.phase = "undo" /\ tx.journal = <<>>
    /\ tx' = [tx EXCEPT !.phase = "refresh", !.live = IF tx.stuck THEN @ ELSE EmptyFun,
                        !.todo = IF tx.rotated /\ tx.restored /\ ~tx.errs
                                 THEN Sorted(TagsOf(tx.prev)) ELSE <<>>]
    /\ UNCHANGED <<plane, st, closing, watch, content, result, wanted, lineage>>

RefreshRestored ==
    /\ tx.phase = "refresh" /\ tx.todo # <<>>
    /\ LET t == Head(tx.todo)  i == tx.prev.c.inb[t]
           outs == IF Reloadable(t, i, i)
                   THEN {[p |-> plane, out |-> "ok"]} \cup {[p |-> q, out |-> "lost"] : q \in Faulty(plane)}
                   ELSE ReplaceInbound(plane, t, i, i, i, i, plane.run[t].line)
       IN  \E x \in outs :
             /\ plane' = x.p
             /\ tx' = [tx EXCEPT !.todo = Tail(@), !.errs = @ \/ x.out # "ok"]
    /\ UNCHANGED <<st, closing, watch, content, result, wanted, lineage>>

\* The end of finish_failed_transaction.
Outcome == IF ~tx.restored \/ tx.errs THEN "failed" ELSE IF ~tx.changed THEN "unchanged"
           ELSE IF TagsOf(tx.prev) # {} THEN "rolledBack" ELSE "failed"

Conclude(fully, leases, kind) ==
    /\ tx.phase = "refresh" /\ tx.todo = <<>>
    /\ st' = [st EXCEPT !.cfg = tx.prev, !.known = fully, !.leases = leases,
                        !.live = IF fully THEN EmptyFun ELSE tx.live]
    /\ Return(kind, fully)
    /\ UNCHANGED <<plane, closing, watch, content, wanted, lineage>>

\* Mutants: a rollback with errors still publishes the previous configuration;
\* recovery keeps no replay leases; every rollback is reported as one.
Finish_ErrorsIgnored == Conclude(TRUE, EmptyFun, Outcome)
Finish_ClaimsRollback ==
    Conclude(tx.restored /\ ~tx.errs, IF tx.restored /\ ~tx.errs THEN EmptyFun ELSE tx.leases,
             IF TagsOf(tx.prev) # {} THEN "rolledBack" ELSE "failed")

Finish ==
    LET fully == tx.restored /\ ~tx.errs
    IN  Conclude(fully, IF fully THEN EmptyFun ELSE tx.leases, Outcome)

-----------------------------------------------------------------------------
(* Shutdown, the data plane, the rule-set servers *)

CloseBegin == closing' = TRUE /\ UNCHANGED <<plane, st, tx, watch, content, result, wanted, lineage>>

\* close_owned once it holds the apply lock.
CloseRun ==
    /\ closing /\ tx.phase \in {"idle", "ready"}
    /\ \E x \in Sweep(plane, KnownLive) :
          /\ plane' = x.p
          /\ st' = IF x.bad = {}
                   THEN [st EXCEPT !.cfg = Normal(Empty, 0), !.known = TRUE, !.live = EmptyFun,
                                   !.leases = EmptyFun, !.committed = FALSE, !.closed = TRUE]
                   ELSE [st EXCEPT !.known = FALSE, !.closed = TRUE]
    /\ watch' = Watcher(Empty)
    /\ UNCHANGED <<closing, tx, content, result, wanted, lineage>>

\* A connection of a registered user counts bytes.
Carry(t, u) ==
    /\ t \in DOMAIN plane.run /\ u \in DOMAIN plane.run[t].users
    /\ plane' = [plane EXCEPT !.run[t].bytes[u] = @ \cup {Owners(t)}]
    /\ UNCHANGED <<st, closing, tx, watch, content, result, wanted, lineage>>

\* drain_traffic_owned holds the apply lock and reads the published configuration.
Drain ==
    /\ tx.phase \in {"idle", "ready"} /\ st.known
    /\ plane' = FoldSet(LAMBDA t, p : Collect(p, t, DOMAIN p.run[t].users, st.cfg.c.inb[t]),
                        plane, {t \in DOMAIN plane.run \cap TagsOf(st.cfg) : st.cfg.c.inb[t].dyn})
    /\ UNCHANGED <<st, closing, tx, watch, content, result, wanted, lineage>>

ContentChanges ==
    content' = 1 - content /\ UNCHANGED <<plane, st, closing, tx, watch, result, wanted, lineage>>

Transaction ==
    \/ Begin \/ RecoverStop \/ Rebuild \/ Recovered \/ Preflight \/ Step \/ Commit
    \/ Undo \/ UndoDone \/ RefreshRestored \/ Finish

Next ==
    \/ \E c \in Configs, force \in BOOLEAN : Apply(c, force)
    \/ \E c \in Configs : Refresh(c)
    \/ Transaction
    \/ CloseBegin \/ CloseRun
    \/ \E t \in Tags, u \in Users : Carry(t, u)
    \/ Drain \/ ContentChanges

Spec == Init /\ [][Next]_vars

-----------------------------------------------------------------------------
(* Properties *)

Free == tx.phase \in {"idle", "ready"}

\* The engine runs exactly the listeners, settings and users of n.
Runs(p, n) ==
    /\ DOMAIN p.run = TagsOf(n)
    /\ \A t \in TagsOf(n) :
          /\ p.run[t].in.listen = n.c.inb[t].listen /\ p.run[t].in.opts = n.c.inb[t].opts
          /\ p.run[t].users = n.c.inb[t].users

\* Whenever no transaction holds the apply lock and AppliedState.current is
\* known, the engine serves exactly that configuration, users included, every
\* listener on the replay lineage it had when it was first published; and it is
\* the configuration last accepted from outside, which neither a watcher task
\* retired by it nor a failed call puts another in the place of.
PublishedIsLive ==
    Free /\ st.known =>
        /\ Runs(plane, st.cfg)
        /\ \A t \in TagsOf(st.cfg) : plane.run[t].line = lineage[t]
        /\ st.closed \/ st.cfg.c = wanted

\* At every point of a transaction, undoing its journal entry by entry from the
\* last (rollback_journal) would bring the previous configuration back on its
\* replay lineages, were no call to fail: no entry is missing, none is refused.
UndoRestores ==
    tx.phase = "steps" =>
        \E p \in FoldLeft(LAMBDA S, e : {x.p : x \in {x \in UNION {RollBack(p, e, EmptyFun) : p \in S} :
                                                      x.ok /\ x.p.faults = plane.faults}},
                          {plane}, Reverse(tx.journal)) :
            Runs(p, tx.prev) /\ Lines_(p, tx.prev) = tx.leases

\* Bytes are only ever reported for a node that was published for their listener
\* when they were carried, or that the transaction then running was publishing:
\* flushes, removals, rollback, recovery and close all file under the right owner.
TrafficFollowsPublication == plane.stray = {}

\* The runtime as the adapter above it sees it.
Contract == INSTANCE RuntimeAdapter
    WITH Topologies <- Configs, Bare <- {c \in Configs : c.inb = EmptyFun}, None <- Empty,
         engine <- (IF Free THEN AbsEngine ELSE tx.before), closing <- (closing /\ Free),
         ports <- Empty, doubt <- "none", active <- Empty, plan <- Empty, pending <- Empty,
         pc <- "idle", op <- 0, faults <- 0

\* Every external call leaves the engine, and answers, in one of the ways that
\* the topology adapter's model assumes of it.
MeetsAdapterContract ==
    [][tx.phase # "idle" /\ tx.by = "external" /\ tx'.phase = "idle" =>
          [engine |-> AbsEngine', kind |-> result'.kind, running |-> result'.running]
              \in Contract!Outcomes(tx.want.c, tx.force)]_vars

=============================================================================
