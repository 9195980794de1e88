---------------------------- MODULE UserRegistry ----------------------------
(***************************************************************************)
(* The user table of one inbound (crates/shoes-engine/src/users.rs).       *)
(*                                                                         *)
(* Writers hold one lock; connections look credentials up in the indexes   *)
(* without it, at any moment of a write.  A removed user leaves a          *)
(* tombstone until its last connection is gone and somebody collected its  *)
(* final counters; the caller may be cancelled and the task that waits may *)
(* be lost meanwhile.                                                      *)
(*                                                                         *)
(* UserContext belongs to the shoes crate: it counts connections and bytes,*)
(* and refuses to register a connection once it was revoked.               *)
(***************************************************************************)
EXTENDS Integers, Sequences, FiniteSets, TLC, FiniteSetsExt, SequencesExt

CONSTANTS
    Targets,       \* what the inbound's targets authenticate by (see Kinds)
    Specs,         \* the user specifications the control plane sends
    Initial,       \* lists of specifications an inbound may start with
    Psks,          \* passwords that decode to a key of the right length
    AnytlsPrefix,      \* anytls_prefix: password -> prefix of its hash
    Callers,       \* callers of remove
    None,          \* an absent field
    MaxContexts,   \* bound on user contexts
    MaxBytes       \* bound on the bytes of a context

Ids == {s.id : s \in Specs}

-----------------------------------------------------------------------------
(* Credentials *)

\* CredentialKinds: a set of forms, and the key length of shadowsocks targets.
NoKinds == [forms |-> {}, psk |-> 0]
Mixed == -1

Merge(a, b) ==
    [forms |-> a.forms \cup b.forms,
     psk   |-> IF a.psk = 0 THEN b.psk ELSE IF b.psk \in {0, a.psk} THEN a.psk ELSE Mixed]

Kinds == FoldSet(Merge, NoKinds, Targets)

\* `password` would have to mean two things.
Conflict(k) == k.psk = Mixed \/ (k.psk # 0 /\ k.forms \ {"uuid"} # {})

TakesPassword(k) == k.forms \ {"uuid"} # {} \/ k.psk > 0

\* parse_credentials: is the specification fit for this inbound?
Parses(s) ==
    /\ s.uuid # None => "uuid" \in Kinds.forms
    /\ s.password # None => TakesPassword(Kinds)
    /\ s.uuid # None \/ s.password # None
    /\ "tuic" \in Kinds.forms => s.uuid # None /\ s.password # None
    /\ Kinds.psk > 0 /\ s.password # None => s.password \in Psks

\* The indexes, and the key of a user in each.  Hashes are injective; a naive
\* credential is the id, a colon and the password.
Indexed == {"uuid", "trojan", "plain", "psk", "anytls", "naive"}

Keys(s) ==
    [f \in Indexed |->
        CASE f = "uuid"  -> s.uuid
          [] f = "naive" -> IF s.password # None /\ f \in Kinds.forms
                            THEN s.id \o <<":">> \o s.password ELSE None
          [] f = "psk"   -> IF Kinds.psk > 0 THEN s.password ELSE None
          [] OTHER       -> IF f \in Kinds.forms THEN s.password ELSE None]

-----------------------------------------------------------------------------
(* The table: users, indexes, prefix counts, VMess candidates *)

EmptyFun == [x \in {} |-> x]
EmptyTable ==
    [users |-> EmptyFun, index |-> [f \in Indexed |-> EmptyFun], prefixes |-> EmptyFun,
     vmess |-> {}]

Without(f, x) == [y \in DOMAIN f \ {x} |-> f[y]]

ReleasePrefix(p, pw) ==
    LET x == AnytlsPrefix[pw]
    IN  IF x \notin DOMAIN p THEN p
        ELSE IF p[x] <= 1 THEN Without(p, x) ELSE [p EXCEPT ![x] = @ - 1]

ClaimPrefix(p, pw) ==
    LET x == AnytlsPrefix[pw]
    IN  IF x \in DOMAIN p THEN [p EXCEPT ![x] = @ + 1] ELSE (x :> 1) @@ p

\* The keys of e in the forms of F are taken out of the indexes.
Unindex(T, e, F) ==
    LET gone == {f \in F : e.keys[f] # None}
    IN  [T EXCEPT !.index = [f \in Indexed |-> IF f \in gone THEN Without(@[f], e.keys[f]) ELSE @[f]],
                  !.prefixes = IF "anytls" \in gone THEN ReleasePrefix(@, e.keys["anytls"]) ELSE @]

\* Mutant: an update retires every key.
RetireAll(T, prev, e) == IF prev = None THEN T ELSE Unindex(T, prev, Indexed)
Retire(T, prev, e) ==
    IF prev = None THEN T ELSE Unindex(T, prev, {f \in Indexed : prev.keys[f] # e.keys[f]})

\* An AnyTLS prefix is counted once per hash.
Insert(T, e) ==
    LET has == {f \in Indexed : e.keys[f] # None}
        new == "anytls" \in has /\ e.keys["anytls"] \notin DOMAIN T.index["anytls"]
    IN  [T EXCEPT !.index = [f \in Indexed |-> IF f \in has THEN (e.keys[f] :> e) @@ @[f] ELSE @[f]],
                  !.prefixes = IF new THEN ClaimPrefix(@, e.keys["anytls"]) ELSE @]

List(T, e) == [T EXCEPT !.users = (e.id :> e) @@ @]

RepublishVmess(T) ==
    [T EXCEPT !.vmess = {e \in {T.users[i] : i \in DOMAIN T.users} : e.keys["uuid"] # None}]

\* check_credentials_unclaimed
Unclaimed(T, s) ==
    \A f \in Indexed : Keys(s)[f] \in DOMAIN T.index[f] => T.index[f][Keys(s)[f]].id = s.id

\* from_users: contexts are numbered in the order of the list.
FromUsers(list) ==
    LET Add(T, k) ==
            LET s == list[k]  e == [id |-> s.id, ctx |-> k, keys |-> Keys(s)]
            IN  IF T = None \/ s.id \in DOMAIN T.users \/ ~Parses(s) \/ ~Unclaimed(T, s)
                THEN None ELSE List(Insert(T, e), e)
        T == FoldLeft(Add, EmptyTable, [k \in 1 .. Len(list) |-> k])
    IN  IF T = None THEN None ELSE RepublishVmess(T)

-----------------------------------------------------------------------------
VARIABLES
    table,      \* the table
    draining,   \* id -> the context of the removed generation
    ctx,        \* the contexts: UserContext, and what happened to its bytes
    receipt,    \* context -> DrainingUser.result
    final,      \* contexts whose finalizer task runs
    writer,     \* the holder of the writer lock
    caller,     \* the callers of remove
    held        \* contexts a connection found but has not registered with

vars == <<table, draining, ctx, receipt, final, writer, caller, held>>

NoWriter == [pc |-> "free", e |-> None, prev |-> None, by |-> None]
NoCall == [pc |-> "idle", gen |-> 0]

NewContext(s) ==
    [id |-> s.id, enabled |-> s.enabled, revoked |-> FALSE, conns |-> 0, count |-> 0,
     carried |-> 0, taken |-> 0, collected |-> FALSE]

\* The engine builds a registry only where one user list can serve every target.
Init ==
    /\ Kinds # NoKinds /\ ~Conflict(Kinds)
    /\ \E list \in Initial :
          /\ FromUsers(list) # None
          /\ table = FromUsers(list)
          /\ ctx = [k \in 1 .. Len(list) |-> NewContext(list[k])]
    /\ draining = EmptyFun /\ receipt = EmptyFun /\ final = {} /\ held = {}
    /\ writer = NoWriter
    /\ caller = [r \in Callers |-> NoCall]

-----------------------------------------------------------------------------
(* upsert *)

\* An update keeps the context, and with it counters and connections.
ContextOf(id) == IF id \in DOMAIN table.users THEN table.users[id].ctx ELSE Len(ctx) + 1

Upsert(s) ==
    /\ writer.pc = "free"
    /\ s.id \notin DOMAIN draining
    /\ Parses(s) /\ Unclaimed(table, s)
    /\ LET c == ContextOf(s.id)
       IN  /\ c <= MaxContexts
           /\ ctx' = IF c > Len(ctx) THEN Append(ctx, NewContext(s))
                     ELSE [ctx EXCEPT ![c].enabled = s.enabled]
           /\ writer' = [pc |-> "retire", e |-> [id |-> s.id, ctx |-> c, keys |-> Keys(s)],
                         prev |-> IF s.id \in DOMAIN table.users THEN table.users[s.id] ELSE None,
                         by |-> None]
    /\ UNCHANGED <<table, draining, receipt, final, caller, held>>

WriterStep(from, to, T) ==
    /\ writer.pc = from /\ writer' = [writer EXCEPT !.pc = to]
    /\ table' = T
    /\ UNCHANGED <<draining, ctx, receipt, final, caller, held>>

UpsertRetires == WriterStep("retire", "insert", Retire(table, writer.prev, writer.e))
UpsertInserts == WriterStep("insert", "list", Insert(table, writer.e))
UpsertLists == WriterStep("list", "publish", List(table, writer.e))

\* The VMess candidates are replaced; the lock is released.  After a removal its
\* finalizer is spawned.
Publish ==
    /\ writer.pc = "publish" /\ writer' = NoWriter
    /\ table' = RepublishVmess(table)
    /\ IF writer.by = None THEN UNCHANGED <<final, caller>>
       ELSE /\ final' = final \cup {writer.e.ctx}
            /\ caller' = [caller EXCEPT ![writer.by] = [pc |-> "join", gen |-> writer.e.ctx]]
    /\ UNCHANGED <<draining, ctx, receipt, held>>

-----------------------------------------------------------------------------
(* remove *)

Revoke(c) == [ctx EXCEPT ![c].revoked = TRUE]

RemoveUser(r, id) ==
    /\ caller[r].pc = "idle" /\ writer.pc = "free"
    /\ \/ /\ id \in DOMAIN table.users
          /\ LET e == table.users[id]
             IN  /\ ctx' = Revoke(e.ctx)
                 /\ table' = [table EXCEPT !.users = Without(@, id)]
                 /\ draining' = (id :> e.ctx) @@ draining
                 /\ writer' = [pc |-> "unindex", e |-> e, prev |-> None, by |-> r]
                 /\ caller' = [caller EXCEPT ![r] = [pc |-> "removing", gen |-> e.ctx]]
       \/ /\ id \notin DOMAIN table.users /\ id \in DOMAIN draining
          /\ caller' = [caller EXCEPT ![r] = [pc |-> "attached", gen |-> draining[id]]]
          /\ UNCHANGED <<ctx, table, draining, writer>>
    /\ UNCHANGED <<receipt, final, held>>

RemoveUnindexes == WriterStep("unindex", "publish", Unindex(table, writer.e, Indexed))

\* DrainingUser::complete
Complete(c) == IF c \in DOMAIN receipt THEN receipt ELSE (c :> ctx[c].count) @@ receipt
\* Mutant: nobody waits for the connections.
Finished_AtOnce(c) == TRUE
Finished(c) == c \in DOMAIN receipt \/ ctx[c].conns = 0

\* DrainingUser::finish in the spawned task, whether or not anybody waits for it.
Finalize(c) ==
    /\ c \in final /\ Finished(c)
    /\ receipt' = Complete(c) /\ final' = final \ {c}
    /\ caller' = [r \in Callers |-> IF caller[r] = [pc |-> "join", gen |-> c]
                                    THEN [caller[r] EXCEPT !.pc = "clear"] ELSE caller[r]]
    /\ UNCHANGED <<table, draining, ctx, writer, held>>

\* The task is aborted or panics: its caller gets an error and the tombstone stays.
FinalizerLost(c) ==
    /\ c \in final
    /\ final' = final \ {c}
    /\ LET joined == {r \in Callers : caller[r] = [pc |-> "join", gen |-> c]}
       IN  /\ receipt' = IF joined # {} /\ ctx[c].conns = 0 THEN Complete(c) ELSE receipt
           /\ caller' = [r \in Callers |-> IF r \in joined THEN NoCall ELSE caller[r]]
    /\ UNCHANGED <<table, draining, ctx, writer, held>>

\* A repeated remove waits itself.
AttachedFinishes(r) ==
    /\ caller[r].pc = "attached" /\ Finished(caller[r].gen)
    /\ receipt' = Complete(caller[r].gen)
    /\ caller' = [caller EXCEPT ![r].pc = "clear"]
    /\ UNCHANGED <<table, draining, ctx, final, writer, held>>

\* clear_draining_generation
Cleared(c) ==
    IF ctx[c].id \in DOMAIN draining /\ draining[ctx[c].id] = c
    THEN Without(draining, ctx[c].id) ELSE draining

\* The caller clears the tombstone and has the final counters.
Collects(r) ==
    /\ caller[r].pc = "clear"
    /\ draining' = Cleared(caller[r].gen)
    /\ ctx' = [ctx EXCEPT ![caller[r].gen].collected = TRUE]
    /\ caller' = [caller EXCEPT ![r] = NoCall]
    /\ UNCHANGED <<table, receipt, final, writer, held>>

\* The future of remove is dropped while it waits; a spawned finalizer goes on.
CallerCancelled(r) ==
    /\ caller[r].pc \in {"join", "attached"}
    /\ caller' = [caller EXCEPT ![r] = NoCall]
    /\ UNCHANGED <<table, draining, ctx, receipt, final, writer, held>>

-----------------------------------------------------------------------------
(* Connections, and the collection of traffic *)

IsEnabled(c) == ctx[c].enabled /\ ~ctx[c].revoked

\* find_uuid and its siblings; find_vmess_auth_id walks the candidates.
Find(f, k) ==
    LET found == IF f = "vmess" THEN {e \in table.vmess : e.keys["uuid"] = k}
                 ELSE IF k \in DOMAIN table.index[f] THEN {table.index[f][k]} ELSE {}
    IN  {e \in found : IsEnabled(e.ctx)}

Lookups == UNION {{<<f, k>> : k \in {Keys(s)[f] : s \in Specs} \ {None}} : f \in Indexed}
           \cup {<<"vmess", s.uuid>> : s \in {s \in Specs : s.uuid # None}}

Authenticate ==
    /\ held' \in {held \cup {e.ctx} : e \in UNION {Find(l[1], l[2]) : l \in Lookups}}
    /\ held' # held
    /\ UNCHANGED <<table, draining, ctx, receipt, final, writer, caller>>

Register(c) ==
    /\ c \in held /\ held' = held \ {c}
    /\ ctx' = IF ctx[c].revoked \/ ctx[c].conns > 0 THEN ctx ELSE [ctx EXCEPT ![c].conns = 1]
    /\ UNCHANGED <<table, draining, receipt, final, writer, caller>>

Carry(c) ==
    /\ ctx[c].conns > 0 /\ ctx[c].carried < MaxBytes
    /\ ctx' = [ctx EXCEPT ![c].count = @ + 1, ![c].carried = @ + 1]
    /\ UNCHANGED <<table, draining, receipt, final, writer, caller, held>>

Disconnect(c) ==
    /\ ctx[c].conns > 0 /\ ctx' = [ctx EXCEPT ![c].conns = 0]
    /\ UNCHANGED <<table, draining, receipt, final, writer, caller, held>>

\* take_traffic, and take_all_traffic and take_nonzero_traffic user by user.
TakeTraffic(id) ==
    /\ id \in DOMAIN table.users
    /\ LET c == table.users[id].ctx
       IN  ctx' = [ctx EXCEPT ![c].taken = @ + ctx[c].count, ![c].count = 0]
    /\ UNCHANGED <<table, draining, receipt, final, writer, caller, held>>

WriterWorks == UpsertRetires \/ UpsertInserts \/ UpsertLists \/ RemoveUnindexes \/ Publish

Next ==
    \/ \E s \in Specs : Upsert(s)
    \/ WriterWorks
    \/ \E r \in Callers : \/ \E id \in Ids : RemoveUser(r, id)
                          \/ AttachedFinishes(r) \/ Collects(r) \/ CallerCancelled(r)
    \/ \E c \in 1 .. Len(ctx) :
          \/ Finalize(c) \/ FinalizerLost(c) \/ Register(c) \/ Carry(c) \/ Disconnect(c)
    \/ Authenticate
    \/ \E id \in Ids : TakeTraffic(id)

Spec == Init /\ [][Next]_vars

-----------------------------------------------------------------------------
(* Properties *)

\* A credential that an update does not change reaches its user all the time,
\* although the indexes are rewritten under the eyes of lookups, and never another
\* user.  Between writes the indexes, the prefix counts and the VMess candidates
\* hold exactly the listed users: rotation leaves no old key, removal no entry.
IndexesServeUsers ==
    /\ \A i \in DOMAIN table.users, f \in Indexed :
          LET k == table.users[i].keys[f]
          IN  k # None =>
                 /\ k \in DOMAIN table.index[f] => table.index[f][k].id = i
                 /\ (writer.prev = None \/ writer.e.id # i \/ writer.e.keys[f] = k)
                    => k \in DOMAIN table.index[f]
    /\ writer.pc = "free" =>
          LET all == {table.users[i] : i \in DOMAIN table.users}
          IN  /\ \A f \in Indexed : DOMAIN table.index[f] = {e.keys[f] : e \in all} \ {None}
              /\ table.vmess = {e \in all : e.keys["uuid"] # None}
              /\ \A p \in {AnytlsPrefix[x] : x \in DOMAIN AnytlsPrefix} :
                    LET n == Cardinality({e \in all : e.keys["anytls"] # None
                                                      /\ AnytlsPrefix[e.keys["anytls"]] = p})
                    IN  IF n = 0 THEN p \notin DOMAIN table.prefixes ELSE table.prefixes[p] = n

\* From the moment a removal is recorded no lookup finds the removed context, not
\* even through an index that still holds it.  The context keeps its tombstone
\* until its counters were handed to a caller, through lost tasks, cancelled callers
\* and a new life of the same id; and a final receipt is final: no byte is counted
\* after it, and with what was taken before it is all that was carried.
RemovalIsFinal ==
    /\ \A l \in Lookups : \A e \in Find(l[1], l[2]) : \A i \in DOMAIN draining : draining[i] # e.ctx
    /\ \A c \in 1 .. Len(ctx) :
          ctx[c].revoked /\ ~ctx[c].collected =>
              ctx[c].id \in DOMAIN draining /\ draining[ctx[c].id] = c
    /\ \A c \in DOMAIN receipt :
          receipt[c] = ctx[c].count /\ receipt[c] + ctx[c].taken = ctx[c].carried
=============================================================================
