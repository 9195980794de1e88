------------------------------- MODULE MCEngine -------------------------------
(* The engine's inbounds (Engine) and the users of one of them               *)
(* (UserRegistry).  The two share no variables; in one behaviour one of them *)
(* moves, the one that part names.                                           *)
EXTENDS Engine, TLC

CONSTANTS r1, r2, None

VARIABLES part, table, draining, ctx, receipt, final, writer, caller, held

Cfg(groups, d, k, o) == [groups |-> groups, dns |-> d, kinds |-> k, opts |-> o]

\* Two listener groups, or another address.
Lifecycle == {Cfg(<<{"a"}, {"b"}>>, NoDns, "uuid", 0), Cfg(<<{"c"}>>, NoDns, "uuid", 0)}

\* Three inbounds of one tag in turn, with leases; two inbounds whose DNS client is
\* rotated, and whose listeners may die.
Replay == INSTANCE Engine
    WITH Tags <- {"t"}, Callers <- {"p"}, Configs <- {Cfg(<<{"a"}>>, NoDns, "uuid", 0)},
         MaxSlots <- 3, MaxLineages <- 1, MaxLeases <- 1, Planes <- {"serve"}
Health == INSTANCE Engine
    WITH Tags <- {"t"}, Callers <- {"p"}, MaxLineages <- 1, MaxGen <- 1, Planes <- {"serve", "die"},
         Configs <- {Cfg(<<{"a"}>>, "d", "uuid", 0), Cfg(<<{"b"}>>, NoDns, "uuid", 1)}

\* Two callers update one inbound with two listener groups.
Reload == INSTANCE Engine
    WITH Tags <- {"t"}, Callers <- {"p", "q"}, MaxSlots <- 1, MaxRev <- 2,
         Configs <- {Cfg(<<{"a"}, {"b"}>>, NoDns, "uuid", n) : n \in 0 .. 1}

Symmetry == Permutations(Callers) \cup Permutations(Tags)

-----------------------------------------------------------------------------
(* Strings are sequences of their parts. *)
User(i, u, p, on) == [id |-> i, uuid |-> u, password |-> p, enabled |-> on]
Alice == <<"alice">>
\* An id with a colon in it.
AliceB == <<"alice", ":", "b">>
P1 == <<"c">>
P2 == <<"b", ":", "c">>
\* The hashes of both passwords begin alike.
AnytlsPrefix == (P1 :> "p") @@ (P2 :> "p")

\* Trojan, AnyTLS and naive behind one listener.
Passwords == INSTANCE UserRegistry
    WITH Targets <- {[forms |-> {"trojan"}, psk |-> 0], [forms |-> {"anytls", "naive"}, psk |-> 0]},
         Specs <- {User(Alice, None, P1, TRUE), User(Alice, None, P2, TRUE), User(AliceB, None, P1, TRUE)},
         Initial <- {<<>>, <<User(Alice, None, P2, TRUE), User(Alice, None, P1, TRUE)>>,
                     <<User(Alice, None, P2, FALSE)>>},
         Psks <- {P1}, Callers <- {r1}, MaxContexts <- 3, MaxBytes <- 0

\* Shadowsocks and VMess: a uuid and a key.
Removal == INSTANCE UserRegistry
    WITH Targets <- {[forms |-> {"uuid"}, psk |-> 0], [forms |-> {}, psk |-> 16]},
         Specs <- {User(Alice, "u1", P1, TRUE), User(Alice, "u2", P1, TRUE), User(Alice, "u1", None, FALSE)},
         Initial <- {<<User(Alice, "u1", P1, TRUE)>>},
         Psks <- {P1}, Callers <- {r1, r2}, MaxContexts <- 2, MaxBytes <- 1

-----------------------------------------------------------------------------
users == <<table, draining, ctx, receipt, final, writer, caller, held>>

MCInit ==
    /\ part \in {"lifecycle", "replay", "health", "reload", "passwords", "removal"}
    /\ CASE part = "replay" -> Replay!Init
         [] part = "health" -> Health!Init
         [] part = "reload" -> Reload!Init
         [] OTHER -> Init
    /\ IF part = "passwords" THEN Passwords!Init ELSE Removal!Init

MCNext ==
    /\ UNCHANGED part
    /\ \/ part = "lifecycle" /\ Next /\ UNCHANGED users
       \/ part = "replay" /\ Replay!Next /\ UNCHANGED users
       \/ part = "health" /\ Health!Next /\ UNCHANGED users
       \/ part = "reload" /\ Reload!Next /\ UNCHANGED users
       \/ part = "passwords" /\ Passwords!Next /\ UNCHANGED vars
       \/ part = "removal" /\ Removal!Next /\ UNCHANGED vars

MCSpec == MCInit /\ [][MCNext]_<<part, vars, users>>

\* The indexes of users.rs, read without the lock, hold the keys of the listed
\* users at every moment of a write.
IndexesServeUsers ==
    /\ part = "passwords" => Passwords!IndexesServeUsers
    /\ part = "removal" => Removal!IndexesServeUsers

\* remove, collect and upsert of users.rs: a removed user is refused, and its final
\* counters are handed out complete.
RemovalIsFinal ==
    /\ part = "passwords" => Passwords!RemovalIsFinal
    /\ part = "removal" => Removal!RemovalIsFinal
=============================================================================
