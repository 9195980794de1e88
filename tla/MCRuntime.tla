------------------------------- MODULE MCRuntime -------------------------------
(* The transactional runtime (ShoesRuntime), and the files of the rule sets  *)
(* its transactions prepare (RuleSets).  The two share no variables; in one  *)
(* behaviour one of them moves, the one that part names.                     *)
EXTENDS ShoesRuntime

CONSTANTS a, b, c, pa, pc

VARIABLES part, disk, remote, job, live, ran, os, last

\* Tag 1 has a user registry, tag 2 has not and runs a protocol without a reload
\* slot; nodes 11 to 14 own them.
WithoutSlot == {2}
Inb(n, l, o, us) == [node |-> n, listen |-> l, opts |-> o, dyn |-> TRUE, users |-> us]
Plain(n, l, o) == [node |-> n, listen |-> l, opts |-> o, dyn |-> FALSE, users |-> EmptyFun]

\* Two listeners, one user.
Base == [inb |-> (1 :> Inb(11, "a", 0, 1 :> "x")) @@ (2 :> Plain(12, "b", 0)),
         dns |-> 0, remote |-> FALSE]
\* They exchange addresses; the user's credential passes to another user.
Swap == [inb |-> (1 :> Inb(11, "b", 0, 2 :> "x")) @@ (2 :> Plain(12, "a", 0)),
         dns |-> 0, remote |-> FALSE]
\* One is gone, the other changes hands, and gets a user.
Moved1 == [inb |-> (1 :> Inb(13, "a", 0, (1 :> "y") @@ (2 :> "x"))), dns |-> 0, remote |-> FALSE]
\* Another DNS, a remote rule set, and a listener that changes its mode.
Dns == [inb |-> (2 :> Inb(14, "b", 1, 1 :> "x")), dns |-> 1, remote |-> TRUE]
\* The base, its first listener in other hands and with other settings.
Handed == [Base EXCEPT !.inb[1] = Inb(13, "a", 1, 1 :> "y")]

Exchanging == {Base, Swap, Moved1, Handed}
Reloading == {Base, Handed, Dns}

Reloads == INSTANCE ShoesRuntime WITH Configs <- Reloading, Lines <- 2

\* Two remote rule sets that share a source path, and a local one.
Files == INSTANCE RuleSets
    WITH Remote <- {a, b}, Local <- {c}, PathOf <- (a :> pa) @@ (b :> pa) @@ (c :> pc),
         MaxVersion <- 2, Faults <- 1, Platforms <- BOOLEAN

-----------------------------------------------------------------------------
files == <<disk, remote, job, live, ran, os, last>>

MCInit ==
    /\ part \in {"exchange", "reload", "files"}
    /\ IF part = "reload" THEN Reloads!Init ELSE Init
    /\ Files!Init /\ (part # "files" => ~os.windows)

MCNext ==
    /\ UNCHANGED part
    /\ \/ part = "exchange" /\ Next /\ UNCHANGED files
       \/ part = "reload" /\ Reloads!Next /\ UNCHANGED files
       \/ part = "files" /\ Files!Next /\ UNCHANGED vars

MCSpec == MCInit /\ [][MCNext]_<<part, vars, files>>

\* publish_cache, recover_interrupted_publication, sync_parent: once a path has a
\* durable cache, no crash, failed rename or loss of power takes the last usable
\* copy away, and a copy only ever holds a version that has been run.
LastGoodSurvives == Files!LastGoodSurvives
=============================================================================
