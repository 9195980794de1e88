------------------------------ MODULE MCCommands ------------------------------
(* What happens to a command of the panel: its way through the lanes         *)
(* (ControlWorker), its execution (CommandExecutor), the pages of users it   *)
(* makes the executor read (UserPages) and what it does to the content of    *)
(* the topology (TopologyContent).  The four share no variables; in one      *)
(* behaviour one of them moves, the one that part names.                     *)
EXTENDS ControlWorker, TLC

CONSTANTS k1, k2

VARIABLES part,
          panel, cmds, inbox, act, pub, res, ended, used,
          members, version, counts, attempt, page, token, seen, users, total, result, whole,
          top, snap

\* The panel sends one command again in every session.
Command(i, k, l) == [id |-> i, key |-> k, lane |-> l]
Resent == {Command(i, k1, "regular") : i \in 1 .. 3}

\* More refreshes than their lane can hold, one of them without a key, and more
\* acknowledgements than the store can.
Refreshes == {Command(1, k1, "refresh"), Command(2, k2, "refresh"), Command(3, NoKey, "refresh")}

Refreshing == INSTANCE ControlWorker
    WITH LaneNames <- {"refresh"}, Sessions <- {1, 2}, Deliveries <- Refreshes

\* One command of every kind, one with contradictory revisions, and changes that
\* take a command on each lane or two on one; each user is added and deleted by
\* commands of several kinds.
Sends(type, parts, about) == [type |-> type, parts |-> parts, users |-> about, ok |-> TRUE]
Updates ==
    {<<Sends("snapshot", {"nodes"}, {"a"})>>,
     <<Sends("delta", {"nodes"}, {"b"})>>,
     <<[Sends("delta", {"nodes"}, {}) EXCEPT !.ok = FALSE]>>,
     <<Sends("refresh", {}, {"a"})>>,
     <<Sends("delta", {"nodes"}, {}), Sends("refresh", {}, {"b"})>>,
     <<Sends("route", {"routes"}, {}), Sends("mutation", {}, {"a"})>>}

Executor == INSTANCE CommandExecutor
    WITH queue <- inbox, cancelled <- ended, FirstUsers <- {"a"}, MaxRev <- 3, MaxAttempts <- 2, MaxFaults <- 1,
         MaxPulls <- 1, MayCancel <- TRUE

\* A panel that keeps its promise, and one that answers anything.
Pages == INSTANCE UserPages
    WITH UserIds <- 1 .. 3, PageSize <- 1, MaxPages <- 3, MaxAttempts <- 3, MaxChanges <- 4,
         Honest <- TRUE, Answers <- {}

AnyAnswers == [users : {<<>>, <<0>>, <<1>>, <<2>>, <<3>>, <<4>>, <<3, 1>>}, total : {0, 2, 4},
               more : BOOLEAN, token : 0 .. 3]

Answers == INSTANCE UserPages
    WITH UserIds <- 1 .. 4, PageSize <- 1, MaxPages <- 3, MaxAttempts <- 3, MaxChanges <- 0,
         Honest <- FALSE, Answers <- AnyAnswers

User(id, cred, status) == [id |-> id, cred |-> cred, status |-> status]
Node(id, cfg, us, analysis) == [id |-> id, cfg |-> cfg, users |-> us, analysis |-> analysis]

WireUsers == {User(1, "p", "active"), User(1, "q", "active"), User(2, "p", "active"),
              User(1, "p", "disabled"), User(0, "p", "active")}
WireNodes == {Node(1, "x", <<User(2, "p", "active")>>, TRUE), Node(2, "y", <<>>, FALSE),
              Node(0, "y", <<User(1, "p", "active")>>, FALSE)}
Snapshots == {<<>>,
              <<Node(2, "x", <<User(2, "q", "active"), User(1, "p", "active")>>, FALSE),
                Node(1, "x", <<User(1, "p", "disabled")>>, TRUE)>>}
UserLists == {<<User(2, "p", "active"), User(1, "p", "disabled")>>, <<User(1, "p", "active")>>}

Content == INSTANCE TopologyContent WITH NodeIds <- {1, 2}, Routes <- {None, "r"}, MaxRev <- 1

-----------------------------------------------------------------------------
executor == <<panel, cmds, inbox, act, pub, res, ended, used>>
pages == <<members, version, counts, attempt, page, token, seen, users, total, result, whole>>
content == <<top, snap>>

MCInit ==
    /\ part \in {"lanes", "refreshing", "executor", "pages", "answers", "content"}
    /\ IF part = "refreshing" THEN Refreshing!Init ELSE Init
    /\ Executor!Init /\ Pages!Init /\ Content!Init
    /\ part # "pages" => members = {} /\ ~counts

\* Nothing is left to do.
Finished ==
    /\ \/ part = "executor" /\ \A l \in DOMAIN act : act[l].pc = "idle" /\ inbox[l] = <<>>
       \/ part \in {"pages", "answers"} /\ result # "reading"
    /\ UNCHANGED <<vars, executor, pages, content>>

MCNext ==
    /\ UNCHANGED part
    /\ \/ part = "lanes" /\ Next /\ UNCHANGED <<executor, pages, content>>
       \/ part = "refreshing" /\ Refreshing!Next /\ UNCHANGED <<executor, pages, content>>
       \/ part = "executor" /\ Executor!Next /\ UNCHANGED <<vars, pages, content>>
       \/ part = "pages" /\ Pages!Next /\ UNCHANGED <<vars, executor, content>>
       \/ part = "answers" /\ Answers!Next /\ UNCHANGED <<vars, executor, content>>
       \/ part = "content" /\ Content!Next /\ UNCHANGED <<vars, executor, pages>>
       \/ Finished

MCSpec == MCInit /\ [][MCNext]_<<part, vars, executor, pages, content>>

-----------------------------------------------------------------------------
\* execute_regular: what the panel was told is applied stays in the published
\* topology, whatever the other lane, the pull and later resynchronisations do,
\* except for users after a pull whose comparison missed that they had changed
\* and changed back.
AppliedStays == Executor!AppliedStays

\* refresh_compare_and_swap_rejects_a_concurrent_user_mutation: an applied mutation
\* stays, because users are not replaced by a list from before it.
MutationsStay == Executor!MutationsStay

\* list_node_users: what is returned is well formed whatever the panel answers,
\* and the membership of one moment with a panel that keeps its promise.
OneMembership == IF part = "pages" THEN Pages!OneMembership ELSE Answers!OneMembership

\* digest: it depends on the loaded content alone, not on the commands that
\* brought it about.
DigestIsContent == Content!DigestIsContent
=============================================================================
