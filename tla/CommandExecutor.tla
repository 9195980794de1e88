--------------------------- MODULE CommandExecutor ---------------------------
(***************************************************************************)
(* The executor of control commands: incremental commands that must meet   *)
(* the revision they were computed for, the resynchronisation with the     *)
(* panel and the replay when they do not, and user refreshes, on the two   *)
(* lanes of a session, beside the periodic pull of users.                  *)
(*                                                                         *)
(* The content of a topology is the list of its users, which is compared   *)
(* by value, and the set of the other changes of the panel that it has:    *)
(* pairs of the revision and the part (nodes, routes) that changed.  An    *)
(* operation of the manager is one step here, because it publishes under   *)
(* the operation lock (TopologyManager).                                   *)
(***************************************************************************)
EXTENDS Integers, Sequences, FiniteSets, FiniteSetsExt

CONSTANTS Updates,      \* what one change of the panel may send: commands
          FirstUsers,   \* the users of the first revision
          MaxRev, MaxAttempts,   \* MAX_USER_REFRESH_ATTEMPTS
          MaxFaults, MaxPulls,
          MayCancel, None

Lanes == {"regular", "refresh", "pull"}

VARIABLES panel,    \* per revision of the panel: the parts it changed, the users
          cmds,     \* the commands sent so far
          queue,    \* per lane: indices of accepted commands
          act,      \* per lane: the execution in progress
          pub,      \* the published topology: revision and content; history:
                    \* whether its users were read before that revision
          res,      \* per command: its terminal result
          cancelled,
          used      \* bounds: faults, pulls

vars == <<panel, cmds, queue, act, pub, res, cancelled, used>>

Changes(rev) == UNION {{n} \X panel[n].parts : n \in 1..rev}

(* same: no publication since the token (publication_token) was taken.      *)
Resting == [pc |-> "idle", cmd |-> 0, base |-> 0, replay |-> FALSE, tries |-> 0, same |-> FALSE,
            seen |-> {}, rev |-> 0, got |-> {}, list |-> {}]

Init ==
  /\ panel = <<[parts |-> {"nodes"}, users |-> FirstUsers]>>
  /\ cmds = <<>>
  /\ queue = [l \in Lanes |-> <<>>]
  /\ act = [l \in Lanes |-> Resting]
  /\ pub = [rev |-> 1, has |-> {<<1, "nodes">>}, users |-> FirstUsers, late |-> FALSE]
  /\ res = <<>>
  /\ cancelled = FALSE
  /\ used = [faults |-> 0, pulls |-> 0]

(* The panel changes and sends the commands of the change; the first names  *)
(* the revision before it, the others the new one.  The users a command is  *)
(* about are added, or deleted when they are there.                         *)
LaneOf(type) == IF type = "refresh" THEN "refresh" ELSE "regular"

PanelChanges(u) ==
  /\ Len(panel) < MaxRev
  /\ LET rev == Len(panel) + 1
         old == panel[rev - 1].users
         about == UNION {u[k].users : k \in 1..Len(u)}
         new == [k \in 1..Len(u) |->
                   [type |-> u[k].type, parts |-> u[k].parts, ok |-> u[k].ok, rev |-> rev,
                    base |-> IF k = 1 THEN rev - 1 ELSE rev,
                    adds |-> u[k].users \ old, deletes |-> u[k].users \cap old]]
     IN  /\ panel' = Append(panel, [parts |-> UNION {u[k].parts : k \in 1..Len(u)},
                                     users |-> (old \ about) \cup (about \ old)])
         /\ cmds' = cmds \o new
         /\ res' = res \o [k \in 1..Len(u) |-> None]
         /\ queue' = [l \in Lanes |->
              queue[l] \o SelectSeq([k \in 1..Len(u) |-> Len(cmds) + k],
                                    LAMBDA i : LaneOf(cmds'[i].type) = l)]
  /\ UNCHANGED <<act, pub, cancelled, used>>

-----------------------------------------------------------------------------
Cmd(l) == cmds[act[l].cmd]

Goto(l, pc) == act' = [act EXCEPT ![l].pc = pc]

(* The execution goes on at pc without what it has read.                    *)
Afresh(l, pc) ==
  LET a == act[l]
  IN  [Resting EXCEPT !.pc = pc, !.cmd = a.cmd, !.base = a.base, !.replay = a.replay, !.tries = a.tries]
Restarts(l, pc) == act' = [act EXCEPT ![l] = Afresh(l, pc)]

Ends(l, status) ==
  /\ act' = [act EXCEPT ![l] = Resting]
  /\ res' = IF act[l].cmd = 0 THEN res ELSE [res EXCEPT ![act[l].cmd] = status]

(* A publication ends the execution of lane l or leaves it at pc; tokens    *)
(* taken before it no longer match.                                         *)
Publishes(l, next, at, status) ==
  /\ pub' = next
  /\ act' = [k \in Lanes |-> IF k = l THEN at ELSE [act[k] EXCEPT !.same = FALSE]]
  /\ res' = IF act[l].cmd = 0 \/ status = None THEN res ELSE [res EXCEPT ![act[l].cmd] = status]
  /\ UNCHANGED used

(* The runtime refuses the candidate and is rolled back, or not.            *)
RuntimeFails(l, statuses) ==
  /\ used.faults < MaxFaults
  /\ used' = [used EXCEPT !.faults = @ + 1]
  /\ \E status \in statuses : Ends(l, status)
  /\ UNCHANGED pub

Rejected(l) == Ends(l, "Failed") /\ UNCHANGED <<pub, used>>

input == <<panel, cmds, queue, cancelled>>

Takes(l) ==
  /\ act[l].pc = "idle" /\ queue[l] # <<>>
  /\ LET i == Head(queue[l])
     IN  act' = [act EXCEPT ![l] = [Resting EXCEPT !.cmd = i, !.base = cmds[i].base,
                                      !.pc = IF cmds[i].type = "refresh" THEN "guard" ELSE "apply"]]
  /\ queue' = [queue EXCEPT ![l] = Tail(@)]
  /\ UNCHANGED <<panel, cmds, pub, res, cancelled, used>>

-----------------------------------------------------------------------------
(* apply_command, apply_with_recovery.                                      *)

Fence(base, target) == base = pub.rev /\ target >= base

Admits(l) ==
  /\ Cmd(l).ok
  /\ IF Cmd(l).type = "snapshot" THEN Cmd(l).rev >= pub.rev ELSE Fence(act[l].base, Cmd(l).rev)

(* What is published after the command: a snapshot replaces all, a route    *)
(* patch all routes, a delta or a mutation makes its change.                *)
Applied(l) ==
  LET c == Cmd(l)
  IN  CASE c.type = "snapshot" ->
             [rev |-> c.rev, has |-> Changes(c.rev), users |-> panel[c.rev].users, late |-> FALSE]
        [] c.type = "route" ->
             [pub EXCEPT !.rev = c.rev, !.has = @ \cup {x \in Changes(c.rev) : x[2] = "routes"}]
        [] OTHER ->
             [pub EXCEPT !.rev = c.rev, !.has = @ \cup ({c.rev} \X c.parts),
                         !.users = (@ \ c.deletes) \cup c.adds]

ApplyCommand(l) ==
  /\ act[l].pc = "apply"
  /\ \/ cancelled /\ Rejected(l)
     \/ /\ ~cancelled /\ Admits(l)
        /\ \/ Publishes(l, Applied(l), Resting, "Applied")
           \/ RuntimeFails(l, {"RolledBack", "Failed"})
  /\ UNCHANGED input

RecoversAlways(l) == TRUE

Recovers(l) == ~act[l].replay

RefusesCommand(l) ==
  /\ act[l].pc = "apply" /\ ~cancelled /\ ~Admits(l)
  /\ IF Recovers(l) THEN Goto(l, "resync") /\ UNCHANGED <<res, pub, used>> ELSE Rejected(l)
  /\ UNCHANGED input

(* After the resynchronisation: a command it has overtaken is done, another *)
(* is replayed from the revision published now.                             *)
Overtaken(l) == Cmd(l).type = "snapshot" \/ pub.rev > Cmd(l).rev

Rebases(l) ==
  /\ act[l].pc = "rebase"
  /\ \/ Overtaken(l) /\ Ends(l, "Applied")
     \/ /\ ~Overtaken(l)
        /\ act' = [act EXCEPT ![l].pc = "apply", ![l].base = pub.rev, ![l].replay = TRUE]
        /\ UNCHANGED res
  /\ UNCHANGED <<input, pub, used>>

-----------------------------------------------------------------------------
(* fetch_resync: the token first, then the configuration, then the users.   *)

TakesToken(l) ==
  /\ act[l].pc = "resync"
  /\ act' = [act EXCEPT ![l].same = TRUE, ![l].pc = "config"]
  /\ UNCHANGED <<input, pub, res, used>>

FetchesConfig(l) ==
  /\ act[l].pc = "config"
  /\ act' = [act EXCEPT ![l].rev = Len(panel), ![l].pc = "configUsers",
                        ![l].got = Changes(Len(panel))]
  /\ UNCHANGED <<input, pub, res, used>>

FetchesUsers(l) ==
  /\ act[l].pc = "configUsers"
  /\ act' = [act EXCEPT ![l].pc = "commit", ![l].list = panel[Len(panel)].users]
  /\ UNCHANGED <<input, pub, res, used>>

Reading == {"config", "configUsers", "users"}

FetchFails(l) ==
  /\ act[l].pc \in Reading
  /\ \/ cancelled /\ Rejected(l)
     \/ RuntimeFails(l, {"Failed"})
  /\ UNCHANGED input

(* apply_authoritative_if_unchanged.                                        *)
Unchanged(l) == act[l].rev >= pub.rev /\ act[l].same

(* recover_refresh_revision cannot replay, it needs a snapshot that is new  *)
(* enough.                                                                  *)
NewEnough(l) == Cmd(l).type = "refresh" => act[l].rev >= Cmd(l).rev

AppliesResync(l) ==
  /\ act[l].pc = "commit" /\ ~cancelled /\ NewEnough(l) /\ Unchanged(l)
  /\ \/ LET next == [rev |-> act[l].rev, has |-> act[l].got, users |-> act[l].list, late |-> FALSE]
        IN  IF Cmd(l).type = "refresh" THEN Publishes(l, next, Resting, "Applied")
            ELSE Publishes(l, next, Afresh(l, "rebase"), None)
     \/ RuntimeFails(l, {"Failed"})
  /\ UNCHANGED input

RefusesResync(l) ==
  /\ act[l].pc = "commit" /\ (cancelled \/ ~NewEnough(l) \/ ~Unchanged(l))
  /\ Rejected(l)
  /\ UNCHANGED input

-----------------------------------------------------------------------------
(* execute_refresh, and sync_node_users of the periodic pull, which names   *)
(* no revision.                                                             *)

RefreshGuards(l) ==
  /\ act[l].pc = "guard"
  /\ IF cancelled THEN Rejected(l)
     ELSE /\ Goto(l, IF Fence(act[l].base, Cmd(l).rev) THEN "load" ELSE "resync")
          /\ UNCHANGED <<pub, res, used>>
  /\ UNCHANGED input

PullStarts(l) ==
  /\ l = "pull" /\ act[l].pc = "idle" /\ used.pulls < MaxPulls
  /\ used' = [used EXCEPT !.pulls = @ + 1]
  /\ Goto(l, "load")
  /\ UNCHANGED <<input, pub, res>>

LoadsUsers(l) ==
  /\ act[l].pc = "load"
  /\ act' = [act EXCEPT ![l].seen = pub.users, ![l].tries = @ + 1, ![l].pc = "users"]
  /\ UNCHANGED <<input, pub, res, used>>

ReadsUsers(l) ==
  /\ act[l].pc = "users"
  /\ act' = [act EXCEPT ![l].list = panel[Len(panel)].users, ![l].rev = Len(panel), ![l].pc = "replace"]
  /\ UNCHANGED <<input, pub, res, used>>

(* The token of the attempt is cancelled, by the session or by a change of  *)
(* the setting, before the local transaction begins.                        *)
PullCancelled(l) ==
  /\ l = "pull" /\ act[l].pc \in {"load", "users", "replace"}
  /\ Rejected(l)
  /\ UNCHANGED input

(* compare_node_users: the users, not their history.                        *)
AnyUsers(l) == TRUE

UsersAsSeen(l) == act[l].seen = pub.users

MayRetry(l) == act[l].tries < MaxAttempts

Fenced(l) == l = "pull" \/ Fence(act[l].base, Cmd(l).rev)
Stopped(l) == l # "pull" /\ cancelled
Target(l) == IF l = "pull" THEN pub.rev ELSE Cmd(l).rev

(* History: the list was read before what is published now, and the users   *)
(* are nevertheless the ones that were loaded.                              *)
ReadBefore(l) == act[l].rev < pub.rev /\ act[l].seen = pub.users

(* refresh_owned: unchanged users only advance the revision.                *)
ReplacesUsers(l) ==
  /\ act[l].pc = "replace" /\ ~Stopped(l) /\ Fenced(l) /\ UsersAsSeen(l)
  /\ LET new == act[l].list # pub.users
     IN  \/ /\ new \/ Target(l) > pub.rev
            /\ Publishes(l, [pub EXCEPT !.rev = Target(l), !.users = act[l].list, !.late = ReadBefore(l)],
                         Resting, "Applied")
         \/ /\ ~new /\ Target(l) = pub.rev
            /\ Ends(l, "Applied") /\ UNCHANGED <<pub, used>>
         \/ new /\ RuntimeFails(l, {"RolledBack", "Failed"})
  /\ UNCHANGED input

RefusesUsers(l) ==
  /\ act[l].pc = "replace"
  /\ \/ Stopped(l) /\ Rejected(l)
     \/ ~Stopped(l) /\ ~Fenced(l) /\ Restarts(l, "resync") /\ UNCHANGED <<pub, res, used>>
     \/ /\ ~Stopped(l) /\ Fenced(l) /\ ~UsersAsSeen(l)
        /\ IF MayRetry(l)
           THEN Restarts(l, "load") /\ UNCHANGED <<pub, res, used>>
           ELSE Rejected(l)
  /\ UNCHANGED input

SessionEnds ==
  /\ MayCancel /\ ~cancelled
  /\ cancelled' = TRUE
  /\ UNCHANGED <<panel, cmds, queue, act, pub, res, used>>

Step(l) ==
  \/ Takes(l) \/ ApplyCommand(l) \/ RefusesCommand(l) \/ Rebases(l)
  \/ TakesToken(l) \/ FetchesConfig(l) \/ FetchesUsers(l) \/ FetchFails(l)
  \/ AppliesResync(l) \/ RefusesResync(l)
  \/ RefreshGuards(l) \/ LoadsUsers(l) \/ ReadsUsers(l) \/ ReplacesUsers(l) \/ RefusesUsers(l)

Next ==
  \/ \E u \in Updates : PanelChanges(u)
  \/ \E l \in Lanes : Step(l) \/ PullStarts(l) \/ PullCancelled(l)
  \/ SessionEnds

Spec == Init /\ [][Next]_vars

-----------------------------------------------------------------------------
(* A user a command was about is as the command left it, or as a later      *)
(* change of the panel wants it.                                            *)
UsersStay(c) ==
  /\ \A x \in c.adds : x \in pub.users \/ \E n \in c.rev + 1..Len(panel) : x \notin panel[n].users
  /\ \A x \in c.deletes : x \notin pub.users \/ \E n \in c.rev + 1..Len(panel) : x \in panel[n].users

(* execute_regular, execute_refresh: what the panel was told is applied is  *)
(* in the published topology, now and for ever, whatever the other lane,    *)
(* the pull and later resynchronisations do.  The users are excepted while  *)
(* the ones a pull has read before the published revision are published,    *)
(* over users that had changed and changed back since it loaded them.       *)
AppliedStays ==
  \A i \in DOMAIN cmds :
    res[i] = "Applied" => /\ {cmds[i].rev} \X cmds[i].parts \subseteq pub.has
                          /\ pub.late \/ UsersStay(cmds[i])

(* The test refresh_compare_and_swap_rejects_a_concurrent_user_mutation:    *)
(* users are never replaced by a list from before a mutation that has been  *)
(* applied meanwhile, so that an applied mutation stays.                    *)
MutationsStay ==
  \A i \in DOMAIN cmds :
    res[i] = "Applied" /\ cmds[i].type = "mutation" => UsersStay(cmds[i])

(* apply_with_recovery, execute_refresh: recovery and retries are bounded,  *)
(* so every command gets its result.                                        *)
CommandsEnd == \A l \in Lanes : (act[l].pc # "idle") ~> (act[l].pc = "idle")

=============================================================================
