------------------------------ MODULE RuleSets ------------------------------
(***************************************************************************)
(* Preparation of rule-set resources for one runtime transaction: cached   *)
(* or downloaded bytes, content-addressed snapshots, and the publication   *)
(* of a candidate as last-good cache once the runtime runs it.  Files      *)
(* survive a crash of the process; what was not synced may not survive a   *)
(* loss of power.  One transaction runs at a time (configuration lock).    *)
(*                                                                         *)
(* The bytes of a resource are a version number, and a snapshot's name is  *)
(* the digest of its bytes: snapshots are indexed by version.              *)
(***************************************************************************)
EXTENDS Integers, Sequences, FiniteSets, SequencesExt

CONSTANTS Remote, Local,     \* tags of remote and of local resources
          PathOf,            \* source path of a tag: two tags may share one
          MaxVersion, Faults, Platforms

VARIABLES disk,   \* cache, Windows backup, freshness, snapshots
          remote, \* the version the origin of a path serves now
          job,    \* the transaction: prepare, apply, commit
          live,   \* per path, the version of the snapshot the selectors use
          ran,    \* per path, the versions a transaction has ever committed
          os,     \* platform, and the faults still to come
          last    \* how the last transaction went

vars == <<disk, remote, job, live, ran, os, last>>

RuleTags == Remote \cup Local
Paths == {PathOf[t] : t \in RuleTags}
Versions == 1..MaxVersion
None == 0

NoJob == [pc |-> "idle", todo |-> <<>>, reps |-> [p \in Paths |-> None], got |-> None,
          publish |-> FALSE, pend |-> <<>>, fellBack |-> FALSE]

Init ==
  /\ disk = [cache |-> [p \in Paths |-> None], backup |-> [p \in Paths |-> None],
             fresh |-> {}, unsynced |-> [p \in Paths |-> {}],
             snap |-> [v \in Versions |-> "none"], dirty |-> {}]
  /\ remote = [p \in Paths |-> 1]
  /\ job = NoJob
  /\ live = [p \in Paths |-> None]
  /\ ran = [p \in Paths |-> {}]
  /\ os \in [windows : Platforms, faults : {Faults}]
  /\ last = [ok |-> TRUE, fellBack |-> FALSE]

Fail == job' = NoJob /\ last' = [ok |-> FALSE, fellBack |-> job.fellBack]
Fault == os.faults > 0 /\ os' = [os EXCEPT !.faults = @ - 1]

-----------------------------------------------------------------------------
(* The world: origins publish, caches age, the operator edits local files.  *)

OriginPublishes(p) ==
  /\ remote[p] < MaxVersion
  /\ remote' = [remote EXCEPT ![p] = @ + 1]
  /\ UNCHANGED <<disk, job, live, ran, os, last>>

CacheAges(p) ==
  /\ p \in disk.fresh
  /\ disk' = [disk EXCEPT !.fresh = @ \ {p}]
  /\ UNCHANGED <<remote, job, live, ran, os, last>>

-----------------------------------------------------------------------------
(* prepare_with_cancel *)

Begin ==
  /\ job.pc = "idle"
  /\ \E order \in SetToSeqs(RuleTags) : job' = [NoJob EXCEPT !.pc = "prepare", !.todo = order]
  /\ UNCHANGED <<disk, remote, live, ran, os, last>>

Tag == Head(job.todo)
Path == PathOf[Tag]

(* Cancellation is seen between resources, during a download and at the end *)
(* of the preparation.                                                      *)
Cancel ==
  /\ job.pc \in {"prepare", "fetch"} /\ Fault
  /\ Fail
  /\ UNCHANGED <<disk, remote, live, ran>>

(* recover_interrupted_publication: the backup is finished with when the    *)
(* new file has its name, and takes the name back otherwise.                *)
Recovered(d, p) ==
  IF d.backup[p] = None THEN d
  ELSE [d EXCEPT !.cache[p] = IF @ = None THEN d.backup[p] ELSE @, !.backup[p] = None]

RecoverFails ==
  /\ job.pc = "prepare" /\ job.todo # <<>> /\ Tag \in Remote /\ disk.backup[Path] # None
  /\ Fault /\ Fail
  /\ UNCHANGED <<disk, remote, live, ran>>

(* cache_is_fresh: a file that is there and young enough.                   *)
CacheIsFresh(d, p) == d.cache[p] # None /\ p \in d.fresh

Push(v, publish) == [job EXCEPT !.pc = "push", !.got = v, !.publish = publish]

PrepareRemote ==
  /\ job.pc = "prepare" /\ job.todo # <<>> /\ Tag \in Remote
  /\ disk' = Recovered(disk, Path)
  /\ job' = IF CacheIsFresh(disk', Path) THEN Push(disk'.cache[Path], FALSE)
            ELSE [job EXCEPT !.pc = "fetch"]
  /\ UNCHANGED <<remote, live, ran, os, last>>

(* A local file is read as it is; it may be missing, too large or invalid.  *)
PrepareLocal ==
  /\ job.pc = "prepare" /\ job.todo # <<>> /\ Tag \in Local
  /\ job' = Push(remote[Path], FALSE)
  /\ UNCHANGED <<disk, remote, live, ran, os, last>>

LocalUnusable ==
  /\ job.pc = "prepare" /\ job.todo # <<>> /\ Tag \in Local
  /\ Fault /\ Fail
  /\ UNCHANGED <<disk, remote, live, ran>>

FetchSucceeds ==
  /\ job.pc = "fetch"
  /\ job' = Push(remote[Path], TRUE)
  /\ UNCHANGED <<disk, remote, live, ran, os, last>>

(* No answer, an error status, too many bytes or bytes that do not parse:   *)
(* the cached bytes if there are any.                                       *)
FallBack(p) == disk.cache[p] # None

FetchFails ==
  /\ job.pc = "fetch" /\ Fault
  /\ IF FallBack(Path)
     THEN job' = [Push(disk.cache[Path], FALSE) EXCEPT !.fellBack = TRUE] /\ UNCHANGED last
     ELSE Fail
  /\ UNCHANGED <<disk, remote, live, ran>>

(* PreparedRuleSetBuilder::push with publish_snapshot and verify_snapshot:  *)
(* a snapshot is written under a temporary name and renamed; one that is    *)
(* there must have the expected bytes.  A source path must not resolve to   *)
(* two different snapshots.                                                 *)
Conflict(p, v) == job.reps[p] \notin {None, v}

Verified(v) == disk.snap[v] # "torn"

PushSnapshot ==
  /\ job.pc = "push"
  /\ IF ~Verified(job.got) THEN Fail /\ UNCHANGED disk
     ELSE /\ disk' = IF disk.snap[job.got] = "none"
                     THEN [disk EXCEPT !.snap[job.got] = "full", !.dirty = @ \cup {job.got}]
                     ELSE disk
          /\ IF Conflict(Path, job.got) THEN Fail
             ELSE /\ job' = [job EXCEPT !.pc = "prepare", !.todo = Tail(@), !.got = None,
                               !.reps[Path] = job.got, !.publish = FALSE,
                               !.pend = IF job.publish
                                        THEN Append(@, [tag |-> Tag, v |-> job.got]) ELSE @]
                  /\ UNCHANGED last
  /\ UNCHANGED <<remote, live, ran, os>>

PushFails ==
  /\ job.pc = "push" /\ Fault /\ Fail
  /\ UNCHANGED <<disk, remote, live, ran>>

-----------------------------------------------------------------------------
(* apply_transaction_locked with the rewritten configuration: the runtime   *)
(* refuses it or rolls it back, or runs the snapshots, and then the cache   *)
(* is advanced.                                                             *)

(* rewrite_rule_set_paths: every reference to a source path becomes one to  *)
(* the snapshot prepared for it.                                            *)
Rewritten == job.reps

ApplySucceeds ==
  /\ job.pc = "prepare" /\ job.todo = <<>>
  /\ live' = Rewritten
  /\ ran' = [p \in Paths |-> ran[p] \cup {job.reps[p]}]
  /\ job' = [job EXCEPT !.pc = "commit"]
  /\ last' = [ok |-> TRUE, fellBack |-> job.fellBack]
  /\ UNCHANGED <<disk, remote, os>>

ApplyFails ==
  /\ job.pc = "prepare" /\ job.todo = <<>> /\ Fault /\ Fail
  /\ UNCHANGED <<disk, remote, live, ran>>

(* PreparedRuleSets::commit and commit_candidate: copy the snapshot, sync   *)
(* it, give it its name, sync the directory.  An error ends the commit and  *)
(* is only logged.                                                          *)
Target == PathOf[Head(job.pend).tag]

CommitStarts ==
  /\ job.pc = "commit" /\ job.pend # <<>>
  /\ disk' = Recovered(disk, Target)
  /\ job' = [job EXCEPT !.pc = IF os.windows /\ disk'.cache[Target] # None THEN "stage" ELSE "swap"]
  /\ UNCHANGED <<remote, live, ran, os, last>>

CommitEnds ==
  /\ job.pc = "commit" /\ job.pend = <<>>
  /\ job' = NoJob
  /\ UNCHANGED <<disk, remote, live, ran, os, last>>

CommitFails ==
  /\ job.pc \in {"commit", "stage", "clean", "sync"} /\ job.pend # <<>> /\ Fault
  /\ job' = NoJob
  /\ UNCHANGED <<disk, remote, live, ran, last>>

(* publish_cache on Windows: the old file is kept under a second name.      *)
StagedByRemoval(d, p) == [d EXCEPT !.cache[p] = None]

Staged(d, p) == [d EXCEPT !.backup[p] = d.cache[p], !.cache[p] = None]

Stage ==
  /\ job.pc = "stage"
  /\ disk' = Staged(disk, Target)
  /\ job' = [job EXCEPT !.pc = "swap"]
  /\ UNCHANGED <<remote, live, ran, os, last>>

Swap ==
  /\ job.pc = "swap"
  /\ disk' = [disk EXCEPT !.cache[Target] = Head(job.pend).v, !.fresh = @ \cup {Target},
                !.unsynced[Target] = IF os.windows THEN {} ELSE {disk.cache[Target]}]
  /\ job' = [job EXCEPT !.pc = IF disk.backup[Target] # None THEN "clean" ELSE "sync"]
  /\ UNCHANGED <<remote, live, ran, os, last>>

(* The rename fails; the old file gets its name back unless that fails too. *)
SwapFails ==
  /\ job.pc = "swap" /\ Fault
  /\ disk' \in {Recovered(disk, Target), disk}
  /\ job' = NoJob
  /\ UNCHANGED <<remote, live, ran, last>>

Clean ==
  /\ job.pc = "clean"
  /\ disk' = [disk EXCEPT !.backup[Target] = None]
  /\ job' = [job EXCEPT !.pc = "sync"]
  /\ UNCHANGED <<remote, live, ran, os, last>>

SyncParent ==
  /\ job.pc = "sync"
  /\ disk' = [disk EXCEPT !.unsynced[Target] = {}]
  /\ job' = [job EXCEPT !.pc = "commit", !.pend = Tail(@)]
  /\ UNCHANGED <<remote, live, ran, os, last>>

-----------------------------------------------------------------------------
(* Faults of the machine.  Nothing is live after a restart; the temporary   *)
(* files of interrupted steps are never read.                               *)

Down ==
  /\ Fault
  /\ job' = NoJob /\ live' = [p \in Paths |-> None]
  /\ UNCHANGED <<remote, ran, last>>

ProcessCrash == Down /\ job.pc # "idle" /\ UNCHANGED disk

(* Unsynced snapshots may be torn or gone, an unsynced rename undone.       *)
PowerLoss ==
  /\ Down
  /\ \E torn \in SUBSET disk.dirty, undone \in SUBSET {p \in Paths : disk.unsynced[p] # {}} :
       disk' = [disk EXCEPT
         !.snap = [v \in Versions |-> IF v \in torn THEN "torn" ELSE @[v]],
         !.cache = [p \in Paths |-> IF p \in undone THEN CHOOSE v \in disk.unsynced[p] : TRUE ELSE @[p]],
         !.unsynced = [p \in Paths |-> {}], !.dirty = {}]

WritesBack ==
  /\ disk.dirty # {}
  /\ disk' = [disk EXCEPT !.dirty = {}]
  /\ UNCHANGED <<remote, job, live, ran, os, last>>

JobStep ==
  \/ PrepareRemote \/ PrepareLocal \/ FetchSucceeds \/ PushSnapshot \/ ApplySucceeds
  \/ CommitStarts \/ CommitEnds \/ Stage \/ Swap \/ Clean \/ SyncParent

JobFails ==
  \/ Cancel \/ RecoverFails \/ LocalUnusable \/ FetchFails \/ PushFails \/ ApplyFails
  \/ CommitFails \/ SwapFails

Next ==
  \/ \E p \in Paths : OriginPublishes(p) \/ CacheAges(p)
  \/ Begin \/ JobStep \/ JobFails \/ ProcessCrash \/ PowerLoss \/ WritesBack

Spec == Init /\ [][Next]_vars

-----------------------------------------------------------------------------
Kept(p) == disk.cache[p] # None \/ disk.backup[p] # None

(* publish_cache, recover_interrupted_publication, sync_parent: once a path *)
(* has a durable cache, no crash, failed rename or loss of power takes the  *)
(* last usable copy away, and a copy only ever holds a version that a       *)
(* successful transaction has run (PreparedRuleSets::commit).               *)
LastGoodSurvives ==
  [][\A p \in Paths : /\ Kept(p) /\ disk.unsynced[p] # {None} => Kept(p)'
                      /\ {disk.cache[p], disk.backup[p]}' \subseteq ran'[p] \cup {None}]_vars

(* "A durability failure must not roll back an otherwise healthy live       *)
(* topology": a transaction that had to fall back to the cache leaves the   *)
(* selectors at the version they run.                                       *)
FallBackKeepsLive ==
  [][last'.fellBack /\ last'.ok /\ live' # live =>
       \A p \in Paths : live[p] # None => live'[p] = live[p]]_vars

=============================================================================
