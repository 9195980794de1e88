----------------------------- MODULE PeriodicPull -----------------------------
(***************************************************************************)
(* The periodic user pull: a setting that belongs to the process, one      *)
(* scheduler loop per remote control stream, and the single attempt slot   *)
(* that keeps the loop of a retired stream, which may still complete its   *)
(* local transaction, apart from the loop of its replacement.              *)
(*                                                                         *)
(* Waiting is on a tokio Notify: notify_waiters reaches the loops that are *)
(* registered at that moment and no other.  The time of the next attempt   *)
(* is "none", "due" or "later"; a loop sleeps until the time it has read.  *)
(***************************************************************************)
EXTENDS Integers, FiniteSets

CONSTANTS MaxStreams,
          MaxSettings,  \* how often the panel changes the setting
          MaxAttempts,  \* MAX_USER_REFRESH_ATTEMPTS of sync_node_users
          Nobody

VARIABLES set,   \* the setting, the time of the next attempt, the last error
          att,   \* periodic_attempt: the loop that registered it, its token
          loop,  \* the scheduler loop of every stream
          used   \* bound: settings made

vars == <<set, att, loop, used>>

Streams == 1..MaxStreams
NoAttempt == [owner |-> Nobody, cancel |-> FALSE]
NoLoop == [pc |-> "none", cancel |-> FALSE, registered |-> FALSE, woken |-> FALSE,
           tries |-> 0, failed |-> FALSE, cancelled |-> FALSE]

Init ==
  /\ set = [enabled |-> FALSE, next |-> "none", error |-> FALSE]
  /\ att = NoAttempt
  /\ loop = [s \in Streams |-> NoLoop]
  /\ used = 0

(* notify_waiters.                                                          *)
Notified(l) == [s \in Streams |-> IF l[s].registered THEN [l[s] EXCEPT !.woken = TRUE] ELSE l[s]]

-----------------------------------------------------------------------------
(* The stream spawns its loop once the RPC is open.  Its end, or its abort, *)
(* cancels the loop; an aborted stream does not wait for it, so the next    *)
(* one may open while the loop still runs.                                  *)

StreamOpens(s) ==
  /\ loop[s].pc = "none" /\ \A u \in 1..(s - 1) : loop[u].cancel
  /\ loop' = [loop EXCEPT ![s].pc = "top"]
  /\ UNCHANGED <<set, att, used>>

StreamEnds(s) ==
  /\ loop[s].pc # "none" /\ ~loop[s].cancel
  /\ loop' = [loop EXCEPT ![s].cancel = TRUE]
  /\ UNCHANGED <<set, att, used>>

(* set_periodic: a change cancels the attempt under way; it is made by a    *)
(* request of a live stream.                                                *)
Setting(on) ==
  IF on THEN [enabled |-> TRUE, next |-> "due", error |-> FALSE]
        ELSE [set EXCEPT !.enabled = FALSE, !.next = "none"]

SetPeriodic(on) ==
  /\ used < MaxSettings /\ used' = used + 1
  /\ \E s \in Streams : loop[s].pc # "none" /\ ~loop[s].cancel
  /\ set' = Setting(on)
  /\ att' = IF att.owner = Nobody THEN att ELSE [att EXCEPT !.cancel = TRUE]
  /\ loop' = Notified(loop)

-----------------------------------------------------------------------------
(* run_periodic_user_pull.                                                  *)

LeavesEarly(s) == loop[s].cancel /\ loop' = [loop EXCEPT ![s].pc = "gone", ![s].registered = FALSE]

(* wake.enable() comes before the schedule is read.                         *)
Registers(s) ==
  /\ loop[s].pc = "top"
  /\ \/ LeavesEarly(s)
     \/ /\ ~loop[s].cancel
        /\ loop' = [loop EXCEPT ![s].pc = "look", ![s].registered = TRUE, ![s].woken = FALSE]
  /\ UNCHANGED <<set, att, used>>

(* Mutant: registers only after the schedule has been read.                 *)
RegistersLate(s) ==
  \/ /\ loop[s].pc = "look"
     /\ loop' = [loop EXCEPT ![s].pc = CASE ~set.enabled -> "enable"
                                         [] set.enabled /\ set.next = "later" -> "sleep"
                                         [] OTHER -> "begin",
                             ![s].registered = set.enabled]
     /\ UNCHANGED <<set, att, used>>
  \/ /\ loop[s].pc = "enable"
     /\ loop' = [loop EXCEPT ![s].pc = "wait", ![s].registered = TRUE, ![s].woken = FALSE]
     /\ UNCHANGED <<set, att, used>>

ReadsSchedule(s) ==
  /\ loop[s].pc = "look"
  /\ loop' = [loop EXCEPT ![s].pc = CASE ~set.enabled -> "wait"
                                      [] set.enabled /\ set.next = "later" -> "sleep"
                                      [] OTHER -> "begin"]
  /\ UNCHANGED <<set, att, used>>

Waits(s) ==
  /\ loop[s].pc = "wait"
  /\ \/ LeavesEarly(s)
     \/ loop[s].woken /\ loop' = [loop EXCEPT ![s].pc = "top"]
  /\ UNCHANGED <<set, att, used>>

(* The time that was read has come; in the meantime it may have changed.    *)
SleepEnds(s) ==
  /\ loop[s].pc = "sleep"
  /\ loop' = [loop EXCEPT ![s].pc = "begin"]
  /\ set' = [set EXCEPT !.next = IF @ = "later" THEN "due" ELSE @]
  /\ UNCHANGED <<att, used>>

SleepBroken(s) ==
  /\ loop[s].pc = "sleep"
  /\ \/ LeavesEarly(s)
     \/ loop[s].woken /\ loop' = [loop EXCEPT ![s].pc = "top"]
  /\ UNCHANGED <<set, att, used>>

(* begin_periodic_attempt.                                                  *)
MayBegin == set.enabled /\ att.owner = Nobody

BeginsAttempt(s) ==
  /\ loop[s].pc = "begin"
  /\ IF MayBegin
     THEN /\ att' = [owner |-> s, cancel |-> FALSE]
          /\ set' = [set EXCEPT !.next = "none"]
          /\ loop' = [loop EXCEPT ![s].pc = "read", ![s].tries = 0]
     ELSE /\ loop' = [loop EXCEPT ![s].pc = "wait"]
          /\ UNCHANGED <<set, att>>
  /\ UNCHANGED used

(* sync_node_users: a panel read that the attempt's token ends, then a      *)
(* local transaction that nothing ends, again when the users have changed   *)
(* in between.                                                              *)
Stopped(s) == loop[s].cancel \/ (att.owner = s /\ att.cancel)

Result(s, failed) == loop' = [loop EXCEPT ![s].pc = "result", ![s].failed = failed]

PanelRead(s) ==
  /\ loop[s].pc = "read"
  /\ \/ ~Stopped(s) /\ loop' = [loop EXCEPT ![s].pc = "local"]
     \/ Result(s, TRUE)
  /\ UNCHANGED <<set, att, used>>

MayRetry(s) == loop[s].tries < MaxAttempts - 1

LocalTransaction(s) ==
  /\ loop[s].pc = "local"
  /\ \/ \E failed \in BOOLEAN : Result(s, failed)
     \/ /\ MayRetry(s)
        /\ loop' = [loop EXCEPT ![s].pc = "read", ![s].tries = @ + 1]
  /\ UNCHANGED <<set, att, used>>

SeesCancelled(s) ==
  /\ loop[s].pc = "result"
  /\ loop' = [loop EXCEPT ![s].pc = "finish", ![s].cancelled = Stopped(s)]
  /\ UNCHANGED <<set, att, used>>

(* finish_periodic_attempt.                                                 *)
FinishedNext(e, n) == IF e /\ n = "none" THEN "later" ELSE n

Finished(s, failed, cancelled) ==
  [set EXCEPT !.error = failed /\ set.enabled /\ ~cancelled,
              !.next = FinishedNext(set.enabled, @)]

Finishes(s) ==
  /\ loop[s].pc = "finish"
  /\ set' = Finished(s, loop[s].failed, loop[s].cancelled)
  /\ att' = NoAttempt
  /\ loop' = Notified([loop EXCEPT ![s] = [NoLoop EXCEPT !.pc = "top", !.cancel = loop[s].cancel]])
  /\ UNCHANGED used

(* PeriodicAttempt::drop of a task that unwinds.                            *)
Unwinds(s) ==
  /\ loop[s].pc \in {"read", "local"}
  /\ set' = Finished(s, TRUE, TRUE)
  /\ att' = NoAttempt
  /\ loop' = Notified([loop EXCEPT ![s] = [NoLoop EXCEPT !.pc = "gone", !.cancel = loop[s].cancel]])
  /\ UNCHANGED used

Step(s) ==
  \/ Registers(s) \/ ReadsSchedule(s) \/ Waits(s) \/ SleepEnds(s) \/ SleepBroken(s)
  \/ BeginsAttempt(s) \/ PanelRead(s) \/ LocalTransaction(s) \/ SeesCancelled(s) \/ Finishes(s)

Next ==
  \/ \E s \in Streams : StreamOpens(s) \/ StreamEnds(s) \/ Step(s) \/ Unwinds(s)
  \/ \E on \in BOOLEAN : SetPeriodic(on)

-----------------------------------------------------------------------------
Attempting(s) == loop[s].pc \in {"read", "local", "result", "finish"}

(* begin_periodic_attempt, PeriodicAttempt: over all streams at most one    *)
(* user pull is under way, and the token a new setting cancels is its own;  *)
(* an enabled pull that is not under way has a next time, whoever changed   *)
(* the setting while it ran.                                                *)
OneAttempt ==
  /\ \A s, u \in Streams : Attempting(s) /\ Attempting(u) => s = u
  /\ \A s \in Streams : Attempting(s) <=> att.owner = s
  /\ set.enabled /\ att.owner = Nobody => set.next # "none"

(* A pull that is enabled and has a live stream is attempted again and      *)
(* again: no wake-up between the loops of two streams is lost.              *)
Serving(s) == loop[s].pc \notin {"none", "gone"} /\ ~loop[s].cancel
KeepsPulling ==
  <>[](set.enabled /\ \E s \in Streams : Serving(s)) => []<>(att.owner # Nobody)

=============================================================================
