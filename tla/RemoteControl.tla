---------------------------- MODULE RemoteControl ----------------------------
(***************************************************************************)
(* Remote maintenance requests of the panel: streams that come and go, one *)
(* task per request with a bounded number of tasks over all streams, the   *)
(* bounded response queue, and the process-wide reload with its lease, its *)
(* progress reports and its deadline.                                      *)
(*                                                                         *)
(* A response is "p" (progress, a chunk) or "f" (final).  The stages of a  *)
(* reload are 1..Stages; up to Pull the panel is read, after that the      *)
(* topology manager owns a transaction that nothing cancels.               *)
(***************************************************************************)
EXTENDS Integers, Sequences, FiniteSets, SequencesExt

CONSTANTS Reqs, MaxStreams,
          Kinds,       \* of requests: "simple", "config", "sync", "reload"
          Slots,       \* MAX_CONCURRENT_REMOTE_REQUESTS
          QueueSize,   \* REMOTE_RESPONSE_QUEUE_SIZE
          Pull, Stages, Chunks,
          Nobody

VARIABLES str,   \* the streams: state, stream_cancel, queued responses
          ctl,   \* ControllerState and the reload gate
          req,   \* the requests and their tasks
          log    \* what every request has put into the queue of its stream

vars == <<str, ctl, req, log>>

Streams == 1..MaxStreams
NoReq == [kind |-> "none", s |-> 1, pc |-> "none", stage |-> 0, late |-> FALSE, left |-> 0, tries |-> 0]
NoReload == [op |-> Nobody, busy |-> FALSE, stage |-> 0]

Init ==
  /\ str = [s \in Streams |-> [st |-> "none", cancel |-> FALSE, queue |-> <<>>]]
  /\ ctl = [state |-> NoReload, gate |-> Nobody, last |-> Nobody]
  /\ req = [r \in Reqs |-> NoReq]
  /\ log = [r \in Reqs |-> <<>>]

-----------------------------------------------------------------------------
(* The stream: opened by the next session after the previous one is over.   *)

Opens(s) ==
  /\ str[s].st = "none" /\ \A u \in 1..(s - 1) : str[u].st = "gone"
  /\ str' = [str EXCEPT ![s].st = "up"]
  /\ UNCHANGED <<ctl, req, log>>

(* The panel or the session ends it, the transport drops the responses, or  *)
(* the loop sees that a task has cancelled it; a drop guard cancels the     *)
(* requests when the stream task itself is aborted.                         *)
Closed(st) == [st EXCEPT !.st = "gone", !.cancel = TRUE, !.queue = <<>>]

StreamEnds(s) ==
  /\ str[s].st = "up"
  /\ str' = [str EXCEPT ![s] = Closed(@)]
  /\ UNCHANGED <<ctl, req, log>>

SeesCancel(s) ==
  /\ str[s].st = "up" /\ str[s].cancel
  /\ str' = [str EXCEPT ![s] = Closed(@)]
  /\ UNCHANGED <<ctl, req, log>>

PanelReads(s) ==
  /\ str[s].st = "up" /\ str[s].queue # <<>>
  /\ str' = [str EXCEPT ![s].queue = Tail(@)]
  /\ UNCHANGED <<ctl, req, log>>

-----------------------------------------------------------------------------
(* Admission: a permit is held by the task until it ends.                   *)

Running == {r \in Reqs : req[r].pc \notin {"none", "done", "dead"}}

Admits == Cardinality(Running) < Slots

Room(s) == str[s].st = "up" /\ Len(str[s].queue) < QueueSize

Arrives(r, kind, s) ==
  /\ req[r].pc = "none" /\ str[s].st = "up" /\ ~str[s].cancel
  /\ Admits
  /\ req' = [req EXCEPT ![r] = [NoReq EXCEPT !.kind = kind, !.s = s, !.pc = "start"]]
  /\ UNCHANGED <<str, ctl, log>>

(* reject_busy_request never waits: the stream is given up when the queue   *)
(* has no room for the rejection.                                           *)
Rejected(r, kind, s) ==
  /\ req[r].pc = "none" /\ str[s].st = "up" /\ ~str[s].cancel
  /\ ~Admits
  /\ req' = [req EXCEPT ![r] = [NoReq EXCEPT !.kind = kind, !.s = s, !.pc = "done"]]
  /\ IF Room(s)
     THEN /\ str' = [str EXCEPT ![s].queue = Append(@, r)]
          /\ log' = [log EXCEPT ![r] = Append(@, "f")]
     ELSE str' = [str EXCEPT ![s] = Closed(@)] /\ UNCHANGED log
  /\ UNCHANGED ctl

Goto(r, pc) == req' = [req EXCEPT ![r].pc = pc]

(* ResponseSink::send of one response, after which the task goes on at pc.  *)
Sends(r, kind, pc) ==
  /\ Room(req[r].s)
  /\ str' = [str EXCEPT ![req[r].s].queue = Append(@, r)]
  /\ log' = [log EXCEPT ![r] = Append(@, kind)]
  /\ Goto(r, pc)
  /\ UNCHANGED ctl

Unsent(r, pc) ==
  /\ str[req[r].s].cancel \/ str[req[r].s].st = "gone"
  /\ Goto(r, pc)
  /\ UNCHANGED <<str, ctl, log>>

(* The last response of a request.                                          *)
Answers(r) == req[r].pc = "answer" /\ (Sends(r, "f", "done") \/ Unsent(r, "done"))

-----------------------------------------------------------------------------
(* handle_remote_control_request.  STATUS, LOADED_USERS, the periodic pull  *)
(* setting and a request without a command have one response.               *)

StartsSimple(r) ==
  /\ req[r].pc = "start" /\ req[r].kind = "simple"
  /\ Goto(r, "answer")
  /\ UNCHANGED <<str, ctl, log>>

(* handle_current_config: chunks, then the end of file; nothing more once   *)
(* a chunk could not be sent.                                               *)
StartsConfig(r) ==
  /\ req[r].pc = "start" /\ req[r].kind = "config"
  /\ \E n \in 0..Chunks :
       req' = [req EXCEPT ![r].pc = IF n = 0 THEN "answer" ELSE "chunk", ![r].left = n]
  /\ UNCHANGED <<str, ctl, log>>

AfterChunk(n) == IF n = 1 THEN "answer" ELSE "chunk"

SendsChunk(r) ==
  /\ req[r].pc = "chunk"
  /\ Room(req[r].s)
  /\ str' = [str EXCEPT ![req[r].s].queue = Append(@, r)]
  /\ log' = [log EXCEPT ![r] = Append(@, "p")]
  /\ req' = [req EXCEPT ![r].pc = AfterChunk(req[r].left), ![r].left = @ - 1]
  /\ UNCHANGED ctl

DropsChunk(r) == req[r].pc = "chunk" /\ Unsent(r, "done")

(* handle_sync_users: panel reads and local transactions in up to three     *)
(* attempts.  A cancelled stream or the deadline ends a read, never a       *)
(* transaction; the request of a cancelled stream is not answered.          *)
StartsSync(r) ==
  /\ req[r].pc = "start" /\ req[r].kind = "sync"
  /\ Goto(r, "read")
  /\ UNCHANGED <<str, ctl, log>>

SyncDeadline(r) ==
  /\ req[r].pc \in {"read", "local"} /\ ~req[r].late
  /\ req' = [req EXCEPT ![r].late = TRUE]
  /\ UNCHANGED <<str, ctl, log>>

AfterSync(r) ==
  \/ Goto(r, "answer")
  \/ str[req[r].s].cancel /\ Goto(r, "done")

SyncReads(r) ==
  /\ req[r].pc = "read"
  /\ \/ ~req[r].late /\ ~str[req[r].s].cancel /\ Goto(r, "local")
     \/ AfterSync(r)
  /\ UNCHANGED <<str, ctl, log>>

SyncApplies(r) ==
  /\ req[r].pc = "local"
  /\ \/ AfterSync(r)
     \/ /\ req[r].tries < 2
        /\ req' = [req EXCEPT ![r].pc = "read", ![r].tries = @ + 1]
  /\ UNCHANGED <<str, ctl, log>>

-----------------------------------------------------------------------------
(* handle_reload.  begin_reload takes the gate and then records the reload. *)

(* Mutant: the state is asked instead of the gate.                          *)
GateLooksFree == ~ctl.state.busy

GateFree == ctl.gate = Nobody

BeginsReload(r) ==
  /\ req[r].pc = "start" /\ req[r].kind = "reload"
  /\ IF GateFree
     THEN ctl' = [ctl EXCEPT !.gate = r] /\ Goto(r, "leased")
     ELSE Goto(r, "answer") /\ UNCHANGED ctl
  /\ UNCHANGED <<str, log>>

RecordsReload(r) ==
  /\ req[r].pc = "leased"
  /\ ctl' = [ctl EXCEPT !.state = [op |-> r, busy |-> TRUE, stage |-> 1]]
  /\ req' = [req EXCEPT ![r].pc = "stage", ![r].stage = 1]
  /\ UNCHANGED <<str, log>>

(* ReloadProgressReporter::report: set_reload_stage, and a response that is *)
(* waited for at most RELOAD_PROGRESS_SEND_TIMEOUT; a slow panel loses the  *)
(* stream, not the reload.                                                  *)
Reports(r) ==
  /\ req[r].pc = "stage"
  /\ ctl' = [ctl EXCEPT !.state.stage = req[r].stage]
  /\ Goto(r, "report")
  /\ UNCHANGED <<str, log>>

ReportsSent(r) == req[r].pc = "report" /\ (Sends(r, "p", "work") \/ Unsent(r, "work"))

GivesUp(r) == str[req[r].s].st = "up" /\ ~Room(req[r].s)

ReportTimesOut(r) ==
  /\ req[r].pc = "report" /\ GivesUp(r)
  /\ str' = [str EXCEPT ![req[r].s].cancel = TRUE]
  /\ Goto(r, "work")
  /\ UNCHANGED <<ctl, log>>

(* The deadline only ends a panel read.                                     *)
ReloadDeadline(r) ==
  /\ req[r].kind = "reload" /\ req[r].pc \in {"stage", "report", "work"} /\ ~req[r].late
  /\ req' = [req EXCEPT ![r].late = TRUE]
  /\ UNCHANGED <<str, ctl, log>>

(* A stage succeeds, or the reload fails in it with its classified result.  *)
StageEnds(r) ==
  /\ req[r].pc = "work"
  /\ \/ /\ ~(req[r].stage <= Pull /\ req[r].late)
        /\ req' = [req EXCEPT ![r].pc = IF req[r].stage = Stages THEN "finish" ELSE "stage",
                              ![r].stage = IF @ = Stages THEN @ ELSE @ + 1]
     \/ Goto(r, "finish")
  /\ UNCHANGED <<str, ctl, log>>

(* ReloadLease::finish records the result, then lets the gate go.  A task   *)
(* that unwinds clears the state the same way, without a result.            *)
FinishRecords(r) ==
  /\ req[r].pc = "finish"
  /\ ctl' = [ctl EXCEPT !.state = NoReload, !.last = r]
  /\ Goto(r, "release")
  /\ UNCHANGED <<str, log>>

FinishReleases(r) ==
  /\ req[r].pc = "release"
  /\ ctl' = [ctl EXCEPT !.gate = Nobody]
  /\ Goto(r, "answer")
  /\ UNCHANGED <<str, log>>

Unwinds(r) ==
  /\ req[r].kind = "reload" /\ req[r].pc \in {"stage", "report", "work"}
  /\ ctl' = [ctl EXCEPT !.state = NoReload]
  /\ Goto(r, "unwound")
  /\ UNCHANGED <<str, log>>

UnwindReleases(r) ==
  /\ req[r].pc = "unwound"
  /\ ctl' = [ctl EXCEPT !.gate = Nobody]
  /\ Goto(r, "dead")
  /\ UNCHANGED <<str, log>>

ReloadStep(r) ==
  \/ BeginsReload(r) \/ RecordsReload(r) \/ Reports(r) \/ ReportsSent(r) \/ ReportTimesOut(r)
  \/ StageEnds(r) \/ FinishRecords(r) \/ FinishReleases(r) \/ UnwindReleases(r)

TaskStep(r) ==
  \/ StartsSimple(r) \/ StartsConfig(r) \/ SendsChunk(r) \/ DropsChunk(r)
  \/ StartsSync(r) \/ SyncReads(r) \/ SyncApplies(r) \/ ReloadStep(r) \/ Answers(r)

Next ==
  \/ \E s \in Streams : Opens(s) \/ StreamEnds(s) \/ SeesCancel(s) \/ PanelReads(s)
  \/ \E r \in Reqs : \/ \E k \in Kinds, s \in Streams :
                          Arrives(r, k, s) \/ Rejected(r, k, s)
                     \/ TaskStep(r) \/ SyncDeadline(r) \/ ReloadDeadline(r) \/ Unwinds(r)

-----------------------------------------------------------------------------
Holding == {"stage", "report", "work", "finish"}

(* begin_reload, ReloadLease: at most one reload runs, whatever stream it   *)
(* came from, and the state every stream reports is exactly that of the     *)
(* reload that holds the gate; tasks and queues keep their bounds.          *)
StateFollowsLease ==
  /\ \A r, q \in Reqs : req[r].pc \in Holding /\ req[q].pc \in Holding => r = q
  /\ \A r \in Reqs : req[r].pc \in Holding => ctl.state.busy /\ ctl.state.op = r
  /\ ctl.state.busy => ctl.state.op = ctl.gate
  /\ Cardinality(Running) <= Slots /\ \A s \in Streams : Len(str[s].queue) <= QueueSize

(* handle_*: a request has at most one final response and nothing after it, *)
(* and one that ended while its stream was neither cancelled nor lost and   *)
(* did not unwind has got it.                                               *)
OneFinalAnswer ==
  \A r \in Reqs :
    /\ \A i \in 1..Len(log[r]) : log[r][i] = "f" => i = Len(log[r])
    /\ req[r].pc = "done" /\ ~str[req[r].s].cancel => "f" \in ToSet(log[r])

(* report, REMOTE_RELOAD_TIMEOUT: a reload ends and gives up the gate       *)
(* although the panel may never read a response.                            *)
ReloadEnds == []<>(ctl.gate = Nobody)

=============================================================================
