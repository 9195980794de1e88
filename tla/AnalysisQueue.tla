---------------------------- MODULE AnalysisQueue ----------------------------
(***************************************************************************)
(* Delivery of sealed analysis batches: the bounded queue, the age and     *)
(* jitter of a batch, the stream that sends batches of its own epoch at a  *)
(* limited rate without ever repeating one, and the accounting of every    *)
(* batch as sent or dropped.                                               *)
(***************************************************************************)
EXTENDS Integers, Sequences, FiniteSets, FiniteSetsExt, SequencesExt

CONSTANTS Costs,       \* costs a batch may have
          QueueMax,    \* queue_max_bytes
          Memory,      \* what the collector's budget leaves for batches
          Burst,       \* send_burst_bytes
          MaxBatches, MaxEpoch

VARIABLES ses,    \* epoch and active epoch of the collector
          made,   \* the batches ever made: epoch, cost, ready, expired
          queue,  \* the queue, and queue_bytes
          mem,    \* memory reserved for batches
          str,    \* run_analysis_stream: one attempt at a time
          tokens, \* the SendLimiter of the session
          counted \* how often a batch was counted as sent, dropped, transported

vars == <<ses, made, queue, mem, str, tokens, counted>>

Ids == 1..Len(made)
NoStream == [pc |-> "off", epoch |-> 0, batch |-> 0, cancel |-> FALSE]

Init ==
  /\ ses = [epoch |-> 0, active |-> 0]
  /\ made = <<>> /\ queue = [ids |-> <<>>, bytes |-> 0] /\ mem = 0
  /\ str = NoStream
  /\ tokens = Burst
  /\ counted = [i \in 1..MaxBatches |-> [sent |-> 0, dropped |-> 0, wire |-> 0]]

-----------------------------------------------------------------------------
(* complete and drop_batch share the completed flag of the batch: only the  *)
(* first of them counts.                                                    *)
Completed(c, i) == c[i].sent + c[i].dropped > 0

CountSent(c, i) == IF Completed(c, i) THEN c ELSE [c EXCEPT ![i].sent = @ + 1]
CountDropped(c, S) ==
  [i \in DOMAIN c |-> IF i \in S /\ ~Completed(c, i) THEN [c[i] EXCEPT !.dropped = @ + 1] ELSE c[i]]

CostOf(S) == MapThenSumSet(LAMBDA i : made[i].cost, S)

HasRoom(cost) == queue.bytes + cost <= QueueMax /\ mem + cost <= Memory

Enqueue(cost) ==
  LET i == Len(made) + 1 IN
  /\ i <= MaxBatches /\ ses.active # 0
  /\ made' = Append(made, [epoch |-> ses.epoch, cost |-> cost, ready |-> FALSE, expired |-> FALSE])
  /\ IF HasRoom(cost)
     THEN /\ queue' = [ids |-> Append(queue.ids, i), bytes |-> queue.bytes + cost]
          /\ mem' = mem + cost /\ UNCHANGED counted
     ELSE counted' = CountDropped(counted, {i}) /\ UNCHANGED <<queue, mem>>
  /\ UNCHANGED <<ses, str, tokens>>

(* Time passes for a batch that is still queued or being sent.              *)
Live == ToSet(queue.ids) \cup {str.batch}

Ripens(i) ==
  /\ i \in Live /\ ~made[i].ready
  /\ made' = [made EXCEPT ![i].ready = TRUE]
  /\ UNCHANGED <<ses, queue, mem, str, tokens, counted>>

Expires(i) ==
  /\ i \in Live /\ ~made[i].expired
  /\ made' = [made EXCEPT ![i].ready = TRUE, ![i].expired = TRUE]
  /\ UNCHANGED <<ses, queue, mem, str, tokens, counted>>

(* begin_session and pause discard the queue; a batch a stream has taken is *)
(* not in it any more.                                                      *)
DiscardedQuietly ==
  /\ queue' = [ids |-> <<>>, bytes |-> 0]
  /\ mem' = mem - CostOf(ToSet(queue.ids))
  /\ UNCHANGED counted

Discarded ==
  /\ queue' = [ids |-> <<>>, bytes |-> 0]
  /\ counted' = CountDropped(counted, ToSet(queue.ids))
  /\ mem' = mem - CostOf(ToSet(queue.ids))

(* A new session: its limiter starts with a full burst.                     *)
SessionBegins ==
  /\ ses.active = 0 /\ ses.epoch < MaxEpoch /\ str.pc = "off"
  /\ ses' = [epoch |-> ses.epoch + 1, active |-> ses.epoch + 1]
  /\ Discarded
  /\ tokens' = Burst
  /\ UNCHANGED <<made, str>>

(* The session ends: its group cancels the stream.                          *)
SessionPauses ==
  /\ ses.active # 0
  /\ ses' = [ses EXCEPT !.active = 0]
  /\ Discarded
  /\ str' = [str EXCEPT !.cancel = (str.pc # "off")]
  /\ UNCHANGED <<made, tokens>>

-----------------------------------------------------------------------------
(* run_analysis_stream *)

StreamStarts ==
  /\ str.pc = "off" /\ ses.active # 0
  /\ str' = [NoStream EXCEPT !.pc = "next", !.epoch = ses.active]
  /\ UNCHANGED <<ses, made, queue, mem, tokens, counted>>

Head1 == made[Head(queue.ids)]
Popped == [ids |-> Tail(queue.ids), bytes |-> queue.bytes - Head1.cost]

(* Collector::next drops what has expired and hands out what is ready.      *)
NextDropsExpired ==
  /\ str.pc = "next" /\ ses.active = str.epoch /\ queue.ids # <<>> /\ Head1.expired
  /\ queue' = Popped /\ mem' = mem - Head1.cost
  /\ counted' = CountDropped(counted, {Head(queue.ids)})
  /\ UNCHANGED <<ses, made, str, tokens>>

Poppable == ses.active = str.epoch /\ queue.ids # <<>>

NextPops ==
  /\ str.pc = "next" /\ Poppable /\ Head1.ready /\ ~Head1.expired
  /\ queue' = Popped
  /\ str' = [str EXCEPT !.pc = "acquire", !.batch = Head(queue.ids)]
  /\ UNCHANGED <<ses, made, mem, tokens, counted>>

NextEnds ==
  /\ str.pc = "next" /\ (ses.active # str.epoch \/ str.cancel)
  /\ str' = NoStream
  /\ UNCHANGED <<ses, made, queue, mem, tokens, counted>>

(* The panel closes the RPC while the stream waits for a batch.             *)
RpcEnds ==
  /\ str.pc = "next"
  /\ str' = NoStream
  /\ UNCHANGED <<ses, made, queue, mem, tokens, counted>>

(* SendLimiter::acquire: refused when it never fits, when it has expired,   *)
(* or when it would expire before the limiter has refilled.                 *)
Refill ==
  /\ tokens < Burst /\ tokens' = tokens + 1
  /\ UNCHANGED <<ses, made, queue, mem, str, counted>>

Acquires ==
  /\ str.pc = "acquire" /\ ~made[str.batch].expired /\ tokens >= made[str.batch].cost
  /\ tokens' = tokens - made[str.batch].cost
  /\ str' = [str EXCEPT !.pc = "send"]
  /\ UNCHANGED <<ses, made, queue, mem, counted>>

(* The batch is released with its last reference, which the stream holds.   *)
Finish(c, pc) ==
  /\ counted' = c
  /\ mem' = mem - made[str.batch].cost
  /\ str' = IF pc = "off" THEN NoStream ELSE [str EXCEPT !.pc = pc, !.batch = 0]

AcquireRefused ==
  /\ str.pc = "acquire"
  /\ made[str.batch].expired \/ made[str.batch].cost > tokens
  /\ Finish(CountDropped(counted, {str.batch}), "next")
  /\ UNCHANGED <<ses, made, queue, tokens>>

(* The transport takes the batch; the receipt comes back to the sender.     *)
TransportTakes ==
  /\ str.pc = "send"
  /\ counted' = [counted EXCEPT ![str.batch].wire = @ + 1]
  /\ str' = [str EXCEPT !.pc = "taken"]
  /\ UNCHANGED <<ses, made, queue, mem, tokens>>

SendSucceeds ==
  /\ str.pc = "taken"
  /\ Finish(CountSent(counted, str.batch), "next")
  /\ UNCHANGED <<ses, made, queue, tokens>>

(* The RPC ends or the send times out: the batch is given up, the attempt   *)
(* with it, and the stream is started again by its group.                   *)
GiveUp(c, i) == CountDropped(c, {i})

SendFails ==
  /\ str.pc \in {"acquire", "send", "taken"}
  /\ Finish(GiveUp(counted, str.batch), "off")
  /\ UNCHANGED <<ses, made, queue, tokens>>

(* The session is cancelled or the task aborted: PendingBatch is dropped.   *)
Cancelled ==
  /\ str.pc \in {"acquire", "send", "taken"} /\ str.cancel
  /\ Finish(GiveUp(counted, str.batch), "off")
  /\ UNCHANGED <<ses, made, queue, tokens>>

StreamStep ==
  \/ NextDropsExpired \/ NextPops \/ NextEnds \/ Acquires \/ AcquireRefused
  \/ TransportTakes \/ SendSucceeds \/ SendFails \/ Cancelled

Next ==
  \/ \E c \in Costs : Enqueue(c)
  \/ \E i \in Ids : Ripens(i) \/ Expires(i)
  \/ SessionBegins \/ SessionPauses \/ Refill
  \/ StreamStarts \/ StreamStep \/ RpcEnds

-----------------------------------------------------------------------------
(* enqueue, next, discard_buffered and the drop of a batch: queue_bytes and *)
(* the reserved memory are exactly the costs of what is queued and of what  *)
(* a stream holds, and keep their limits.                                   *)
BytesAreExact ==
  /\ queue.bytes = CostOf(ToSet(queue.ids)) /\ queue.bytes <= QueueMax
  /\ mem = CostOf(Live \ {0}) /\ mem <= Memory

(* QueuedBatch::completed, PendingBatch, run_analysis_stream: a batch is    *)
(* counted exactly once, as sent or as dropped, as soon as neither the      *)
(* queue nor a stream has it; one counted as sent was taken by the          *)
(* transport, no batch is transported twice, and a stream only holds        *)
(* batches of its own epoch.                                                *)
CountedOnce ==
  /\ BytesAreExact
  /\ \A i \in Ids :
       /\ counted[i].sent + counted[i].dropped = IF i \in Live THEN 0 ELSE 1
       /\ counted[i].sent <= counted[i].wire /\ counted[i].wire <= 1
  /\ str.batch # 0 => made[str.batch].epoch = str.epoch

=============================================================================
