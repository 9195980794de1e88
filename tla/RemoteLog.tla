------------------------------ MODULE RemoteLog ------------------------------
(***************************************************************************)
(* The live log: publishers on any thread, the broker that numbers lines   *)
(* and keeps one bounded queue per subscription, and the log stream that   *)
(* drains a queue only when the transport asks for the next message.       *)
(*                                                                         *)
(* A line is its sequence number and its length.                           *)
(***************************************************************************)
EXTENDS Integers, Sequences, FiniteSets, SequencesExt, FiniteSetsExt, Functions

CONSTANTS Publishers, MaxSeq, MaxSubs,
          Names,       \* subscription ids of the panel
          Lens,        \* lengths of lines before truncation
          LineMax,     \* REMOTE_LINE_MAX_BYTES
          QueueLines, QueueBytes,   \* REMOTE_QUEUE_MAX_*
          BatchLines, BatchBytes,   \* LOG_BATCH_MAX_*
          None

VARIABLES seq,    \* RemoteBroker::sequence
          pub,    \* publishers between the two passes of publish_lazy
          sub,    \* the subscriptions, numbered by the broker
          strm,   \* run_log_stream: subscription, its panel id, timer, place
          out     \* per subscription, the batches handed to the transport

vars == <<seq, pub, sub, strm, out>>

Subs == 1..MaxSubs
Unborn == [st |-> "none", queue |-> <<>>, bytes |-> 0, dropped |-> 0, permit |-> FALSE, start |-> 0]
Idle == [cur |-> None, name |-> None, flush |-> FALSE, pc |-> "loop", more |-> FALSE]

Init ==
  /\ seq = 0
  /\ pub = [p \in Publishers |-> "idle"]
  /\ sub = [s \in Subs |-> Unborn]
  /\ strm = Idle
  /\ out = [s \in Subs |-> <<>>]

Open == {s \in Subs : sub[s].st = "open"}

-----------------------------------------------------------------------------
(* publish_lazy: a first pass that only numbers the line when nobody        *)
(* listens, and a second one, under the broker lock again, that numbers it  *)
(* and delivers it to whoever listens by then.                              *)

PublishLooks(p) ==
  /\ pub[p] = "idle" /\ seq < MaxSeq
  /\ IF Open = {}
     THEN seq' = seq + 1 /\ UNCHANGED pub
     ELSE pub' = [pub EXCEPT ![p] = "deliver"] /\ UNCHANGED seq
  /\ UNCHANGED <<sub, strm, out>>

(* truncate_utf8.                                                           *)
Truncated(len) == IF len > LineMax THEN LineMax ELSE len

Bytes(q) == SumFunction([i \in 1..Len(q) |-> q[i].len])

(* SubscriptionInner::enqueue drops from the front until the queue fits.    *)
FitsAt(q, i) == Len(q) - i <= QueueLines /\ Bytes(SubSeq(q, i + 1, Len(q))) <= QueueBytes

Evicted(q) == Min({i \in 0..Len(q) : FitsAt(q, i)})

CountedOnce(n) == IF n > 0 THEN 1 ELSE 0

CountedDrops(n) == n

Enqueued(s, line) ==
  LET q == Append(s.queue, line)
      n == Evicted(q)
  IN  [s EXCEPT !.queue = SubSeq(q, n + 1, Len(q)),
                !.bytes = @ + line.len - Bytes(SubSeq(q, 1, n)),
                !.dropped = @ + CountedDrops(n),
                !.permit = TRUE]

PublishDelivers(p, len) ==
  /\ pub[p] = "deliver" /\ seq < MaxSeq
  /\ seq' = seq + 1
  /\ sub' = [s \in Subs |-> IF s \in Open
                            THEN Enqueued(sub[s], [seq |-> seq', len |-> Truncated(len)])
                            ELSE sub[s]]
  /\ pub' = [pub EXCEPT ![p] = "idle"]
  /\ UNCHANGED <<strm, out>>

-----------------------------------------------------------------------------
(* Commands of the panel, read between two flushes.                         *)

ClosedSub(s) == [s EXCEPT !.st = "closed", !.queue = <<>>, !.bytes = 0, !.permit = TRUE]

WithoutCurrent == IF strm.cur = None THEN sub ELSE [sub EXCEPT ![strm.cur] = ClosedSub(@)]

LogStart(name) ==
  /\ strm.pc = "loop"
  /\ \E s \in Subs :
       /\ sub[s].st = "none" /\ \A t \in 1..(s - 1) : sub[t].st # "none"
       /\ sub' = [WithoutCurrent EXCEPT ![s] = [Unborn EXCEPT !.st = "open", !.start = seq]]
       /\ strm' = [Idle EXCEPT !.cur = s, !.name = name]
  /\ UNCHANGED <<seq, pub, out>>

(* STOP of another subscription id is ignored.                              *)
LogStop(name) ==
  /\ strm.pc = "loop" /\ strm.cur # None /\ strm.name = name
  /\ sub' = WithoutCurrent
  /\ strm' = Idle
  /\ UNCHANGED <<seq, pub, out>>

-----------------------------------------------------------------------------
(* The flush: a notification arms the timer, the timer queues permission to *)
(* drain, and the loop waits until the transport has used it.               *)

Arms(s) == TRUE

StreamNotified ==
  /\ strm.pc = "loop" /\ strm.cur # None /\ sub[strm.cur].permit
  /\ sub' = [sub EXCEPT ![strm.cur].permit = FALSE]
  /\ strm' = [strm EXCEPT !.flush = @ \/ Arms(sub[strm.cur])]
  /\ UNCHANGED <<seq, pub, out>>

FlushDue ==
  /\ strm.pc = "loop" /\ strm.flush
  /\ strm' = [strm EXCEPT !.flush = FALSE, !.pc = "await"]
  /\ UNCHANGED <<seq, pub, sub, out>>

(* RemoteSubscription::drain: as many lines as the batch holds, at least    *)
(* one.                                                                     *)
BatchSize(q) ==
  LET n == Min({BatchLines, Len(q)})
      fits == {i \in 1..n : i = 1 \/ Bytes(SubSeq(q, 1, i)) <= BatchBytes}
  IN  IF fits = {} THEN 0 ELSE Max(fits)

Drained(s) ==
  LET n == BatchSize(s.queue)
  IN  [s EXCEPT !.queue = SubSeq(@, n + 1, Len(@)),
                !.bytes = @ - Bytes(SubSeq(s.queue, 1, n)),
                !.dropped = IF n = 0 THEN @ ELSE 0,
                !.permit = @ \/ n < Len(s.queue)]

Batch(s) ==
  LET n == BatchSize(s.queue)
  IN  IF n = 0 THEN <<>>
      ELSE <<[first |-> s.queue[1].seq, last |-> s.queue[n].seq, dropped |-> s.dropped]>>

(* deferred_batch_stream, polled by the transport.                          *)
TransportPolls ==
  /\ strm.pc = "await"
  /\ sub' = [sub EXCEPT ![strm.cur] = Drained(@)]
  /\ out' = [out EXCEPT ![strm.cur] = @ \o Batch(sub[strm.cur])]
  /\ strm' = [strm EXCEPT !.pc = "flushed", !.more = sub'[strm.cur].queue # <<>>]
  /\ UNCHANGED <<seq, pub>>

FlushCompletes ==
  /\ strm.pc = "flushed"
  /\ strm' = [strm EXCEPT !.pc = "loop", !.flush = strm.more \/ sub[strm.cur].queue # <<>>]
  /\ UNCHANGED <<seq, pub, sub, out>>

(* Cancelled, closed by the panel or broken: the subscription is closed,    *)
(* and the next session starts with none.                                   *)
StreamEnds ==
  /\ strm.cur # None
  /\ sub' = WithoutCurrent
  /\ strm' = Idle
  /\ UNCHANGED <<seq, pub, out>>

Loop == StreamNotified \/ FlushDue \/ TransportPolls \/ FlushCompletes

Next ==
  \/ \E p \in Publishers : PublishLooks(p) \/ (\E len \in Lens : PublishDelivers(p, len))
  \/ \E name \in Names : LogStart(name) \/ LogStop(name)
  \/ Loop \/ StreamEnds

-----------------------------------------------------------------------------
LastOut(s) == IF out[s] = <<>> THEN sub[s].start ELSE Last(out[s]).last

(* run_log_stream: at most the subscription of the stream is open, so that  *)
(* no queue fills up that nobody drains.                                    *)
OnlyTheStreams == Open = IF strm.cur = None THEN {} ELSE {strm.cur}

(* publish_lazy, enqueue, drain: of the lines numbered since a subscription *)
(* began, every one is in a batch, counted as dropped by the batch that     *)
(* follows the gap, or still queued behind the drops not yet reported; no   *)
(* line comes twice or out of order.  The queues keep their limits.         *)
EveryLineAccounted ==
  /\ OnlyTheStreams
  /\ \A s \in Subs :
       /\ sub[s].bytes = Bytes(sub[s].queue) /\ sub[s].bytes <= QueueBytes
       /\ Len(sub[s].queue) <= QueueLines
       /\ \A i \in 1..Len(out[s]) :
            out[s][i].first = (IF i = 1 THEN sub[s].start ELSE out[s][i - 1].last)
                              + out[s][i].dropped + 1
       /\ \A i \in 1..Len(sub[s].queue) :
            sub[s].queue[i].seq = LastOut(s) + sub[s].dropped + i
       /\ sub[s].st = "open" => LastOut(s) + sub[s].dropped + Len(sub[s].queue) = seq

=============================================================================
