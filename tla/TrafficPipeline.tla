--------------------------- MODULE TrafficPipeline ---------------------------
(***************************************************************************)
(* The way of a byte count from the engine's counters to the panel:        *)
(* runtime counters and retired receipts, the per-hour aggregator, the     *)
(* bounded report queue, the in-flight slot that survives reconnects, one  *)
(* client-streaming RPC per session, and the final flush of an ordered     *)
(* shutdown.                                                               *)
(*                                                                         *)
(* Uplink and downlink are one number.  Users stands for the accounting    *)
(* identities (inbound tag, node, protocol, user) and is a set of numbers, *)
(* because reports are sorted by identity too.  Time is a bounded clock    *)
(* whose minutes and hours have MinuteLen and HourLen ticks.               *)
(***************************************************************************)
EXTENDS Naturals, Sequences, FiniteSets, SequencesExt, FiniteSetsExt

CONSTANTS
    Users,          \* accounting identities, a finite set of numbers
    MinuteLen,      \* OBSERVATION_BUCKET_SECONDS in ticks
    HourLen,        \* AGGREGATION_BUCKET_SECONDS in ticks, a multiple of MinuteLen
    MinDelta,       \* min_report_delta_bytes
    MaxDelay,       \* max_report_delay_seconds in ticks
    QueueCapacity,  \* TRAFFIC_QUEUE_SIZE
    MaxKeys,        \* bound of PendingTraffic
    MaxClock,       \* bound: the clock stops here
    MaxBytes,       \* bound: bytes the data plane carries
    MaxStreams,     \* bound: RPC generations
    MayStop         \* whether the agent may be asked to stop

VARIABLES
    now,        \* the clock
    live,       \* engine counters: user -> bytes since they were last taken
    liveAt,     \* user -> last_traffic_observed_at
    pending,    \* PendingTraffic.entries: user, hour -> [bytes, at]
    counters,   \* Aggregator.counters: user, hour -> [bytes, first, last]
    hand,       \* reports taken from the aggregator and not yet queued
    flusher,    \* the periodic flusher task
    queue,      \* the report channel
    inFlight,   \* TrafficConsumerState.in_flight
    stream,     \* the active run_traffic_stream, if any
    final,      \* flush_traffic_before_shutdown and what surrounds it
    drainReq,   \* the drain request channel
    ledger      \* history: what was observed and where handed bytes ended up

vars == <<now, live, liveAt, pending, counters, hand, flusher, queue,
          inFlight, stream, final, drainReq, ledger>>

Hours == 0 .. (MaxClock \div HourLen)
Keys == Users \X Hours
HourOf(t) == t \div HourLen
\* observation_bucket_start
MinuteStart(t) == (t \div MinuteLen) * MinuteLen

NoReport == [user |-> 0, bytes |-> 0, observed |-> 0]
NoReceipt == [bytes |-> 0, at |-> 0]
NoCounter == [bytes |-> 0, first |-> 0, last |-> 0]

Lesser(a, b) == IF a < b THEN a ELSE b
Greater(a, b) == IF a > b THEN a ELSE b

(***************************************************************************)
(* Counters.                                                               *)
(***************************************************************************)
\* merge_traffic_entry: receipts of one identity and hour add up.
MergeEntry(entries, u, bytes, at) ==
    IF bytes = 0 THEN entries
    ELSE [entries EXCEPT ![u, HourOf(at)] =
              [bytes |-> @.bytes + bytes, at |-> Greater(@.at, at)]]

\* add_locked: a counter keeps its first and its last observation.
AddLocked(cs, key, bytes, first, last) ==
    [cs EXCEPT ![key] =
        IF @.bytes = 0 THEN [bytes |-> bytes, first |-> first, last |-> last]
        ELSE [bytes |-> @.bytes + bytes,
              first |-> Lesser(@.first, first),
              last  |-> Greater(@.last, last)]]

\* Aggregator::observe, for every drain of a sweep.
Observe(cs, drained) ==
    [k \in Keys |->
        IF drained[k].bytes = 0 THEN cs[k]
        ELSE AddLocked(cs, k, drained[k].bytes, drained[k].at, drained[k].at)[k]]

\* Mutant: age is not looked at.
ShouldReportNoAge(c) == MinDelta = 0 \/ c.bytes >= MinDelta
\* should_report: enough bytes, or old enough.
ShouldReport(c) ==
    \/ MinDelta = 0
    \/ c.bytes >= MinDelta
    \/ MaxDelay > 0 /\ now >= c.first + MaxDelay

\* A report of the aggregator; its wire form drops "first".
ReportOf(k, c) ==
    [user |-> k[1], bytes |-> c.bytes, observed |-> MinuteStart(c.last), first |-> c.first]

Older(a, b) ==
    \/ a.first < b.first
    \/ a.first = b.first /\ a.observed < b.observed
    \/ a.first = b.first /\ a.observed = b.observed /\ a.user < b.user

\* flush_inner: the extracted counters, and the reports oldest first.
Extracted(cs, force) ==
    {k \in Keys : cs[k].bytes > 0 /\ (force \/ ShouldReport(cs[k]))}
Reports(cs, force) ==
    SetToSortSeq({ReportOf(k, cs[k]) : k \in Extracted(cs, force)}, Older)
Without(cs, force) ==
    [k \in Keys |-> IF k \in Extracted(cs, force) THEN NoCounter ELSE cs[k]]

\* restore: additive, so that observations made meanwhile survive.
Restore(cs, reports) ==
    FoldLeft(LAMBDA acc, r :
                AddLocked(acc, <<r.user, HourOf(r.observed)>>, r.bytes, r.first, r.observed),
             cs, reports)

\* report_to_proto
ToWire(r) == [user |-> r.user, bytes |-> r.bytes, observed |-> r.observed]

(***************************************************************************)
(* History.  observed counts the bytes that left the engine by user and    *)
(* hour; unacked those handed to the open RPC, which become acked when the *)
(* panel answers Ok and doubtful when the RPC fails.  twice is set when a  *)
(* report may be handed again; oldest is the first observation of the      *)
(* bytes of a key that no queue has taken yet.                             *)
(***************************************************************************)
ZeroPerKey == [k \in Keys |-> 0]
InitLedger ==
    [observed |-> ZeroPerKey, unacked |-> ZeroPerKey, acked |-> ZeroPerKey,
     doubtful |-> ZeroPerKey, oldest |-> ZeroPerKey, twice |-> FALSE,
     produced |-> [u \in Users |-> 0]]

SumOf(f) == FoldFunctionOnSet(LAMBDA a, b : a + b, 0, f, DOMAIN f)
Plus(f, g) == [k \in Keys |-> f[k] + g[k]]
WireKey(r) == <<r.user, HourOf(r.observed)>>
BytesIn(s, k) == FoldLeft(LAMBDA n, r : IF WireKey(r) = k THEN n + r.bytes ELSE n, 0, s)

(***************************************************************************)
(* The data plane and the runtime.                                         *)
(***************************************************************************)
Tick ==
    /\ now < MaxClock
    /\ now' = now + 1
    /\ UNCHANGED <<live, liveAt, pending, counters, hand, flusher, queue,
                   inFlight, stream, final, drainReq, ledger>>

\* A connection of user u moves a byte (external: shoes counts it).
Carry(u) ==
    /\ final.carries
    /\ SumOf(ledger.produced) < MaxBytes
    /\ now + MaxDelay <= MaxClock
    /\ live' = [live EXCEPT ![u] = @ + 1]
    /\ liveAt' = [liveAt EXCEPT ![u] = now]
    /\ ledger' = [ledger EXCEPT !.produced[u] = @ + 1]
    /\ UNCHANGED <<now, pending, counters, hand, flusher, queue, inFlight,
                   stream, final, drainReq>>

PendingUsers == {u \in Users : \E h \in Hours : pending[u, h].bytes > 0}

\* PendingTraffic::reserve: a known identity, or room for one more.
CanReserve(u) == u \in PendingUsers \/ Cardinality(PendingUsers) < MaxKeys

\* PendingTrafficReservation::commit of the counters a removal returned.
CommitReceipt(es, u) == MergeEntry(es, u, live[u], liveAt[u])

NoteObserved(u) ==
    IF live[u] = 0 THEN ledger
    ELSE [ledger EXCEPT !.observed[u, HourOf(liveAt[u])] = @ + live[u]]

\* The runtime removes user u: a reserved receipt takes the counters over.
Retire(u) ==
    /\ final.carries /\ CanReserve(u)
    /\ live[u] > 0
    /\ pending' = CommitReceipt(pending, u)
    /\ live' = [live EXCEPT ![u] = 0]
    /\ ledger' = NoteObserved(u)
    /\ UNCHANGED <<now, liveAt, counters, hand, flusher, queue, inFlight,
                   stream, final, drainReq>>

\* drain_traffic_owned: the retired receipts and one sweep of the counters
\* of us, the users of the published configuration.
Drained(us) ==
    FoldSet(LAMBDA u, acc : MergeEntry(acc, u, live[u], liveAt[u]), pending, us)

NoteSwept(us) ==
    [ledger EXCEPT
        !.observed = [k \in Keys |-> @[k] +
            IF k[1] \in us /\ live[k[1]] > 0 /\ HourOf(liveAt[k[1]]) = k[2]
            THEN live[k[1]] ELSE 0],
        !.oldest = [k \in Keys |->
            IF Drained(us)[k].bytes = 0 THEN @[k]
            ELSE IF counters[k].bytes = 0 THEN Drained(us)[k].at
            ELSE Lesser(@[k], Drained(us)[k].at)]]

(***************************************************************************)
(* The periodic flusher.  The sweep has no await once it owns the apply    *)
(* lock, so a task that is aborted has taken nothing.                      *)
(***************************************************************************)
FlusherTick ==
    /\ flusher = "idle" /\ final.pc = "running"
    /\ flusher' = "locking"
    /\ UNCHANGED <<now, live, liveAt, pending, counters, hand, queue, inFlight,
                   stream, final, drainReq, ledger>>

\* collect_runtime_traffic, then aggregator.flush().
Collect(us, force) ==
    LET cs == Observe(counters, Drained(us)) IN
    /\ pending' = [k \in Keys |-> NoReceipt]
    /\ live' = [u \in Users |-> IF u \in us THEN 0 ELSE live[u]]
    /\ counters' = Without(cs, force)
    /\ hand' = Reports(cs, force)
    /\ ledger' = NoteSwept(us)
    /\ UNCHANGED liveAt

FlusherCollect ==
    /\ flusher = "locking"
    /\ Collect(Users, FALSE)
    /\ flusher' = "queueing"
    /\ UNCHANGED <<now, queue, inFlight, stream, final, drainReq>>

EnqueueHead ==
    /\ queue' = Append(queue, ToWire(Head(hand)))
    /\ hand' = Tail(hand)

PutBack ==
    /\ counters' = Restore(counters, hand)
    /\ hand' = <<>>

\* enqueue_inner without waiting: a full queue or a stop puts the rest back.
FlusherQueues ==
    /\ flusher = "queueing"
    /\ \/ /\ hand # <<>>
          /\ final.pc = "running" /\ Len(queue) < QueueCapacity
          /\ EnqueueHead
          /\ UNCHANGED <<counters, flusher>>
       \/ /\ hand # <<>>
          /\ final.pc # "running" \/ Len(queue) >= QueueCapacity
          /\ PutBack
          /\ flusher' = "idle"
          /\ UNCHANGED queue
       \/ /\ hand = <<>>
          /\ flusher' = "idle"
          /\ UNCHANGED <<queue, hand, counters>>
    /\ UNCHANGED <<now, live, liveAt, pending, inFlight, stream, final, drainReq, ledger>>

\* The cancelled flusher ends, or is aborted while it waits for the lock.
FlusherStops ==
    /\ final.pc = "stopping"
    /\ flusher \in {"idle", "locking"}
    /\ flusher' = "ended"
    /\ UNCHANGED <<now, live, liveAt, pending, counters, hand, queue, inFlight,
                   stream, final, drainReq, ledger>>

(***************************************************************************)
(* One run_traffic_stream: the consumer and the RPC it feeds.              *)
(***************************************************************************)
NoStream == [pc |-> "none", rpc |-> "closed", slot |-> NoReport, got |-> NoReport,
             consumed |-> "none", cancelled |-> FALSE, count |-> 0]

StreamOpens ==
    /\ stream.pc = "none" /\ stream.count < MaxStreams
    /\ final.pc # "ended"
    /\ stream' = [NoStream EXCEPT !.pc = "loop", !.rpc = "open", !.count = stream.count + 1]
    /\ UNCHANGED <<now, live, liveAt, pending, counters, hand, flusher, queue,
                   inFlight, final, drainReq, ledger>>

\* The session of this stream is torn down.
SessionCancels ==
    /\ stream.pc # "none" /\ ~stream.cancelled
    /\ stream.count < MaxStreams \/ final.pc = "ended"
    /\ stream' = [stream EXCEPT !.cancelled = TRUE]
    /\ UNCHANGED <<now, live, liveAt, pending, counters, hand, flusher, queue,
                   inFlight, final, drainReq, ledger>>

SettleUnacked(as) ==
    [ledger EXCEPT ![as] = Plus(@, ledger.unacked), !.unacked = ZeroPerKey]

\* The panel ends the RPC early, or the transport fails: an item nobody
\* polled is dropped with its receipt.
RpcEnds ==
    /\ stream.rpc = "open" /\ stream.pc \notin {"none", "drain"}
    /\ stream.count < MaxStreams
    /\ \E r \in {"ok", "err"} :
          /\ stream' = [stream EXCEPT !.rpc = r, !.slot = NoReport,
                            !.consumed = IF @ = "waiting" THEN "dropped" ELSE @]
          /\ ledger' = SettleUnacked(IF r = "ok" THEN "acked" ELSE "doubtful")
    /\ UNCHANGED <<now, live, liveAt, pending, counters, hand, flusher, queue,
                   inFlight, final, drainReq>>

\* run_traffic_stream cancels its consumer when the response is first.
Stopping == stream.cancelled \/ stream.rpc # "open"

\* consume_reports with an empty slot: cancellation, then a drain request,
\* then the next report.  Receiving frees queue capacity before the slot is
\* filled.
ConsumerReceives ==
    /\ stream.pc = "loop" /\ inFlight = NoReport
    /\ \/ /\ Stopping
          /\ stream' = [stream EXCEPT !.pc = "stopped"]
          /\ UNCHANGED <<queue, drainReq>>
       \/ /\ ~stream.cancelled /\ drainReq = "asked"
          /\ stream' = [stream EXCEPT !.pc = "drain"]
          /\ drainReq' = "taken"
          /\ UNCHANGED queue
       \/ /\ ~stream.cancelled /\ drainReq # "asked" /\ queue # <<>>
          /\ stream' = [stream EXCEPT !.pc = "got", !.got = Head(queue)]
          /\ queue' = Tail(queue)
          /\ UNCHANGED drainReq
    /\ UNCHANGED <<now, live, liveAt, pending, counters, hand, flusher, inFlight,
                   final, ledger>>

ConsumerKeeps ==
    /\ stream.pc = "got"
    /\ inFlight' = stream.got
    /\ stream' = [stream EXCEPT !.pc = "loop", !.got = NoReport]
    /\ UNCHANGED <<now, live, liveAt, pending, counters, hand, flusher, queue,
                   final, drainReq, ledger>>

\* The in-flight copy is offered to the RPC.
ConsumerSends ==
    /\ stream.pc = "loop" /\ inFlight # NoReport
    /\ \/ /\ Stopping
          /\ stream' = [stream EXCEPT !.pc = "stopped"]
       \/ /\ ~Stopping /\ stream.slot = NoReport
          /\ stream' = [stream EXCEPT !.pc = "sent", !.slot = inFlight, !.consumed = "waiting"]
    /\ UNCHANGED <<now, live, liveAt, pending, counters, hand, flusher, queue,
                   inFlight, final, drainReq, ledger>>

\* acknowledge_consumption: tonic polls the item and sends it.  An item that
\* a cancelled consumer left in the channel is still polled while
\* run_traffic_stream waits for the response, and then nobody is told.
RpcPolls ==
    /\ stream.rpc = "open" /\ stream.slot # NoReport
    /\ stream' = [stream EXCEPT !.slot = NoReport, !.consumed = "yes"]
    /\ ledger' = [ledger EXCEPT !.unacked[WireKey(stream.slot)] = @ + stream.slot.bytes,
                                !.twice = @ \/ stream.pc # "sent"]
    /\ UNCHANGED <<now, live, liveAt, pending, counters, hand, flusher, queue,
                   inFlight, final, drainReq>>

\* Mutant: the slot is emptied whatever became of the item.
ReleaseAlways ==
    /\ inFlight' = NoReport
    /\ stream' = [stream EXCEPT !.pc = IF stream.consumed = "yes" THEN "loop" ELSE "stopped",
                                !.consumed = "none"]
\* Only an observed consumption empties the slot; it is looked at before
\* the cancellation.
Release ==
    /\ inFlight' = IF stream.consumed = "yes" THEN NoReport ELSE inFlight
    /\ stream' = [stream EXCEPT !.pc = IF stream.consumed = "yes" THEN "loop" ELSE "stopped",
                                !.consumed = "none"]

ConsumerReleases ==
    /\ stream.pc = "sent"
    /\ stream.consumed \in {"yes", "dropped"} \/ Stopping
    /\ Release
    /\ UNCHANGED <<now, live, liveAt, pending, counters, hand, flusher, queue,
                   final, drainReq, ledger>>

\* The request stream has ended with the consumer; the RPC answers or not.
StreamEnds ==
    /\ stream.pc = "stopped"
    /\ stream' = [NoStream EXCEPT !.count = stream.count]
    /\ \E as \in {"acked", "doubtful"} : ledger' = SettleUnacked(as)
    /\ UNCHANGED <<now, live, liveAt, pending, counters, hand, flusher, queue,
                   inFlight, final, drainReq>>

\* The panel answers the drained RPC; its answer goes to the requester.
DrainAnswered ==
    /\ stream.pc = "drain"
    /\ \E r \in IF stream.rpc = "open" THEN {"ok", "err"} ELSE {stream.rpc} :
          /\ drainReq' = r
          /\ ledger' = SettleUnacked(IF r = "ok" THEN "acked" ELSE "doubtful")
    /\ stream' = [NoStream EXCEPT !.count = stream.count]
    /\ UNCHANGED <<now, live, liveAt, pending, counters, hand, flusher, queue,
                   inFlight, final>>

\* The stream group drops the task at one of its awaits: StreamGroup::drain
\* after the grace period, or StreamGroup's Drop.
StreamAborted ==
    /\ stream.cancelled /\ stream.pc \in {"loop", "sent", "drain", "stopped"}
    /\ stream' = [NoStream EXCEPT !.count = stream.count]
    /\ drainReq' = IF stream.pc = "drain" THEN "dropped" ELSE drainReq
    /\ ledger' = [SettleUnacked("doubtful") EXCEPT
                     !.twice = @ \/ (stream.pc = "sent" /\ stream.consumed = "yes")]
    /\ UNCHANGED <<now, live, liveAt, pending, counters, hand, flusher, queue,
                   inFlight, final>>

(***************************************************************************)
(* The ordered shutdown, as far as traffic is concerned.                   *)
(***************************************************************************)
StopRequested ==
    /\ MayStop /\ final.pc = "running"
    /\ final' = [final EXCEPT !.pc = "stopping"]
    /\ UNCHANGED <<now, live, liveAt, pending, counters, hand, flusher, queue,
                   inFlight, stream, drainReq, ledger>>

\* topologies.close() reaches close_owned: user after user hands its counters
\* over as a receipt.  A full budget stops the inbound halfway, and a failed
\* close publishes no configuration whose counters could still be swept.
PlaneCloses ==
    /\ final.pc = "stopping" /\ flusher = "ended"
    /\ \/ /\ \E u \in Users : live[u] > 0 /\ CanReserve(u)
          /\ LET u == Min({v \in Users : live[v] > 0 /\ CanReserve(v)}) IN
             /\ pending' = CommitReceipt(pending, u)
             /\ live' = [live EXCEPT ![u] = 0]
             /\ ledger' = NoteObserved(u)
          /\ final' = [final EXCEPT !.carries = FALSE]
       \/ /\ \A u \in Users : live[u] > 0 => ~CanReserve(u)
          /\ final' = [final EXCEPT !.pc = "collect", !.carries = FALSE]
          /\ UNCHANGED <<pending, live, ledger>>
    /\ UNCHANGED <<now, liveAt, counters, hand, flusher, queue, inFlight, stream,
                   drainReq>>

FinalCollect ==
    /\ final.pc = "collect"
    /\ Collect({}, TRUE)
    /\ final' = [final EXCEPT !.pc = "queueing"]
    /\ UNCHANGED <<now, flusher, queue, inFlight, stream, drainReq>>

\* cancel_and_finish_at_deadline: the limit cancels, it does not drop.
DeadlinePasses ==
    /\ final.pc \in {"queueing", "polling", "asking", "waiting"} /\ ~final.late
    /\ final' = [final EXCEPT !.late = TRUE]
    /\ UNCHANGED <<now, live, liveAt, pending, counters, hand, flusher, queue,
                   inFlight, stream, drainReq, ledger>>

\* enqueue waits for capacity; only the deadline puts the rest back.
FinalQueues ==
    /\ final.pc = "queueing"
    /\ \/ /\ hand # <<>> /\ ~final.late /\ Len(queue) < QueueCapacity
          /\ EnqueueHead
          /\ UNCHANGED <<counters, final>>
       \/ /\ hand # <<>> /\ final.late
          /\ PutBack
          /\ final' = [final EXCEPT !.pc = "polling"]
          /\ UNCHANGED queue
       \/ /\ hand = <<>>
          /\ final' = [final EXCEPT !.pc = "polling"]
          /\ UNCHANGED <<queue, hand, counters>>
    /\ UNCHANGED <<now, live, liveAt, pending, flusher, inFlight, stream, drainReq, ledger>>

\* TrafficQueue::queued_len
QueuedLen == Len(queue) + (IF inFlight # NoReport THEN 1 ELSE 0)

MayAsk == QueuedLen = 0

\* wait_for_panel_drain
FinalPolls ==
    /\ final.pc = "polling"
    /\ \/ /\ MayAsk
          /\ final' = [final EXCEPT !.pc = "asking"]
       \/ /\ ~MayAsk /\ final.late
          /\ final' = [final EXCEPT !.pc = "ended", !.result = "failed"]
    /\ UNCHANGED <<now, live, liveAt, pending, counters, hand, flusher, queue,
                   inFlight, stream, drainReq, ledger>>

FinalAsks ==
    /\ final.pc = "asking"
    /\ \/ /\ final.late
          /\ final' = [final EXCEPT !.pc = "ended", !.result = "failed"]
          /\ UNCHANGED drainReq
       \/ /\ ~final.late
          /\ drainReq' = "asked"
          /\ final' = [final EXCEPT !.pc = "waiting"]
    /\ UNCHANGED <<now, live, liveAt, pending, counters, hand, flusher, queue,
                   inFlight, stream, ledger>>

FinalHears ==
    /\ final.pc = "waiting"
    /\ \/ final.late /\ final' = [final EXCEPT !.pc = "ended", !.result = "failed"]
       \/ /\ ~final.late /\ drainReq \in {"ok", "err", "dropped"}
          /\ final' = [final EXCEPT !.pc = "ended",
                           !.result = IF drainReq = "ok" THEN "ok" ELSE "failed"]
    /\ UNCHANGED <<now, live, liveAt, pending, counters, hand, flusher, queue,
                   inFlight, stream, drainReq, ledger>>

Init ==
    /\ now = 0
    /\ live = [u \in Users |-> 0] /\ liveAt = [u \in Users |-> 0]
    /\ pending = [k \in Keys |-> NoReceipt]
    /\ counters = [k \in Keys |-> NoCounter]
    /\ hand = <<>> /\ flusher = "idle"
    /\ queue = <<>> /\ inFlight = NoReport /\ stream = NoStream
    /\ final = [pc |-> "running", carries |-> TRUE, late |-> FALSE, result |-> "none"]
    /\ drainReq = "none"
    /\ ledger = InitLedger

StreamNext ==
    \/ StreamOpens \/ SessionCancels \/ RpcEnds \/ ConsumerReceives \/ ConsumerKeeps
    \/ ConsumerSends \/ RpcPolls \/ ConsumerReleases \/ StreamEnds \/ DrainAnswered
    \/ StreamAborted
FinalNext ==
    \/ StopRequested \/ PlaneCloses \/ FinalCollect \/ DeadlinePasses
    \/ FinalQueues \/ FinalPolls \/ FinalAsks \/ FinalHears

Next ==
    \/ Tick
    \/ \E u \in Users : Carry(u) \/ Retire(u)
    \/ FlusherTick \/ FlusherCollect \/ FlusherQueues \/ FlusherStops
    \/ StreamNext
    \/ FinalNext

Spec == Init /\ [][Next]_vars

\* What is fair: time passes, the interval ticks, tasks that can run do, the last
\* stream stays up (RpcEnds and SessionCancels leave it alone) and is polled.
FlusherRuns == FlusherTick \/ FlusherCollect \/ FlusherQueues \/ FlusherStops
StreamRuns ==
    \/ StreamOpens \/ ConsumerReceives \/ ConsumerKeeps \/ ConsumerSends \/ RpcPolls
    \/ ConsumerReleases \/ StreamEnds
FinalRuns ==
    \/ PlaneCloses \/ FinalCollect \/ DeadlinePasses \/ FinalQueues \/ FinalPolls
    \/ FinalAsks \/ FinalHears

(***************************************************************************)
(* Properties.                                                             *)
(***************************************************************************)
\* Bytes of a key that the agent still holds and nobody has polled.
HeldBytes(k) ==
    pending[k].bytes + counters[k].bytes + BytesIn(hand, k) + BytesIn(queue, k)
    + (IF WireKey(inFlight) = k /\ stream.consumed # "yes" THEN inFlight.bytes ELSE 0)
    + (IF WireKey(stream.got) = k THEN stream.got.bytes ELSE 0)
Handed(k) == ledger.unacked[k] + ledger.acked[k] + ledger.doubtful[k]

\* No byte is lost and none moves to another hour: whatever was taken from
\* an engine counter is still held for its user and hour or was handed to
\* an RPC, through retired users, full queues, aborted tasks, broken streams
\* and the shutdown (restore, merge_reserved, consume_reports).  It is handed
\* over once, except when a cancellation falls between the offer of the
\* in-flight copy and its release.  A counter that was put back keeps the first
\* observation of its oldest byte, so that should_report fires on time; and a
\* final flush that reports success left nothing behind: everything taken from
\* the engine was handed over in RPCs the panel has answered.
BytesAccounted ==
    \A k \in Keys :
        /\ ledger.observed[k] <= HeldBytes(k) + Handed(k)
        /\ ~ledger.twice => HeldBytes(k) + Handed(k) <= ledger.observed[k]
        /\ counters[k].bytes > 0 => counters[k].first <= ledger.oldest[k]
        /\ final.result = "ok" => HeldBytes(k) = 0 /\ ledger.unacked[k] = 0

\* Every byte the data plane carried is eventually handed to the panel while
\* the agent keeps running and its last session stays up: small amounts are
\* not kept for ever, and a full queue only delays.
EventuallyHanded ==
    \A u \in Users :
        (ledger.produced[u] > 0) ~>
            (live[u] = 0 /\ \A h \in Hours : HeldBytes(<<u, h>>) = 0)

\* A requested stop always completes, whatever the panel does: every wait of
\* the final flush is bounded by its deadline.
StopCompletes == (final.pc = "stopping") ~> (final.pc = "ended")
=============================================================================
