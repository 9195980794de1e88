------------------------------ MODULE Telemetry ------------------------------
(***************************************************************************)
(* Host telemetry: a probe thread that may be stuck in the OS, the sampler *)
(* that publishes the cached counters or an invalid heartbeat, and the     *)
(* stream generations that send the latest sample only.                    *)
(*                                                                         *)
(* Time passes in ticks and is kept as ages ("so many ticks ago"), capped  *)
(* one past the largest bound the code compares with, so that runs are     *)
(* unbounded.  One tick is a third of TELEMETRY_INTERVAL, say.             *)
(***************************************************************************)
EXTENDS Integers, FiniteSets

CONSTANTS Interval,     \* TELEMETRY_INTERVAL = DYNAMIC_INTERVAL, the probe budget
          MaxAge,       \* MAX_SAMPLE_AGE = DYNAMIC_MAX_AGE
          SendTimeout   \* TELEMETRY_SEND_TIMEOUT

VARIABLES worker,  \* the telemetry-host thread
          cache,   \* Cache.dynamic
          samp,    \* the sampler: its interval, the retained permit, last_collection
          latest,  \* the watch channel
          strm     \* the current stream

vars == <<worker, cache, samp, latest, strm>>

ASSUME TimesAssumption ==
  /\ Interval \in Nat \ {0} /\ MaxAge \in Nat \ {0} /\ SendTimeout \in Nat

Cap == MaxAge + Interval + SendTimeout + 1
Older(age) == IF age = Cap THEN Cap ELSE age + 1
Ages == 0..Cap

(* HostSnapshot: its age (Cap: no collected_at), how long before that its   *)
(* first counter was read, and whether counters are valid.                  *)
NoReading == [age |-> Cap, spread |-> 0, valid |-> FALSE]
NoSample == [age |-> Cap, spread |-> 0, valid |-> FALSE, flip |-> FALSE, set |-> FALSE]
NoStream == [st |-> "off", base |-> 0, seen |-> FALSE, msg |-> NoSample, wait |-> 0]

Init ==
  /\ worker = [st |-> "wait", for |-> 0, out |-> NoReading]
  /\ cache = NoReading
  /\ samp = [due |-> 0, permit |-> FALSE, last |-> Cap]
  /\ latest = NoSample
  /\ strm = NoStream

-----------------------------------------------------------------------------
(* The probe thread, spawn_periodic: probe, store, wait for the next time.  *)

ProbeStarts ==
  /\ worker.st = "wait" /\ worker.for = 0
  /\ worker' = [worker EXCEPT !.st = "probe", !.for = 0]
  /\ UNCHANGED <<cache, samp, latest, strm>>

(* read_dynamic_with_budget: a probe that took its budget is discarded.     *)
KeepsAny(took) == TRUE

WithinBudget(took) == took < Interval

ProbeEnds ==
  /\ worker.st = "probe"
  /\ \E valid \in BOOLEAN :
       worker' = [worker EXCEPT !.st = "store",
                    !.out = IF WithinBudget(worker.for)
                            THEN [age |-> 0, spread |-> worker.for, valid |-> valid]
                            ELSE NoReading]
  /\ UNCHANGED <<cache, samp, latest, strm>>

(* The cache is replaced and the sampler gets a permit.  The next probe is  *)
(* at most one interval away.                                               *)
StoresReading ==
  /\ worker.st = "store"
  /\ cache' = worker.out
  /\ samp' = [samp EXCEPT !.permit = TRUE]
  /\ \E wait \in 0..Interval : worker' = [st |-> "wait", for |-> wait, out |-> NoReading]
  /\ UNCHANGED <<latest, strm>>

-----------------------------------------------------------------------------
(* The sampler: woken by a permit or by its interval.                       *)

Stale(age) == age > MaxAge

NotNewer(age, last) == age >= last

Sample ==
  IF Stale(cache.age)
  THEN [age |-> 0, spread |-> 0, valid |-> FALSE]
  ELSE cache

SkipsSample == ~Stale(cache.age) /\ NotNewer(cache.age, samp.last)

Published(s) == [age |-> s.age, spread |-> s.spread, valid |-> s.valid,
                 flip |-> ~latest.flip, set |-> TRUE]

(* publish never waits: the previous sample is replaced, and a stream that  *)
(* waits for a new sequence number finds one.                               *)
Samples(s) ==
  IF SkipsSample
  THEN samp' = s /\ UNCHANGED <<latest, strm>>
  ELSE /\ samp' = [s EXCEPT !.last = Sample.age]
       /\ latest' = Published(Sample)
       /\ strm' = [strm EXCEPT !.seen = FALSE]

SamplerWoken ==
  /\ samp.permit
  /\ Samples([samp EXCEPT !.permit = FALSE])
  /\ UNCHANGED <<worker, cache>>

SamplerTicks ==
  /\ samp.due = 0
  /\ Samples([samp EXCEPT !.due = Interval])
  /\ UNCHANGED <<worker, cache>>

-----------------------------------------------------------------------------
(* run_stream: dial, handshake that fixes the baseline, then latest-only.   *)

Handshakes ==
  /\ strm.st = "off"
  /\ strm' = [NoStream EXCEPT !.st = "ready"]
  /\ UNCHANGED <<worker, cache, samp, latest>>

SampleIsFresh(age, base) == age <= base /\ age <= MaxAge

NotTaken == latest.set /\ ~strm.seen

TakesSample ==
  /\ strm.st = "ready" /\ NotTaken
  /\ strm' = IF SampleIsFresh(latest.age, strm.base)
             THEN [strm EXCEPT !.seen = TRUE, !.st = "send", !.msg = latest, !.wait = 0]
             ELSE [strm EXCEPT !.seen = TRUE]
  /\ UNCHANGED <<worker, cache, samp, latest>>

(* send_sample: consumed when the transport polls the request body; the     *)
(* stream is given up when that takes SendTimeout.                          *)
Consumed ==
  /\ strm.st = "send"
  /\ strm' = [strm EXCEPT !.st = "ready", !.msg = NoSample, !.wait = 0]
  /\ UNCHANGED <<worker, cache, samp, latest>>

SendTimesOut ==
  /\ strm.st = "send" /\ strm.wait = SendTimeout
  /\ strm' = NoStream
  /\ UNCHANGED <<worker, cache, samp, latest>>

StreamEnds ==
  /\ strm.st # "off"
  /\ strm' = NoStream
  /\ UNCHANGED <<worker, cache, samp, latest>>

-----------------------------------------------------------------------------
(* Time.  The sampler and the send deadline are served on time; the probe   *)
(* thread may be stuck for ever.                                            *)
Tick ==
  /\ samp.due > 0 /\ ~samp.permit
  /\ ~(strm.st = "send" /\ strm.wait = SendTimeout)
  /\ ~(strm.st = "ready" /\ NotTaken)
  /\ worker' = [worker EXCEPT !.for = CASE worker.st = "wait" -> IF @ = 0 THEN 0 ELSE @ - 1
                                        [] worker.st = "probe" -> IF @ = Interval THEN @ ELSE @ + 1
                                        [] OTHER -> @,
                              !.out.age = Older(@)]
  /\ cache' = [cache EXCEPT !.age = Older(@)]
  /\ samp' = [samp EXCEPT !.due = @ - 1, !.last = Older(@)]
  /\ latest' = [latest EXCEPT !.age = Older(@)]
  /\ strm' = [strm EXCEPT !.base = IF strm.st = "off" THEN @ ELSE Older(@),
                          !.msg.age = IF strm.st = "send" THEN Older(@) ELSE @,
                          !.wait = IF strm.st = "send" THEN @ + 1 ELSE @]

Next ==
  \/ ProbeStarts \/ ProbeEnds \/ StoresReading
  \/ SamplerWoken \/ SamplerTicks
  \/ Handshakes \/ TakesSample \/ Consumed \/ SendTimesOut \/ StreamEnds
  \/ Tick

Spec == Init /\ [][Next]_vars

-----------------------------------------------------------------------------
(* Types: ages are capped, the probe budget, the interval and the send      *)
(* deadline bound what is counted against them.                             *)
Reading == [age : Ages, spread : 0..Interval, valid : BOOLEAN]
Message == [age : Ages, spread : 0..Interval, valid : BOOLEAN, flip : BOOLEAN, set : BOOLEAN]

TypeOK ==
  /\ worker \in [st : {"wait", "probe", "store"}, for : 0..Interval, out : Reading]
  /\ cache \in Reading
  /\ samp \in [due : 0..Interval, permit : BOOLEAN, last : Ages]
  /\ latest \in Message
  /\ strm \in [st : {"off", "ready", "send"}, base : Ages, seen : BOOLEAN, msg : Message,
               wait : 0..SendTimeout]

(* start_sampling: whatever the probe thread does, the published sample is  *)
(* never older than the age limit and one interval.                         *)
HeartbeatGoesOn == latest.set => latest.age <= MaxAge + Interval

(* read_dynamic_with_budget, collect: valid counters were all read within   *)
(* one probe budget before the time the sample carries.                     *)
ValidIsHonest == latest.valid => latest.spread < Interval

(* sample_collection: the sample clock never moves backward, also when a    *)
(* probe that ended before an invalid heartbeat is stored after it.         *)
ClockIsMonotone == [][latest.set /\ latest'.flip # latest.flip => latest'.age <= latest.age]_vars

(* sample_is_fresh, send_sample: what reaches the panel was sampled after   *)
(* the handshake of its own stream and is no older than the age limit and   *)
(* the send deadline.                                                       *)
SentIsFresh ==
  strm.st = "send" => strm.msg.age <= strm.base /\ strm.msg.age <= MaxAge + SendTimeout

(* What the panel is told of the host is recent and means what it says,     *)
(* however long the probe thread is stuck and however slow the panel reads. *)
SamplesAreHonest == HeartbeatGoesOn /\ ValidIsHonest /\ SentIsFresh

=============================================================================
