--------------------------- MODULE TelemetryProofs ---------------------------
(***************************************************************************)
(* Proofs about Telemetry, for every interval, age limit and send          *)
(* deadline: what the panel is told is recent and honest, and the clock it *)
(* sees never moves backward.                                              *)
(***************************************************************************)
EXTENDS Telemetry, TLAPS

USE TimesAssumption

-----------------------------------------------------------------------------
(* The inductive invariant. *)

\* last_collection is the age of the sample that was published last, and every
\* sampling leaves a sample that is young enough until the next one is due.
SamplerKnows ==
  latest.set => /\ latest.age = samp.last
                /\ latest.age + samp.due <= MaxAge + Interval

\* What is in the probe's hands, in the cache and published is valid only if its
\* counters were read within the probe budget.
ReadingsHonest ==
  /\ worker.out.valid => worker.out.spread < Interval
  /\ cache.valid => cache.spread < Interval
  /\ latest.valid => latest.spread < Interval

\* A message in flight is younger than its stream and has aged only as long as it
\* has been waiting.
FlightIsFresh ==
  strm.st = "send" => strm.msg.age <= strm.base /\ strm.msg.age <= MaxAge + strm.wait

IInv == TypeOK /\ SamplerKnows /\ ReadingsHonest /\ FlightIsFresh

-----------------------------------------------------------------------------
(* Ages. *)

\* The cap is past every bound the code compares an age with.
LEMMA CapIsPast ==
    Cap \in Nat /\ Cap > MaxAge + Interval /\ Cap > MaxAge + SendTimeout
  BY DEF Cap

\* Growing older keeps the order of ages and adds at most one tick.
LEMMA OlderIsMonotone ==
    ASSUME NEW a \in Ages
    PROVE  /\ Older(a) \in Ages /\ Older(a) <= a + 1
           /\ \A b \in Ages : a <= b => Older(a) <= Older(b)
  BY CapIsPast DEF Ages, Older

\* What the sampler is about to publish is no older than the age limit, is valid
\* only within the probe budget, and is newer than the last sample.
LEMMA SampleShape ==
    ASSUME TypeOK, ReadingsHonest
    PROVE  /\ Sample \in Reading /\ Sample.age <= MaxAge
           /\ Sample.valid => Sample.spread < Interval
           /\ ~SkipsSample => Sample.age <= samp.last
           /\ SkipsSample => samp.last <= MaxAge
<1>1. cache \in Reading /\ cache.age \in Ages /\ samp.last \in Ages
  BY DEF TypeOK, Reading
<1>2. 0 \in Ages /\ \A a \in Ages : a \in Nat
  BY CapIsPast DEF Ages
<1>3. CASE Stale(cache.age)
  <2>1. Sample = [age |-> 0, spread |-> 0, valid |-> FALSE] /\ ~SkipsSample
    BY <1>3 DEF Sample, SkipsSample
  <2>2. Sample \in Reading
    BY <1>2, <2>1 DEF Reading
  <2> QED
    BY <1>1, <1>2, <2>1, <2>2
<1>4. CASE ~Stale(cache.age)
  <2>1. Sample = cache /\ cache.age <= MaxAge /\ (SkipsSample <=> cache.age >= samp.last)
    BY <1>1, <1>2, <1>4 DEF Sample, SkipsSample, Stale, NotNewer
  <2> QED
    BY <1>1, <1>2, <2>1 DEF ReadingsHonest
<1> QED
  BY <1>3, <1>4

-----------------------------------------------------------------------------
(* Induction. *)

\* Before the first sample nothing has been read and nothing is in flight.
LEMMA InitInv ==
    Init => IInv
<1> SUFFICES ASSUME Init PROVE IInv
  OBVIOUS
<1>1. Cap \in Ages /\ 0 \in Ages /\ 0 \in 0..Interval /\ 0 \in 0..SendTimeout
  BY CapIsPast DEF Ages
<1>2. NoReading \in Reading /\ NoSample \in Message
  BY <1>1 DEF NoReading, NoSample, Reading, Message
<1>3. TypeOK
  BY <1>1, <1>2 DEF Init, NoStream, TypeOK
<1>4. SamplerKnows /\ FlightIsFresh
  BY DEF Init, NoSample, NoStream, SamplerKnows, FlightIsFresh
<1>5. ReadingsHonest
  BY DEF Init, NoReading, NoSample, ReadingsHonest
<1> QED
  BY <1>3, <1>4, <1>5 DEF IInv

\* A sampling, whether a permit or the interval woke the sampler.
LEMMA SamplesInv ==
    ASSUME IInv, NEW s \in [due : 0..Interval, permit : BOOLEAN, last : Ages],
           s.last = samp.last, s.due \in {samp.due, Interval}, Samples(s),
           UNCHANGED <<worker, cache>>
    PROVE  IInv'
<1> USE DEF IInv
<1>1. /\ Sample \in Reading /\ Sample.age <= MaxAge /\ Sample.age \in Nat
      /\ Sample.valid => Sample.spread < Interval
      /\ SkipsSample => samp.last <= MaxAge
  BY SampleShape, CapIsPast DEF Reading, Ages
<1>2. s.due \in 0..Interval /\ samp.last \in Ages /\ latest.age \in Ages /\ \A a \in Ages : a \in Nat
  BY CapIsPast DEF TypeOK, Ages, Message
<1>3. CASE SkipsSample
  <2>1. samp' = s /\ UNCHANGED <<latest, strm>>
    BY <1>3 DEF Samples
  <2>2. SamplerKnows'
    BY <1>1, <1>2, <1>3, <2>1 DEF SamplerKnows
  <2> QED
    BY <2>1, <2>2 DEF TypeOK, ReadingsHonest, FlightIsFresh
<1>4. CASE ~SkipsSample
  <2>1. /\ samp' = [s EXCEPT !.last = Sample.age]
        /\ latest' = Published(Sample)
        /\ strm' = [strm EXCEPT !.seen = FALSE]
    BY <1>4 DEF Samples
  <2>2. /\ samp' \in [due : 0..Interval, permit : BOOLEAN, last : Ages]
        /\ samp'.last = Sample.age /\ samp'.due = s.due
    BY <1>1, <2>1 DEF Reading
  <2>3. /\ latest'.age = Sample.age /\ latest'.spread = Sample.spread
        /\ latest'.valid = Sample.valid
    BY <2>1 DEF Published
  <2>4. latest' \in Message
    BY <1>1, <2>1 DEF Published, Reading, Message
  <2>5. /\ strm' \in [st : {"off", "ready", "send"}, base : Ages, seen : BOOLEAN, msg : Message,
                      wait : 0..SendTimeout]
        /\ strm'.st = strm.st /\ strm'.base = strm.base /\ strm'.msg = strm.msg
        /\ strm'.wait = strm.wait
    BY <2>1 DEF TypeOK
  <2>6. SamplerKnows'
    BY <1>1, <1>2, <2>2, <2>3 DEF SamplerKnows
  <2>7. ReadingsHonest'
    BY <1>1, <2>3 DEF ReadingsHonest
  <2>8. FlightIsFresh'
    BY <2>5 DEF FlightIsFresh
  <2> QED
    BY <2>2, <2>4, <2>5, <2>6, <2>7, <2>8 DEF TypeOK
<1> QED
  BY <1>3, <1>4

\* Time: every age grows by the same tick, and none of the bounds is reached that
\* the sampler or the send deadline serves first.
LEMMA TickInv ==
    ASSUME IInv, Tick
    PROVE  IInv'
<1> USE DEF IInv
<1>0. \A a \in Ages : a \in Nat
  BY CapIsPast DEF Ages
<1>1. /\ worker.st \in {"wait", "probe", "store"} /\ worker.for \in 0..Interval
      /\ worker.out \in Reading /\ worker.out.age \in Ages
  BY DEF TypeOK, Reading
<1>2. /\ worker'.st = worker.st /\ worker'.out = [worker.out EXCEPT !.age = Older(@)]
      /\ worker'.for \in 0..Interval
      /\ worker' = [st |-> worker'.st, for |-> worker'.for, out |-> worker'.out]
  <2> DEFINE w == CASE worker.st = "wait" -> IF worker.for = 0 THEN 0 ELSE worker.for - 1
                    [] worker.st = "probe" -> IF worker.for = Interval THEN worker.for ELSE worker.for + 1
                    [] OTHER -> worker.for
  <2>1. w \in 0..Interval
    BY <1>1
  <2>2. worker' = [worker EXCEPT !.for = w, !.out.age = Older(@)]
    BY DEF Tick
  <2> HIDE DEF w
  <2> QED
    BY <2>1, <2>2 DEF TypeOK
<1>3. /\ worker'.out \in Reading /\ worker'.out.spread = worker.out.spread
      /\ worker'.out.valid = worker.out.valid
  BY <1>1, <1>2, OlderIsMonotone DEF Reading
<1>4. cache' \in Reading /\ cache'.spread = cache.spread /\ cache'.valid = cache.valid
  BY OlderIsMonotone DEF Tick, TypeOK, Reading
<1>5. /\ samp' \in [due : 0..Interval, permit : BOOLEAN, last : Ages]
      /\ samp'.due = samp.due - 1 /\ samp'.last = Older(samp.last)
  <2>1. samp.due \in 1..Interval /\ samp.last \in Ages
    BY DEF Tick, TypeOK
  <2>2. samp.due - 1 \in 0..Interval /\ Older(samp.last) \in Ages
    BY <2>1, OlderIsMonotone
  <2>3. samp' = [samp EXCEPT !.due = samp.due - 1, !.last = Older(samp.last)]
    BY DEF Tick
  <2> QED
    BY <2>2, <2>3 DEF TypeOK
<1>6. /\ latest' \in Message /\ latest'.age = Older(latest.age) /\ latest'.set = latest.set
      /\ latest'.spread = latest.spread /\ latest'.valid = latest.valid
  BY OlderIsMonotone DEF Tick, TypeOK, Message
<1>7. strm.base \in Ages /\ strm.msg \in Message /\ strm.msg.age \in Ages /\ strm.wait \in 0..SendTimeout
  BY DEF TypeOK, Message
<1>8. /\ strm'.st = strm.st /\ strm'.seen = strm.seen
      /\ strm'.base = IF strm.st = "off" THEN strm.base ELSE Older(strm.base)
      /\ strm'.msg = [strm.msg EXCEPT !.age = IF strm.st = "send" THEN Older(@) ELSE @]
      /\ strm'.wait = IF strm.st = "send" THEN strm.wait + 1 ELSE strm.wait
      /\ strm' = [st |-> strm'.st, base |-> strm'.base, seen |-> strm'.seen, msg |-> strm'.msg,
                  wait |-> strm'.wait]
  BY DEF Tick, TypeOK
<1>9. strm'.base \in Ages /\ strm'.msg \in Message /\ strm'.wait \in 0..SendTimeout
  <2>1. strm'.base \in Ages
    BY <1>7, <1>8, OlderIsMonotone
  <2>2. strm'.msg \in Message
    BY <1>7, <1>8, OlderIsMonotone DEF Message
  <2>3. strm'.wait \in 0..SendTimeout
    BY <1>7, <1>8 DEF Tick
  <2> QED
    BY <2>1, <2>2, <2>3
<1>10. TypeOK'
  <2>1. worker' \in [st : {"wait", "probe", "store"}, for : 0..Interval, out : Reading]
    BY <1>1, <1>2, <1>3
  <2>2. strm.st \in {"off", "ready", "send"} /\ strm.seen \in BOOLEAN
    BY DEF TypeOK
  <2>3. strm' \in [st : {"off", "ready", "send"}, base : Ages, seen : BOOLEAN, msg : Message,
                   wait : 0..SendTimeout]
    BY <1>8, <1>9, <2>2
  <2> QED
    BY <1>4, <1>5, <1>6, <2>1, <2>3 DEF TypeOK
<1>11. SamplerKnows'
  <2>1. samp.due \in 0..Interval /\ samp.last \in Ages /\ latest.age \in Ages
    BY DEF TypeOK, Message
  <2> QED
    BY <1>0, <1>5, <1>6, <2>1, OlderIsMonotone DEF SamplerKnows
<1>12. ReadingsHonest'
  BY <1>3, <1>4, <1>6 DEF ReadingsHonest
<1>13. FlightIsFresh'
  <2> SUFFICES ASSUME strm.st = "send"
               PROVE  strm'.msg.age <= strm'.base /\ strm'.msg.age <= MaxAge + strm'.wait
    BY <1>8 DEF FlightIsFresh
  <2>1. strm'.msg.age = Older(strm.msg.age)
    BY <1>7, <1>8 DEF Message
  <2>2. strm.msg.age <= strm.base /\ strm.msg.age <= MaxAge + strm.wait
    BY DEF FlightIsFresh
  <2> QED
    BY <1>0, <1>7, <1>8, <2>1, <2>2, OlderIsMonotone
<1> QED
  BY <1>10, <1>11, <1>12, <1>13

\* Every step of the probe thread, the sampler, the stream and the clock preserves it.
LEMMA NextInv ==
    IInv /\ [Next]_vars => IInv'
<1> SUFFICES ASSUME IInv, [Next]_vars PROVE IInv'
  OBVIOUS
<1> USE DEF IInv
<1>0. /\ Cap \in Ages /\ 0 \in Ages /\ 0 \in 0..Interval /\ 0 \in 0..SendTimeout
      /\ \A a \in Ages : a \in Nat
  BY CapIsPast DEF Ages
<1>n. NoReading \in Reading /\ NoSample \in Message
  BY <1>0 DEF NoReading, NoSample, Reading, Message
<1>1. CASE ProbeStarts
  <2>1. worker' \in [st : {"wait", "probe", "store"}, for : 0..Interval, out : Reading]
        /\ worker'.out = worker.out
    BY <1>0, <1>1 DEF ProbeStarts, TypeOK
  <2> QED
    BY <1>1, <2>1 DEF ProbeStarts, TypeOK, SamplerKnows, ReadingsHonest, FlightIsFresh
<1>2. CASE ProbeEnds
  <2>1. PICK valid \in BOOLEAN :
          worker' = [worker EXCEPT !.st = "store",
                       !.out = IF WithinBudget(worker.for)
                               THEN [age |-> 0, spread |-> worker.for, valid |-> valid]
                               ELSE NoReading]
    BY <1>2 DEF ProbeEnds
  <2> DEFINE out == IF WithinBudget(worker.for)
                    THEN [age |-> 0, spread |-> worker.for, valid |-> valid]
                    ELSE NoReading
  <2>2. out \in Reading /\ (out.valid => out.spread < Interval)
    BY <1>0, <1>n DEF WithinBudget, Reading, NoReading, TypeOK
  <2>3. worker' = [worker EXCEPT !.st = "store", !.out = out]
    BY <2>1
  <2> HIDE DEF out
  <2>4. /\ worker' \in [st : {"wait", "probe", "store"}, for : 0..Interval, out : Reading]
        /\ worker'.out = out
    BY <2>2, <2>3 DEF TypeOK
  <2> QED
    BY <1>2, <2>2, <2>4 DEF ProbeEnds, TypeOK, SamplerKnows, ReadingsHonest, FlightIsFresh
<1>3. CASE StoresReading
  <2>1. PICK wait \in 0..Interval : worker' = [st |-> "wait", for |-> wait, out |-> NoReading]
    BY <1>3 DEF StoresReading
  <2>2. /\ samp' \in [due : 0..Interval, permit : BOOLEAN, last : Ages]
        /\ samp'.due = samp.due /\ samp'.last = samp.last
    BY <1>3 DEF StoresReading, TypeOK
  <2>3. TypeOK'
    BY <1>3, <1>n, <2>1, <2>2 DEF StoresReading, TypeOK
  <2>4. ReadingsHonest'
    BY <1>3, <2>1 DEF StoresReading, ReadingsHonest, NoReading
  <2> QED
    BY <1>3, <2>2, <2>3, <2>4 DEF StoresReading, SamplerKnows, FlightIsFresh
<1>4. CASE SamplerWoken
  <2> DEFINE s == [samp EXCEPT !.permit = FALSE]
  <2>1. /\ s \in [due : 0..Interval, permit : BOOLEAN, last : Ages]
        /\ s.last = samp.last /\ s.due = samp.due
    BY DEF TypeOK
  <2>2. Samples(s) /\ UNCHANGED <<worker, cache>>
    BY <1>4 DEF SamplerWoken
  <2> HIDE DEF s
  <2> QED
    BY <2>1, <2>2, SamplesInv
<1>5. CASE SamplerTicks
  <2> DEFINE s == [samp EXCEPT !.due = Interval]
  <2>1. /\ s \in [due : 0..Interval, permit : BOOLEAN, last : Ages]
        /\ s.last = samp.last /\ s.due = Interval
    BY DEF TypeOK
  <2>2. Samples(s) /\ UNCHANGED <<worker, cache>>
    BY <1>5 DEF SamplerTicks
  <2> HIDE DEF s
  <2> QED
    BY <2>1, <2>2, SamplesInv
<1>6. CASE Handshakes \/ SendTimesOut \/ StreamEnds
  <2>1. /\ strm' \in [st : {"off", "ready", "send"}, base : Ages, seen : BOOLEAN, msg : Message,
                      wait : 0..SendTimeout]
        /\ strm'.st # "send"
    <3>1. /\ NoStream \in [st : {"off", "ready", "send"}, base : Ages, seen : BOOLEAN,
                           msg : Message, wait : 0..SendTimeout]
          /\ NoStream.st = "off"
      BY <1>0, <1>n DEF NoStream
    <3>2. strm' = NoStream \/ strm' = [NoStream EXCEPT !.st = "ready"]
      BY <1>6 DEF Handshakes, SendTimesOut, StreamEnds
    <3> QED
      BY <3>1, <3>2
  <2> QED
    BY <1>6, <2>1 DEF Handshakes, SendTimesOut, StreamEnds, TypeOK, SamplerKnows, ReadingsHonest,
                      FlightIsFresh
<1>7. CASE TakesSample
  <2>1. /\ strm' \in [st : {"off", "ready", "send"}, base : Ages, seen : BOOLEAN, msg : Message,
                      wait : 0..SendTimeout]
        /\ strm'.base = strm.base
        /\ \/ strm'.st = "ready"
           \/ SampleIsFresh(latest.age, strm.base) /\ strm'.msg = latest /\ strm'.wait = 0
    BY <1>0, <1>7 DEF TakesSample, TypeOK
  <2>2. FlightIsFresh'
    BY <2>1 DEF SampleIsFresh, FlightIsFresh
  <2> QED
    BY <1>7, <2>1, <2>2 DEF TakesSample, TypeOK, SamplerKnows, ReadingsHonest
<1>8. CASE Consumed
  <2>1. /\ strm' \in [st : {"off", "ready", "send"}, base : Ages, seen : BOOLEAN, msg : Message,
                      wait : 0..SendTimeout]
        /\ strm'.st = "ready"
    BY <1>0, <1>8, <1>n DEF Consumed, TypeOK
  <2> QED
    BY <1>8, <2>1 DEF Consumed, TypeOK, SamplerKnows, ReadingsHonest, FlightIsFresh
<1>9. CASE Tick
  BY <1>9, TickInv
<1>10. CASE UNCHANGED vars
  BY <1>10 DEF vars, TypeOK, SamplerKnows, ReadingsHonest, FlightIsFresh
<1> QED
  BY <1>1, <1>2, <1>3, <1>4, <1>5, <1>6, <1>7, <1>8, <1>9, <1>10 DEF Next

\* The types, and the three parts of IInv, hold in every state.
THEOREM Invariance == Spec => []IInv
<1>1. Init => IInv
  BY InitInv
<1>2. IInv /\ [Next]_vars => IInv'
  BY NextInv
<1> QED
  BY <1>1, <1>2, PTL DEF Spec

\* Every variable keeps its type: no wait outgrows its deadline, no age its cap.
THEOREM TypeCorrect == Spec => []TypeOK
<1>1. IInv => TypeOK
  BY DEF IInv
<1> QED
  BY <1>1, Invariance, PTL

\* However long the probe thread is stuck and however slowly the panel reads, the
\* published sample and what is sent of it are recent and mean what they say
\* (start_sampling, read_dynamic_with_budget, sample_is_fresh, send_sample).
THEOREM HonestAlways == Spec => []SamplesAreHonest
<1>1. IInv => SamplesAreHonest
  <2> SUFFICES ASSUME IInv PROVE SamplesAreHonest
    OBVIOUS
  <2>1. /\ samp.due \in 0..Interval /\ latest.age \in Nat
        /\ strm.msg.age \in Nat /\ strm.wait \in 0..SendTimeout
    BY CapIsPast DEF IInv, TypeOK, Message, Ages
  <2>2. HeartbeatGoesOn
    BY <2>1 DEF IInv, SamplerKnows, HeartbeatGoesOn
  <2>3. ValidIsHonest
    BY DEF IInv, ReadingsHonest, ValidIsHonest
  <2>4. SentIsFresh
    BY <2>1 DEF IInv, FlightIsFresh, SentIsFresh
  <2> QED
    BY <2>2, <2>3, <2>4 DEF SamplesAreHonest
<1> QED
  BY <1>1, Invariance, PTL

\* A sample that replaces another is never older than it, also when a probe that
\* ended before an invalid heartbeat is stored after it (sample_collection).
THEOREM ClockNeverGoesBack == Spec => ClockIsMonotone
<1>1. ASSUME IInv, [Next]_vars
      PROVE  [latest.set /\ latest'.flip # latest.flip => latest'.age <= latest.age]_vars
  <2> SUFFICES ASSUME latest.set, latest'.flip # latest.flip PROVE latest'.age <= latest.age
    OBVIOUS
  <2>1. ASSUME NEW s, Samples(s) PROVE latest'.age <= latest.age
    <3>1. ~SkipsSample /\ latest' = Published(Sample)
      BY <2>1 DEF Samples
    <3>2. Sample.age <= samp.last
      BY <1>1, <3>1, SampleShape DEF IInv
    <3>3. latest'.age = Sample.age /\ latest.age = samp.last
      BY <1>1, <3>1 DEF Published, IInv, SamplerKnows
    <3> QED
      BY <3>2, <3>3
  <2>2. CASE SamplerWoken \/ SamplerTicks
    BY <2>1, <2>2 DEF SamplerWoken, SamplerTicks
  <2>3. CASE Tick
    BY <1>1, <2>3 DEF Tick, IInv, TypeOK, Message
  <2>4. CASE \/ ProbeStarts \/ ProbeEnds \/ StoresReading \/ Handshakes \/ TakesSample
             \/ Consumed \/ SendTimesOut \/ StreamEnds \/ UNCHANGED vars
    BY <2>4 DEF ProbeStarts, ProbeEnds, StoresReading, Handshakes, TakesSample, Consumed,
                SendTimesOut, StreamEnds, vars
  <2> QED
    BY <1>1, <2>2, <2>3, <2>4 DEF Next
<1> QED
  BY <1>1, Invariance, PTL DEF Spec, ClockIsMonotone

=============================================================================
