----------------------------- MODULE MCDataPlane -----------------------------
(* The transaction over the data plane (RuntimeAdapter) and the way of the   *)
(* bytes it counts to the panel (TrafficPipeline): two users and a shutdown  *)
(* ("bytes"), one user whose agent keeps running ("running"), and one whose  *)
(* agent is stopped ("stopped").  They share no variables; in one behaviour  *)
(* one of them moves, the one that part names.                               *)
EXTENDS RuntimeAdapter

VARIABLES part,
          now, live, liveAt, retired, counters, hand, flusher, queue,
          inFlight, stream, final, drainReq, ledger

traffic == <<now, live, liveAt, retired, counters, hand, flusher, queue,
             inFlight, stream, final, drainReq, ledger>>

Bytes == INSTANCE TrafficPipeline
    WITH Users <- {1, 2}, MinuteLen <- 2, HourLen <- 2, MinDelta <- 2, MaxDelay <- 1,
         QueueCapacity <- 1, MaxKeys <- 1, MaxClock <- 3, MaxBytes <- 2, MaxStreams <- 2,
         MayStop <- TRUE, pending <- retired

Running == INSTANCE TrafficPipeline
    WITH Users <- {1}, MinuteLen <- 2, HourLen <- 4, MinDelta <- 2, MaxDelay <- 2,
         QueueCapacity <- 1, MaxKeys <- 1, MaxClock <- 5, MaxBytes <- 2, MaxStreams <- 2,
         MayStop <- FALSE, pending <- retired

Stopped == INSTANCE TrafficPipeline
    WITH Users <- {1}, MinuteLen <- 2, HourLen <- 2, MinDelta <- 2, MaxDelay <- 1,
         QueueCapacity <- 1, MaxKeys <- 1, MaxClock <- 2, MaxBytes <- 1, MaxStreams <- 2,
         MayStop <- TRUE, pending <- retired

MCInit ==
    /\ part \in {"adapter", "bytes", "running", "stopped"}
    /\ Init
    /\ CASE part = "running" -> Running!Init
         [] part = "stopped" -> Stopped!Init
         [] OTHER -> Bytes!Init

\* The agent has stopped, or its clock and its streams are used up.
Ended == part # "adapter" /\ UNCHANGED <<vars, traffic>>

MCNext ==
    /\ UNCHANGED part
    /\ \/ part = "adapter" /\ Next /\ UNCHANGED traffic
       \/ part = "bytes" /\ Bytes!Next /\ UNCHANGED vars
       \/ part = "running" /\ Running!Next /\ UNCHANGED vars
       \/ part = "stopped" /\ Stopped!Next /\ UNCHANGED vars
       \/ Ended

\* The adapter's transactions and timer, as in FairSpec; the clock, the periodic
\* flusher, the session's stream and the final flush run.
MCFairSpec ==
    /\ MCInit /\ [][MCNext]_<<part, vars, traffic>>
    /\ WF_vars(part = "adapter" /\ Progress)
    /\ SF_vars(part = "adapter" /\ Reconcile)
    /\ WF_traffic(part = "running" /\ Running!Tick)
    /\ WF_traffic(part = "running" /\ Running!FlusherRuns)
    /\ WF_traffic(part = "running" /\ Running!StreamRuns)
    /\ WF_traffic(part = "stopped" /\ Stopped!FlusherRuns)
    /\ WF_traffic(part = "stopped" /\ Stopped!FinalRuns)

\* From the counters through aggregator, queue and stream to the panel.
Accounted == CASE part = "running" -> Running!BytesAccounted
               [] part = "stopped" -> Stopped!BytesAccounted
               [] OTHER -> Bytes!BytesAccounted

\* The flusher, the stream and the final flush make progress.
Arrives == /\ part = "running" => Running!EventuallyHanded
           /\ part = "stopped" => Stopped!StopCompletes
=============================================================================
