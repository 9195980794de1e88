--------------------------- MODULE MCObservability ---------------------------
(* Instances of the analysis, logging and telemetry components side by side.    *)
(* They share no state; "part" picks the one that moves in a behaviour.         *)
EXTENDS Telemetry, TLC

CONSTANTS u1, u2, None

VARIABLES part,
          ses, flow, op, bud, smp, sum,                    \* AnalysisCollector
          free, bkt, born, cut,                            \* AnalysisMinute
          qses, made, queue, mem, str, tokens, counted,    \* AnalysisQueue
          seq, pub, sub, logStrm, out,                     \* RemoteLog
          logger, wr, file, rec, count,                    \* LocalLog
          active, back, rotation, tries, used              \* RotatingFile

(* One UDP association against targets, budgets and limits; two operations of a *)
(* TCP flow against sessions and the sampler.                                   *)
Packets == INSTANCE AnalysisCollector
  WITH Flows <- {"f"}, Udp <- {"f"}, Ops <- {"o"}, FlowOf <- [o \in {"o"} |-> "f"],
       Targets <- {"ta", "tb"}, SniffedWeb <- {"ta"}, PendingCap <- 2,
       Limits <- {[mem |-> 4, pend |-> 3, per |-> 2, tg |-> 2], [mem |-> 3, pend |-> 1, per |-> 2, tg |-> 1],
                  [mem |-> 4, pend |-> 3, per |-> 1, tg |-> 2]},
       MaxEpoch <- 2, MaxBytes <- 2

Streams == INSTANCE AnalysisCollector
  WITH Flows <- {"f", "g"}, Udp <- {}, Ops <- {"o", "p"}, FlowOf <- [o \in {"o", "p"} |-> "f"],
       Targets <- {}, SniffedWeb <- {}, PendingCap <- 1,
       Limits <- {[mem |-> 3, pend |-> 2, per |-> 1, tg |-> 1], [mem |-> 1, pend |-> 1, per |-> 1, tg |-> 1]},
       MaxEpoch <- 2, MaxBytes <- 2

Minute == INSTANCE AnalysisMinute
  WITH Users <- {u1, u2}, Known <- {"site", "plain"}, Named <- {"site"}, Unknown <- "unknown",
       MaxKeys <- 3, BatchEntries <- 2, BatchBytes <- 5, UserSize <- 1, DomainSize <- 3,
       MaxFree <- 6, MaxBytes <- 3

Queue == INSTANCE AnalysisQueue
  WITH Costs <- {1, 2}, QueueMax <- 3, Memory <- 3, Burst <- 1, MaxBatches <- 3, MaxEpoch <- 2,
       ses <- qses

Remote == INSTANCE RemoteLog
  WITH Publishers <- {"p1", "p2"}, MaxSeq <- 5, MaxSubs <- 2, Names <- {"a", "b"},
       Lens <- {1, 2, 3}, LineMax <- 2, QueueLines <- 3, QueueBytes <- 4, BatchLines <- 2,
       BatchBytes <- 3, strm <- logStrm

Local == INSTANCE LocalLog
  WITH Threads <- {"t1", "t2"}, MaxWriters <- 2, MaxFiles <- 3, MaxRecords <- 3, Lens <- {1, 2},
       MaxLines <- 2, MaxBytes <- 3, MaxChanges <- 1

Rotating == INSTANCE RotatingFile
  WITH Lens <- {1, 2, 3}, MaxLines <- 5, MaxBytes <- 2, MaxBackups <- 3, MaxKills <- 1,
       MaxFaults <- 1, Absent <- None, op <- rotation

collector == <<ses, flow, op, bud, smp, sum>>
minute == <<free, bkt, born, cut>>
delivery == <<qses, made, queue, mem, str, tokens, counted>>
remote == <<seq, pub, sub, logStrm, out>>
local == <<logger, wr, file, rec, count>>
rotating == <<active, back, rotation, tries, used>>
mcvars == <<part, vars, collector, minute, delivery, remote, local, rotating>>

MCInit ==
  /\ part \in {"packets", "streams", "minute", "queue", "remote", "local", "rotating", "telemetry"}
  /\ IF part = "streams" THEN Streams!Init ELSE Packets!Init
  /\ Minute!Init /\ (part # "minute" => free = 0)
  /\ Queue!Init /\ Remote!Init /\ Local!Init /\ Rotating!Init /\ Init

MCNext ==
  /\ UNCHANGED part
  /\ \/ part = "packets" /\ Packets!Next /\ UNCHANGED <<vars, minute, delivery, remote, local, rotating>>
     \/ part = "streams" /\ Streams!Next /\ UNCHANGED <<vars, minute, delivery, remote, local, rotating>>
     \/ part = "minute" /\ Minute!Next /\ UNCHANGED <<vars, collector, delivery, remote, local, rotating>>
     \/ part = "queue" /\ Queue!Next /\ UNCHANGED <<vars, collector, minute, remote, local, rotating>>
     \/ part = "remote" /\ Remote!Next /\ UNCHANGED <<vars, collector, minute, delivery, local, rotating>>
     \/ part = "local" /\ Local!Next /\ UNCHANGED <<vars, collector, minute, delivery, remote, rotating>>
     \/ part = "rotating" /\ Rotating!Next /\ UNCHANGED <<vars, collector, minute, delivery, remote, local>>
     \/ part = "telemetry" /\ Next /\ UNCHANGED <<collector, minute, delivery, remote, local, rotating>>

MCSpec == MCInit /\ [][MCNext]_mcvars

Symmetry == Permutations({u1, u2})


\* Rows, cost and batches of an analysis minute.
MinuteIsExact == part = "minute" => Minute!MinuteIsExact

\* Every analysis batch is sent or dropped, and counted as one of them once.
CountedOnce == part = "queue" => Queue!CountedOnce

\* Every line published to the live log is sent, counted as dropped or queued.
EveryLineAccounted == part = "remote" => Remote!EveryLineAccounted

\* Every line of the local log is written or counted as dropped, and stays in
\* the rotated files as long as max_backups promises.
LinesAccounted == /\ part = "local" => Local!LinesAccounted
                  /\ part = "rotating" => Rotating!LinesStay
=============================================================================
