------------------------------- MODULE LocalLog -------------------------------
(***************************************************************************)
(* The local log: records of any thread, configure and close of the        *)
(* process logger, the bounded queue of a writer and its output thread,    *)
(* which is the only one that writes, changes and closes log files.        *)
(*                                                                         *)
(* A line carries its number, its length and, as history, the file that    *)
(* was the newest admitted one when it was queued.                         *)
(***************************************************************************)
EXTENDS Integers, Sequences, FiniteSets, SequencesExt, FiniteSetsExt, Functions

CONSTANTS Threads, MaxWriters, MaxFiles, MaxRecords,
          Lens,
          MaxLines, MaxBytes,   \* of the queue
          MaxChanges,           \* MAX_FILE_CHANGES
          None

VARIABLES logger,  \* LoggerState
          wr,      \* the writers with their queues and threads
          file,    \* the log files: none, open, closed
          rec,     \* records being logged: the writer the thread has seen
          count    \* bound: records logged

vars == <<logger, wr, file, rec, count>>

Writers == 1..MaxWriters
Files == 1..MaxFiles
NoWriter == [st |-> "none", cmds |-> <<>>, dropped |-> 0, flush |-> FALSE, closing |-> FALSE,
             file |-> None, newest |-> None, held |-> None, notice |-> 0,
             admitted |-> 0, noticed |-> 0, wrote |-> <<>>]

Init ==
  /\ logger = [writer |-> None, configured |-> FALSE]
  /\ wr = [w \in Writers |-> NoWriter]
  /\ file = [f \in Files |-> "none"]
  /\ rec = [t \in Threads |-> None]
  /\ count = 0

Lines(cmds) == SelectSeq(cmds, LAMBDA c : c.kind = "line")
Bytes(cmds) == SumFunction([i \in 1..Len(cmds) |-> cmds[i].len])
Changes(cmds) == Len(SelectSeq(cmds, LAMBDA c : c.kind = "file"))

-----------------------------------------------------------------------------
(* Log::log clones the writer under the logger lock and queues later.       *)

RecordLooks(t) ==
  /\ rec[t] = None /\ logger.writer # None /\ count < MaxRecords
  /\ rec' = [rec EXCEPT ![t] = logger.writer]
  /\ count' = count + 1
  /\ UNCHANGED <<logger, wr, file>>

Accepting(w) == ~wr[w].closing /\ wr[w].st = "run"

(* LocalWriter::enqueue drops the oldest lines, never a file change.        *)
OldestLine(cmds) ==
  RemoveAt(cmds, Min({i \in 1..Len(cmds) : cmds[i].kind = "line"}))

TooMuch(cmds, len) == Len(Lines(cmds)) >= MaxLines \/ Bytes(cmds) + len > MaxBytes

MadeRoom(cmds, len) ==
  LET drop[n \in 0..Len(Lines(cmds))] == IF n = 0 THEN cmds ELSE OldestLine(drop[n - 1])
      enough == {n \in 0..Len(Lines(cmds)) : ~TooMuch(drop[n], len)}
  IN  drop[Min(enough)]

Queued(w, len) ==
  LET cmds == MadeRoom(w.cmds, len)
      line == [kind |-> "line", n |-> w.admitted + 1, len |-> len, file |-> w.newest]
  IN  [w EXCEPT !.cmds = Append(cmds, line), !.admitted = @ + 1,
                !.dropped = @ + Len(w.cmds) - Len(cmds)]

RecordQueues(t, len) ==
  /\ rec[t] # None
  /\ wr' = IF Accepting(rec[t]) THEN [wr EXCEPT ![rec[t]] = Queued(@, len)] ELSE wr
  /\ rec' = [rec EXCEPT ![t] = None]
  /\ UNCHANGED <<logger, file, count>>

-----------------------------------------------------------------------------
(* configure: the file is opened first; a writer that has not finished      *)
(* takes it over or refuses it, otherwise a new thread starts.              *)

NeedsThread(w) == IF w = None THEN TRUE ELSE wr[w].st = "finished"

Refuses(w) == ~Accepting(w) \/ Changes(wr[w].cmds) >= MaxChanges

Takes(w, f) ==
  [w EXCEPT !.cmds = Append(@, [kind |-> "file", n |-> 0, len |-> 0, file |-> f]), !.newest = f]

Configure(f) ==
  /\ file[f] = "none" /\ \A g \in 1..(f - 1) : file[g] # "none"
  /\ \/ /\ NeedsThread(logger.writer)
        /\ \E w \in Writers :
             /\ wr[w].st = "none" /\ \A v \in 1..(w - 1) : wr[v].st # "none"
             /\ wr' = [wr EXCEPT ![w] = [NoWriter EXCEPT !.st = "run", !.file = f, !.newest = f]]
             /\ logger' = [writer |-> w, configured |-> TRUE]
        /\ file' = [file EXCEPT ![f] = "open"]
     \/ /\ ~NeedsThread(logger.writer) /\ ~Refuses(logger.writer)
        /\ wr' = [wr EXCEPT ![logger.writer] = Takes(@, f)]
        /\ logger' = [logger EXCEPT !.configured = TRUE]
        /\ file' = [file EXCEPT ![f] = "open"]
     \/ /\ ~NeedsThread(logger.writer) /\ Refuses(logger.writer)
        /\ file' = [file EXCEPT ![f] = "closed"]
        /\ UNCHANGED <<wr, logger>>
  /\ UNCHANGED <<rec, count>>

(* close seals the writer and keeps it; the wait for it is bounded and      *)
(* changes nothing.                                                         *)
CloseLogger ==
  /\ logger.configured
  /\ wr' = [wr EXCEPT ![logger.writer].closing = TRUE]
  /\ logger' = [logger EXCEPT !.configured = FALSE]
  /\ UNCHANGED <<file, rec, count>>

RequestFlush ==
  /\ logger.writer # None /\ ~wr[logger.writer].flush
  /\ wr' = [wr EXCEPT ![logger.writer].flush = TRUE]
  /\ UNCHANGED <<logger, file, rec, count>>

-----------------------------------------------------------------------------
(* run_writer: takes a command and the count of dropped lines under the     *)
(* lock, works on them without it.                                          *)

HasWork(w) == w.cmds # <<>> \/ w.closing \/ w.flush

Nothing == [kind |-> "none", n |-> 0, len |-> 0, file |-> None]

EndsAtOnce(w) ==
  IF w.closing THEN [Nothing EXCEPT !.kind = "end"]
  ELSE IF w.cmds = <<>> THEN Nothing ELSE Head(w.cmds)

NextCommand(w) ==
  IF w.cmds # <<>> THEN Head(w.cmds)
  ELSE [Nothing EXCEPT !.kind = IF w.closing THEN "end" ELSE "none"]

TakesCommand(w) ==
  /\ wr[w].st = "run" /\ wr[w].held = None /\ HasWork(wr[w])
  /\ wr' = [wr EXCEPT ![w].held = NextCommand(wr[w]),
                      ![w].cmds = IF @ = <<>> THEN @ ELSE Tail(@),
                      ![w].notice = wr[w].dropped, ![w].dropped = 0,
                      ![w].flush = IF wr[w].cmds = <<>> THEN FALSE ELSE @]
  /\ UNCHANGED <<logger, file, rec, count>>

Done(w) == [w EXCEPT !.held = None, !.noticed = @ + w.notice, !.notice = 0]

WritesLine(w) ==
  /\ wr[w].held # None /\ wr[w].held.kind = "line"
  /\ wr' = [wr EXCEPT ![w] = [Done(@) EXCEPT !.wrote =
                                Append(@, [n |-> wr[w].held.n, due |-> wr[w].held.file,
                                           file |-> wr[w].file])]]
  /\ UNCHANGED <<logger, file, rec, count>>

ChangesFile(w) ==
  /\ wr[w].held # None /\ wr[w].held.kind = "file"
  /\ wr' = [wr EXCEPT ![w] = [Done(@) EXCEPT !.file = wr[w].held.file]]
  /\ file' = [file EXCEPT ![wr[w].file] = "closed"]
  /\ UNCHANGED <<logger, rec, count>>

FlushesOutput(w) ==
  /\ wr[w].held # None /\ wr[w].held.kind = "none"
  /\ wr' = [wr EXCEPT ![w] = Done(@)]
  /\ UNCHANGED <<logger, file, rec, count>>

FilesOf(cmds) == {cmds[i].file : i \in {j \in 1..Len(cmds) : cmds[j].kind = "file"}}

ClosesAll(w) ==
  {wr[w].file} \cup FilesOf(wr[w].cmds)
  \cup (IF wr[w].held # None /\ wr[w].held.kind = "file" THEN {wr[w].held.file} ELSE {})

Ends(w) ==
  /\ file' = [f \in Files |-> IF f \in ClosesAll(w) THEN "closed" ELSE file[f]]
  /\ UNCHANGED <<logger, rec, count>>

WriterEnds(w) ==
  /\ wr[w].held # None /\ wr[w].held.kind = "end"
  /\ wr' = [wr EXCEPT ![w] = [Done(@) EXCEPT !.st = "finished", !.closing = TRUE]]
  /\ Ends(w)

WriterUnwinds(w) ==
  /\ wr[w].st = "run" /\ wr[w].held # None
  /\ wr' = [wr EXCEPT ![w].st = "finished", ![w].closing = TRUE, ![w].cmds = <<>>,
                      ![w].held = [Nothing EXCEPT !.kind = "panic"]]
  /\ Ends(w)

ThreadStep(w) ==
  TakesCommand(w) \/ WritesLine(w) \/ ChangesFile(w) \/ FlushesOutput(w) \/ WriterEnds(w)

Next ==
  \/ \E t \in Threads : RecordLooks(t) \/ (\E len \in Lens : RecordQueues(t, len))
  \/ \E f \in Files : Configure(f)
  \/ CloseLogger \/ RequestFlush
  \/ \E w \in Writers : ThreadStep(w) \/ WriterUnwinds(w)

-----------------------------------------------------------------------------
(* configure, LocalWriter: reconfiguring and closing never leaves more than *)
(* one output thread, however long one is stalled.                          *)
OneThread == Cardinality({w \in Writers : wr[w].st = "run"}) <= 1

(* WorkerFile, WorkerResources: a log file that is open belongs to the      *)
(* thread that will close it; a finished thread has left none open.         *)
OpenFilesHaveOwner ==
  \A f \in Files : file[f] = "open" =>
    \E w \in Writers :
      /\ wr[w].st = "run"
      /\ \/ f = wr[w].file
         \/ \E i \in 1..Len(wr[w].cmds) : wr[w].cmds[i].kind = "file" /\ wr[w].cmds[i].file = f
         \/ wr[w].held # None /\ wr[w].held.kind = "file" /\ wr[w].held.file = f

(* enqueue, run_writer, replace_file: the lines a writer has admitted are   *)
(* written in order, to the file that was configured when they were queued, *)
(* or reported as dropped; when the writer has ended they all are.          *)
LinesAccounted ==
  /\ OneThread /\ OpenFilesHaveOwner
  /\ \A w \in Writers :
       /\ Len(Lines(wr[w].cmds)) <= MaxLines /\ Bytes(wr[w].cmds) <= MaxBytes
       /\ Changes(wr[w].cmds) <= MaxChanges
       /\ \A i \in 1..Len(wr[w].wrote) : wr[w].wrote[i].due = wr[w].wrote[i].file
       /\ wr[w].held = None \/ wr[w].held.kind # "panic" =>
            /\ \A i, j \in 1..Len(wr[w].wrote) : i < j => wr[w].wrote[i].n < wr[w].wrote[j].n
            /\ wr[w].admitted = Len(wr[w].wrote) + wr[w].noticed + wr[w].notice + wr[w].dropped
                                + Len(Lines(wr[w].cmds))
                                + (IF wr[w].held # None /\ wr[w].held.kind = "line" THEN 1 ELSE 0)
            /\ wr[w].st = "finished" => wr[w].admitted = Len(wr[w].wrote) + wr[w].noticed

=============================================================================
