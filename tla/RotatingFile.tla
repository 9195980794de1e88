----------------------------- MODULE RotatingFile -----------------------------
(***************************************************************************)
(* The rotating log file: rotation copies the fixed backups upward, copies *)
(* the active file to the first backup and truncates the active file in    *)
(* place.  Every one of these steps may fail, and the process may be       *)
(* killed between any two of them and start again on what it left.         *)
(*                                                                         *)
(* A line is its number and its length; a file is a sequence of lines, or  *)
(* Absent.  "tries" of a line counts the rotations begun since it was      *)
(* written.                                                                *)
(***************************************************************************)
EXTENDS Integers, Sequences, FiniteSets, SequencesExt, FiniteSetsExt, Functions

CONSTANTS Lens, MaxLines,
          MaxBytes,     \* max_bytes
          MaxBackups,   \* max_backups
          MaxKills, MaxFaults,
          Absent

VARIABLES active, back,
          op,      \* the write in progress: place, backup index, its line
          tries,   \* history: rotations begun since a line was written
          used     \* bounds: lines, kills, faults

vars == <<active, back, op, tries, used>>

Backups == 1..MaxBackups
Idle == [pc |-> "idle", i |-> 0, len |-> 0]

Init ==
  /\ active = <<>>
  /\ back = [i \in Backups |-> Absent]
  /\ op = Idle
  /\ tries = <<>>
  /\ used = [lines |-> 0, kills |-> 0, faults |-> 0]

Size(f) == SumFunction([i \in 1..Len(f) |-> f[i].len])

Goto(pc, i) == op' = [op EXCEPT !.pc = pc, !.i = i]
Fault == used.faults < MaxFaults /\ used' = [used EXCEPT !.faults = @ + 1]

-----------------------------------------------------------------------------
MustRotate(size, len) == size > 0 /\ size + len > MaxBytes

WriteBegins(len) ==
  /\ op.pc = "idle" /\ used.lines < MaxLines
  /\ IF MustRotate(Size(active), len)
     THEN /\ op' = [pc |-> IF MaxBackups > 1 THEN "clear" ELSE "first", i |-> MaxBackups, len |-> len]
          /\ tries' = [n \in DOMAIN tries |-> tries[n] + 1]
     ELSE op' = [pc |-> "write", i |-> 0, len |-> len] /\ UNCHANGED tries
  /\ UNCHANGED <<active, back, used>>

After(i) == IF i = 2 THEN <<"first", 1>> ELSE <<"clear", i - 1>>

Cleared(f) == IF f = Absent THEN Absent ELSE <<>>

ShiftClears ==
  /\ op.pc = "clear"
  /\ IF back[op.i - 1] = Absent
     THEN /\ back' = [back EXCEPT ![op.i] = Cleared(@)]
          /\ Goto(After(op.i)[1], After(op.i)[2])
     ELSE /\ back' = [back EXCEPT ![op.i] = <<>>]
          /\ Goto("fill", op.i)
  /\ UNCHANGED <<active, tries, used>>

ShiftFills ==
  /\ op.pc = "fill"
  /\ back' = [back EXCEPT ![op.i] = back[op.i - 1]]
  /\ Goto(After(op.i)[1], After(op.i)[2])
  /\ UNCHANGED <<active, tries, used>>

(* A copy that fails or is interrupted leaves a part of its source.         *)
PartlyCopied ==
  LET source == IF op.pc = "fill" THEN back[op.i - 1] ELSE active
  IN  IF op.pc \in {"fill", "copy"}
      THEN \E k \in 0..Len(source) : back' = [back EXCEPT ![op.i] = SubSeq(source, 1, k)]
      ELSE UNCHANGED back

(* A failing step is remembered as an error and the rotation goes on.       *)
ShiftFails ==
  /\ op.pc \in {"clear", "fill"} /\ Fault
  /\ PartlyCopied
  /\ Goto(After(op.i)[1], After(op.i)[2])
  /\ UNCHANGED <<active, tries>>

(* copy_open_file of the active file into the first backup.                 *)
FirstClears ==
  /\ op.pc = "first"
  /\ IF MaxBackups = 0
     THEN Goto("truncate", 0) /\ UNCHANGED back
     ELSE back' = [back EXCEPT ![1] = <<>>] /\ Goto("copy", 1)
  /\ UNCHANGED <<active, tries, used>>

FirstCopies ==
  /\ op.pc = "copy"
  /\ back' = [back EXCEPT ![1] = active]
  /\ Goto("truncate", 0)
  /\ UNCHANGED <<active, tries, used>>

FirstFails ==
  /\ op.pc \in {"first", "copy"} /\ Fault
  /\ PartlyCopied
  /\ Goto("truncate", 0)
  /\ UNCHANGED <<active, tries>>

(* set_len(0); when that fails the write is refused.                        *)
Truncates ==
  /\ op.pc = "truncate"
  /\ active' = <<>>
  /\ Goto("write", 0)
  /\ UNCHANGED <<back, tries, used>>

TruncateFails ==
  /\ op.pc = "truncate" /\ Fault
  /\ op' = Idle
  /\ UNCHANGED <<active, back, tries>>

WriteEnds ==
  /\ op.pc = "write"
  /\ active' = Append(active, [n |-> used.lines + 1, len |-> op.len])
  /\ tries' = Append(tries, 0)
  /\ used' = [used EXCEPT !.lines = @ + 1]
  /\ op' = Idle
  /\ UNCHANGED back

(* A write that fails or is interrupted leaves a fragment of its line,      *)
(* which counts for the size; it has no number.                             *)
PartlyWritten ==
  \E k \in 0..(op.len - 1) :
    active' = IF k = 0 THEN active ELSE Append(active, [n |-> 0, len |-> k])

WriteFails ==
  /\ op.pc = "write" /\ Fault
  /\ PartlyWritten
  /\ op' = Idle
  /\ UNCHANGED <<back, tries>>

(* The process is killed; open continues with the files as they are.        *)
Killed ==
  /\ op.pc # "idle" /\ used.kills < MaxKills
  /\ IF op.pc = "write" THEN PartlyWritten ELSE UNCHANGED active
  /\ PartlyCopied
  /\ used' = [used EXCEPT !.kills = @ + 1]
  /\ op' = Idle
  /\ UNCHANGED tries

Next ==
  \/ \E len \in Lens : WriteBegins(len)
  \/ ShiftClears \/ ShiftFills \/ ShiftFails \/ FirstClears \/ FirstCopies \/ FirstFails
  \/ Truncates \/ TruncateFails \/ WriteEnds \/ WriteFails \/ Killed

-----------------------------------------------------------------------------
(* prepare_write: the active file never outgrows its limit, except by a     *)
(* single line that is longer than the limit, whatever fails.               *)
ActiveIsBounded == Size(active) <= MaxBytes \/ Len(active) = 1

Contents(f) == IF f = Absent THEN <<>> ELSE f
Numbers(f) == {Contents(f)[i].n : i \in 1..Len(Contents(f))}

(* rotate_locked: when no step fails, a line is in one of the files until   *)
(* more rotations have been begun than there are backups, at every moment   *)
(* of a rotation and wherever the process was killed.                       *)
RecentLinesSurvive ==
  used.faults = 0 =>
    \A n \in DOMAIN tries : tries[n] <= MaxBackups =>
      n \in Numbers(active) \cup UNION {Numbers(back[i]) : i \in Backups}

(* Read from the oldest backup to the active file, the files are the last   *)
(* lines, each once and in order, between two writes when nothing failed.   *)
FilesAreTheTail ==
  used.faults = 0 /\ used.kills = 0 /\ op.pc = "idle" =>
    LET all == FlattenSeq([i \in Backups |-> Contents(back[MaxBackups + 1 - i])]) \o active
    IN  \A i \in 1..Len(all) : all[i].n = used.lines - Len(all) + i

(* Rotation keeps what it promises and no file outgrows its limit.          *)
LinesStay == ActiveIsBounded /\ RecentLinesSurvive /\ FilesAreTheTail

=============================================================================
