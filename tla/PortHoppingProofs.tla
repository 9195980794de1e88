--------------------------- MODULE PortHoppingProofs ---------------------------
(***************************************************************************)
(* Proofs about PortHopping, for every set of plans and any number of      *)
(* failures, crashes and changes by other programs: what apply answers is  *)
(* true, and its batches touch only what is provably the agent's own.      *)
(***************************************************************************)
EXTENDS PortHopping, TLAPS

USE PortHoppingAssumption

-----------------------------------------------------------------------------
(* The inductive invariant. *)

Known == Plans \cup {Empty}
Modes == {"inet", "split", "unknown"}
Snapshot == [tables : SUBSET Family, mode : Modes, complete : BOOLEAN, plan : Known]
CallRecord == [pc : {"idle", "look", "execute", "verify", "retry"}, plan : Known,
               cur : Snapshot \cup {Empty}, mode : Modes, fallback : BOOLEAN, closing : BOOLEAN,
               moved : SUBSET Family, error : {"none", "lost", "cap", "other"}]
Results == {"ok", "error", "unsupported", "uncertain"}
BackendRecord == [managed : BOOLEAN, mode : Modes]
GhostRecord == [held : BOOLEAN, commits : Nat, raced : BOOLEAN, blind : BOOLEAN,
                result : Results \cup {"none"}, mine : SUBSET Family]

TypeOK ==
    /\ table \in [Family -> {NoTable} \cup [ours : BOOLEAN, plan : Known]]
    /\ lacking \subseteq {"inet"} /\ nat \subseteq Family /\ lacking \cap nat = {} /\ ext \subseteq Plans
    /\ backend \in BackendRecord
    /\ closed \in BOOLEAN /\ want \in Known /\ faults \in 0 .. MaxFaults
    /\ call \in CallRecord /\ ghost \in GhostRecord

\* The kernel holds our tables only where it accepts NAT rules, so a look sees
\* every one of them.
OursAreListable == \A f \in Family : table[f] # NoTable /\ table[f].ours => f \in nat

\* A backend that does not manage anything has nothing in the kernel.
MineAreManaged ==
    /\ \A f \in ghost.mine : f \in nat /\ table[f] # NoTable
    /\ ghost.mine # {} => backend.managed

\* Between the look and the batch: a table that was seen and not touched since is
\* ours, and one of ours that was not seen was put there since.
BatchIsOurs ==
    call.pc = "execute" =>
        /\ call.cur \in Snapshot /\ call.mode \in {"inet", "split"}
        /\ \A f \in call.cur.tables \ call.moved : table[f] # NoTable /\ table[f].ours
        /\ \A f \in Family : table[f] # NoTable /\ table[f].ours => f \in call.cur.tables \cup call.moved
        /\ ghost.mine \subseteq call.cur.tables
        /\ ~ghost.raced => Tables = call.cur.tables

\* Only a batch whose answer got lost can have taken effect before the call ends, and a
\* call in progress has not been answered blindly.
OnlyLostCommits ==
    /\ call.pc # "idle" => ~ghost.blind
    /\ call.pc \in {"look", "execute", "retry"} => ghost.commits = 0
    /\ call.pc = "verify" /\ call.error # "lost" => ghost.commits = 0

IInv == TypeOK /\ OursAreListable /\ MineAreManaged /\ BatchIsOurs /\ OnlyLostCommits

-----------------------------------------------------------------------------
(* Looks at the kernel. *)

\* What inspect_snapshot returns, and that a complete snapshot names the one plan
\* and the representation of the tables it saw.
LEMMA InspectedShape ==
    ASSUME TypeOK
    PROVE  /\ Inspected \in Snapshot /\ Inspected.tables = Tables
           /\ Inspected.complete =>
                 /\ \/ Tables = {"inet"} /\ Inspected.mode = "inet"
                    \/ Tables = {"ip", "ip6"} /\ Inspected.mode = "split"
                 /\ \A f \in Tables : table[f].plan = Inspected.plan
<1> DEFINE mode == IF Tables = {"inet"} THEN "inet"
                   ELSE IF Tables # {} /\ Tables \subseteq {"ip", "ip6"} THEN "split" ELSE "unknown"
           complete == Consistent /\ (Tables = {"inet"} \/ Tables = {"ip", "ip6"})
           some == CHOOSE f \in Tables : TRUE
           plan == IF Tables # {} /\ Consistent THEN table[some].plan ELSE Empty
<1>1. Tables \subseteq Family /\ \A f \in Tables : table[f] \in [ours : BOOLEAN, plan : Known]
  BY DEF TypeOK, Tables, Listed
<1>2. Tables # {} => some \in Tables
  OBVIOUS
<1>3. plan \in Known /\ mode \in Modes
  BY <1>1, <1>2 DEF Known, Modes
<1>4. complete \in BOOLEAN
  BY Zenon DEF Consistent
<1>5. Inspected = [tables |-> Tables, mode |-> mode, complete |-> complete, plan |-> plan]
  BY DEF Inspected
<1>6. complete => /\ \/ Tables = {"inet"} /\ mode = "inet"
                     \/ Tables = {"ip", "ip6"} /\ mode = "split"
                  /\ \A f \in Tables : table[f].plan = plan
  BY <1>2 DEF Consistent
<1> HIDE DEF mode, complete, plan
<1> QED
  BY <1>1, <1>3, <1>4, <1>5, <1>6 DEF Snapshot

\* state_matches: a kernel in which every table is ours, and which matches a plan,
\* carries exactly that plan.
LEMMA MatchingCarries ==
    ASSUME TypeOK, ~Ambiguous, NEW p \in Known, NEW m, Matches(Inspected, m, p)
    PROVE  Carries(p)
<1>1. CASE p = Empty
  BY <1>1, InspectedShape DEF Matches, Carries, Carrying, Tables
<1>2. CASE p # Empty
  <2>1. Inspected.complete /\ Inspected.plan = p
    BY <1>2 DEF Matches
  <2>2. \A f \in Tables : table[f] \in [ours : BOOLEAN, plan : Known] /\ table[f].ours
    BY DEF Ambiguous, TypeOK, Tables, Listed
  <2>3. \A f \in Tables : table[f] = [ours |-> TRUE, plan |-> p]
    BY <2>1, <2>2, InspectedShape
  <2>4. Tables \in {{"inet"}, {"ip", "ip6"}}
    BY <2>1, InspectedShape
  <2> QED
    BY <1>2, <2>3, <2>4 DEF Carries, Carrying, Tables
<1> QED
  BY <1>1, <1>2

\* select_mode always finds a representation to write.
LEMMA SelectShape ==
    ASSUME TypeOK
    PROVE  SelectMode(Inspected) \in {"inet", "split"}
  BY InspectedShape DEF SelectMode, TypeOK, BackendRecord, Modes, Snapshot

\* What the backend remembers of a look.
LEMMA SeenShape ==
    ASSUME TypeOK
    PROVE  /\ Seen(Inspected) \in BackendRecord
           /\ Seen(Inspected).managed = (backend.managed \/ Tables # {})
<1>1. Inspected \in Snapshot /\ Inspected.tables = Tables
  BY InspectedShape
<1>2. backend.managed \in BOOLEAN /\ backend.mode \in Modes /\ Inspected.mode \in Modes
  BY <1>1 DEF TypeOK, BackendRecord, Snapshot
<1>3. (backend.managed \/ Tables # {}) \in BOOLEAN
  BY Zenon
<1> QED
  BY <1>1, <1>2, <1>3 DEF Seen, BackendRecord

-----------------------------------------------------------------------------
(* The ways a step of a call can end. *)

\* A call that returns leaves the kernel alone and no batch behind.
LEMMA ReturnInv ==
    ASSUME IInv, NEW r \in Results, NEW b \in BOOLEAN, Return(r, b), UNCHANGED <<kernel, want>>,
           faults' \in 0 .. MaxFaults, backend' \in BackendRecord,
           ghost.mine # {} => backend'.managed
    PROVE  IInv'
<1> USE DEF IInv
<1>1. call' = Idle /\ Idle.pc = "idle" /\ Idle \in CallRecord
  BY DEF Return, Idle, CallRecord, Known, Modes
<1>2. ghost' \in GhostRecord /\ ghost'.mine = ghost.mine
  BY DEF Return, TypeOK, GhostRecord
<1>3. closed' \in BOOLEAN
  BY Zenon DEF Return
<1>4. TypeOK'
  BY <1>1, <1>2, <1>3 DEF TypeOK, kernel
<1>5. OursAreListable'
  BY DEF OursAreListable, kernel
<1>6. MineAreManaged'
  BY <1>2 DEF MineAreManaged, kernel
<1>7. BatchIsOurs' /\ OnlyLostCommits'
  BY <1>1 DEF BatchIsOurs, OnlyLostCommits
<1> QED
  BY <1>4, <1>5, <1>6, <1>7

\* A batch is submitted after a look that saw only tables of ours.
LEMMA SubmitInv ==
    ASSUME IInv, ~Ambiguous, call.pc \in {"look", "retry"}, NEW m \in {"inet", "split"},
           NEW b \in BOOLEAN, Submit(Inspected, m, b), UNCHANGED <<kernel, want>>,
           faults' \in 0 .. MaxFaults, backend' \in BackendRecord,
           ghost.mine # {} => backend'.managed
    PROVE  IInv'
<1> USE DEF IInv
<1>1. Inspected \in Snapshot /\ Inspected.tables = Tables
  BY InspectedShape
<1>2. /\ call' \in CallRecord /\ call'.pc = "execute" /\ call'.cur = Inspected /\ call'.mode = m
      /\ call'.moved = {}
  BY <1>1 DEF Submit, TypeOK, CallRecord, Modes
<1>3. /\ ghost' \in GhostRecord /\ ghost'.mine = ghost.mine /\ ghost'.commits = ghost.commits
      /\ ghost'.blind = ghost.blind /\ UNCHANGED closed
  BY DEF Submit, TypeOK, GhostRecord
<1>4. TypeOK'
  BY <1>2, <1>3 DEF TypeOK, kernel
<1>5. OursAreListable'
  BY DEF OursAreListable, kernel
<1>6. MineAreManaged'
  BY <1>3 DEF MineAreManaged, kernel
<1>7. OnlyLostCommits'
  BY <1>2, <1>3 DEF OnlyLostCommits
<1>8. \A f \in Tables : f \in Family /\ table[f] # NoTable /\ table[f].ours
  BY DEF Ambiguous, Tables, Listed
<1>9. \A f \in Family : table[f] # NoTable /\ table[f].ours => f \in Tables
  BY DEF TypeOK, OursAreListable, Tables, Listed
<1>10. ghost.mine \subseteq Tables
  BY DEF TypeOK, GhostRecord, MineAreManaged, Tables, Listed
<1>11. Tables' = Tables
  BY DEF Tables, Listed, kernel
<1>12. BatchIsOurs'
  BY <1>1, <1>2, <1>3, <1>8, <1>9, <1>10, <1>11 DEF BatchIsOurs, kernel
<1> QED
  BY <1>4, <1>5, <1>6, <1>7, <1>12

\* A batch that failed is followed by a look, with the backend as managing whatever
\* the batch was about.
LEMMA AskInv ==
    ASSUME IInv, call.pc = "execute", NEW e \in {"lost", "cap", "other"}, Ask(e),
           UNCHANGED <<kernel, want, ghost>>, faults' \in 0 .. MaxFaults
    PROVE  IInv'
<1> USE DEF IInv
<1>1. call' \in CallRecord /\ call'.pc = "verify" /\ call'.error = e
  BY DEF Ask, TypeOK, CallRecord
<1>2. backend' \in BackendRecord /\ (call.cur.tables # {} => backend'.managed)
  <2>1. (call.cur.tables # {} \/ call.plan # Empty) \in BOOLEAN
    BY Zenon
  <2> QED
    BY <2>1 DEF Ask, Trying, TypeOK, BackendRecord
<1>3. UNCHANGED closed
  BY DEF Ask
<1>4. TypeOK'
  BY <1>1, <1>2, <1>3 DEF TypeOK, kernel
<1>5. OursAreListable'
  BY DEF OursAreListable, kernel
<1>6. ghost.mine # {} => call.cur.tables # {}
  BY DEF BatchIsOurs
<1>7. MineAreManaged'
  BY <1>2, <1>6 DEF MineAreManaged, kernel
<1>8. BatchIsOurs' /\ OnlyLostCommits'
  BY <1>1 DEF BatchIsOurs, OnlyLostCommits
<1> QED
  BY <1>4, <1>5, <1>7, <1>8

-----------------------------------------------------------------------------
(* The batch. *)

\* Where a batch that takes effect puts the plan.
LEMMA CreateShape ==
    ASSUME IInv, call.pc = "execute", Accepted(call.plan, call.mode)
    PROVE  /\ Create(call.plan, call.mode) \subseteq nat
           /\ call.plan = Empty => Create(call.plan, call.mode) = {}
           /\ call.plan # Empty => Create(call.plan, call.mode) \in {{"inet"}, {"ip", "ip6"}}
  BY DEF IInv, BatchIsOurs, Accepted, Create, Families

\* The kernel after it: the plan where it was written, nothing where a table was only
\* deleted, and everything else as it was.
LEMMA CommittedShape ==
    ASSUME IInv, call.pc = "execute", Accepted(call.plan, call.mode),
           Committed(call.plan, call.mode)
    PROVE  /\ table' \in [Family -> {NoTable} \cup [ours : BOOLEAN, plan : Known]]
           /\ \A f \in Create(call.plan, call.mode) :
                 table'[f] = [ours |-> TRUE, plan |-> call.plan] /\ table'[f] # NoTable
           /\ \A f \in Family \ Create(call.plan, call.mode) :
                 table'[f] = IF f \in call.cur.tables THEN NoTable ELSE table[f]
<1> DEFINE C == Create(call.plan, call.mode)
           t == [ours |-> TRUE, plan |-> call.plan]
<1>1. C \subseteq Family
  BY CreateShape DEF IInv, TypeOK
<1>2. t \in [ours : BOOLEAN, plan : Known] /\ t # NoTable
  <2>1. call.plan \in Known
    BY DEF IInv, TypeOK, CallRecord
  <2>2. t \in [ours : BOOLEAN, plan : Known]
    BY <2>1
  <2> HIDE DEF t
  <2>3. NoTable \notin [ours : BOOLEAN, plan : Known]
    BY DEF Known
  <2> QED
    BY <2>2, <2>3
<1>3. table' = [f \in Family |-> IF f \in C THEN t
                                 ELSE IF f \in call.cur.tables THEN NoTable ELSE table[f]]
  BY DEF Committed, Deleted
<1> HIDE DEF C, t
<1>4. table' \in [Family -> {NoTable} \cup [ours : BOOLEAN, plan : Known]]
  BY <1>2, <1>3 DEF IInv, TypeOK
<1>5. /\ \A f \in C : table'[f] = t /\ table'[f] # NoTable
      /\ \A f \in Family \ C : table'[f] = IF f \in call.cur.tables THEN NoTable ELSE table[f]
  BY <1>1, <1>2, <1>3
<1> QED
  BY <1>4, <1>5 DEF C, t

\* A batch that nobody raced leaves exactly the plan in the kernel.
LEMMA CommittedCarries ==
    ASSUME IInv, call.pc = "execute", Accepted(call.plan, call.mode),
           Committed(call.plan, call.mode), ~ghost.raced
    PROVE  Carrying(table', call.plan)
<1> DEFINE C == Create(call.plan, call.mode)
<1>1. C \subseteq nat /\ C \subseteq Family /\ C \cap lacking = {}
  BY CreateShape DEF IInv, TypeOK
<1>2. \A f \in Family \ lacking : table[f] # NoTable <=> f \in call.cur.tables
  BY DEF IInv, BatchIsOurs, Tables, Listed
<1>3. \A f \in Family \ lacking : table'[f] # NoTable <=> f \in C
  BY <1>2, CommittedShape
<1>4. Listed(table') = C
  BY <1>1, <1>3 DEF Listed
<1> QED
  BY <1>4, CreateShape, CommittedShape DEF Carrying

\* The table of another program survives a batch: a delete names the handle of a
\* table that was proved ours, and a create fails where a table exists.
LEMMA CommittedSpares ==
    ASSUME IInv, call.pc = "execute", Accepted(call.plan, call.mode),
           Committed(call.plan, call.mode),
           NEW f \in Family, table[f] # NoTable, ~table[f].ours
    PROVE  table'[f] = table[f]
<1>1. f \notin call.cur.tables
  BY DEF IInv, BatchIsOurs, Accepted, Deleted, Deletable
<1>2. f \notin Create(call.plan, call.mode)
  BY <1>1 DEF Accepted, Deleted
<1> QED
  BY <1>1, <1>2, CommittedShape

\* Without a change by others since the look, all tables of ours are those of the plan.
LEMMA CommittedOurs ==
    ASSUME IInv, call.pc = "execute", Accepted(call.plan, call.mode),
           Committed(call.plan, call.mode), call.moved = {}
    PROVE  Ours' \subseteq Create(call.plan, call.mode)
<1> SUFFICES ASSUME NEW f \in Family, table'[f] # NoTable, table'[f].ours,
                    f \notin Create(call.plan, call.mode)
             PROVE  FALSE
  BY DEF Ours
<1>1. table'[f] = table[f] /\ f \notin call.cur.tables
  BY CommittedShape
<1> QED
  BY <1>1 DEF IInv, BatchIsOurs

\* ExecuteCommits: the tables the process put into the kernel are those of the plan.
LEMMA CommitsInv ==
    ASSUME IInv, ExecuteCommits
    PROVE  IInv'
<1> USE DEF IInv
<1> DEFINE C == Create(call.plan, call.mode)
<1>0. /\ call.pc = "execute" /\ Accepted(call.plan, call.mode) /\ Committed(call.plan, call.mode)
      /\ UNCHANGED <<lacking, nat, ext, want>>
  BY DEF ExecuteCommits
<1>1. C \subseteq nat /\ C \subseteq Family /\ (C # {} => call.plan # Empty)
  BY <1>0, CreateShape DEF TypeOK
<1>2. /\ ghost' \in GhostRecord /\ ghost'.mine = (ghost.mine \ call.cur.tables) \cup C
      /\ ghost'.blind = ghost.blind
  <2> DEFINE h == (ghost.held \/ Carrying(table', call.plan))
  <2>1. h \in BOOLEAN
    BY Zenon
  <2>2. ghost \in GhostRecord /\ ghost.commits + 1 \in Nat
    BY DEF TypeOK, GhostRecord
  <2>3. (ghost.mine \ call.cur.tables) \cup C \in SUBSET Family
    BY <1>1, <2>2 DEF GhostRecord
  <2> DEFINE after == [ghost EXCEPT !.held = h, !.commits = ghost.commits + 1,
                                    !.mine = (ghost.mine \ call.cur.tables) \cup C]
  <2>4. ghost' = after \/ ghost' = [after EXCEPT !.result = "ok"]
    BY DEF ExecuteCommits, Deleted
  <2> HIDE DEF h, C
  <2>5. /\ after \in GhostRecord /\ after.mine = (ghost.mine \ call.cur.tables) \cup C
        /\ after.blind = ghost.blind
    BY <2>1, <2>2, <2>3 DEF GhostRecord
  <2> HIDE DEF after
  <2> QED
    BY <2>4, <2>5 DEF GhostRecord, Results
<1>3. ghost'.mine = C
  BY <1>0, <1>2 DEF BatchIsOurs
<1>4. /\ faults' \in 0 .. MaxFaults /\ closed' \in BOOLEAN
      /\ call' \in CallRecord /\ call'.pc # "execute"
      /\ call'.pc \in {"look", "retry"} => FALSE
      /\ call'.pc = "verify" => call'.error = "lost"
  <2>1. CASE call' = Idle /\ closed' = (closed \/ call.closing) /\ UNCHANGED faults
    <3>1. closed' \in BOOLEAN
      BY <2>1, Zenon
    <3>2. Idle.pc = "idle" /\ Idle \in CallRecord
      BY DEF Idle, CallRecord, Known, Modes
    <3> QED
      BY <2>1, <3>1, <3>2 DEF TypeOK
  <2>2. CASE faults < MaxFaults /\ faults' = faults + 1 /\ Ask("lost")
    <3>1. call' \in CallRecord /\ call'.pc = "verify" /\ call'.error = "lost"
      BY <2>2 DEF Ask, TypeOK, CallRecord
    <3>2. faults' \in 0 .. MaxFaults
      BY <2>2 DEF TypeOK
    <3>3. closed' \in BOOLEAN
      BY <2>2 DEF Ask, TypeOK
    <3> QED
      BY <3>1, <3>2, <3>3
  <2> QED
    BY <2>1, <2>2 DEF ExecuteCommits
<1>5. backend' \in BackendRecord /\ (call.plan # Empty => backend'.managed)
  <2>1. CASE backend' = Applied
    BY <2>1 DEF Applied, TypeOK, BackendRecord, CallRecord
  <2>2. CASE backend' = Trying
    <3>1. (call.cur.tables # {} \/ call.plan # Empty) \in BOOLEAN
      BY Zenon
    <3> QED
      BY <2>2, <3>1 DEF Trying, TypeOK, BackendRecord
  <2> QED
    BY <2>1, <2>2 DEF ExecuteCommits, Ask
<1>6. TypeOK'
  BY <1>0, <1>2, <1>4, <1>5, CommittedShape DEF TypeOK
<1>7. OursAreListable'
  BY <1>0, <1>1, CommittedShape DEF OursAreListable
<1>8. MineAreManaged'
  BY <1>0, <1>1, <1>3, <1>5, CommittedShape DEF MineAreManaged
<1>9. BatchIsOurs' /\ OnlyLostCommits'
  BY <1>0, <1>2, <1>4 DEF BatchIsOurs, OnlyLostCommits
<1> QED
  BY <1>6, <1>7, <1>8, <1>9

-----------------------------------------------------------------------------
(* The other steps of a call. *)

\* Start: a call begins with a look.
LEMMA StartInv ==
    ASSUME IInv, NEW p \in Known, NEW b \in BOOLEAN, Start(p, b)
    PROVE  IInv'
<1> USE DEF IInv
<1>1. call' \in CallRecord /\ call'.pc = "look"
  BY DEF Start, Idle, CallRecord, Modes, Known
<1>2. ghost' \in GhostRecord /\ ghost'.mine = ghost.mine /\ ghost'.commits = 0 /\ ghost'.blind = FALSE
  BY DEF Start, NoGhost, TypeOK, GhostRecord
<1>3. UNCHANGED <<kernel, backend, closed, faults>> /\ want' = p
  BY DEF Start
<1>4. TypeOK'
  BY <1>1, <1>2, <1>3 DEF TypeOK, kernel
<1>5. OursAreListable' /\ MineAreManaged'
  BY <1>2, <1>3 DEF OursAreListable, MineAreManaged, kernel
<1>6. BatchIsOurs' /\ OnlyLostCommits'
  BY <1>1, <1>2 DEF BatchIsOurs, OnlyLostCommits
<1> QED
  BY <1>4, <1>5, <1>6

\* LookFails: nothing is known and nothing is changed.
LEMMA LookFailsInv ==
    ASSUME IInv, NEW o \in BOOLEAN, NEW e, LookFails(o, e)
    PROVE  IInv'
<1>1. UNCHANGED <<kernel, backend, want>> /\ faults' \in 0 .. MaxFaults
  BY DEF IInv, TypeOK, LookFails
<1>2. \E r \in Results, b \in BOOLEAN : Return(r, b)
  BY DEF LookFails, Results
<1>3. backend' \in BackendRecord /\ (ghost.mine # {} => backend'.managed)
  BY <1>1 DEF IInv, TypeOK, MineAreManaged
<1> QED
  BY <1>1, <1>2, <1>3, ReturnInv

\* Look: it returns at once, or a batch follows.
LEMMA LookInv ==
    ASSUME IInv, Look
    PROVE  IInv'
<1>0. TypeOK /\ call.pc = "look" /\ UNCHANGED <<kernel, want>> /\ faults' \in 0 .. MaxFaults
  BY DEF IInv, TypeOK, Look
<1>1. \/ UNCHANGED backend
      \/ backend' = Seen(Inspected)
  BY DEF Look
<1>2. backend' \in BackendRecord /\ (ghost.mine # {} => backend'.managed)
  BY <1>0, <1>1, SeenShape DEF IInv, TypeOK, MineAreManaged
<1>3. CASE \E r \in Results : Return(r, FALSE)
  BY <1>0, <1>2, <1>3, ReturnInv
<1>4. CASE /\ ~Ambiguous
           /\ Submit(Inspected, SelectMode(Inspected),
                     Fallback(Inspected, Seen(Inspected), SelectMode(Inspected)))
  <2>1. Fallback(Inspected, Seen(Inspected), SelectMode(Inspected)) \in BOOLEAN
    BY Zenon DEF Fallback
  <2>2. SelectMode(Inspected) \in {"inet", "split"}
    BY <1>0, SelectShape
  <2> QED
    BY <1>0, <1>2, <1>4, <2>1, <2>2, SubmitInv
<1> QED
  BY <1>3, <1>4 DEF Look, Results

\* ExecuteFails: the kernel is as it was.
LEMMA FailsInv ==
    ASSUME IInv, ExecuteFails
    PROVE  IInv'
<1>1. call.pc = "execute" /\ UNCHANGED <<kernel, want, ghost>> /\ faults' \in 0 .. MaxFaults
  BY DEF IInv, TypeOK, ExecuteFails
<1>2. \E e \in {"lost", "cap", "other"} : Ask(e)
  BY DEF ExecuteFails
<1> QED
  BY <1>1, <1>2, AskInv

\* Verify: a kernel that is known to be clean holds nothing of this process, so
\* the backend may forget that it manages it.
LEMMA VerifyInv ==
    ASSUME IInv, NEW b \in BOOLEAN, Verify(b)
    PROVE  IInv'
<1>0. /\ TypeOK /\ call.pc = "verify" /\ UNCHANGED <<kernel, want>> /\ faults' \in 0 .. MaxFaults
  BY DEF IInv, TypeOK, Verify
<1>1. ghost.mine \subseteq Tables
  BY DEF IInv, TypeOK, GhostRecord, MineAreManaged, Tables, Listed
<1>2. CASE /\ Matches(Inspected, call.mode, call.plan)
           /\ Return("ok", FALSE) /\ backend' = Applied
  <2>1. backend' \in BackendRecord /\ (call.plan # Empty => backend'.managed)
    BY <1>0, <1>2 DEF Applied, TypeOK, BackendRecord, CallRecord
  <2>2. call.plan = Empty => Tables = {}
    BY <1>0, <1>2, InspectedShape DEF Matches
  <2>3. ghost.mine # {} => backend'.managed
    BY <1>1, <2>1, <2>2
  <2> QED
    BY <1>0, <1>2, <2>1, <2>3, ReturnInv DEF Results
<1>3. CASE /\ call.error = "cap" /\ Tables = {}
           /\ backend' = [backend EXCEPT !.managed = FALSE]
           /\ \/ Return("unsupported", FALSE)
              \/ call' = [call EXCEPT !.pc = "retry"] /\ UNCHANGED <<ghost, closed>>
  <2>1. backend' \in BackendRecord /\ ghost.mine = {}
    BY <1>0, <1>1, <1>3 DEF TypeOK, BackendRecord
  <2>2. CASE Return("unsupported", FALSE)
    BY <1>0, <2>1, <2>2, ReturnInv DEF Results
  <2>3. CASE call' = [call EXCEPT !.pc = "retry"] /\ UNCHANGED <<ghost, closed>>
    <3>1. call' \in CallRecord /\ call'.pc = "retry"
      BY <1>0, <2>3 DEF TypeOK, CallRecord
    <3>2. TypeOK'
      BY <1>0, <2>1, <2>3, <3>1 DEF TypeOK, kernel
    <3>3. OursAreListable' /\ MineAreManaged'
      BY <1>0, <2>1, <2>3 DEF IInv, OursAreListable, MineAreManaged, kernel
    <3>4. BatchIsOurs' /\ OnlyLostCommits'
      BY <1>0, <1>3, <2>3, <3>1 DEF IInv, BatchIsOurs, OnlyLostCommits
    <3> QED
      BY <3>2, <3>3, <3>4 DEF IInv
  <2> QED
    BY <1>3, <2>2, <2>3
<1>4. CASE Return(Doubt, FALSE) /\ UNCHANGED backend
  BY <1>0, <1>4, ReturnInv DEF IInv, TypeOK, MineAreManaged, Doubt, Results
<1> QED
  BY <1>2, <1>3, <1>4 DEF Verify

\* Retry: it returns, or the other representation follows on a clean kernel.
LEMMA RetryInv ==
    ASSUME IInv, NEW b \in BOOLEAN, Retry(b)
    PROVE  IInv'
<1>0. /\ TypeOK /\ call.pc = "retry" /\ UNCHANGED <<kernel, want>> /\ faults' \in 0 .. MaxFaults
  BY DEF IInv, TypeOK, Retry
<1>1. CASE Return("ok", FALSE) /\ backend' = [managed |-> TRUE, mode |-> "inet"]
  <2>1. backend' \in BackendRecord /\ backend'.managed
    BY <1>1 DEF BackendRecord, Modes
  <2> QED
    BY <1>0, <1>1, <2>1, ReturnInv DEF Results
<1>2. UNCHANGED backend => backend' \in BackendRecord /\ (ghost.mine # {} => backend'.managed)
  BY DEF IInv, TypeOK, MineAreManaged
<1>3. CASE Return("error", FALSE) /\ UNCHANGED backend
  BY <1>0, <1>2, <1>3, ReturnInv DEF Results
<1>4. CASE Tables = {} /\ Submit(Inspected, "split", FALSE) /\ UNCHANGED backend
  <2>1. ~Ambiguous
    BY <1>4 DEF Ambiguous
  <2> QED
    BY <1>0, <1>2, <1>4, <2>1, SubmitInv
<1> QED
  BY <1>1, <1>3, <1>4 DEF Retry

-----------------------------------------------------------------------------
(* The environment. *)

\* Foreign: what another program changes is marked as moved, and nothing of what it
\* changed is the process's own any more.
LEMMA ForeignInv ==
    ASSUME IInv, Foreign
    PROVE  IInv'
<1> USE DEF IInv
<1>0. UNCHANGED <<nat, backend, closed, want>> /\ faults' \in 0 .. MaxFaults
  BY DEF Foreign, Fault, TypeOK
<1>1. /\ ghost' \in GhostRecord /\ ghost'.commits = ghost.commits /\ ghost'.blind = ghost.blind
      /\ ghost'.mine = {f \in ghost.mine : table'[f] = table[f]}
      /\ call.pc = "execute" /\ ~ghost'.raced =>
            ~ghost.raced /\ table' = table /\ lacking' = lacking
  <2> DEFINE h == ghost.held \/ Carries(call.plan)'
             x == ghost.raced \/ (call.pc = "execute" /\ (table' # table \/ lacking' # lacking))
             m == {f \in ghost.mine : table'[f] = table[f]}
  <2>1. h \in BOOLEAN /\ x \in BOOLEAN
    BY Zenon
  <2>2. ghost \in GhostRecord /\ m \in SUBSET Family
    BY DEF TypeOK, GhostRecord
  <2>3. ghost' = [ghost EXCEPT !.mine = m, !.held = h, !.raced = x]
    BY DEF Foreign
  <2>4. call.pc = "execute" /\ ~x => ~ghost.raced /\ table' = table /\ lacking' = lacking
    OBVIOUS
  <2> HIDE DEF h, x, m
  <2>5. /\ ghost' \in GhostRecord /\ ghost'.commits = ghost.commits /\ ghost'.blind = ghost.blind
        /\ ghost'.mine = m /\ ghost'.raced = x
    BY <2>1, <2>2, <2>3 DEF GhostRecord
  <2> QED
    BY <2>4, <2>5 DEF m
<1>2. ghost'.mine # {} => ghost.mine # {}
  BY <1>1
<1>3. CASE UNCHANGED <<table, call>> /\ lacking' \subseteq {"inet"} /\ lacking' \cap nat = {}
           /\ ext' \subseteq Plans
  <2>1. TypeOK'
    BY <1>0, <1>1, <1>3 DEF TypeOK
  <2>2. OursAreListable' /\ MineAreManaged' /\ OnlyLostCommits'
    BY <1>0, <1>1, <1>2, <1>3 DEF OursAreListable, MineAreManaged, OnlyLostCommits
  <2>3. BatchIsOurs'
    BY <1>1, <1>3 DEF BatchIsOurs, Tables, Listed
  <2> QED
    BY <2>1, <2>2, <2>3
<1>4. ASSUME NEW f \in Family, NEW v \in {NoTable} \cup [ours : BOOLEAN, plan : Known],
             v # NoTable /\ v.ours => f \in nat,
             table' = [table EXCEPT ![f] = v], Touch(f), UNCHANGED <<lacking, ext>>
      PROVE  IInv'
  <2>1. /\ table' \in [Family -> {NoTable} \cup [ours : BOOLEAN, plan : Known]]
        /\ table'[f] = v /\ \A g \in Family : g # f => table'[g] = table[g]
    BY <1>4 DEF TypeOK
  <2>2. /\ call' \in CallRecord /\ call'.pc = call.pc /\ call'.cur = call.cur /\ call'.mode = call.mode
        /\ call'.error = call.error
        /\ call.pc = "execute" => call'.moved = call.moved \cup {f}
    <3> DEFINE m == IF call.pc = "execute" THEN call.moved \cup {f} ELSE call.moved
    <3>1. call \in CallRecord /\ m \in SUBSET Family
      BY DEF TypeOK, CallRecord
    <3>2. call' = [call EXCEPT !.moved = m]
      BY <1>4 DEF Touch
    <3>3. call.pc = "execute" => m = call.moved \cup {f}
      OBVIOUS
    <3> HIDE DEF m
    <3> QED
      BY <3>1, <3>2, <3>3 DEF CallRecord
  <2>3. TypeOK'
    BY <1>0, <1>1, <1>4, <2>1, <2>2 DEF TypeOK
  <2>4. OursAreListable'
    BY <1>0, <1>4, <2>1 DEF OursAreListable
  <2>5. MineAreManaged'
    BY <1>0, <1>1, <1>2 DEF MineAreManaged
  <2>6. OnlyLostCommits'
    BY <1>1, <2>2 DEF OnlyLostCommits
  <2>7. BatchIsOurs'
    <3> SUFFICES ASSUME call.pc = "execute"
                 PROVE  /\ call.cur \in Snapshot /\ call.mode \in {"inet", "split"}
                        /\ \A g \in call.cur.tables \ (call.moved \cup {f}) :
                              table'[g] # NoTable /\ table'[g].ours
                        /\ \A g \in Family : table'[g] # NoTable /\ table'[g].ours =>
                              g \in call.cur.tables \cup (call.moved \cup {f})
                        /\ ghost'.mine \subseteq call.cur.tables
                        /\ ~ghost'.raced => Tables' = call.cur.tables
      BY <2>2 DEF BatchIsOurs
    <3>1. call.cur \in Snapshot /\ call.cur.tables \subseteq Family /\ call.mode \in {"inet", "split"}
      BY DEF BatchIsOurs, Snapshot
    <3>2. \A g \in call.cur.tables \ (call.moved \cup {f}) : table'[g] # NoTable /\ table'[g].ours
      BY <2>1, <3>1 DEF BatchIsOurs
    <3>3. \A g \in Family : table'[g] # NoTable /\ table'[g].ours =>
             g \in call.cur.tables \cup (call.moved \cup {f})
      BY <2>1 DEF BatchIsOurs
    <3>4. ghost'.mine \subseteq call.cur.tables
      BY <1>1 DEF BatchIsOurs
    <3>5. ~ghost'.raced => Tables' = call.cur.tables
      BY <1>1 DEF BatchIsOurs, Tables, Listed
    <3> QED
      BY <3>1, <3>2, <3>3, <3>4, <3>5
  <2> QED
    BY <2>3, <2>4, <2>5, <2>6, <2>7
<1>5. CASE \E f \in Family :
             /\ \/ table[f] # NoTable /\ table' = [table EXCEPT ![f] = NoTable]
                \/ table' = [table EXCEPT ![f] = [ours |-> FALSE, plan |-> Empty]]
                \/ f \in nat /\ \E p \in Plans : table' = [table EXCEPT ![f] = [ours |-> TRUE, plan |-> p]]
             /\ Touch(f) /\ UNCHANGED <<lacking, ext>>
  <2>1. [ours |-> FALSE, plan |-> Empty] \in [ours : BOOLEAN, plan : Known]
    BY DEF Known
  <2>2. \A p \in Plans : [ours |-> TRUE, plan |-> p] \in [ours : BOOLEAN, plan : Known]
    BY DEF Known
  <2> QED
    BY <1>4, <1>5, <2>1, <2>2
<1> QED
  BY <1>3, <1>5 DEF Foreign, TypeOK

\* Crash: a new process knows nothing, and claims nothing.
LEMMA CrashInv ==
    ASSUME IInv, Crash
    PROVE  IInv'
<1>1. /\ Idle \in CallRecord /\ Idle.pc = "idle" /\ NoGhost \in GhostRecord /\ NoGhost.mine = {}
      /\ [managed |-> FALSE, mode |-> "unknown"] \in BackendRecord
  BY DEF Idle, CallRecord, NoGhost, GhostRecord, BackendRecord, Known, Modes
<1>2. /\ call' = Idle /\ ghost' = NoGhost /\ backend' = [managed |-> FALSE, mode |-> "unknown"]
      /\ closed' = FALSE /\ UNCHANGED <<kernel, want>> /\ faults' \in 0 .. MaxFaults
  BY DEF IInv, TypeOK, Crash, Fault
<1>3. TypeOK'
  BY <1>1, <1>2 DEF IInv, TypeOK, kernel
<1>4. OursAreListable' /\ MineAreManaged' /\ BatchIsOurs' /\ OnlyLostCommits'
  BY <1>1, <1>2 DEF IInv, OursAreListable, MineAreManaged, BatchIsOurs, OnlyLostCommits, kernel
<1> QED
  BY <1>3, <1>4 DEF IInv

-----------------------------------------------------------------------------
(* The theorems. *)

\* At the start the agent has no table in the kernel.
LEMMA InitInv == Init => IInv
<1> SUFFICES ASSUME Init PROVE IInv
  OBVIOUS
<1>1. /\ Idle \in CallRecord /\ Idle.pc = "idle" /\ NoGhost \in GhostRecord /\ NoGhost.mine = {}
      /\ [managed |-> FALSE, mode |-> "unknown"] \in BackendRecord
  BY DEF Idle, CallRecord, NoGhost, GhostRecord, BackendRecord, Known, Modes
<1>2. lacking \subseteq {"inet"} /\ nat \subseteq Family /\ lacking \cap nat = {}
  BY DEF Init, Family
<1>3. TypeOK
  <2>1. table \in [Family -> {NoTable} \cup [ours : BOOLEAN, plan : Known]]
    BY DEF Init
  <2>2. ext \subseteq Plans /\ faults \in 0 .. MaxFaults /\ want \in Known
    BY DEF Init, Known
  <2>3. call \in CallRecord /\ ghost \in GhostRecord /\ backend \in BackendRecord
    BY <1>1 DEF Init
  <2>4. closed \in BOOLEAN
    BY Zenon DEF Init
  <2> QED
    BY <1>2, <2>1, <2>2, <2>3, <2>4 DEF TypeOK
<1>4. OursAreListable /\ MineAreManaged /\ BatchIsOurs /\ OnlyLostCommits
  BY <1>1 DEF Init, OursAreListable, MineAreManaged, BatchIsOurs, OnlyLostCommits
<1> QED
  BY <1>3, <1>4 DEF IInv

\* Every step of the manager, the backend and other programs preserves the invariant.
LEMMA NextInv == IInv /\ [Next]_vars => IInv'
<1> SUFFICES ASSUME IInv, [Next]_vars PROVE IInv'
  OBVIOUS
<1>1. CASE (\E p \in Plans \cup {Empty} : Apply(p)) \/ Close \/ Reconcile
  <2>1. \E p \in Known, b \in BOOLEAN : Start(p, b)
    BY <1>1 DEF Apply, Close, Reconcile, Known, IInv, TypeOK
  <2> QED
    BY <2>1, StartInv
<1>2. CASE Steps
  BY <1>2, LookInv, LookFailsInv, CommitsInv, FailsInv, VerifyInv, RetryInv DEF Steps
<1>3. CASE UNCHANGED vars
  BY <1>3 DEF vars, IInv, TypeOK, OursAreListable, MineAreManaged, BatchIsOurs, OnlyLostCommits,
              Tables, Listed
<1> QED
  BY <1>1, <1>2, <1>3, ForeignInv, CrashInv DEF Next

\* The inductive invariant holds in every reachable state.
THEOREM Invariance == Spec => []IInv
  BY InitInv, NextInv, PTL DEF Spec

\* Every field keeps its type, and the kernel lists every family in which it accepts
\* NAT rules.
THEOREM TypeCorrect == Spec => []TypeOK
  BY Invariance, PTL DEF IInv

\* What a return says of the call: blind only with nothing of ours in the kernel,
\* and what the ghost remembers.
LEMMA ReturnAnswers ==
    ASSUME IInv, NEW r \in Results, NEW b \in BOOLEAN, Return(r, b)
    PROVE  /\ ghost'.blind = b /\ ghost'.result = r /\ ghost'.commits = ghost.commits
           /\ ghost'.mine = ghost.mine
  BY DEF IInv, TypeOK, GhostRecord, Return

\* Every answer is true.
LEMMA AnswersTrue ==
    ASSUME IInv, Next, Returned
    PROVE  AnswerIsTrue
<1>0. TypeOK /\ call.plan \in Known /\ Idle.pc = "idle"
  BY DEF IInv, TypeOK, CallRecord, Idle
<1>1. ASSUME NEW o \in BOOLEAN, NEW e, LookFails(o, e)
      PROVE  AnswerIsTrue
  <2>1. CASE ~backend.managed /\ Return("ok", TRUE)
    BY <2>1, ReturnAnswers DEF IInv, MineAreManaged, AnswerIsTrue, Results
  <2>2. CASE \E r \in {"error", "unsupported"} : Return(r, FALSE)
    BY <1>1, <2>2, ReturnAnswers DEF IInv, OnlyLostCommits, AnswerIsTrue, Results, LookFails
  <2> QED
    BY <1>1, <2>1, <2>2 DEF LookFails
<1>2. ASSUME Look
      PROVE  AnswerIsTrue
  <2>1. CASE Return("error", FALSE)
    BY <1>2, <2>1, ReturnAnswers DEF IInv, OnlyLostCommits, AnswerIsTrue, Results, Look
  <2>2. CASE /\ ~Ambiguous /\ Matches(Inspected, SelectMode(Inspected), call.plan)
             /\ Return("ok", FALSE)
    <3>1. Carries(call.plan)
      BY <1>0, <2>2, MatchingCarries
    <3> QED
      BY <2>2, <3>1, ReturnAnswers DEF AnswerIsTrue, Results
  <2>3. CASE \E m, b : Submit(Inspected, m, b)
    <3>1. call'.pc = "execute"
      BY <1>0, <2>3 DEF Submit, TypeOK, CallRecord
    <3> QED
      BY <1>0, <3>1 DEF Returned
  <2> QED
    BY <1>2, <2>1, <2>2, <2>3 DEF Look
<1>3. ASSUME NEW b \in BOOLEAN, Verify(b)
      PROVE  AnswerIsTrue
  <2>0. call.pc = "verify"
    BY <1>3 DEF Verify
  <2>1. CASE /\ ~Ambiguous /\ Matches(Inspected, call.mode, call.plan)
             /\ Return("ok", FALSE)
    <3>1. Carries(call.plan)
      BY <1>0, <2>1, MatchingCarries
    <3> QED
      BY <2>1, <3>1, ReturnAnswers DEF AnswerIsTrue, Results
  <2>2. CASE call.error = "cap" /\ Return("unsupported", FALSE)
    BY <2>0, <2>2, ReturnAnswers DEF IInv, OnlyLostCommits, AnswerIsTrue, Results
  <2>3. CASE call' = [call EXCEPT !.pc = "retry"]
    <3>1. call'.pc = "retry"
      BY <1>0, <2>3 DEF TypeOK, CallRecord
    <3> QED
      BY <1>0, <3>1 DEF Returned
  <2>4. CASE Return(Doubt, FALSE)
    BY <2>4, ReturnAnswers DEF AnswerIsTrue, Results, Doubt
  <2> QED
    BY <1>3, <2>1, <2>2, <2>3, <2>4 DEF Verify
<1>4. ASSUME NEW b \in BOOLEAN, Retry(b)
      PROVE  AnswerIsTrue
  <2>0. call.pc = "retry"
    BY <1>4 DEF Retry
  <2>1. CASE /\ ~Ambiguous /\ Matches(Inspected, "inet", call.plan)
             /\ Return("ok", FALSE)
    <3>1. Carries(call.plan)
      BY <1>0, <2>1, MatchingCarries
    <3> QED
      BY <2>1, <3>1, ReturnAnswers DEF AnswerIsTrue, Results
  <2>2. CASE Return("error", FALSE)
    BY <2>0, <2>2, ReturnAnswers DEF IInv, OnlyLostCommits, AnswerIsTrue, Results
  <2>3. CASE Submit(Inspected, "split", FALSE)
    <3>1. call'.pc = "execute"
      BY <1>0, <2>3 DEF Submit, TypeOK, CallRecord
    <3> QED
      BY <1>0, <3>1 DEF Returned
  <2> QED
    BY <1>4, <2>1, <2>2, <2>3 DEF Retry
<1>5. ASSUME \E e : Ask(e)
      PROVE  AnswerIsTrue
  <2>1. call'.pc = "verify"
    BY <1>0, <1>5 DEF Ask, TypeOK, CallRecord
  <2> QED
    BY <1>0, <2>1 DEF Returned
<1>6. ASSUME ExecuteCommits
      PROVE  AnswerIsTrue
  <2>0. /\ call.pc = "execute" /\ Accepted(call.plan, call.mode) /\ Committed(call.plan, call.mode)
    BY <1>6 DEF ExecuteCommits
  <2> DEFINE h == (ghost.held \/ Carrying(table', call.plan))
             m == (ghost.mine \ Deleted(call.cur, call.mode)) \cup Create(call.plan, call.mode)
             after == [ghost EXCEPT !.held = h, !.commits = ghost.commits + 1, !.mine = m]
  <2>1. CASE ghost' = [after EXCEPT !.result = "ok"]
    <3>1. ~ghost.raced => h
      BY <2>0, CommittedCarries
    <3>2. ghost \in GhostRecord
      BY <1>0 DEF TypeOK
    <3>3. ~ghost.blind
      BY <2>0 DEF IInv, OnlyLostCommits
    <3> HIDE DEF h, m
    <3>4. ghost'.held = h /\ ghost'.result = "ok" /\ ghost'.blind = ghost.blind
      BY <2>1, <3>2 DEF GhostRecord
    <3> QED
      BY <2>0, <3>1, <3>3, <3>4 DEF AnswerIsTrue
  <2>2. CASE Ask("lost")
    BY <1>5, <2>2
  <2> QED
    BY <1>6, <2>1, <2>2 DEF ExecuteCommits
<1>7. ASSUME Crash
      PROVE  AnswerIsTrue
  BY <1>7 DEF Crash, NoGhost, Returned
<1>8. ASSUME NEW p, NEW b, Start(p, b)
      PROVE  AnswerIsTrue
  BY <1>8 DEF Start, Returned
<1>9. ASSUME Foreign
      PROVE  AnswerIsTrue
  <2>1. call'.pc = call.pc /\ (call.pc # "execute" => call' = call)
    BY <1>0, <1>9 DEF Foreign, Touch, TypeOK, CallRecord
  <2> QED
    BY <1>0, <2>1 DEF Returned
<1> QED
  BY <1>1, <1>2, <1>3, <1>4, <1>5, <1>6, <1>7, <1>8, <1>9
     DEF Next, Steps, Apply, Close, Reconcile, ExecuteFails

\* No batch touches a table that is not provably ours, or leaves both representations.
LEMMA BatchesSafe ==
    ASSUME IInv, Next, Batch
    PROVE  BatchIsSafe
<1>0. TypeOK /\ call.pc = "execute" /\ call'.pc # "execute"
  BY DEF IInv, Batch
<1>1. CASE UNCHANGED table
  BY <1>1 DEF BatchIsSafe
<1>2. CASE ExecuteCommits
  <2>1. Accepted(call.plan, call.mode) /\ Committed(call.plan, call.mode)
    BY <1>2 DEF ExecuteCommits
  <2>2. \A f \in Family : (table[f] # NoTable /\ ~table[f].ours) => table'[f] = table[f]
    BY <1>0, <2>1, CommittedSpares
  <2>3. call.moved = {} => ~("inet" \in Ours' /\ {"ip", "ip6"} \cap Ours' # {})
    BY <1>0, <2>1, CommittedOurs, CreateShape
  <2> QED
    BY <2>2, <2>3 DEF BatchIsSafe
<1>3. CASE Foreign
  <2>1. call'.pc = call.pc
    BY <1>0, <1>3 DEF Foreign, Touch, TypeOK, CallRecord
  <2> QED
    BY <1>0, <2>1
<1> QED
  BY <1>0, <1>1, <1>2, <1>3
     DEF Next, Steps, Apply, Close, Reconcile, Start, Look, LookFails, ExecuteFails, Verify, Retry,
         Crash, kernel

\* Whatever fails, is lost or is changed by others: on success the kernel held exactly
\* the plan asked for, an error that is not uncertain changed nothing, and a batch
\* deletes and replaces only tables proved to be the agent's own.
THEOREM Truthful == Spec => ApplyIsTruthful
<1>1. IInv /\ [Next]_vars => [AnswerIsTrue /\ BatchIsSafe]_vars
  <2> SUFFICES ASSUME IInv, Next PROVE AnswerIsTrue /\ BatchIsSafe
    OBVIOUS
  <2>1. AnswerIsTrue
    BY AnswersTrue DEF AnswerIsTrue
  <2>2. BatchIsSafe
    BY BatchesSafe DEF BatchIsSafe
  <2> QED
    BY <2>1, <2>2
<1> QED
  BY <1>1, Invariance, PTL DEF Spec, ApplyIsTruthful

=============================================================================
