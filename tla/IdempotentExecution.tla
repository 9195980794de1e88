------------------------ MODULE IdempotentExecution ------------------------
(***************************************************************************)
(* What the acknowledgement store promises to the panel                    *)
(* (crates/node-agent/src/control/ack.rs): a keyed command is executed by  *)
(* one task at a time, a command that succeeded is not executed again      *)
(* while its acknowledgement is remembered, and only the pressure of newer *)
(* successes makes the store forget.  A command that failed may be tried   *)
(* again at once.                                                          *)
(***************************************************************************)
EXTENDS Naturals, FiniteSets

CONSTANTS Keys, Capacity

VARIABLES busy,  \* keys being executed
          done   \* keys whose success is remembered

Init == busy = {} /\ done = {}

Start(k) ==
    /\ k \notin busy \cup done
    /\ busy' = busy \cup {k}
    /\ UNCHANGED done

Fail(k) ==
    /\ k \in busy
    /\ busy' = busy \ {k}
    /\ UNCHANGED done

Succeed(k) ==
    /\ k \in busy
    /\ busy' = busy \ {k}
    /\ done' \subseteq done \cup {k}
    /\ Cardinality(done') =
          IF Cardinality(done) < Capacity THEN Cardinality(done) + 1 ELSE Capacity

Next == \E k \in Keys : Start(k) \/ Fail(k) \/ Succeed(k)

Spec == Init /\ [][Next]_<<busy, done>>

=============================================================================
