---------------------------- MODULE AnalysisMinute ----------------------------
(***************************************************************************)
(* The minute bucket of the traffic analysis: user rows, domain rows, the  *)
(* unknown row every user falls back to, the eviction of known rows when   *)
(* the limits are reached, and the split of a sealed bucket into batches.  *)
(*                                                                         *)
(* A domain key is a user and an identity; an identity with a name is in   *)
(* Named, the others (a protocol without a name) are only in Known.  A row *)
(* costs one unit of the memory that is free.                              *)
(***************************************************************************)
EXTENDS Integers, Sequences, FiniteSets, FiniteSetsExt, SequencesExt

CONSTANTS Users, Known, Named,   \* Named \subseteq Known
          Unknown,               \* the identity of unknown rows
          MaxKeys,               \* minute_max_domain_keys
          BatchEntries, BatchBytes, UserSize, DomainSize,
          MaxFree, MaxBytes

VARIABLES free,   \* memory units the rest of the collector leaves
          bkt,    \* MinuteBucket: rows, eviction stack, cost
          born,   \* users whose unknown row exists since their first row
          cut     \* the last sealed bucket and the batches it was cut into

vars == <<free, bkt, born, cut>>

NoRows == [k \in {} |-> 0]
EmptyBucket == [users |-> NoRows, named |-> NoRows, domains |-> NoRows, known |-> <<>>, cost |-> 0]

Init ==
  /\ free \in 0..MaxFree
  /\ bkt = EmptyBucket
  /\ born = {}
  /\ cut = [users |-> {}, domains |-> {}, batches |-> <<>>]

With(f, k, v) == [x \in DOMAIN f \cup {k} |-> IF x = k THEN v ELSE f[x]]
Add(f, k, n) == IF k \in DOMAIN f THEN [f EXCEPT ![k] = @ + n] ELSE f
Full(b) == Cardinality(DOMAIN b.domains) >= MaxKeys

(* new_domain *)
NewDomain(b, k) == [b EXCEPT !.domains = With(@, k, 0), !.cost = @ + 1]

(* ensure_unknown: a new row, or the place of the known row pushed last,    *)
(* whose bytes go to the unknown row of its own user.  The result is the    *)
(* bucket, the memory left and whether there is an unknown row.             *)
EvictionKeepsNothing(b, old) ==
  [b EXCEPT !.domains = [x \in DOMAIN @ \ {old} |-> @[x]], !.cost = @ - 1]

Evicted(b, old) ==
  [b EXCEPT !.domains = LET m == Add(@, <<old[1], Unknown>>, @[old])
                        IN [x \in DOMAIN m \ {old} |-> m[x]],
            !.cost = @ - 1]

EnsureUnknown(b, mem, u) ==
  LET k == <<u, Unknown>>
      live == {i \in 1..Len(b.known) : b.known[i] \in DOMAIN b.domains}
  IN IF k \in DOMAIN b.domains THEN [b |-> b, mem |-> mem, ok |-> TRUE]
     ELSE IF ~Full(b) /\ mem > 0 THEN [b |-> NewDomain(b, k), mem |-> mem - 1, ok |-> TRUE]
     ELSE IF live = {} THEN [b |-> [b EXCEPT !.known = <<>>], mem |-> mem, ok |-> FALSE]
     ELSE LET i == Max(live)
              b1 == [Evicted(b, b.known[i]) EXCEPT !.known = SubSeq(@, 1, i - 1)]
          IN [b |-> NewDomain(b1, k), mem |-> mem, ok |-> TRUE]

(* add_domain: a new known row if the limits allow it, else the unknown row *)
(* of the user, else the bytes are dropped.                                 *)
AddDomain(b, mem, u, d, n) ==
  LET k == <<u, d>>
      fresh == d # Unknown /\ k \notin DOMAIN b.domains
      room == ~Full(b) /\ mem > 0
      b1 == IF fresh /\ room THEN [NewDomain(b, k) EXCEPT !.known = Append(@, k)] ELSE b
      m1 == IF fresh /\ room THEN mem - 1 ELSE mem
      key == IF fresh /\ ~room THEN <<u, Unknown>> ELSE k
      e == IF key \in DOMAIN b1.domains THEN [b |-> b1, mem |-> m1, ok |-> TRUE]
           ELSE EnsureUnknown(b1, m1, u)
  IN IF n = 0 THEN [b |-> b, mem |-> mem]
     ELSE [b |-> IF e.ok THEN [e.b EXCEPT !.domains = Add(@, key, n)] ELSE e.b, mem |-> e.mem]

(* DomainKey::has_domain *)
Identified(d, n) == IF d \in Named THEN n ELSE 0

(* One flow of sample: its user row, then the row of what it talked to.     *)
SampleFlow(u, d, n) ==
  LET known == u \in DOMAIN bkt.users
      row == ~known /\ n > 0 /\ free > 0
      b1 == IF row THEN [bkt EXCEPT !.users = With(@, u, 0), !.named = With(@, u, 0), !.cost = @ + 1]
            ELSE bkt
      e == IF row THEN EnsureUnknown(b1, free - 1, u) ELSE [b |-> b1, mem |-> free, ok |-> FALSE]
      b2 == [e.b EXCEPT !.users = Add(@, u, n),
                        !.named = Add(@, u, Identified(d, n))]
      r == AddDomain(b2, e.mem, u, d, n)
      kept == u \in DOMAIN b2.users
  IN /\ MapThenSumSet(LAMBDA v : bkt.users[v], DOMAIN bkt.users) + n <= MaxBytes
     /\ bkt' = IF kept THEN r.b ELSE b2
     /\ free' = IF kept THEN r.mem ELSE e.mem
     /\ born' = IF row /\ e.ok THEN born \cup {u} ELSE born
     /\ UNCHANGED cut

Fits(batch, size) ==
  /\ Len(batch.rows) < BatchEntries
  /\ batch.size + size <= BatchBytes

RowSize(row) == IF row \in Users THEN UserSize ELSE DomainSize

Packed(rows) ==
  LET Step(acc, row) ==
        IF Fits(acc.open, RowSize(row))
        THEN [acc EXCEPT !.open = [rows |-> Append(@.rows, row), size |-> @.size + RowSize(row)]]
        ELSE [done |-> Append(acc.done, acc.open), open |-> [rows |-> <<row>>, size |-> RowSize(row)]]
      end == FoldLeft(Step, [done |-> <<>>, open |-> [rows |-> <<>>, size |-> 0]], rows)
  IN Append(end.done, end.open)

Nonzero(b) == {k \in DOMAIN b.domains : b.domains[k] # 0}

(* enqueue ignores a batch without rows.                                    *)
Batches(us, ds) ==
  SelectSeq(Packed(us \o ds), LAMBDA batch : batch.rows # <<>>)

Seal ==
  /\ bkt # EmptyBucket
  /\ \E us \in SetToSeqs(DOMAIN bkt.users), ds \in SetToSeqs(Nonzero(bkt)) :
       cut' = [users |-> DOMAIN bkt.users, domains |-> Nonzero(bkt), batches |-> Batches(us, ds)]
  /\ bkt' = EmptyBucket
  /\ free' = free + bkt.cost
  /\ born' = {}

(* Flows and queued batches come and go: memory is taken or given back.     *)
MemoryChanges ==
  /\ free' \in {free - 1, free + 1} /\ free' \in 0..(MaxFree - bkt.cost)
  /\ UNCHANGED <<bkt, born, cut>>

Next ==
  \/ \E u \in Users, d \in Known \cup {Unknown}, n \in 0..2 : SampleFlow(u, d, n)
  \/ Seal \/ MemoryChanges

-----------------------------------------------------------------------------
Total(f, S) == MapThenSumSet(LAMBDA k : f[k], S)
Rows(u) == {k \in DOMAIN bkt.domains : k[1] = u}

(* sample, add_domain and ensure_unknown: as long as a user has had its     *)
(* unknown row from the start, its domain rows add up to its user row,      *)
(* whatever is evicted or refused; no user's domain rows exceed its row,    *)
(* and its identified bytes cover the rows that carry a name.               *)
RowsAddUp ==
  /\ Cardinality(DOMAIN bkt.domains) <= MaxKeys
  /\ \A u \in DOMAIN bkt.users :
       /\ Total(bkt.domains, Rows(u)) <= bkt.users[u]
       /\ u \in born => Total(bkt.domains, Rows(u)) = bkt.users[u]
       /\ bkt.named[u] <= bkt.users[u]
       /\ Total(bkt.domains, {k \in Rows(u) : k[2] \in Named}) <= bkt.named[u]

(* new_domain and ensure_unknown: the bucket's cost is one unit for every   *)
(* row, so that sealing or discarding it gives back what it took; the       *)
(* eviction stack holds exactly the known rows, each once.                  *)
CostIsExact ==
  /\ bkt.cost = Cardinality(DOMAIN bkt.users) + Cardinality(DOMAIN bkt.domains)
  /\ ToSet(bkt.known) = {k \in DOMAIN bkt.domains : k[2] # Unknown}
  /\ IsInjective(bkt.known)

(* seal: the batches contain every user row and every nonzero domain row    *)
(* exactly once, and each batch keeps the entry and size limits unless a    *)
(* single row exceeds them.                                                 *)
BatchesPartitionRows ==
  LET all == FlattenSeq([i \in 1..Len(cut.batches) |-> cut.batches[i].rows])
  IN /\ IsInjective(all) /\ ToSet(all) = cut.users \cup cut.domains
     /\ \A i \in 1..Len(cut.batches) :
          LET batch == cut.batches[i] IN
          /\ Len(batch.rows) \in 1..BatchEntries
          /\ Len(batch.rows) > 1 => batch.size <= BatchBytes

(* A minute from its first row to its batches.                              *)
MinuteIsExact == RowsAddUp /\ CostIsExact /\ BatchesPartitionRows

=============================================================================
