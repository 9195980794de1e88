------------------------------ MODULE UserPages ------------------------------
(***************************************************************************)
(* Reading the users of one node page by page (list_node_users) while the  *)
(* panel may change them.  The panel either keeps its promise, that a page *)
(* token belongs to one immutable membership and is refused with Aborted   *)
(* once that has changed, or answers anything.  Users and tokens are       *)
(* numbers and 0 is the empty one; a total of 0 means not counted.         *)
(***************************************************************************)
EXTENDS Integers, Sequences, FiniteSets, SequencesExt

CONSTANTS UserIds, PageSize,
          MaxPages,       \* MAX_USER_PAGES
          MaxAttempts,    \* MAX_USER_SNAPSHOT_ATTEMPTS
          MaxChanges,     \* bound on changes of the membership
          Honest,         \* the panel keeps its promise
          Answers         \* what it answers otherwise

VARIABLES members, version, counts,         \* the panel
          attempt, page, token, seen,       \* the reader: loop counters and tokens
          users, total, result,
          whole   \* the membership when the first page of this attempt was answered

vars == <<members, version, counts, attempt, page, token, seen, users, total, result, whole>>
panelVars == <<members, version, counts>>
readerVars == <<attempt, page, token, seen, users, total, result, whole>>

Init ==
  /\ members \in SUBSET UserIds /\ version = 1 /\ counts \in BOOLEAN
  /\ attempt = 1 /\ page = 0 /\ token = 0 /\ seen = {} /\ users = <<>> /\ total = 0
  /\ result = "reading" /\ whole = {}

MembersChange ==
  /\ result = "reading" /\ version <= MaxChanges
  /\ version' = version + 1 /\ members' \in SUBSET UserIds \ {members}
  /\ UNCHANGED <<readerVars, counts>>

(* The page a token stands for: what follows the users read so far.         *)
TokenOf(offset) == version * (Cardinality(UserIds) + 1) + offset
OffsetOf(t) == IF t = 0 THEN 0 ELSE t % (Cardinality(UserIds) + 1)
Current(t) == t = 0 \/ t \div (Cardinality(UserIds) + 1) = version

PromisedPage ==
  LET all == SetToSortSeq(members, <)
      from == OffsetOf(token)
      to == IF from + PageSize < Len(all) THEN from + PageSize ELSE Len(all)
  IN  [users |-> SubSeq(all, from + 1, to), total |-> IF counts THEN Len(all) ELSE 0,
       more |-> to < Len(all), token |-> IF to < Len(all) THEN TokenOf(to) ELSE 0]

Page == IF Honest THEN {PromisedPage} ELSE Answers

Repeats(s) == \E i, j \in 1..Len(s) : i # j /\ s[i] = s[j]

(* The checks on one answer, r, with everything read so far.                *)
Refused(r) ==
  LET all == users \o r.users
  IN  \/ 0 \in ToSet(r.users) \/ Repeats(all)
      \/ page > 0 /\ total # r.total
      \/ r.total > 0 /\ Len(all) > r.total
      \/ IF r.more
         THEN \/ r.token = 0 \/ r.users = <<>> \/ r.token = token
              \/ r.total > 0 /\ Len(all) >= r.total
         ELSE r.token # 0 \/ (r.total > 0 /\ Len(all) # r.total)

Ends(how) == result' = how /\ UNCHANGED <<panelVars, attempt, page, token, seen, users, total, whole>>

PageRefused ==
  /\ result = "reading" /\ (Honest => Current(token))
  /\ \E r \in Page : Refused(r)
  /\ Ends("error")

(* A page is taken; the loop stops at the last page, at a token it has      *)
(* used before, and after MAX_USER_PAGES.                                   *)
PageTaken ==
  /\ result = "reading" /\ (Honest => Current(token))
  /\ \E r \in Page :
       /\ ~Refused(r)
       /\ users' = users \o r.users /\ total' = r.total /\ page' = page + 1
       /\ whole' = IF page = 0 THEN members ELSE whole
       /\ token' = r.token
       /\ seen' = IF token = 0 THEN seen ELSE seen \cup {token}
       /\ result' = IF ~r.more THEN "ok"
                    ELSE IF page' = MaxPages \/ r.token \in seen' THEN "error" ELSE "reading"
  /\ UNCHANGED <<panelVars, attempt>>

(* Aborted: everything read is dropped and the reading starts again.        *)
KeepsPartial(s) == s
DropsPartial(s) == <<>>

Aborted ==
  /\ result = "reading" /\ (Honest => ~Current(token))
  /\ IF attempt < MaxAttempts
     THEN /\ attempt' = attempt + 1
          /\ page' = 0 /\ token' = 0 /\ seen' = {} /\ users' = DropsPartial(users) /\ total' = 0
          /\ UNCHANGED <<panelVars, result, whole>>
     ELSE Ends("error")

(* bounded_unary: the call fails or runs into its deadline.                 *)
CallFails == result = "reading" /\ Ends("error")

Next == MembersChange \/ PageRefused \/ PageTaken \/ Aborted \/ CallFails

Spec == Init /\ [][Next]_vars

-----------------------------------------------------------------------------
(* list_node_users: a list that is returned names no user twice, none that  *)
(* is empty, and as many as the panel counted, whatever the panel answers;  *)
(* with a panel that keeps its promise it is the whole membership of one    *)
(* moment, however often that changed between the pages.                    *)
OneMembership ==
  result = "ok" =>
    /\ ~Repeats(users) /\ 0 \notin ToSet(users) /\ (total > 0 => Len(users) = total)
    /\ Honest => ToSet(users) = whole

=============================================================================
