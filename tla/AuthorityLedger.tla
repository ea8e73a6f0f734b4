---------------------------- MODULE AuthorityLedger ----------------------------
(***************************************************************************)
(* What the exchange promises about execution authority, without requests, *)
(* claims, runs or the verifier: revisions are published in order, each is *)
(* granted authority at most once and only before the close, a revision    *)
(* that is retired stays retired, a revision with authority is retired by  *)
(* nothing but the publication of its successor, and at most one revision  *)
(* is ever used.                                                           *)
(***************************************************************************)
EXTENDS Integers

CONSTANTS Solvers, MaxRevisions, ClosesAt

Revisions == 1..MaxRevisions
Offers == Solvers \X Revisions
Predecessor(x) == <<x[1], x[2] - 1>>

VARIABLES
  time,
  published,  \* revisions that exist
  authority,  \* revisions whose program may be executed
  retired,    \* revisions that can never be executed again
  used        \* the revision that was executed

ledger == <<time, published, authority, retired, used>>

Init == time = 0 /\ published = {} /\ authority = {} /\ retired = {} /\ used = {}

Advance ==
  /\ time' = time + 1
  /\ UNCHANGED <<published, authority, retired, used>>

\* The predecessor may lose its authority, or the chance to get it.
PublishRevision(x) ==
  /\ x \notin published
  /\ x[2] > 1 => Predecessor(x) \in published
  /\ published' = published \cup {x}
  /\ \E displaced \in SUBSET ({Predecessor(x)} \cap (published \ (retired \cup used))) :
       /\ authority' = authority \ displaced
       /\ retired' = retired \cup displaced
  /\ UNCHANGED <<time, used>>

Undecided == published \ (authority \cup retired \cup used)

Grant(x) ==
  /\ x \in Undecided /\ time < ClosesAt
  /\ authority' = authority \cup {x}
  /\ UNCHANGED <<time, published, retired, used>>

Retire(x) ==
  /\ x \in Undecided
  /\ retired' = retired \cup {x}
  /\ UNCHANGED <<time, published, authority, used>>

Use(x) ==
  /\ x \in authority /\ used = {}
  /\ authority' = authority \ {x}
  /\ used' = {x}
  /\ UNCHANGED <<time, published, retired>>

Next ==
  \/ Advance
  \/ \E x \in Offers : PublishRevision(x) \/ Grant(x) \/ Retire(x) \/ Use(x)

Spec == Init /\ [][Next]_ledger
=============================================================================
