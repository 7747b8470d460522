------------------------------ MODULE CommandLog ------------------------------
(***************************************************************************)
(* What the commercial services promise of every versioned record: a row   *)
(* that is written only together with one append-only receipt, each        *)
(* receipt under an idempotency key never used before for that record, so  *)
(* that the row is always what its last receipt says.  One transaction may *)
(* write several records; a retry that finds its key writes none.          *)
(***************************************************************************)
EXTENDS Naturals, Sequences

CONSTANTS Ids, Absent
VARIABLES
  cur,   \* the record's row, Absent until its first command
  log    \* its receipts, oldest first: [key, value]

Init ==
  /\ cur = [id \in Ids |-> Absent]
  /\ log = [id \in Ids |-> << >>]

Kept(id) ==
  /\ cur'[id] = cur[id]
  /\ log'[id] = log[id]

Recorded(id) ==
  /\ Len(log'[id]) = Len(log[id]) + 1
  /\ \A i \in DOMAIN log[id] :
        /\ log'[id][i] = log[id][i]
        /\ log[id][i].key # log'[id][Len(log'[id])].key
  /\ cur'[id] = log'[id][Len(log'[id])].value

Next == \A id \in Ids : Kept(id) \/ Recorded(id)

Spec == Init /\ [][Next]_<<cur, log>>
===============================================================================
