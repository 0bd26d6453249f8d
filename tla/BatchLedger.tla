----------------------------- MODULE BatchLedger -----------------------------
(***************************************************************************)
(* What ingest promises, without sessions, locks or statements: a batch is *)
(* entered in the ledger at most once, and in the same step it writes rows *)
(* for its gateway.  Each written row, then the ledger entry itself, takes *)
(* a sequence id nothing else holds.  Rows are never removed, keep their   *)
(* kind, and an SOS is written once.  What the batch reports by primary    *)
(* key is stored afterwards, from this step or from an earlier one; which  *)
(* items of a segment win is the merge policy's and not said here.         *)
(***************************************************************************)
EXTENDS Integers, FiniteSets

CONSTANTS
  Ids,      \* report primary keys
  NoRow,    \* no row
  Reported  \* Reported[key]: <<id, kind>> of what a batch reports by primary key

VARIABLES
  rows,   \* what is stored under each key
  ledger  \* entries [key |-> <<gateway, batch>>, seq |-> _, applied |-> _, ...]

\* Keys a step writes.
Written == {x \in Ids : rows'[x] # rows[x]}

\* Sequence ids held in a table and a ledger.
Held(table, entries) ==
  {table[x].seq : x \in {y \in Ids : table[y] # NoRow}} \cup {e.seq : e \in entries}

\* Entry e of a new batch, with its rows.
Enter(e) ==
  /\ \A f \in ledger : f.key # e.key
  /\ ledger' = ledger \cup {e}
  /\ Cardinality(Written) <= e.applied
  /\ e.seq \notin Held(rows, ledger)
  /\ \A p \in Reported[e.key] : rows'[p[1]] # NoRow /\ rows'[p[1]].kind = p[2]
  /\ \A x \in Written :
       /\ rows'[x] # NoRow
       /\ rows'[x].gw = e.key[1]
       /\ rows'[x].seq \notin Held(rows, ledger)
       /\ rows'[x].seq < e.seq
       /\ \A y \in Written : rows'[y].seq = rows'[x].seq => x = y
       /\ rows[x] # NoRow => rows'[x].kind = rows[x].kind /\ rows[x].kind # "sos"

LedgerInit ==
  /\ rows = [x \in Ids |-> NoRow]
  /\ ledger = {}

LedgerNext == \E e \in ledger' \ ledger : Enter(e)

LedgerSpec == LedgerInit /\ [][LedgerNext]_<<rows, ledger>>
=============================================================================
