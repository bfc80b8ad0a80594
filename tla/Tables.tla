------------------------------- MODULE Tables -------------------------------
(* What a unit of work promises the services: the two tables change by whole *)
(* transactions, one at a time, each about one file, and an update writes    *)
(* only columns of the operation that makes it.                              *)
EXTENDS Sequences

CONSTANTS
  Files,    \* primary keys
  Row,      \* the rows table files may hold, records of columns
  NoRow,    \* "no such row"
  Level,    \* alert levels
  Writes    \* for each kind of update, the set of columns it writes

VARIABLES rows, alerts

vars == <<rows, alerts>>

Init ==
  /\ rows = [f \in Files |-> NoRow]
  /\ alerts = [f \in Files |-> <<>>]

Insert(f) ==
  /\ rows[f] = NoRow
  /\ \E row \in Row : rows' = [rows EXCEPT ![f] = row]
  /\ UNCHANGED alerts

Update(f) ==
  /\ rows[f] # NoRow
  /\ \E row \in Row, columns \in Writes :
       /\ \A c \in DOMAIN row \ columns : row[c] = rows[f][c]
       /\ rows' = [rows EXCEPT ![f] = row]
  /\ UNCHANGED alerts

\* The foreign key: an alert is stored only for a row that is there.
Report(f) ==
  /\ rows[f] # NoRow
  /\ \E level \in Level : alerts' = [alerts EXCEPT ![f] = Append(@, level)]
  /\ UNCHANGED rows

Remove(f) ==
  /\ rows' = [rows EXCEPT ![f] = NoRow]
  /\ alerts' = [alerts EXCEPT ![f] = <<>>]

\* A migration back to an empty database.
DropTables == rows' = [f \in Files |-> NoRow] /\ alerts' = [f \in Files |-> <<>>]

Next ==
  \/ \E f \in Files : Insert(f) \/ Update(f) \/ Report(f) \/ Remove(f)
  \/ DropTables

Spec == Init /\ [][Next]_vars
=============================================================================
