------------------------------ MODULE RowLocks ------------------------------
(***************************************************************************)
(* PostgreSQL's row locks, as the services use them: an UPDATE takes the   *)
(* row and keeps it to the end of its transaction, and another transaction *)
(* that wants the row waits.  An INSERT under a unique index waits in the  *)
(* same way for a transaction that has inserted the same key.              *)
(***************************************************************************)
EXTENDS FiniteSets

CONSTANTS
    Workers,   \* request handlers, one database session each
    NoWorker

VARIABLE lock  \* which transaction holds each row

\* A variant of InDeadlock with a bug that a property must refute: a database that
\* never looks for deadlocks.
InDeadlockUnseen(w, wants) == FALSE

-----------------------------------------------------------------------------
\* An UPDATE of row r waits until no other transaction holds it.
TakeRow(w, r) ==
    /\ lock[r] \in {NoWorker, w}
    /\ lock' = [lock EXCEPT ![r] = w]

ReleaseRows(w) ==
    lock' = [r \in DOMAIN lock |-> IF lock[r] = w THEN NoWorker ELSE lock[r]]

\* Worker w is in a cycle of waits, when each worker v wants the rows wants[v].
InDeadlock(w, wants) ==
    LET WaitsFor(v, u) == u # v /\ \E r \in wants[v] : lock[r] = u
    IN  \E cycle \in SUBSET Workers :
          /\ w \in cycle
          /\ \A v \in cycle : \E u \in cycle : WaitsFor(v, u)
          /\ \A v \in cycle : \E u \in cycle : WaitsFor(u, v)
=============================================================================
