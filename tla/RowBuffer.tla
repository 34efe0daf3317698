------------------------------- MODULE RowBuffer -------------------------------
(***************************************************************************)
(* What the buffer of a static cursor promises: the rows are appended one  *)
(* by one, then read in order from any row of the result set.              *)
(***************************************************************************)
EXTENDS Naturals, Sequences

CONSTANTS Data,   \* the contents of a row
          Garbage \* the contents of a row that nothing was written to

VARIABLES rows,    \* the rows read from the server
          next,    \* number of rows before the one that is read next
          buffer,  \* the row buffer the application's columns are taken from
          loading  \* the rows are still being read from the server

vars == <<rows, next, buffer, loading>>

Init ==
  /\ rows = <<>>
  /\ next = 0
  /\ buffer = Garbage
  /\ loading = TRUE

Add(d) ==
  /\ loading
  /\ rows' = Append(rows, d)
  /\ buffer' = d
  /\ UNCHANGED <<next, loading>>

\* The first row is read at once; without rows nothing is.
Load ==
  /\ loading
  /\ loading' = FALSE
  /\ next' = 1
  /\ buffer' = IF rows = <<>> THEN Garbage ELSE rows[1]
  /\ UNCHANGED rows

Position(n) ==
  /\ ~loading
  /\ next' = n
  /\ UNCHANGED <<rows, buffer, loading>>

Read(n) ==
  /\ ~loading
  /\ next' = n + 1
  /\ buffer' = rows[n + 1]
  /\ UNCHANGED <<rows, loading>>

ReadNext == next < Len(rows) /\ Read(next)

Next ==
  \/ \E d \in Data : Add(d)
  \/ Load
  \/ ReadNext
  \/ \E n \in 0 .. Len(rows) - 1 : Position(n) \/ Read(n)

Spec == Init /\ [][Next]_vars
=============================================================================
