------------------------------ MODULE StaticBuffer ------------------------------
(***************************************************************************)
(* CDataStaticCursor (IscDbc/Sqlda.cpp): the rows of a static cursor in    *)
(* blocks of nMAXROWBLOCK rows.  The iterator itCurrentRow stands on a row *)
(* of block curBlock, whose rows are numbered minRow to maxRow - 1; after  *)
(* current(n) it stands just before row n, which may be before the first   *)
(* row of its block, and nextPosition() steps on to the row.               *)
(*                                                                         *)
(* An operator maps a cursor to the cursor that the C++ method leaves.     *)
(***************************************************************************)
EXTENDS Integers, Sequences

CONSTANTS Data,         \* the contents of a row
          Garbage,      \* the contents of a row that nothing was written to
          nMAXROWBLOCK,
          MaxRows       \* bound on the rows of the result set

ASSUME BufferConstants ==
  /\ nMAXROWBLOCK \in Nat \ {0}
  /\ MaxRows \in Nat
  /\ Garbage \notin Data

VARIABLES cursor,      \* the CDataStaticCursor
          buffer,      \* Sqlda's row buffer
          loading      \* readStaticCursor has not finished

bufferVars == <<cursor, buffer, loading>>

Index == 0 .. nMAXROWBLOCK - 1

Row == Data \cup {Garbage}

NewBlock == [i \in Index |-> Garbage]

\* blocks are the members of listBlocks that have rows, block b at b + 1;
\* it is the index of itCurrentRow in block curBlock, -1 before the block.
Cursor == [blocks: Seq([Index -> Row]), curBlock: Nat, minRow: Nat, maxRow: Nat,
           curRow: Nat \cup {-1}, it: Nat \cup {-1}, countAllRows: Nat]

\* copyToBuffer().
Current(c) == c.blocks[c.curBlock + 1][c.it]

BugNextPosition(c) ==
  IF c.curRow + 1 < c.maxRow
  THEN [c EXCEPT !.curRow = @ + 1, !.it = @ + 1]
  ELSE [c EXCEPT !.blocks = IF c.curBlock + 1 < Len(@) THEN @
                                                       ELSE Append(@, NewBlock),
                 !.curBlock = @ + 1,
                 !.it = 0,
                 !.curRow = @ + 1]

\* nextPosition(): on to the next row of the block or to the next block.
NextPosition(c) ==
  IF c.curRow + 1 < c.maxRow
  THEN [c EXCEPT !.curRow = @ + 1, !.it = @ + 1]
  ELSE [c EXCEPT !.blocks = IF c.curBlock + 1 < Len(@) THEN @
                                                       ELSE Append(@, NewBlock),
                 !.curBlock = @ + 1,
                 !.it = 0,
                 !.curRow = @ + 1,
                 !.minRow = c.curRow + 1,
                 !.maxRow = c.curRow + 1 + nMAXROWBLOCK]

\* The loop of current(): the first block with n rows up to its end.
BlockOf(c, n) ==
  CHOOSE b \in 0 .. Len(c.blocks) - 1 :
    /\ n <= (b + 1) * nMAXROWBLOCK
    /\ b > 0 => b * nMAXROWBLOCK < n

InBlock(c, b) ==
  [c EXCEPT !.curBlock = b,
            !.minRow = b * nMAXROWBLOCK,
            !.maxRow = (b + 1) * nMAXROWBLOCK]

Before(c, n) == [c EXCEPT !.curRow = n - 1, !.it = n - c.minRow - 1]

\* current(n).
Seek(c, n) ==
  Before(IF n \in c.minRow .. c.maxRow - 1 THEN c ELSE InBlock(c, BlockOf(c, n)), n)

BugAddRow(d) ==
  LET c == NextPosition(cursor)
  IN  /\ loading
      /\ c.countAllRows < MaxRows
      /\ cursor' = [c EXCEPT !.blocks[c.curBlock + 1][c.it] = d,
                             !.countAllRows = @ + 1]
      /\ buffer' = d
      /\ UNCHANGED loading

\* A row d fetched from the server goes to the current row.
AddRow(d) ==
  /\ loading
  /\ cursor.countAllRows < MaxRows
  /\ cursor' = NextPosition([cursor EXCEPT !.blocks[cursor.curBlock + 1][cursor.it] = d,
                                           !.countAllRows = @ + 1])
  /\ buffer' = d
  /\ UNCHANGED loading

\* The end of readStaticCursor: on row 0, if there is one or not.
Loaded ==
  /\ loading
  /\ loading' = FALSE
  /\ cursor' = NextPosition(Seek(cursor, 0))
  /\ buffer' = Current(cursor')

\* setCurrentRowInBufferStaticCursor, before the rows of a rowset are copied.
SetCurrentRow(n) ==
  /\ ~loading
  /\ n < cursor.countAllRows
  /\ cursor' = Seek(cursor, n)
  /\ UNCHANGED <<buffer, loading>>

\* copyNextSqldaFromBufferStaticCursor: its callers stop at the last row.
CopyNext ==
  /\ ~loading
  /\ cursor.curRow + 1 < cursor.countAllRows
  /\ cursor' = NextPosition(cursor)
  /\ buffer' = Current(cursor')
  /\ UNCHANGED loading

\* getDataFromStaticCursor, for SQLGetData.
GetData(n) ==
  /\ ~loading
  /\ n < cursor.countAllRows
  /\ cursor' = NextPosition(Seek(cursor, n))
  /\ buffer' = Current(cursor')
  /\ UNCHANGED loading

BufferInit ==
  /\ cursor = [blocks |-> <<NewBlock>>, curBlock |-> 0, minRow |-> 0,
               maxRow |-> nMAXROWBLOCK, curRow |-> 0, it |-> 0,
               countAllRows |-> 0]
  /\ buffer = Garbage
  /\ loading = TRUE

BufferNext ==
  \/ \E d \in Data : AddRow(d)
  \/ Loaded
  \/ CopyNext
  \/ \E n \in 0 .. MaxRows : SetCurrentRow(n) \/ GetData(n)

BufferSpec == BufferInit /\ [][BufferNext]_bufferVars

-----------------------------------------------------------------------------
\* Properties.

\* Every member has a value of its C++ type.
BufferTypeOK ==
  /\ cursor \in Cursor
  /\ buffer \in Row
  /\ loading \in BOOLEAN

\* The iterator never leaves its block (one step before it is where
\* current() may put it), and row number, block and iterator agree: minRow
\* and maxRow are stale in no state, however seeks and reads alternate.
IteratorInBlock ==
  /\ cursor.curBlock < Len(cursor.blocks)
  /\ cursor.minRow = cursor.curBlock * nMAXROWBLOCK
  /\ cursor.maxRow = cursor.minRow + nMAXROWBLOCK
  /\ cursor.it = cursor.curRow - cursor.minRow
  /\ cursor.it \in -1 .. nMAXROWBLOCK - 1

\* Row n of the result set, where blocks keep it.
RowAt(c, n) == c.blocks[n \div nMAXROWBLOCK + 1][n % nMAXROWBLOCK]

\* The rows that were added, in order.
Stored == [n \in 1 .. cursor.countAllRows |-> RowAt(cursor, n - 1)]

\* The blocks implement a sequence of rows read from any row on: what is
\* copied to the buffer is the row that was asked for, over block limits.
Rows == INSTANCE RowBuffer
          WITH rows <- Stored,
               next <- IF loading THEN 0 ELSE cursor.curRow + 1,
               buffer <- buffer,
               loading <- loading

ReadsRows == Rows!Spec
=============================================================================
