------------------------------ MODULE MCGetData ------------------------------
(* Columns, rows and values for checking GetData. *)
EXTENDS GetData
\* Every kind of column; bound ones with the target they are bound to.
MCColumns == [source : Sources, static : BOOLEAN, bound : {"no", "char", "binary"}]
MCStatic == [source : {"clob", "blob"}, static : {TRUE}, bound : {"no"}]
B(i) == <<"byte", i>>
MCByte == {B(i) : i \in 1..12}
\* Two rows: a value in two segments, longer than a piece, before a shorter one;
\* an empty one; NULL.
MCTables == {<< << <<B(1), B(2), B(3), B(4), B(5)>>, <<B(6)>> >>, << <<B(11), B(12)>> >> >>,
             << << <<B(1)>> >>, << >>, Null >>}
MCSent == {<<B(1), B(2), B(3), B(4), B(5)>>}
=============================================================================
