------------------------------ MODULE MCValues ------------------------------
(* Numbers, dates, columns and fields for checking Values and what extends it. *)
EXTENDS Reports, TLC
\* Around zero, around the limits of a byte and beyond, and numbers that round.
MCNumbers == {-1000, -129, -128, -127, -50, -15, -5, -1, 0, 1, 4, 5, 9, 10, 49, 50, 105, 127,
              128, 255, 256, 1000, 12345}
MCStamps == {-36523, -1, 0, 15018, 60000} \X {0, 1, 99, 100, 9999, 10000, 36000000, 863999999}
MCStarts == {D!Day(y, 1, 1) : y \in {1, 100, 1600, 1858, 1900, 2000, 2023}}
\* Columns the server can declare: texts in character sets of one to four bytes,
\* numbers by the width of their storage, computed numbers without a precision.
Simple(is) == [is |-> is, chars |-> 0, charset |-> 0, digits |-> 0, scale |-> 0, sub |-> 0]
MCDeclared ==
  [is : {"CHAR", "VARCHAR"}, chars : {1, 10}, charset : 0..8, digits : {0}, scale : {0}, sub : {0}]
  \cup {Simple(is) : is \in {"SMALLINT", "INTEGER", "BIGINT", "REAL", "DOUBLE", "BOOLEAN", "DATE", "TIME",
                             "TIMESTAMP", "BLOB", "DECFLOAT", "INT128", "TIME_TZ", "TIMESTAMP_TZ"}}
  \cup {[Simple("BLOB") EXCEPT !.sub = 1]}
  \cup UNION {[is : {p[1]}, chars : {0}, charset : {0}, digits : {0, p[2]}, scale : {0, -1, -p[2]},
               sub : p[3]] :
              p \in {<<"SMALLINT", 4, {1}>>, <<"INTEGER", 9, {1, 2}>>, <<"BIGINT", 18, {1, 2}>>,
                     <<"DOUBLE", 15, {1, 2}>>}}
  \cup [is : {"SMALLINT", "INTEGER", "BIGINT"}, chars : {0}, charset : {0}, digits : {0}, scale : {-1, -3},
        sub : {0}]
MCFields == A!HeadFields \cup A!Buffer
            \cup {"TYPE", "CONCISE_TYPE", "OCTET_LENGTH", "LENGTH", "SCALE", "NAME", "TYPE_NAME", "UNNAMED", "PARAMETER_TYPE",
                  "LABEL", "NULLABLE"}
=============================================================================
