--------------------------- MODULE MCDescriptors ---------------------------
(* A query, an update and a catalog result for checking Descriptors. *)
EXTENDS Descriptors
CONSTANTS q, d1
Select == [row |-> <<"INTEGER">>, param |-> <<"VARCHAR">>]
Update == [row |-> <<>>, param |-> <<"INTEGER">>]
MCShapes == {Select, Update}
MCCatalog == [row |-> <<"SMALLINT">>, param |-> <<>>]
MCTouched == {<<q, "row">>, <<q, "param">>}
=============================================================================
