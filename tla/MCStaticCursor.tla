---------------------------- MODULE MCStaticCursor ----------------------------
(* Instances of StaticCursor for TLC. *)
EXTENDS StaticCursor

OffsetBound == 4
MCOffsets == -OffsetBound .. OffsetBound
=============================================================================
