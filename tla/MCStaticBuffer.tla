---------------------------- MODULE MCStaticBuffer ----------------------------
(* Instances of StaticBuffer for TLC. *)
EXTENDS StaticBuffer
=============================================================================
