------------------------------ MODULE MCVideo -------------------------------
(***************************************************************************)
(* Values for checking Video with TLC: a ring of bytes that a unit of two  *)
(* entries passes the end of at every place, also in its second entry.     *)
(***************************************************************************)
EXTENDS Video

MCUnits == {<<1>>, <<2, 1>>, <<2, 2>>}
=============================================================================
