--------------------------- MODULE MCTimeoutCheck ---------------------------
(***************************************************************************)
(* Values for checking TimeoutCheck with TLC: two users, in the order 1, 2 *)
(* of their names.                                                         *)
(***************************************************************************)
EXTENDS TimeoutCheck

(* In calm conditions two changes of the list can make up for a limit of   *)
(* three, and the third log-in is of a user whose log-out was sent twice;  *)
(* in others the network takes the place of the third.                     *)
MCMaxCount == [c \in BOOLEAN |-> IF c THEN 3 ELSE 2]
MCMaxLogins == [c \in BOOLEAN |-> IF c THEN 3 ELSE 2]
MCMaxLogouts == [c \in BOOLEAN |-> IF c THEN 2 ELSE 1]
=============================================================================
