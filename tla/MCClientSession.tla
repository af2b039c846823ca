-------------------------- MODULE MCClientSession --------------------------
(***************************************************************************)
(* Values for checking ClientSession with TLC.  Users, sessions,           *)
(* threads and games are alike.                                            *)
(***************************************************************************)
EXTENDS ClientSession, TLC

Symmetry ==
    Permutations(Users) \cup Permutations(Sessions) \cup Permutations(Threads)
        \cup Permutations(Games)

(* Nothing is promised after a stray packet or thread, nor of a client     *)
(* that has been left: every invariant and action property but TypeOK and  *)
(* LoginOwn, of what the client shows, says so itself.                     *)
Calm == ~stray /\ running
=============================================================================
