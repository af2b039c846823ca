--------------------------- MODULE MCMultisession ---------------------------
(***************************************************************************)
(* Values for checking Multisession with TLC.  Users, hosts and sure_sh    *)
(* threads are alike, so runs without liveness properties permute them.    *)
(***************************************************************************)
EXTENDS Multisession, TLC

Symmetry ==
    Permutations(Users) \cup Permutations(Hosts) \cup Permutations(SureThreads)
=============================================================================
