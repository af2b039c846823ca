---------------------------- MODULE SessionPool ----------------------------
(***************************************************************************)
(* What the server promises about gaming sessions, with no program in it:  *)
(* sessions are offered and withdrawn, a user may hold one offered session *)
(* at a time, a held session is neither withdrawn nor given to another     *)
(* user before its holder lets go of it.                                   *)
(***************************************************************************)
CONSTANTS
    Users,      \* the registered users
    Sessions,   \* the gaming sessions
    NoUser      \* the holder of a session nobody plays in

VARIABLES
    offered,    \* the sessions that are up and ready to be played in
    holder      \* who plays in each session
poolVars == <<offered, holder>>

PoolTypeOK ==
    /\ offered \subseteq Sessions
    /\ holder \in [Sessions -> Users \cup {NoUser}]

PoolInit ==
    /\ offered = {}
    /\ holder = [s \in Sessions |-> NoUser]

(* A session has booted. *)
Offer(s) ==
    /\ s \notin offered
    /\ offered' = offered \cup {s}
    /\ UNCHANGED holder

(* A session that nobody holds is shut down. *)
Withdraw(s) ==
    /\ s \in offered
    /\ holder[s] = NoUser
    /\ offered' = offered \ {s}
    /\ UNCHANGED holder

(* User u, who plays nowhere, starts to play in s. *)
Acquire(u, s) ==
    /\ s \in offered
    /\ holder[s] = NoUser
    /\ \A r \in Sessions : holder[r] # u
    /\ holder' = [holder EXCEPT ![s] = u]
    /\ UNCHANGED offered

(* User u lets go of the session he or she plays in. *)
Release(u, s) ==
    /\ holder[s] = u
    /\ holder' = [holder EXCEPT ![s] = NoUser]
    /\ UNCHANGED offered

PoolNext ==
    \E s \in Sessions :
        \/ Offer(s)
        \/ Withdraw(s)
        \/ \E u \in Users : Acquire(u, s) \/ Release(u, s)

PoolSpec == PoolInit /\ [][PoolNext]_poolVars

(* Nobody holds two sessions, and only a session that is up is held: what  *)
(* the checks of packet 3 (main.py:433) and of find_empty_gaming_status    *)
(* (hypervisor.py:468) are for.                                            *)
OneSessionEach ==
    /\ \A r, s \in Sessions :
          holder[r] = holder[s] /\ holder[r] # NoUser => r = s
    /\ \A s \in Sessions : holder[s] # NoUser => s \in offered
=============================================================================
