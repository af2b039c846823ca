---------------------------- MODULE MCHypervisor ----------------------------
(***************************************************************************)
(* ServerClose and GamingPick together, for TLC: close() and the choice of *)
(* a session do not meet, so a behaviour is one of the two.                *)
(***************************************************************************)
EXTENDS ServerClose, GamingPick

VARIABLE part   \* "close" or "pick"

(* What the part is left in that is not looked at. *)
PickAtRest ==
    /\ working = {} /\ user_count = 0 /\ max_gaming = 0
    /\ scanPlace = 0 /\ i = 0 /\ result = DomainError /\ scanPc = "done"

CloseAtRest ==
    /\ listed = {} /\ using = {} /\ agreed = {} /\ failed = {} /\ early = {}
    /\ vm = [d \in Domain |-> "off"]
    /\ thread = [th \in Thread |-> "none"] /\ sure_sh_threads = {}
    /\ pc = "closed" /\ list = Gaming /\ place = 0 /\ name = None

(* At most one thread is left over, of the first work domain, which may be *)
(* without a status, listed again, or used again; the errors happen later. *)
(* The second work domain is listed and free, the session listed.  A       *)
(* machine that has halted before is one that halts in the first step.     *)
FewLeft ==
    /\ sure_sh_threads \subseteq {<<1, "old">>} /\ failed = {} /\ early = {}
    /\ {2, 3} \subseteq listed /\ 2 \notin using
    /\ \A d \in Domain : vm[d] = "off" => d \notin listed /\ <<d, "old">> \notin sure_sh_threads

HypervisorInit ==
    \/ part = "close" /\ Init /\ FewLeft /\ PickAtRest
    \/ part = "pick" /\ PickInit /\ CloseAtRest

HypervisorNext ==
    \/ part = "close" /\ Next /\ UNCHANGED <<part, pickVars>>
    \/ part = "pick" /\ PickNext /\ UNCHANGED <<part, vars>>

HypervisorSpec ==
    HypervisorInit /\ [][HypervisorNext]_<<part, vars, pickVars>> /\ Fairness
=============================================================================
