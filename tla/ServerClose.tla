---------------------------- MODULE ServerClose ----------------------------
(***************************************************************************)
(* Hypervisor.close of server/hypervisor.py, which shutdown() of main.py   *)
(* calls: the main thread goes through the two status lists and shuts down *)
(* what is not used, and what is used if the operator agrees, and then     *)
(* waits for the sure_sh threads.  shutdown_name takes statuses out of the *)
(* list that is being gone through, and starts a thread before it puts it  *)
(* into the list of threads that the thread takes itself out of.           *)
(***************************************************************************)
EXTENDS Integers, FiniteSets

CONSTANTS
    Work, Gaming,   \* the domains, in the order of their names
    None            \* no domain

Domain == Work \cup Gaming

ASSUME ServerCloseAssumption ==
    /\ Work \subseteq Int /\ Gaming \subseteq Int
    /\ IsFiniteSet(Work) /\ IsFiniteSet(Gaming)
    /\ Work \cap Gaming = {}
    /\ None \notin Domain

(* The sure_sh threads: a domain may have one of an earlier shutdown_name, *)
(* and gets one when close() shuts it down.                                *)
Thread == Domain \X {"old", "new"}

VARIABLES
    vm,         \* "off", "on" or "stopping"
    listed,     \* the domains with a status in a list
    using,      \* the listed domains that somebody uses
    agreed,     \* the used domains that the operator lets go
    pc,         \* where the main thread is in close() and shutdown_name
    list,       \* the list it goes through
    place,      \* the index it looks at next
    name,       \* the domain shutdown_name is busy with
    thread,     \* where a sure_sh thread is
    sure_sh_threads,    \* the list of threads
    failed,     \* history: the domains a thread of which was ended by an
                \* error of the driver
    early       \* history: the threads that ended before they were put into
                \* the list, where nothing removes them

domainVars == <<vm, listed, using>>
mainVars == <<agreed, pc, list, place, name>>
history == <<failed, early>>
threadVars == <<thread, sure_sh_threads, history>>
vars == <<domainVars, mainVars, threadVars>>

Alive(th) == thread[th] \notin {"none", "ended"}

TypeOK ==
    /\ vm \in [Domain -> {"off", "on", "stopping"}]
    /\ using \subseteq listed /\ listed \subseteq Domain
    /\ agreed \subseteq Domain
    /\ pc \in {"each", "append", "erase", "wait", "closed"}
    /\ list \in {Work, Gaming}
    /\ place \in Nat
    /\ name \in Domain \cup {None}
    /\ thread \in [Thread -> {"none", "check", "send", "sleep", "ended"}]
    /\ sure_sh_threads \subseteq Thread
    /\ failed \subseteq Domain /\ early \subseteq Thread

(* The server may be closed while a domain without a status is still on    *)
(* its way down, or left running by a thread that an error has ended, and  *)
(* while one with a status has halted, or was listed again before its      *)
(* thread had done with it, so that this thread still runs.  A thread may  *)
(* have been put into the list after it had ended.                         *)
Init ==
    /\ listed \in SUBSET Domain /\ using \in SUBSET listed
    /\ vm \in [Domain -> {"off", "on"}]
    /\ sure_sh_threads \in SUBSET (Domain \X {"old"})
    /\ early \in SUBSET sure_sh_threads
    /\ thread = [th \in Thread |-> IF th \in early THEN "ended"
                                   ELSE IF th \in sure_sh_threads THEN "check" ELSE "none"]
    /\ failed = {d \in Domain \ listed :
                    vm[d] # "off" /\ <<d, "old">> \notin sure_sh_threads \ early}
    /\ agreed = {}
    /\ pc = "each" /\ list = Work /\ place = 0
    /\ name = None

-----------------------------------------------------------------------------
(* The main thread. *)

InList == listed \cap list
Exhausted == place >= Cardinality(InList)
Here(d) == d \in InList /\ Cardinality({e \in InList : e < d}) = place

(* shutdown_name begins: the thread is started. *)
ThreadStart(d) ==
    /\ thread' = [thread EXCEPT ![<<d, "new">>] = "check"]
    /\ pc' = "append" /\ name' = d
    /\ UNCHANGED <<list, sure_sh_threads, history>>

NextList ==
    /\ Exhausted
    /\ place' = 0
    /\ IF list = Work THEN list' = Gaming /\ UNCHANGED pc
                      ELSE pc' = "wait" /\ UNCHANGED list
    /\ UNCHANGED <<agreed, name, threadVars>>

(* Faulty: what is used is not told from what is not. *)
CloseUnused_any(d) ==
    /\ Here(d)
    /\ ThreadStart(d)
    /\ place' = place + 1
    /\ UNCHANGED agreed

CloseUnused(d) ==
    /\ Here(d) /\ d \notin using
    /\ ThreadStart(d)
    /\ place' = place + 1
    /\ UNCHANGED agreed

(* The operator is asked, and says yes or no. *)
CloseForced(d) ==
    /\ Here(d) /\ d \in using
    /\ ThreadStart(d)
    /\ agreed' = agreed \cup {d}
    /\ place' = place + 1

CloseKept(d) ==
    /\ Here(d) /\ d \in using
    /\ place' = place + 1
    /\ UNCHANGED <<agreed, pc, list, name, threadVars>>

(* One turn of a for loop over a status list. *)
Each ==
    /\ pc = "each"
    /\ NextList \/ \E d \in Domain : CloseUnused(d) \/ CloseForced(d) \/ CloseKept(d)
    /\ UNCHANGED domainVars

ThreadAppend ==
    /\ pc = "append"
    /\ sure_sh_threads' = sure_sh_threads \cup {<<name, "new">>}
    /\ pc' = "erase"
    /\ UNCHANGED <<domainVars, agreed, list, place, name, thread, history>>

StatusErase ==
    /\ pc = "erase"
    /\ listed' = listed \ {name} /\ using' = using \ {name}
    /\ pc' = "each" /\ name' = None
    /\ UNCHANGED <<vm, agreed, list, place, threadVars>>

(* Faulty: nobody waits. *)
WaitEnd_early ==
    /\ pc = "wait"
    /\ pc' = "closed"
    /\ UNCHANGED <<domainVars, agreed, list, place, name, threadVars>>

(* Threads are joined again and again while there is one in the list.      *)
WaitEnd ==
    /\ pc = "wait" /\ sure_sh_threads = {}
    /\ pc' = "closed"
    /\ UNCHANGED <<domainVars, agreed, list, place, name, threadVars>>
-----------------------------------------------------------------------------
(* A sure_sh thread th, of the domain th[1]. *)

(* The loop is left and the thread takes itself out of the list.  If it is *)
(* not there yet, a ValueError ends it, and it is put there afterwards.    *)
Ends(th) ==
    /\ thread' = [thread EXCEPT ![th] = "ended"]
    /\ sure_sh_threads' = sure_sh_threads \ {th}
    /\ early' = early \cup ({th} \ sure_sh_threads)

(* Faulty: the thread stays in the list. *)
SureCheck_stays(th) ==
    /\ thread[th] = "check"
    /\ thread' = [thread EXCEPT ![th] = IF vm[th[1]] = "off" THEN "ended" ELSE "send"]
    /\ UNCHANGED <<sure_sh_threads, history, domainVars, mainVars>>

(* check_running: the machine is down or not. *)
SureCheck(th) ==
    /\ thread[th] = "check"
    /\ \/ vm[th[1]] = "off" /\ Ends(th)
       \/ /\ vm[th[1]] # "off" /\ thread' = [thread EXCEPT ![th] = "send"]
          /\ UNCHANGED <<sure_sh_threads, early>>
    /\ UNCHANGED <<domainVars, mainVars, failed>>

(* The flag is sent, and taken or ignored; to a machine that has gone down *)
(* it cannot be sent: the loop is left.                                    *)
SureSend(th) ==
    /\ thread[th] = "send"
    /\ \/ vm[th[1]] = "off" /\ Ends(th) /\ UNCHANGED vm
       \/ /\ vm[th[1]] # "off" /\ thread' = [thread EXCEPT ![th] = "sleep"]
          /\ vm' \in {vm, [vm EXCEPT ![th[1]] = "stopping"]}
          /\ UNCHANGED <<sure_sh_threads, early>>
    /\ UNCHANGED <<listed, using, mainVars, failed>>

(* An error of the driver: check_running takes it for "not running", and   *)
(* lookupByName and shutdown() leave the loop.                             *)
SureFails(th) ==
    /\ thread[th] \in {"check", "send"}
    /\ Ends(th)
    /\ failed' = failed \cup {th[1]}
    /\ UNCHANGED <<domainVars, mainVars>>

(* 30 seconds, in which the main thread has put the thread into the list.  *)
SureWake(th) ==
    /\ thread[th] = "sleep" /\ th \in sure_sh_threads
    /\ thread' = [thread EXCEPT ![th] = "check"]
    /\ UNCHANGED <<domainVars, mainVars, sure_sh_threads, history>>

(* A guest halts because it was told to, or as its user likes.             *)
GuestHalts(d) ==
    /\ vm[d] # "off"
    /\ vm' = [vm EXCEPT ![d] = "off"]
    /\ UNCHANGED <<listed, using, mainVars, threadVars>>

SureStep(th) == SureCheck(th) \/ SureSend(th) \/ SureFails(th) \/ SureWake(th)
MainStep == Each \/ ThreadAppend \/ StatusErase \/ WaitEnd
Next ==
    \/ MainStep
    \/ \E th \in Thread : SureStep(th)
    \/ \E d \in Domain : GuestHalts(d)

Spec == Init /\ [][Next]_vars

(* The threads run, a guest that is told again and again to shut down does *)
(* so, and the operator answers.                                           *)
Fairness ==
    /\ WF_vars(MainStep)
    /\ \A th \in Thread :
          /\ WF_vars(SureStep(th))
          /\ SF_vars(SureSend(th) /\ vm'[th[1]] # "on")
    /\ \A d \in Domain : WF_vars(vm[d] = "stopping" /\ GuestHalts(d))
FairSpec == Spec /\ Fairness
-----------------------------------------------------------------------------
(* Once close() has ended, every domain without a status is down, unless   *)
(* an error of the driver has ended a thread of it: the wait for the       *)
(* sure_sh threads covers them all, those of earlier shutdowns too.        *)
ClosedIsDown == pc = "closed" => \A d \in Domain \ (listed \cup failed) : vm[d] = "off"

(* A domain that is used is told to shut down only if the operator agrees, *)
(* but by a thread that is left over from an earlier shutdown of it.       *)
UsedIsAsked ==
    [][\A d \in using : vm[d] # "stopping" /\ vm'[d] = "stopping"
          => d \in agreed \/ Alive(<<d, "old">>)]_vars

(* hypervisor.py:574 "All threads ended their work": the wait ends,        *)
(* whatever the guests, the driver and left-over threads do, unless a      *)
(* thread has ended before it was put into the list (Ends): that one stays *)
(* there and close() waits for ever.                                       *)
CloseEnds == <>(pc = "closed" \/ early # {})
=============================================================================
