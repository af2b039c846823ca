---------------------------- MODULE Multisession ----------------------------
(***************************************************************************)
(* The Moonlight Multisession server (server/main.py, hypervisor.py,       *)
(* users.py): the main loop that serves packets, the User objects, the     *)
(* lists of domain statuses, the libvirt driver with its virtual machines, *)
(* the sure_sh threads that shut machines down, the gaming startup threads *)
(* and the operator's command line (shell.py).                             *)
(*                                                                         *)
(* The main loop is one thread.  A handler is one action, except where it  *)
(* reads the driver and acts on the answer later: machines and threads may *)
(* move in between, so the driver is read in one action and acted upon in  *)
(* the next, and main says where the main thread is.                       *)
(***************************************************************************)
EXTENDS Integers, FiniteSets

CONSTANTS
    Users,          \* the rows of table Users; a user's name is unique
    Hosts,          \* addresses that clients send their packets from
    DefinedGaming,  \* gaming sessions g0 .. g(n-1) are defined in libvirt
    MaxGaming,      \* gaming_sessions_number of srv_config.conf
    AlreadyRunning, \* the domains that may be running when the server starts
    SureThreads,    \* bound: at most this many sure_sh threads at a time
    DriverErrors,   \* whether libvirt calls may fail for no visible reason
    NoUser, NoHost, NoDomain

(* find_gaming_domain_down relies on the status list being in the order of *)
(* the session numbers, which the order of names is up to ten sessions.    *)
ASSUME MultisessionAssumption ==
    /\ DefinedGaming \in Nat
    /\ MaxGaming \in 0..DefinedGaming
    /\ DefinedGaming <= 10
    /\ IsFiniteSet(Users)
    /\ Users \cap Int = {}
    /\ AlreadyRunning \subseteq Users \cup 0..(DefinedGaming - 1)
    /\ NoUser \notin Users
    /\ NoHost \notin Hosts
    /\ NoDomain \notin Users \cup Int
    /\ DriverErrors \in BOOLEAN

(* Gaming session "g<i>" is named by its number i; the work domain         *)
(* "win-work-<user>" is named by its user.                                 *)
Gaming == 0..(DefinedGaming - 1)
Domain == Gaming \cup Users

VARIABLES
    (* the driver *)
    vm,         \* "off", "on" or "stopping": was told to shut down
    (* the status lists of the Hypervisor object *)
    listed,     \* the domains that have a status in a list
    booting,    \* the listed gaming domains whose booting_up flag is set
    holder,     \* status.user, and status.using is that there is one
    (* the User objects *)
    host,       \* the ip of a user in user_status, NoHost for the others
    userCount,  \* user_count
    state,      \* User.__state
    gamingLink, \* User.__using_gaming_status
    workLink,   \* User.__using_work_status
    (* threads *)
    main,       \* where the main thread is, the domain it is busy with and
                \* what check_running has told about that domain
    sureName,   \* the domain each sure_sh thread shuts down
    surePc,     \* where each of them is
    cli         \* the packet the command line has put in the queue

statusVars == <<listed, booting, holder>>
userVars == <<host, userCount, state, gamingLink, workLink>>
sureVars == <<sureName, surePc>>
vars == <<vm, statusVars, userVars, main, sureVars, cli>>

-----------------------------------------------------------------------------
LOGGED_IN         == 0
USE_GAMING_DOMAIN == 1
USE_WORK_DOMAIN   == 2
USE_BOTH_DOMAINS  == 3

Plays(u) == state[u] \in {USE_GAMING_DOMAIN, USE_BOTH_DOMAINS}
Works(u) == state[u] \in {USE_WORK_DOMAIN, USE_BOTH_DOMAINS}
user_status == {u \in Users : host[u] # NoHost}
gaming_domains_working == listed \cap Gaming

CliRequest == {<<"none", NoUser>>} \cup ({"use_work", "left_work"} \X Users)
noRequest == <<"none", NoUser>>

MainState == [at : {"loop", "work", "pick", "game", "out", "dead"},
              name : Domain \cup {NoDomain}, running : BOOLEAN]

(* The main thread at place p, about no domain. *)
At(p) == [at |-> p, name |-> NoDomain, running |-> FALSE]

TypeOK ==
    /\ vm \in [Domain -> {"off", "on", "stopping"}]
    /\ listed \subseteq Domain
    /\ booting \subseteq gaming_domains_working
    /\ holder \in [Domain -> Users \cup {NoUser}]
    /\ host \in [Users -> Hosts \cup {NoHost}]
    /\ userCount \in Int
    /\ state \in [Users -> LOGGED_IN..USE_BOTH_DOMAINS]
    /\ gamingLink \in [Users -> Gaming \cup {NoDomain}]
    /\ workLink \in [Users -> Users \cup {NoDomain}]
    /\ main \in MainState
    /\ sureName \in [SureThreads -> Domain \cup {NoDomain}]
    /\ surePc \in [SureThreads -> {"check", "send"}]
    /\ cli \in CliRequest

(* The server starts next to a driver that may have machines running:      *)
(* __find_running lists each of them, and its gaming ones as booting up.   *)
Init ==
    /\ \E up \in SUBSET AlreadyRunning :
          vm = [d \in Domain |-> IF d \in up THEN "on" ELSE "off"]
    /\ listed = {d \in Domain : vm[d] = "on"}
    /\ booting = listed \cap Gaming
    /\ holder = [d \in Domain |-> NoUser]
    /\ host = [u \in Users |-> NoHost]
    /\ userCount = 0
    /\ state = [u \in Users |-> LOGGED_IN]
    /\ gamingLink = [u \in Users |-> NoDomain]
    /\ workLink = [u \in Users |-> NoDomain]
    /\ main = At("loop")
    /\ sureName = [t \in SureThreads |-> NoDomain]
    /\ surePc = [t \in SureThreads |-> "check"]
    /\ cli = noRequest

-----------------------------------------------------------------------------
(* The hypervisor's part of the handlers. *)

(* What check_running may answer: a failing call answers that d is down. *)
check_running(d) == {vm[d] # "off"} \cup (IF DriverErrors THEN {FALSE} ELSE {})

(* Faulty: every new status is marked as booting up. *)
AddStatus_allBooting(d) ==
    /\ listed' = listed \cup {d}
    /\ booting' = booting \cup {d}
    /\ holder' = [holder EXCEPT ![d] = NoUser]

(* A new status is neither used nor, for a gaming domain, ready; a startup *)
(* thread is started with it.                                              *)
AddStatus(d) ==
    /\ listed' = listed \cup {d}
    /\ booting' = booting \cup ({d} \cap Gaming)
    /\ holder' = [holder EXCEPT ![d] = NoUser]

(* A libvirt call of startup_name fails.  That is caught for a domain that *)
(* is down and has no status, and the machine may be created by then; in   *)
(* the other two cases it ends the main thread.                            *)
DriverFails(d, next) ==
    /\ DriverErrors /\ ~(d \in listed /\ main.running)
    /\ LET caught == d \notin listed /\ ~main.running
       IN  /\ main' = At(IF caught THEN next ELSE "dead")
           /\ vm' \in {vm} \cup (IF caught /\ vm[d] = "off"
                                THEN {[vm EXCEPT ![d] = "on"]} ELSE {})
    /\ UNCHANGED statusVars

(* startup_name(d) once __find_mendacity has found whether d has a status  *)
(* and whether it runs; the main thread goes on to place next.  A gaming   *)
(* domain with a status that is down is created, and then an unbound name  *)
(* ends the main thread.                                                   *)
startup_name(d, next) ==
    \/ /\ d \in listed /\ main.running
       /\ main' = At(next)
       /\ UNCHANGED <<vm, statusVars>>
    \/ /\ d \notin listed /\ main.running
       /\ AddStatus(d)
       /\ main' = At(next)
       /\ UNCHANGED vm
    \/ /\ d \notin listed /\ ~main.running
       /\ vm[d] = "off"
       /\ vm' = [vm EXCEPT ![d] = "on"]
       /\ AddStatus(d)
       /\ main' = At(next)
    \/ /\ d \in listed /\ ~main.running
       /\ vm[d] = "off"
       /\ vm' = [vm EXCEPT ![d] = "on"]
       /\ main' = At(IF d \in Gaming THEN "dead" ELSE next)
       /\ UNCHANGED statusVars
    \/ DriverFails(d, next)

(* The part of shutdown_name that a handler runs for a domain that is      *)
(* listed and not used: a sure_sh thread starts, the status goes.          *)
shutdown_name(d) ==
    /\ \E t \in SureThreads :
          /\ sureName[t] = NoDomain
          /\ sureName' = [sureName EXCEPT ![t] = d]
          /\ surePc' = [surePc EXCEPT ![t] = "check"]
    /\ listed' = listed \ {d}
    /\ booting' = booting \ {d}

(* Faulty: using is not looked at. *)
EmptyGaming_used == gaming_domains_working \ booting

(* The first unused and booted session of the sorted list. *)
EmptyGaming ==
    {d \in gaming_domains_working \ booting : holder[d] = NoUser}
find_empty_gaming_status ==
    CHOOSE d \in EmptyGaming : \A e \in EmptyGaming : d <= e

(* The scan of the sorted list for the first number that is missing.  One  *)
(* found inside the list is taken whatever it is, one past the end of the  *)
(* list only below max_gaming_count.                                       *)
FirstGap ==
    CHOOSE i \in 0..DefinedGaming :
        /\ i \notin gaming_domains_working
        /\ \A j \in 0..(i - 1) : j \in gaming_domains_working
find_gaming_domain_down ==
    IF /\ userCount > Cardinality(gaming_domains_working)
       /\ \/ FirstGap < MaxGaming
          \/ \E d \in gaming_domains_working : d > FirstGap
    THEN FirstGap
    ELSE NoDomain
-----------------------------------------------------------------------------
(* The User object's part of the handlers. *)

(* use_gaming_domain and use_work_domain, of a user who may. *)
UseDomain(u, d) ==
    /\ holder' = [holder EXCEPT ![d] = u]
    /\ IF d \in Gaming
       THEN /\ state' = [state EXCEPT ![u] = IF Works(u) THEN USE_BOTH_DOMAINS
                                                        ELSE USE_GAMING_DOMAIN]
            /\ gamingLink' = [gamingLink EXCEPT ![u] = d]
            /\ UNCHANGED workLink
       ELSE /\ state' = [state EXCEPT ![u] = IF Plays(u) THEN USE_BOTH_DOMAINS
                                                        ELSE USE_WORK_DOMAIN]
            /\ workLink' = [workLink EXCEPT ![u] = d]
            /\ UNCHANGED gamingLink

(* Faulty: the link to the status stays. *)
left_gaming_domain_keepsLink(u) ==
    /\ Plays(u)
    /\ state' = [state EXCEPT ![u] = IF Works(u) THEN USE_WORK_DOMAIN ELSE LOGGED_IN]
    /\ holder' = [holder EXCEPT ![gamingLink[u]] = NoUser]
    /\ UNCHANGED <<gamingLink, workLink>>

left_gaming_domain(u) ==
    /\ Plays(u)
    /\ state' = [state EXCEPT ![u] = IF Works(u) THEN USE_WORK_DOMAIN ELSE LOGGED_IN]
    /\ holder' = [holder EXCEPT ![gamingLink[u]] = NoUser]
    /\ gamingLink' = [gamingLink EXCEPT ![u] = NoDomain]
    /\ UNCHANGED workLink

(* Leaves whichever domains the state says the user is in. *)
prepare_logout(u) ==
    LET left == (IF Plays(u) THEN {gamingLink[u]} ELSE {})
                    \cup (IF Works(u) THEN {workLink[u]} ELSE {})
    IN  /\ state' = [state EXCEPT ![u] = LOGGED_IN]
        /\ holder' = [d \in Domain |-> IF d \in left THEN NoUser ELSE holder[d]]
        /\ gamingLink' = IF Plays(u) THEN [gamingLink EXCEPT ![u] = NoDomain]
                                     ELSE gamingLink
        /\ workLink' = IF Works(u) THEN [workLink EXCEPT ![u] = NoDomain]
                                   ELSE workLink
-----------------------------------------------------------------------------
(* log_user_in.  A user who is already in from another address is refused, *)
(* and so is a wrong password: neither changes anything.                   *)

(* The same user from the same address is back: the domains are freed. *)
LogInAgain(u) ==
    /\ main.at = "loop" /\ u \in user_status
    /\ prepare_logout(u)
    /\ UNCHANGED <<vm, listed, booting, host, userCount, main, sureVars, cli>>

(* A new User object, and a look at the user's work domain. *)
LogIn(u, h) ==
    /\ main.at = "loop" /\ u \notin user_status
    /\ host' = [host EXCEPT ![u] = h]
    /\ userCount' = userCount + 1
    /\ state' = [state EXCEPT ![u] = LOGGED_IN]
    /\ gamingLink' = [gamingLink EXCEPT ![u] = NoDomain]
    /\ workLink' = [workLink EXCEPT ![u] = NoDomain]
    /\ \E up \in check_running(u) : main' = [at |-> "work", name |-> u, running |-> up]
    /\ UNCHANGED <<vm, statusVars, sureVars, cli>>

StartupWork ==
    /\ main.at = "work"
    /\ startup_name(main.name, "pick")
    /\ UNCHANGED <<userVars, sureVars, cli>>

(* The choice of a gaming domain, and a look at it. *)
PickGaming ==
    /\ main.at = "pick"
    /\ LET d == find_gaming_domain_down
       IN  IF userCount <= MaxGaming /\ d # NoDomain
           THEN \E up \in check_running(d) :
                    main' = [at |-> "game", name |-> d, running |-> up]
           ELSE main' = At("loop")
    /\ UNCHANGED <<vm, statusVars, userVars, sureVars, cli>>

StartupGaming ==
    /\ main.at = "game"
    /\ startup_name(main.name, "loop")
    /\ UNCHANGED <<userVars, sureVars, cli>>

(* Faulty: the domains in use are not left. *)
LogOut_noLeave(u) ==
    /\ main.at = "loop" /\ u \in user_status
    /\ main' = [At("out") EXCEPT !.name = u]
    /\ IF u \in listed
       THEN shutdown_name(u)
       ELSE UNCHANGED <<listed, booting, sureVars>>
    /\ UNCHANGED <<vm, holder, host, userCount, state, gamingLink, workLink, cli>>

(* log_user_out; a user who is not in any more is ignored.  The packet is  *)
(* the user's own, the timeout check's, a late or a repeated one.          *)
LogOut(u) ==
    /\ main.at = "loop" /\ u \in user_status
    /\ main' = [At("out") EXCEPT !.name = u]
    /\ prepare_logout(u)
    /\ IF u \in listed
       THEN shutdown_name(u)
       ELSE UNCHANGED <<listed, booting, sureVars>>
    /\ UNCHANGED <<vm, host, userCount, cli>>

(* Faulty: a session goes although all of them are still needed. *)
LogOutGaming_oneTooMany ==
    /\ main.at = "out"
    /\ IF userCount - 1 <= MaxGaming /\ EmptyGaming # {}
       THEN shutdown_name(find_empty_gaming_status)
       ELSE UNCHANGED <<listed, booting, sureVars>>
    /\ userCount' = userCount - 1
    /\ host' = [host EXCEPT ![main.name] = NoHost]
    /\ main' = At("loop")
    /\ UNCHANGED <<vm, holder, state, gamingLink, workLink, cli>>

(* The second half: one ready gaming domain goes, if one is to spare. *)
LogOutGaming ==
    /\ main.at = "out"
    /\ IF userCount - 1 < MaxGaming /\ EmptyGaming # {}
       THEN shutdown_name(find_empty_gaming_status)
       ELSE UNCHANGED <<listed, booting, sureVars>>
    /\ userCount' = userCount - 1
    /\ host' = [host EXCEPT ![main.name] = NoHost]
    /\ main' = At("loop")
    /\ UNCHANGED <<vm, holder, state, gamingLink, workLink, cli>>

(* Packet 3.  An unknown user, one who plays already and a lack of ready   *)
(* domains are answered and change nothing.                                *)
UseGaming(u) ==
    /\ main.at = "loop" /\ u \in user_status
    /\ ~Plays(u)
    /\ EmptyGaming # {}
    /\ UseDomain(u, find_empty_gaming_status)
    /\ UNCHANGED <<vm, listed, booting, host, userCount, main, sureVars, cli>>

(* Packet 4. *)
LeftGaming(u) ==
    /\ main.at = "loop" /\ u \in user_status
    /\ left_gaming_domain(u)
    /\ UNCHANGED <<vm, listed, booting, host, userCount, main, sureVars, cli>>

(* The operator picks a user of the list at the command line: a packet 5   *)
(* or 6 with the user's id is queued for the main loop.                    *)
CliChoose(u, what) ==
    /\ cli = noRequest /\ u \in user_status
    /\ cli' = <<what, u>>
    /\ UNCHANGED <<vm, statusVars, userVars, main, sureVars>>

(* Packet 5.  The user may have gone since the operator chose: an          *)
(* AttributeError ends the main loop.  Where the work domain has no status *)
(* e.get_code, a method, is compared with a number: nothing is started.    *)
UseWork ==
    LET u == cli[2] IN
    /\ main.at = "loop" /\ cli[1] = "use_work"
    /\ cli' = noRequest
    /\ IF u \notin user_status
       THEN main' = At("dead") /\ UNCHANGED <<holder, state, gamingLink, workLink>>
       ELSE /\ UNCHANGED main
            /\ IF u \in listed /\ holder[u] = NoUser /\ ~Works(u)
               THEN UseDomain(u, u)
               ELSE UNCHANGED <<holder, state, gamingLink, workLink>>
    /\ UNCHANGED <<vm, listed, booting, host, userCount, sureVars>>

(* Packet 6.  The handler calls a method of User on what is a user's id:   *)
(* an AttributeError ends the main loop.                                   *)
LeftWork ==
    /\ main.at = "loop" /\ cli[1] = "left_work"
    /\ cli' = noRequest
    /\ main' = At("dead")
    /\ UNCHANGED <<vm, statusVars, userVars, sureVars>>
-----------------------------------------------------------------------------
(* The other threads. *)

(* __gaming_startup has heard from the slave of d.  The answer may be      *)
(* older than the machine's last halt.                                     *)
GamingBooted(d) ==
    /\ d \in booting
    /\ booting' = booting \ {d}
    /\ UNCHANGED <<vm, listed, holder, userVars, main, sureVars, cli>>

(* __sure_shutdown: the loop test, and the end of the thread. *)
SureCheck(t) ==
    /\ sureName[t] # NoDomain /\ surePc[t] = "check"
    /\ \E up \in check_running(sureName[t]) :
          IF up
          THEN surePc' = [surePc EXCEPT ![t] = "send"] /\ UNCHANGED sureName
          ELSE sureName' = [sureName EXCEPT ![t] = NoDomain] /\ UNCHANGED surePc
    /\ UNCHANGED <<vm, statusVars, userVars, main, cli>>

(* The loop body: a running guest takes the flag or ignores it. *)
SureSend(t) ==
    /\ sureName[t] # NoDomain /\ surePc[t] = "send"
    /\ vm[sureName[t]] # "off"
    /\ vm' = [vm EXCEPT ![sureName[t]] = "stopping"]
    /\ surePc' = [surePc EXCEPT ![t] = "check"]
    /\ UNCHANGED <<statusVars, userVars, main, sureName, cli>>

(* Faulty: the flag is sent once and not repeated. *)
SureIgnored_noRetry(t) ==
    /\ sureName[t] # NoDomain /\ surePc[t] = "send"
    /\ vm[sureName[t]] # "off"
    /\ sureName' = [sureName EXCEPT ![t] = NoDomain]
    /\ surePc' = [surePc EXCEPT ![t] = "check"]
    /\ UNCHANGED <<vm, statusVars, userVars, main, cli>>

SureIgnored(t) ==
    /\ sureName[t] # NoDomain /\ surePc[t] = "send"
    /\ vm[sureName[t]] # "off"
    /\ surePc' = [surePc EXCEPT ![t] = "check"]
    /\ UNCHANGED <<vm, statusVars, userVars, main, sureName, cli>>

(* shutdown() fails, as it does for a machine that is off: break. *)
SureBreak(t) ==
    /\ sureName[t] # NoDomain /\ surePc[t] = "send"
    /\ DriverErrors \/ vm[sureName[t]] = "off"
    /\ sureName' = [sureName EXCEPT ![t] = NoDomain]
    /\ surePc' = [surePc EXCEPT ![t] = "check"]
    /\ UNCHANGED <<vm, statusVars, userVars, main, cli>>

(* A machine that was told to shut down does, and a guest may also be shut *)
(* down from within or crash.                                              *)
GuestHalts(d) ==
    /\ vm[d] # "off"
    /\ vm' = [vm EXCEPT ![d] = "off"]
    /\ UNCHANGED <<statusVars, userVars, main, sureVars, cli>>

Next ==
    \/ \E u \in Users :
          \/ \E h \in Hosts : LogIn(u, h)
          \/ LogInAgain(u) \/ LogOut(u) \/ UseGaming(u) \/ LeftGaming(u)
          \/ \E what \in {"use_work", "left_work"} : CliChoose(u, what)
    \/ StartupWork \/ PickGaming \/ StartupGaming \/ LogOutGaming
    \/ UseWork \/ LeftWork
    \/ \E d \in Domain : GamingBooted(d) \/ GuestHalts(d)
    \/ \E t \in SureThreads :
          SureCheck(t) \/ SureSend(t) \/ SureIgnored(t) \/ SureBreak(t)

Spec == Init /\ [][Next]_vars
(* The main thread, the sure_sh threads and a machine that is stopping     *)
(* keep going.  A guest that is told again and again to shut down does so  *)
(* in the end: the thread has no other way to get it down.                 *)
Fairness ==
    /\ WF_vars(StartupWork) /\ WF_vars(PickGaming) /\ WF_vars(StartupGaming)
    /\ WF_vars(LogOutGaming)
    /\ \A t \in SureThreads :
          WF_vars(SureCheck(t)) /\ SF_vars(SureSend(t)) /\ WF_vars(SureBreak(t))
    /\ \A d \in Domain : WF_vars(vm[d] = "stopping" /\ GuestHalts(d))
FairSpec == Spec /\ Fairness
-----------------------------------------------------------------------------
(* The User objects and the statuses agree on who uses what: the state     *)
(* flags say which links are set, and a link is set exactly where the      *)
(* status names the user, so nobody shares a domain (users.py, the use_    *)
(* and left_ methods, driven by main.py).                                  *)
LinksAgree ==
    /\ \A u \in Users :
          /\ Plays(u) <=> gamingLink[u] # NoDomain
          /\ Works(u) <=> workLink[u] # NoDomain
    /\ \A u \in Users, d \in Domain :
          holder[d] = u <=> gamingLink[u] = d \/ workLink[u] = d

(* A used domain still has its status, has booted, is used by somebody who *)
(* is logged in and, if it is a work domain, by its owner.  Every way out  *)
(* of user_status and of the status lists passes prepare_logout.           *)
UsedIsReady ==
    \A d \in Domain :
        holder[d] # NoUser =>
            /\ d \in listed \ booting
            /\ holder[d] \in user_status
            /\ d \in Users => holder[d] = d

(* Between two packets there are as many gaming sessions in the list as    *)
(* users, up to max_gaming_count: log_user_in starts one whenever one is   *)
(* missing, and log_user_out never takes one too many.                     *)
EnoughSessions ==
    ~DriverErrors /\ main.at = "loop" =>
        \/ Cardinality(gaming_domains_working) >= MaxGaming
        \/ Cardinality(gaming_domains_working) >= Cardinality(user_status)

(* A machine that runs without a status has a sure_sh thread after it: the *)
(* server loses track of none (startup_name, shutdown_name).               *)
NoneForgotten ==
    ~DriverErrors =>
        \A d \in Domain \ listed :
            vm[d] # "off" => \E t \in SureThreads : sureName[t] = d

(* A machine whose status was taken out of the lists goes down, or gets a  *)
(* status again (__sure_shutdown repeats until it is down).                *)
RemovedGoesDown ==
    \A d \in Domain : d \notin listed ~> (vm[d] = "off" \/ d \in listed)

(* The gaming sessions behave as the pool of SessionPool: a session is on  *)
(* offer while it is listed and has booted, and is held by its user.       *)
Pool == INSTANCE SessionPool WITH
    Sessions <- Gaming,
    offered <- gaming_domains_working \ booting,
    holder <- [d \in Gaming |-> holder[d]]
PoolBehaviour == Pool!PoolSpec
=============================================================================
