------------------------ MODULE Multisession_proofs ------------------------
(***************************************************************************)
(* Proofs about Multisession, for any number of users, sessions (up to the *)
(* ten the code's list order allows) and threads.                          *)
(***************************************************************************)
EXTENDS Multisession, WellFoundedInduction, NaturalsInduction,
        FiniteSetTheorems, TLAPS

-----------------------------------------------------------------------------
(* Facts about the searches of the status list. *)

(* A nonempty set of natural numbers has a least element. *)
LEMMA LeastElement ==
    ASSUME NEW S \in SUBSET Nat, S # {}
    PROVE  \E x \in S : \A y \in S : x <= y
<1> DEFINE R == OpToRel(<, Nat)
<1>1. IsWellFoundedOn(R, Nat)
  BY NatLessThanWellFounded
<1>2. PICK x \in S : \A y \in S : <<y, x>> \notin R
  BY <1>1, WFMin
<1>3. \A y \in S : ~(y < x)
  BY <1>2 DEF OpToRel
<1> QED
  BY <1>3

(* find_empty_gaming_status returns an unused session that has booted,     *)
(* whenever there is one.                                                  *)
LEMMA EmptyGamingFound ==
    ASSUME EmptyGaming # {}
    PROVE  /\ find_empty_gaming_status \in Gaming
           /\ find_empty_gaming_status \in listed \ booting
           /\ holder[find_empty_gaming_status] = NoUser
<1>1. EmptyGaming \in SUBSET Nat
  BY MultisessionAssumption DEF EmptyGaming, gaming_domains_working, Gaming
<1>2. \E d \in EmptyGaming : \A e \in EmptyGaming : d <= e
  BY <1>1, LeastElement
<1>3. find_empty_gaming_status \in EmptyGaming
  BY <1>2 DEF find_empty_gaming_status
<1> QED
  BY <1>3 DEF EmptyGaming, gaming_domains_working

(* The scan for a missing number stops at the first one. *)
LEMMA FirstGapFound ==
    /\ FirstGap \in 0..DefinedGaming
    /\ FirstGap \notin gaming_domains_working
    /\ \A j \in 0..(FirstGap - 1) : j \in gaming_domains_working
<1> DEFINE free == {i \in 0..DefinedGaming : i \notin gaming_domains_working}
<1>1. DefinedGaming \in free
  BY MultisessionAssumption DEF gaming_domains_working, Gaming
<1>2. PICK i \in free : \A j \in free : i <= j
  <2>1. free \in SUBSET Nat /\ free # {}
    BY <1>1
  <2> HIDE DEF free
  <2> QED
    BY <2>1, LeastElement
<1>3. \A j \in 0..(i - 1) : j \in gaming_domains_working
  BY <1>2, MultisessionAssumption
<1> QED
  BY <1>2, <1>3 DEF FirstGap

(* A session that log_user_in is told to start is a defined one without a  *)
(* status.                                                                 *)
LEMMA GamingDownFound ==
    ASSUME find_gaming_domain_down # NoDomain
    PROVE  /\ find_gaming_domain_down \in Gaming
           /\ find_gaming_domain_down \notin listed
<1>1. find_gaming_domain_down = FirstGap
  BY DEF find_gaming_domain_down
<1>2. FirstGap < DefinedGaming
  BY <1>1, FirstGapFound, MultisessionAssumption
     DEF find_gaming_domain_down, gaming_domains_working, Gaming
<1> QED
  BY <1>1, <1>2, FirstGapFound, MultisessionAssumption
     DEF gaming_domains_working, Gaming
-----------------------------------------------------------------------------
(* What the main thread knows between the two halves of a handler. *)
MainOK ==
    /\ main.at = "work" => main.name \in Users
    /\ main.at = "game" => main.name \in Gaming
    /\ main.at = "out" => /\ main.name \in Users /\ host[main.name] # NoHost
                          /\ state[main.name] = LOGGED_IN

(* The inductive invariant.  UsedIsReady makes LinksAgree inductive: a new *)
(* status and a new User object start without links because nobody used    *)
(* the domain and the user used none.                                      *)
IInv == TypeOK /\ LinksAgree /\ UsedIsReady /\ MainOK

(* A server that has just started satisfies the inductive invariant.        *)
LEMMA InitIInv == Init => IInv
<1> SUFFICES ASSUME Init PROVE IInv
  OBVIOUS
<1> USE MultisessionAssumption DEF Init
<1>1. TypeOK
  BY DEF TypeOK, MainState, At, noRequest, CliRequest, gaming_domains_working,
     Domain, Gaming,
         LOGGED_IN, USE_BOTH_DOMAINS
<1>2. LinksAgree
  BY DEF LinksAgree, Plays, Works, LOGGED_IN, USE_GAMING_DOMAIN,
         USE_WORK_DOMAIN, USE_BOTH_DOMAINS, Domain, Gaming
<1>3. UsedIsReady /\ MainOK
  BY DEF UsedIsReady, MainOK, At
<1> QED
  BY <1>1, <1>2, <1>3 DEF IInv
(* Who uses what and what the flags say, which most actions leave alone. *)
linkVars == <<holder, state, gamingLink, workLink>>

(* A step that leaves users and statuses alone keeps them in agreement.     *)
LEMMA LinksKept == LinksAgree /\ UNCHANGED linkVars => LinksAgree'
BY DEF LinksAgree, linkVars, Plays, Works

(* Nobody uses a domain without a status, so a new status changes no link. *)
LEMMA StatusAdded ==
    ASSUME TypeOK, UsedIsReady, NEW d \in Domain, d \notin listed, AddStatus(d)
    PROVE  holder' = holder
<1>1. holder[d] = NoUser
  BY DEF UsedIsReady
<1> QED
  BY <1>1 DEF AddStatus, TypeOK

(* The ways startup_name can go, failing driver calls included: d gets a   *)
(* status or nothing changes in the lists, a machine may start, and the    *)
(* main thread goes on or is dead.                                         *)
LEMMA StartupOutcome ==
    ASSUME TypeOK, NEW d \in Domain, NEW next, startup_name(d, next)
    PROVE  /\ main' \in {At(next), At("dead")}
           /\ vm' \in [Domain -> {"off", "on", "stopping"}]
           /\ \/ UNCHANGED statusVars
              \/ d \notin listed /\ AddStatus(d)
<1>1. CASE DriverFails(d, next)
  BY <1>1 DEF DriverFails, TypeOK
<1>2. CASE ~DriverFails(d, next)
  <2>1. main' \in {At(next), At("dead")}
    BY <1>2 DEF startup_name
  <2>2. vm' \in [Domain -> {"off", "on", "stopping"}]
    BY <1>2 DEF startup_name, TypeOK
  <2> QED
    BY <1>2, <2>1, <2>2 DEF startup_name, statusVars
<1> QED
  BY <1>1, <1>2

(* startup_name changes no link. *)
LEMMA StartupKeepsLinks ==
    ASSUME TypeOK, UsedIsReady, NEW d \in Domain, NEW next, startup_name(d, next)
    PROVE  holder' = holder
BY StatusAdded, StartupOutcome DEF statusVars

(* A user who is not logged in uses nothing, nor does one without flags. *)
LEMMA NoLinks ==
    ASSUME IInv, NEW u \in Users, u \notin user_status \/ state[u] = LOGGED_IN
    PROVE  /\ gamingLink[u] = NoDomain /\ workLink[u] = NoDomain
           /\ state[u] = LOGGED_IN
           /\ \A d \in Domain : holder[d] # u
<1>1. ~Plays(u) /\ ~Works(u) => state[u] = LOGGED_IN
  BY DEF IInv, TypeOK, Plays, Works, LOGGED_IN, USE_GAMING_DOMAIN,
     USE_WORK_DOMAIN, USE_BOTH_DOMAINS
<1>2. state[u] = LOGGED_IN => ~Plays(u) /\ ~Works(u)
  BY DEF Plays, Works, LOGGED_IN, USE_GAMING_DOMAIN, USE_WORK_DOMAIN,
     USE_BOTH_DOMAINS
<1>3. CASE state[u] = LOGGED_IN
  BY <1>2, <1>3, MultisessionAssumption DEF IInv, LinksAgree, Domain, Gaming
<1>4. CASE u \notin user_status
  <2>1. \A d \in Domain : holder[d] # u
    BY <1>4, MultisessionAssumption DEF IInv, UsedIsReady
  <2>2. gamingLink[u] = NoDomain /\ workLink[u] = NoDomain
    BY <2>1 DEF IInv, LinksAgree, TypeOK, Domain
  <2> QED
    BY <1>1, <2>1, <2>2 DEF IInv, LinksAgree
<1> QED
  BY <1>3, <1>4

(* The places the main thread is sent to are places of its type.           *)
LEMMA AtTyped == \A p \in {"loop", "work", "pick", "game", "out", "dead"} : At(p) \in MainState
BY DEF At, MainState

(* check_running answers yes or no. *)
LEMMA CheckAnswers == \A d \in Domain : check_running(d) \subseteq BOOLEAN
BY DEF check_running

(* The operators that the handlers share keep the types. *)
LEMMA StartupTyped ==
    ASSUME TypeOK, NEW d \in Domain, NEW next, startup_name(d, next)
    PROVE  /\ vm' \in [Domain -> {"off", "on", "stopping"}]
           /\ listed' \subseteq Domain
           /\ booting' \subseteq gaming_domains_working'
<1>1. vm' \in [Domain -> {"off", "on", "stopping"}]
  BY StartupOutcome
<1>2. (listed' = listed /\ booting' = booting) \/ AddStatus(d)
  BY StartupOutcome DEF statusVars
<1> QED
  BY <1>1, <1>2 DEF AddStatus, TypeOK, gaming_domains_working

(* shutdown_name leaves lists and threads of their types.                  *)
LEMMA ShutdownTyped ==
    ASSUME TypeOK, NEW d \in Domain, shutdown_name(d)
    PROVE  /\ listed' \subseteq Domain
           /\ booting' \subseteq gaming_domains_working'
           /\ sureName' \in [SureThreads -> Domain \cup {NoDomain}]
           /\ surePc' \in [SureThreads -> {"check", "send"}]
BY DEF TypeOK, shutdown_name, gaming_domains_working

(* use_gaming_domain and use_work_domain keep the types of what they set.  *)
LEMMA UseDomainTyped ==
    ASSUME TypeOK, NEW u \in Users, NEW d \in Domain, UseDomain(u, d)
    PROVE  /\ holder' \in [Domain -> Users \cup {NoUser}]
           /\ state' \in [Users -> LOGGED_IN..USE_BOTH_DOMAINS]
           /\ gamingLink' \in [Users -> Gaming \cup {NoDomain}]
           /\ workLink' \in [Users -> Users \cup {NoDomain}]
<1>1. state' \in [Users -> LOGGED_IN..USE_BOTH_DOMAINS]
  BY DEF TypeOK, UseDomain, LOGGED_IN, USE_GAMING_DOMAIN, USE_WORK_DOMAIN,
         USE_BOTH_DOMAINS
<1>2. /\ gamingLink' \in [Users -> Gaming \cup {NoDomain}]
      /\ workLink' \in [Users -> Users \cup {NoDomain}]
  BY DEF TypeOK, UseDomain, Domain
<1> QED
  BY <1>1, <1>2 DEF TypeOK, UseDomain

(* Every step of the server, one case for each action, keeps the           *)
(* inductive invariant.                                                    *)
LEMMA NextIInv == IInv /\ [Next]_vars => IInv'
<1> SUFFICES ASSUME IInv, [Next]_vars PROVE IInv'
  OBVIOUS
<1> USE MultisessionAssumption DEF vars, statusVars, userVars, sureVars
<1>1. ASSUME NEW u \in Users, NEW h \in Hosts, LogIn(u, h) PROVE IInv'
  <2>1. TypeOK'
    <3>1. main' \in MainState
      BY <1>1, CheckAnswers DEF Domain, LogIn, MainState
    <3> QED
      BY <1>1, <3>1 DEF IInv, MainOK, LogIn,
         Plays, Works, TypeOK, CliRequest, noRequest, gaming_domains_working,
         Domain, Gaming, LOGGED_IN,
       USE_GAMING_DOMAIN, USE_WORK_DOMAIN, USE_BOTH_DOMAINS
  <2>2. LinksAgree'
    <3>1. UNCHANGED linkVars
      BY <1>1, NoLinks DEF IInv, LogIn, linkVars, TypeOK
    <3> QED
      BY <3>1, LinksKept DEF IInv
  <2>3. UsedIsReady'
    BY <1>1 DEF IInv, LogIn,
       TypeOK, LinksAgree, UsedIsReady, MainOK, user_status, Plays, Works,
       gaming_domains_working, Domain, Gaming, LOGGED_IN, USE_GAMING_DOMAIN,
       USE_WORK_DOMAIN, USE_BOTH_DOMAINS
  <2>4. MainOK'
    BY <1>1 DEF IInv, LogIn, TypeOK, MainOK, Domain, user_status, LOGGED_IN
  <2> QED
    BY <2>1, <2>2, <2>3, <2>4 DEF IInv
<1>2. ASSUME NEW u \in Users, LogInAgain(u) PROVE IInv'
  <2>1. TypeOK'
    BY <1>2 DEF IInv, MainOK, LogInAgain, prepare_logout,
       Plays, Works, TypeOK, CliRequest, noRequest, gaming_domains_working,
       Domain, Gaming, LOGGED_IN,
       USE_GAMING_DOMAIN, USE_WORK_DOMAIN, USE_BOTH_DOMAINS
  <2>2. LinksAgree'
    BY <1>2 DEF IInv, LogInAgain, prepare_logout,
       TypeOK, LinksAgree, UsedIsReady, MainOK, user_status, Plays, Works,
       gaming_domains_working, Domain, Gaming, LOGGED_IN, USE_GAMING_DOMAIN,
       USE_WORK_DOMAIN, USE_BOTH_DOMAINS
  <2>3. UsedIsReady'
    BY <1>2 DEF IInv, LogInAgain, prepare_logout,
       TypeOK, LinksAgree, UsedIsReady, MainOK, user_status, Plays, Works,
       gaming_domains_working, Domain, Gaming, LOGGED_IN, USE_GAMING_DOMAIN,
       USE_WORK_DOMAIN, USE_BOTH_DOMAINS
  <2>4. MainOK'
    BY <1>2 DEF IInv, LogInAgain, prepare_logout, TypeOK, MainOK, Domain,
       user_status, LOGGED_IN
  <2> QED
    BY <2>1, <2>2, <2>3, <2>4 DEF IInv
<1>3. ASSUME StartupWork PROVE IInv'
  <2>1. TypeOK'
    <3>1. main.name \in Domain
      BY <1>3 DEF IInv, MainOK, Domain, StartupWork
    <3>2. main' \in MainState
      BY <1>3, <3>1, AtTyped, StartupOutcome DEF IInv, StartupWork
    <3>3. holder' = holder
      BY <1>3, <3>1, StartupKeepsLinks DEF IInv, StartupWork
    <3> QED
      BY <1>3, <3>1, <3>2, <3>3, StartupTyped DEF IInv, StartupWork, TypeOK
  <2>2. LinksAgree'
    <3>1. main.name \in Domain /\ holder' = holder
      BY <1>3, StartupKeepsLinks DEF IInv, MainOK, Domain, StartupWork
    <3> QED
      BY <1>3, <3>1, LinksKept DEF IInv, linkVars, StartupWork
  <2>3. UsedIsReady'
    <3>1. main.name \in Domain /\ holder' = holder
      BY <1>3, StartupKeepsLinks DEF IInv, MainOK, Domain, StartupWork
    <3>2. \/ listed' = listed /\ booting' = booting
          \/ main.name \notin listed /\ AddStatus(main.name)
      BY <1>3, <3>1, StartupOutcome DEF IInv, StartupWork
    <3>3. UNCHANGED host
      BY <1>3 DEF StartupWork
    <3> QED
      BY <3>1, <3>2, <3>3 DEF AddStatus, IInv, UsedIsReady, user_status
  <2>4. MainOK'
    <3>1. main.name \in Domain
      BY <1>3 DEF IInv, MainOK, Domain, StartupWork
    <3>2. main' \in {At("pick"), At("dead")}
      BY <1>3, <3>1, StartupOutcome DEF IInv, StartupWork
    <3> QED
      BY <3>2 DEF MainOK, At
  <2> QED
    BY <2>1, <2>2, <2>3, <2>4 DEF IInv
<1>4. ASSUME PickGaming PROVE IInv'
  <2>1. TypeOK'
    <3>1. main' \in MainState
      <4>1. CASE userCount <= MaxGaming /\ find_gaming_domain_down # NoDomain
        <5>1. find_gaming_domain_down \in Domain
          BY <4>1, GamingDownFound DEF Domain
        <5>2. PICK up \in check_running(find_gaming_domain_down) :
                  main' = [at |-> "game", name |-> find_gaming_domain_down,
                           running |-> up]
          BY <1>4, <4>1 DEF PickGaming
        <5>3. up \in BOOLEAN
          BY <5>1, CheckAnswers
        <5> QED
          BY <5>1, <5>2, <5>3 DEF MainState
      <4>2. CASE ~(userCount <= MaxGaming /\ find_gaming_domain_down # NoDomain)
        <5>1. main' = At("loop")
          BY <1>4, <4>2 DEF PickGaming
        <5> QED
          BY <5>1, AtTyped
      <4> QED
        BY <4>1, <4>2
    <3> QED
      BY <1>4, <3>1 DEF IInv, PickGaming, TypeOK, gaming_domains_working
  <2>2. LinksAgree'
    BY <1>4, LinksKept DEF IInv, linkVars, PickGaming
  <2>3. UsedIsReady'
    BY <1>4, GamingDownFound DEF IInv, PickGaming, At,
       TypeOK, LinksAgree, UsedIsReady, MainOK, user_status, Plays, Works,
       gaming_domains_working, Domain, Gaming, LOGGED_IN, USE_GAMING_DOMAIN,
       USE_WORK_DOMAIN, USE_BOTH_DOMAINS
  <2>4. MainOK'
    BY <1>4, GamingDownFound DEF IInv, PickGaming, At, TypeOK, MainOK, Domain,
       user_status, LOGGED_IN
  <2> QED
    BY <2>1, <2>2, <2>3, <2>4 DEF IInv
<1>5. ASSUME StartupGaming PROVE IInv'
  <2>1. TypeOK'
    <3>1. main.name \in Domain
      BY <1>5 DEF IInv, MainOK, Domain, StartupGaming
    <3>2. main' \in MainState
      BY <1>5, <3>1, AtTyped, StartupOutcome DEF IInv, StartupGaming
    <3>3. holder' = holder
      BY <1>5, <3>1, StartupKeepsLinks DEF IInv, StartupGaming
    <3> QED
      BY <1>5, <3>1, <3>2, <3>3, StartupTyped DEF IInv, StartupGaming, TypeOK
  <2>2. LinksAgree'
    <3>1. main.name \in Domain /\ holder' = holder
      BY <1>5, StartupKeepsLinks DEF IInv, MainOK, Domain, StartupGaming
    <3> QED
      BY <1>5, <3>1, LinksKept DEF IInv, linkVars, StartupGaming
  <2>3. UsedIsReady'
    <3>1. main.name \in Domain /\ holder' = holder
      BY <1>5, StartupKeepsLinks DEF IInv, MainOK, Domain, StartupGaming
    <3>2. \/ listed' = listed /\ booting' = booting
          \/ main.name \notin listed /\ AddStatus(main.name)
      BY <1>5, <3>1, StartupOutcome DEF IInv, StartupGaming
    <3>3. UNCHANGED host
      BY <1>5 DEF StartupGaming
    <3> QED
      BY <3>1, <3>2, <3>3 DEF AddStatus, IInv, UsedIsReady, user_status
  <2>4. MainOK'
    <3>1. main.name \in Domain
      BY <1>5 DEF IInv, MainOK, Domain, StartupGaming
    <3>2. main' \in {At("loop"), At("dead")}
      BY <1>5, <3>1, StartupOutcome DEF IInv, StartupGaming
    <3> QED
      BY <3>2 DEF MainOK, At
  <2> QED
    BY <2>1, <2>2, <2>3, <2>4 DEF IInv
<1>6. ASSUME NEW u \in Users, LogOut(u) PROVE IInv'
  <2>1. TypeOK'
    <3>1. main' \in MainState
      BY <1>6, AtTyped DEF IInv, MainOK, TypeOK, Domain, LogOut, At, MainState
    <3> QED
      BY <1>6, <3>1 DEF IInv, MainOK, LogOut, prepare_logout, shutdown_name,
         At,
         Plays, Works, TypeOK, CliRequest, noRequest, gaming_domains_working,
         Domain, Gaming, LOGGED_IN,
       USE_GAMING_DOMAIN, USE_WORK_DOMAIN, USE_BOTH_DOMAINS
  <2>2. LinksAgree'
    BY <1>6 DEF IInv, LogOut, prepare_logout, shutdown_name, At,
       TypeOK, LinksAgree, UsedIsReady, MainOK, user_status, Plays, Works,
       gaming_domains_working, Domain, Gaming, LOGGED_IN, USE_GAMING_DOMAIN,
       USE_WORK_DOMAIN, USE_BOTH_DOMAINS
  <2>3. UsedIsReady'
    BY <1>6 DEF IInv, LogOut, prepare_logout, shutdown_name, At,
       TypeOK, LinksAgree, UsedIsReady, MainOK, user_status, Plays, Works,
       gaming_domains_working, Domain, Gaming, LOGGED_IN, USE_GAMING_DOMAIN,
       USE_WORK_DOMAIN, USE_BOTH_DOMAINS
  <2>4. MainOK'
    BY <1>6 DEF IInv, LogOut, prepare_logout, shutdown_name, At, TypeOK,
       MainOK, Domain, user_status, LOGGED_IN
  <2> QED
    BY <2>1, <2>2, <2>3, <2>4 DEF IInv
<1>7. ASSUME LogOutGaming PROVE IInv'
  <2>1. TypeOK'
    <3>1. main' \in MainState
      BY <1>7, AtTyped DEF LogOutGaming
    <3>2. /\ listed' \subseteq Domain
          /\ booting' \subseteq gaming_domains_working'
          /\ sureName' \in [SureThreads -> Domain \cup {NoDomain}]
          /\ surePc' \in [SureThreads -> {"check", "send"}]
      BY <1>7, EmptyGamingFound, ShutdownTyped
         DEF IInv, LogOutGaming, TypeOK, Domain, gaming_domains_working
    <3>3. host' \in [Users -> Hosts \cup {NoHost}]
      BY <1>7 DEF IInv, LogOutGaming, TypeOK
    <3>4. userCount' \in Int
      BY <1>7 DEF IInv, LogOutGaming, TypeOK
    <3>5. UNCHANGED <<vm, holder, state, gamingLink, workLink, cli>>
      BY <1>7 DEF LogOutGaming
    <3> QED
      BY <3>1, <3>2, <3>3, <3>4, <3>5 DEF IInv, TypeOK
  <2>2. LinksAgree'
    BY <1>7, LinksKept DEF IInv, linkVars, LogOutGaming
  <2>3. UsedIsReady'
    BY <1>7, EmptyGamingFound DEF IInv, LogOutGaming, shutdown_name, At,
       TypeOK, LinksAgree, UsedIsReady, MainOK, user_status, Plays, Works,
       gaming_domains_working, Domain, Gaming, LOGGED_IN, USE_GAMING_DOMAIN,
       USE_WORK_DOMAIN, USE_BOTH_DOMAINS
  <2>4. MainOK'
    BY <1>7, EmptyGamingFound DEF IInv, LogOutGaming, shutdown_name, At,
       TypeOK, MainOK, Domain, user_status, LOGGED_IN
  <2> QED
    BY <2>1, <2>2, <2>3, <2>4 DEF IInv
<1>8. ASSUME NEW u \in Users, UseGaming(u) PROVE IInv'
  <2>1. TypeOK'
    BY <1>8, EmptyGamingFound DEF IInv, MainOK, UseGaming, UseDomain,
       Plays, Works, TypeOK, CliRequest, noRequest, gaming_domains_working,
       Domain, Gaming, LOGGED_IN,
       USE_GAMING_DOMAIN, USE_WORK_DOMAIN, USE_BOTH_DOMAINS
  <2>2. LinksAgree'
    BY <1>8, EmptyGamingFound DEF IInv, UseGaming, UseDomain,
       TypeOK, LinksAgree, UsedIsReady, MainOK, user_status, Plays, Works,
       gaming_domains_working, Domain, Gaming, LOGGED_IN, USE_GAMING_DOMAIN,
       USE_WORK_DOMAIN, USE_BOTH_DOMAINS
  <2>3. UsedIsReady'
    BY <1>8, EmptyGamingFound DEF IInv, UseGaming, UseDomain,
       TypeOK, LinksAgree, UsedIsReady, MainOK, user_status, Plays, Works,
       gaming_domains_working, Domain, Gaming, LOGGED_IN, USE_GAMING_DOMAIN,
       USE_WORK_DOMAIN, USE_BOTH_DOMAINS
  <2>4. MainOK'
    BY <1>8, EmptyGamingFound DEF IInv, UseGaming, UseDomain, TypeOK, MainOK,
       Domain, user_status, LOGGED_IN
  <2> QED
    BY <2>1, <2>2, <2>3, <2>4 DEF IInv
<1>9. ASSUME NEW u \in Users, LeftGaming(u) PROVE IInv'
  <2>1. TypeOK'
    <3>1. state' \in [Users -> LOGGED_IN..USE_BOTH_DOMAINS]
      BY <1>9 DEF IInv, TypeOK, LeftGaming, left_gaming_domain,
         LOGGED_IN, USE_GAMING_DOMAIN, USE_WORK_DOMAIN, USE_BOTH_DOMAINS
    <3> QED
      BY <1>9, <3>1 DEF IInv, TypeOK, LeftGaming, left_gaming_domain,
         gaming_domains_working
  <2>2. LinksAgree'
    BY <1>9 DEF IInv, LeftGaming, left_gaming_domain,
       TypeOK, LinksAgree, UsedIsReady, MainOK, user_status, Plays, Works,
       gaming_domains_working, Domain, Gaming, LOGGED_IN, USE_GAMING_DOMAIN,
       USE_WORK_DOMAIN, USE_BOTH_DOMAINS
  <2>3. UsedIsReady'
    BY <1>9 DEF IInv, LeftGaming, left_gaming_domain,
       TypeOK, LinksAgree, UsedIsReady, MainOK, user_status, Plays, Works,
       gaming_domains_working, Domain, Gaming, LOGGED_IN, USE_GAMING_DOMAIN,
       USE_WORK_DOMAIN, USE_BOTH_DOMAINS
  <2>4. MainOK'
    BY <1>9 DEF IInv, LeftGaming, left_gaming_domain, TypeOK, MainOK, Domain,
       user_status, LOGGED_IN
  <2> QED
    BY <2>1, <2>2, <2>3, <2>4 DEF IInv
<1>10. ASSUME NEW u \in Users, NEW what \in {"use_work", "left_work"},
            CliChoose(u, what) PROVE IInv'
  <2>1. TypeOK'
    BY <1>10 DEF IInv, MainOK, CliChoose,
       Plays, Works, TypeOK, CliRequest, noRequest, gaming_domains_working,
       Domain, Gaming, LOGGED_IN,
       USE_GAMING_DOMAIN, USE_WORK_DOMAIN, USE_BOTH_DOMAINS
  <2>2. LinksAgree'
    BY <1>10, LinksKept DEF IInv, linkVars, CliChoose
  <2>3. UsedIsReady'
    BY <1>10 DEF IInv, CliChoose,
       TypeOK, LinksAgree, UsedIsReady, MainOK, user_status, Plays, Works,
       gaming_domains_working, Domain, Gaming, LOGGED_IN, USE_GAMING_DOMAIN,
       USE_WORK_DOMAIN, USE_BOTH_DOMAINS
  <2>4. MainOK'
    BY <1>10 DEF IInv, CliChoose, TypeOK, MainOK, Domain, user_status,
       LOGGED_IN
  <2> QED
    BY <2>1, <2>2, <2>3, <2>4 DEF IInv
<1>11. ASSUME UseWork PROVE IInv'
  <2>1. TypeOK'
    <3>1. main' \in MainState /\ cli' \in CliRequest
      BY <1>11, AtTyped DEF IInv, TypeOK, UseWork, noRequest, CliRequest
    <3>2. CASE UNCHANGED linkVars
      BY <1>11, <3>1, <3>2 DEF IInv, UseWork, TypeOK, linkVars,
         gaming_domains_working
    <3>3. CASE cli[2] \in Users /\ UseDomain(cli[2], cli[2])
      BY <1>11, <3>1, <3>3, UseDomainTyped
         DEF IInv, UseWork, TypeOK, Domain, gaming_domains_working
    <3> QED
      BY <1>11, <3>2, <3>3 DEF UseWork, linkVars, user_status
  <2>2. LinksAgree'
    BY <1>11 DEF IInv, UseWork, UseDomain, At,
       TypeOK, LinksAgree, UsedIsReady, MainOK, user_status, Plays, Works,
       gaming_domains_working, Domain, Gaming, LOGGED_IN, USE_GAMING_DOMAIN,
       USE_WORK_DOMAIN, USE_BOTH_DOMAINS
  <2>3. UsedIsReady'
    BY <1>11 DEF IInv, UseWork, UseDomain, At,
       TypeOK, LinksAgree, UsedIsReady, MainOK, user_status, Plays, Works,
       gaming_domains_working, Domain, Gaming, LOGGED_IN, USE_GAMING_DOMAIN,
       USE_WORK_DOMAIN, USE_BOTH_DOMAINS
  <2>4. MainOK'
    BY <1>11 DEF IInv, UseWork, UseDomain, At, TypeOK, MainOK, Domain,
       user_status, LOGGED_IN
  <2> QED
    BY <2>1, <2>2, <2>3, <2>4 DEF IInv
<1>12. ASSUME LeftWork PROVE IInv'
  <2>1. TypeOK'
    <3>1. main' \in MainState /\ cli' \in CliRequest
      BY <1>12, AtTyped DEF LeftWork, noRequest, CliRequest
    <3> QED
      BY <1>12, <3>1 DEF IInv, LeftWork, TypeOK, gaming_domains_working
  <2>2. LinksAgree'
    BY <1>12, LinksKept DEF IInv, linkVars, LeftWork
  <2>3. UsedIsReady'
    BY <1>12 DEF IInv, LeftWork, At,
       TypeOK, LinksAgree, UsedIsReady, MainOK, user_status, Plays, Works,
       gaming_domains_working, Domain, Gaming, LOGGED_IN, USE_GAMING_DOMAIN,
       USE_WORK_DOMAIN, USE_BOTH_DOMAINS
  <2>4. MainOK'
    BY <1>12 DEF IInv, LeftWork, At, TypeOK, MainOK, Domain, user_status,
       LOGGED_IN
  <2> QED
    BY <2>1, <2>2, <2>3, <2>4 DEF IInv
<1>13. ASSUME NEW d \in Domain, GamingBooted(d) PROVE IInv'
  <2>1. TypeOK'
    BY <1>13 DEF IInv, MainOK, GamingBooted,
       Plays, Works, TypeOK, CliRequest, noRequest, gaming_domains_working,
       Domain, Gaming, LOGGED_IN,
       USE_GAMING_DOMAIN, USE_WORK_DOMAIN, USE_BOTH_DOMAINS
  <2>2. LinksAgree'
    BY <1>13, LinksKept DEF IInv, linkVars, GamingBooted
  <2>3. UsedIsReady'
    BY <1>13 DEF IInv, GamingBooted,
       TypeOK, LinksAgree, UsedIsReady, MainOK, user_status, Plays, Works,
       gaming_domains_working, Domain, Gaming, LOGGED_IN, USE_GAMING_DOMAIN,
       USE_WORK_DOMAIN, USE_BOTH_DOMAINS
  <2>4. MainOK'
    BY <1>13 DEF IInv, GamingBooted, TypeOK, MainOK, Domain, user_status,
       LOGGED_IN
  <2> QED
    BY <2>1, <2>2, <2>3, <2>4 DEF IInv
<1>14. ASSUME NEW d \in Domain, GuestHalts(d) PROVE IInv'
  <2>1. TypeOK'
    BY <1>14 DEF IInv, MainOK, GuestHalts,
       Plays, Works, TypeOK, CliRequest, noRequest, gaming_domains_working,
       Domain, Gaming, LOGGED_IN,
       USE_GAMING_DOMAIN, USE_WORK_DOMAIN, USE_BOTH_DOMAINS
  <2>2. LinksAgree'
    BY <1>14, LinksKept DEF IInv, linkVars, GuestHalts
  <2>3. UsedIsReady'
    BY <1>14 DEF IInv, GuestHalts,
       TypeOK, LinksAgree, UsedIsReady, MainOK, user_status, Plays, Works,
       gaming_domains_working, Domain, Gaming, LOGGED_IN, USE_GAMING_DOMAIN,
       USE_WORK_DOMAIN, USE_BOTH_DOMAINS
  <2>4. MainOK'
    BY <1>14 DEF IInv, GuestHalts, TypeOK, MainOK, Domain, user_status,
       LOGGED_IN
  <2> QED
    BY <2>1, <2>2, <2>3, <2>4 DEF IInv
<1>15. ASSUME NEW t \in SureThreads, SureCheck(t) PROVE IInv'
  <2>1. TypeOK'
    BY <1>15 DEF IInv, MainOK, SureCheck,
       Plays, Works, TypeOK, CliRequest, noRequest, gaming_domains_working,
       Domain, Gaming, LOGGED_IN,
       USE_GAMING_DOMAIN, USE_WORK_DOMAIN, USE_BOTH_DOMAINS
  <2>2. LinksAgree'
    BY <1>15, LinksKept DEF IInv, linkVars, SureCheck
  <2>3. UsedIsReady'
    BY <1>15 DEF IInv, SureCheck,
       TypeOK, LinksAgree, UsedIsReady, MainOK, user_status, Plays, Works,
       gaming_domains_working, Domain, Gaming, LOGGED_IN, USE_GAMING_DOMAIN,
       USE_WORK_DOMAIN, USE_BOTH_DOMAINS
  <2>4. MainOK'
    BY <1>15 DEF IInv, SureCheck, TypeOK, MainOK, Domain, user_status,
       LOGGED_IN
  <2> QED
    BY <2>1, <2>2, <2>3, <2>4 DEF IInv
<1>16. ASSUME NEW t \in SureThreads, SureSend(t) PROVE IInv'
  <2>1. TypeOK'
    BY <1>16 DEF IInv, MainOK, SureSend,
       Plays, Works, TypeOK, CliRequest, noRequest, gaming_domains_working,
       Domain, Gaming, LOGGED_IN,
       USE_GAMING_DOMAIN, USE_WORK_DOMAIN, USE_BOTH_DOMAINS
  <2>2. LinksAgree'
    BY <1>16, LinksKept DEF IInv, linkVars, SureSend
  <2>3. UsedIsReady'
    BY <1>16 DEF IInv, SureSend,
       TypeOK, LinksAgree, UsedIsReady, MainOK, user_status, Plays, Works,
       gaming_domains_working, Domain, Gaming, LOGGED_IN, USE_GAMING_DOMAIN,
       USE_WORK_DOMAIN, USE_BOTH_DOMAINS
  <2>4. MainOK'
    BY <1>16 DEF IInv, SureSend, TypeOK, MainOK, Domain, user_status, LOGGED_IN
  <2> QED
    BY <2>1, <2>2, <2>3, <2>4 DEF IInv
<1>17. ASSUME NEW t \in SureThreads, SureIgnored(t) PROVE IInv'
  <2>1. TypeOK'
    BY <1>17 DEF IInv, MainOK, SureIgnored,
       Plays, Works, TypeOK, CliRequest, noRequest, gaming_domains_working,
       Domain, Gaming, LOGGED_IN,
       USE_GAMING_DOMAIN, USE_WORK_DOMAIN, USE_BOTH_DOMAINS
  <2>2. LinksAgree'
    BY <1>17, LinksKept DEF IInv, linkVars, SureIgnored
  <2>3. UsedIsReady'
    BY <1>17 DEF IInv, SureIgnored,
       TypeOK, LinksAgree, UsedIsReady, MainOK, user_status, Plays, Works,
       gaming_domains_working, Domain, Gaming, LOGGED_IN, USE_GAMING_DOMAIN,
       USE_WORK_DOMAIN, USE_BOTH_DOMAINS
  <2>4. MainOK'
    BY <1>17 DEF IInv, SureIgnored, TypeOK, MainOK, Domain, user_status,
       LOGGED_IN
  <2> QED
    BY <2>1, <2>2, <2>3, <2>4 DEF IInv
<1>18. ASSUME NEW t \in SureThreads, SureBreak(t) PROVE IInv'
  <2>1. TypeOK'
    BY <1>18 DEF IInv, MainOK, SureBreak,
       Plays, Works, TypeOK, CliRequest, noRequest, gaming_domains_working,
       Domain, Gaming, LOGGED_IN,
       USE_GAMING_DOMAIN, USE_WORK_DOMAIN, USE_BOTH_DOMAINS
  <2>2. LinksAgree'
    BY <1>18, LinksKept DEF IInv, linkVars, SureBreak
  <2>3. UsedIsReady'
    BY <1>18 DEF IInv, SureBreak,
       TypeOK, LinksAgree, UsedIsReady, MainOK, user_status, Plays, Works,
       gaming_domains_working, Domain, Gaming, LOGGED_IN, USE_GAMING_DOMAIN,
       USE_WORK_DOMAIN, USE_BOTH_DOMAINS
  <2>4. MainOK'
    BY <1>18 DEF IInv, SureBreak, TypeOK, MainOK, Domain, user_status,
       LOGGED_IN
  <2> QED
    BY <2>1, <2>2, <2>3, <2>4 DEF IInv
<1>19. CASE UNCHANGED vars
  BY <1>19 DEF IInv, TypeOK, LinksAgree, UsedIsReady, MainOK, Plays, Works,
     user_status, gaming_domains_working
<1> QED
  BY <1>1, <1>2, <1>3, <1>4, <1>5, <1>6, <1>7, <1>8, <1>9, <1>10, <1>11,
     <1>12, <1>13, <1>14, <1>15, <1>16, <1>17, <1>18, <1>19 DEF Next
-----------------------------------------------------------------------------
(* The types of Multisession hold in every reachable state. *)
THEOREM TypeCorrect == Spec => []TypeOK
<1>1. IInv => TypeOK
  BY DEF IInv
<1> QED
  BY <1>1, InitIInv, NextIInv, PTL DEF Spec

(* Users and statuses always agree on who uses what, so no domain is       *)
(* shared: for any number of users, sessions and threads, and whatever the *)
(* driver does.                                                            *)
THEOREM LinksAlwaysAgree == Spec => []LinksAgree
<1>1. IInv => LinksAgree
  BY DEF IInv
<1> QED
  BY <1>1, InitIInv, NextIInv, PTL DEF Spec

(* What is used is always listed, booted and used by a user who is in. *)
THEOREM UsedAlwaysReady == Spec => []UsedIsReady
<1>1. IInv => UsedIsReady
  BY DEF IInv
<1> QED
  BY <1>1, InitIInv, NextIInv, PTL DEF Spec
-----------------------------------------------------------------------------
(* No running machine is without both a status and a sure_sh thread.  The  *)
(* invariant is inductive next to the types: a thread ends only when its   *)
(* machine is off, and shutdown_name takes an idle thread.                 *)
LEMMA NextNoneForgotten ==
    TypeOK /\ MainOK /\ NoneForgotten /\ [Next]_vars => NoneForgotten'
<1> SUFFICES ASSUME TypeOK, MainOK, NoneForgotten, [Next]_vars, ~DriverErrors,
                    NEW d \in Domain, d \notin listed', vm'[d] # "off"
             PROVE  \E t \in SureThreads : sureName'[t] = d
  BY DEF NoneForgotten
<1> USE DEF vars, statusVars, userVars, sureVars
<1>1. CASE UNCHANGED <<vm, listed, sureName>>
  BY <1>1 DEF NoneForgotten
<1>2. ASSUME NEW n \in Domain, NEW next, startup_name(n, next), UNCHANGED sureName
      PROVE  \E t \in SureThreads : sureName'[t] = d
  <2>1. ~DriverFails(n, next)
    BY DEF DriverFails
  <2> QED
    BY <1>2, <2>1 DEF startup_name, AddStatus, NoneForgotten, TypeOK
<1>3. ASSUME NEW n \in Domain, shutdown_name(n), UNCHANGED vm
      PROVE  \E t \in SureThreads : sureName'[t] = d
  <2>1. PICK t \in SureThreads :
            sureName[t] = NoDomain /\ sureName' = [sureName EXCEPT ![t] = n]
    BY <1>3 DEF shutdown_name
  <2>2. CASE d = n
    BY <2>1, <2>2 DEF TypeOK
  <2>3. CASE d # n
    <3>1. PICK s \in SureThreads : sureName[s] = d
      BY <1>3, <2>3 DEF shutdown_name, NoneForgotten
    <3>2. s # t
      BY <2>1, <3>1, MultisessionAssumption DEF Domain, Gaming
    <3> QED
      BY <2>1, <3>1, <3>2 DEF TypeOK
  <2> QED
    BY <2>2, <2>3
<1>4. ASSUME NEW t \in SureThreads, SureCheck(t) \/ SureBreak(t)
      PROVE  \E s \in SureThreads : sureName'[s] = d
  BY <1>4 DEF SureCheck, SureBreak, check_running, NoneForgotten, TypeOK
<1>5. ASSUME NEW t \in SureThreads, SureSend(t) \/ SureIgnored(t)
      PROVE  \E s \in SureThreads : sureName'[s] = d
  BY <1>5 DEF SureSend, SureIgnored, NoneForgotten, TypeOK
<1>6. ASSUME NEW e \in Domain, GuestHalts(e)
      PROVE  \E s \in SureThreads : sureName'[s] = d
  BY <1>6 DEF GuestHalts, NoneForgotten, TypeOK
<1>7. CASE StartupWork \/ StartupGaming
  BY <1>2, <1>7 DEF StartupWork, StartupGaming, MainOK, Domain
<1>8. ASSUME NEW u \in Users, LogOut(u)
      PROVE  \E t \in SureThreads : sureName'[t] = d
  BY <1>1, <1>3, <1>8 DEF LogOut, Domain
<1>9. CASE LogOutGaming
  BY <1>1, <1>3, <1>9, EmptyGamingFound DEF LogOutGaming, Domain
<1> QED
  BY <1>1, <1>4, <1>5, <1>6, <1>7, <1>8, <1>9
     DEF Next, LogIn, LogInAgain, PickGaming, UseGaming, LeftGaming, CliChoose,
         UseWork, LeftWork, GamingBooted

(* Without unexplained driver failures the server never loses track of a   *)
(* running machine.                                                        *)
THEOREM NoneEverForgotten == Spec => []NoneForgotten
<1>1. Init => NoneForgotten
  BY DEF Init, NoneForgotten
<1>2. IInv /\ NoneForgotten /\ [Next]_vars => NoneForgotten'
  BY NextNoneForgotten DEF IInv
<1> QED
  BY <1>1, <1>2, InitIInv, NextIInv, PTL DEF Spec
-----------------------------------------------------------------------------
(* The refinement of SessionPool.  The pool sees the part of holder that   *)
(* is about gaming sessions.                                               *)
poolHolder == [d \in Gaming |-> holder[d]]
poolOffered == gaming_domains_working \ booting

(* What the pool sees of holder is kept if the gaming sessions are.        *)
LEMMA PoolHolderKept ==
    ASSUME \A d \in Gaming : holder'[d] = holder[d]
    PROVE  poolHolder' = poolHolder
BY DEF poolHolder

(* A user who plays releases the session by prepare_logout. *)
LEMMA LogoutReleases ==
    ASSUME IInv, NEW u \in Users, prepare_logout(u)
    PROVE  \/ poolHolder' = poolHolder
           \/ \E s \in Gaming : /\ holder[s] = u
                                /\ poolHolder' = [poolHolder EXCEPT ![s] = NoUser]
<1> USE MultisessionAssumption
<1>1. Works(u) => workLink[u] \in Users
  BY DEF IInv, TypeOK, LinksAgree
<1>2. \A d \in Gaming : d \in Domain /\ d \notin Users
  BY DEF Domain, Gaming
<1>3. CASE Plays(u)
  <2>1. gamingLink[u] \in Gaming /\ holder[gamingLink[u]] = u
    BY <1>3, <1>2 DEF IInv, TypeOK, LinksAgree
  <2>2. \A d \in Gaming :
            holder'[d] = IF d = gamingLink[u] THEN NoUser ELSE holder[d]
    BY <1>1, <1>2, <1>3 DEF prepare_logout
  <2>3. poolHolder' = [poolHolder EXCEPT ![gamingLink[u]] = NoUser]
    BY <2>1, <2>2 DEF poolHolder
  <2> QED
    BY <2>1, <2>3
<1>4. CASE ~Plays(u)
  <2>1. \A d \in Gaming : holder'[d] = holder[d]
    BY <1>1, <1>2, <1>4 DEF prepare_logout
  <2> QED
    BY <2>1, PoolHolderKept
<1> QED
  BY <1>3, <1>4

(* Every step of the server is a step of the pool or leaves it alone. *)
LEMMA PoolStep ==
    IInv /\ [Next]_vars => [Pool!PoolNext]_(Pool!poolVars)
<1> SUFFICES ASSUME IInv, [Next]_vars
             PROVE  Pool!PoolNext \/ UNCHANGED <<poolOffered, poolHolder>>
  BY DEF Pool!poolVars, poolOffered, poolHolder
<1> USE MultisessionAssumption DEF vars, statusVars, userVars, sureVars
<1> DEFINE Kept == UNCHANGED <<poolOffered, poolHolder>>
<1>1. ASSUME UNCHANGED <<listed, booting, holder>> PROVE Kept
  BY <1>1 DEF poolOffered, poolHolder, gaming_domains_working
<1>2. ASSUME NEW s \in Gaming, NEW u \in Users, holder[s] = u,
             poolHolder' = [poolHolder EXCEPT ![s] = NoUser],
             poolOffered' = poolOffered
      PROVE  Pool!PoolNext
  <2>1. Pool!Release(u, s)
    BY <1>2 DEF Pool!Release, poolOffered, poolHolder
  <2> QED
    BY <2>1 DEF Pool!PoolNext
<1>3. ASSUME NEW s \in poolOffered, poolOffered' = poolOffered \ {s},
             holder[s] = NoUser, poolHolder' = poolHolder
      PROVE  Pool!PoolNext
  <2>1. s \in Gaming
    BY DEF poolOffered, gaming_domains_working
  <2>2. Pool!Withdraw(s)
    BY <1>3, <2>1 DEF Pool!Withdraw, poolOffered, poolHolder
  <2> QED
    BY <2>1, <2>2 DEF Pool!PoolNext
<1>4. ASSUME NEW u \in Users, LogInAgain(u) PROVE Pool!PoolNext \/ Kept
  BY <1>2, <1>4, LogoutReleases DEF LogInAgain, poolOffered,
     gaming_domains_working
<1>5. ASSUME NEW u \in Users, LogOut(u) PROVE Pool!PoolNext \/ Kept
  <2>1. u \notin Gaming
    BY DEF Gaming
  <2>2. poolOffered' = poolOffered
    BY <1>5, <2>1 DEF LogOut, shutdown_name, poolOffered,
       gaming_domains_working
  <2> QED
    BY <1>2, <1>5, <2>2, LogoutReleases DEF LogOut
<1>6. CASE StartupWork \/ StartupGaming
  <2>1. main.name \in Domain
    BY <1>6 DEF IInv, MainOK, Domain, StartupWork, StartupGaming
  <2>2. holder' = holder
    BY <1>6, <2>1, StartupKeepsLinks DEF IInv, StartupWork, StartupGaming
  <2>3. (listed' = listed /\ booting' = booting)
            \/ (main.name \notin listed /\ AddStatus(main.name))
    BY <1>6, <2>1, StartupOutcome DEF IInv, StartupWork, StartupGaming
  <2>4. poolOffered' = poolOffered
    BY <2>3 DEF AddStatus, poolOffered, gaming_domains_working
  <2> QED
    BY <2>2, <2>4 DEF poolHolder
<1>7. CASE LogOutGaming
  <2>1. CASE UNCHANGED <<listed, booting>>
    BY <1>1, <1>7, <2>1 DEF LogOutGaming
  <2>2. CASE EmptyGaming # {} /\ shutdown_name(find_empty_gaming_status)
    <3>1. find_empty_gaming_status \in poolOffered
      BY <2>2, EmptyGamingFound DEF poolOffered, gaming_domains_working
    <3>2. poolOffered' = poolOffered \ {find_empty_gaming_status}
      BY <2>2 DEF shutdown_name, poolOffered, gaming_domains_working
    <3>3. poolHolder' = poolHolder
      BY <1>7 DEF LogOutGaming, poolHolder
    <3> QED
      BY <1>3, <2>2, <3>1, <3>2, <3>3, EmptyGamingFound
  <2> QED
    BY <1>7, <2>1, <2>2 DEF LogOutGaming
<1>8. ASSUME NEW u \in Users, UseGaming(u) PROVE Pool!PoolNext
  <2>1. PICK s \in Gaming :
            s = find_empty_gaming_status /\ s \in poolOffered /\ holder[s] = NoUser
    BY <1>8, EmptyGamingFound DEF UseGaming, poolOffered,
       gaming_domains_working
  <2>2. \A r \in Gaming : holder[r] # u
    <3>1. gamingLink[u] = NoDomain
      BY <1>8 DEF UseGaming, IInv, LinksAgree
    <3> QED
      BY <3>1 DEF IInv, LinksAgree, TypeOK, Domain, Gaming
  <2>3. poolHolder' = [poolHolder EXCEPT ![s] = u]
    BY <1>8, <2>1 DEF UseGaming, UseDomain, poolHolder, IInv, TypeOK, Domain
  <2>4. poolOffered' = poolOffered
    BY <1>8 DEF UseGaming, poolOffered, gaming_domains_working
  <2>5. Pool!Acquire(u, s)
    BY <2>1, <2>2, <2>3, <2>4 DEF Pool!Acquire, poolHolder, poolOffered
  <2> QED
    BY <2>5 DEF Pool!PoolNext
<1>9. ASSUME NEW u \in Users, LeftGaming(u) PROVE Pool!PoolNext
  <2>1. gamingLink[u] \in Gaming /\ holder[gamingLink[u]] = u
    BY <1>9 DEF LeftGaming, left_gaming_domain, IInv, TypeOK, LinksAgree,
       Domain
  <2>2. poolHolder' = [poolHolder EXCEPT ![gamingLink[u]] = NoUser]
    BY <1>9, <2>1 DEF LeftGaming, left_gaming_domain, poolHolder, IInv, TypeOK,
       Domain
  <2>3. poolOffered' = poolOffered
    BY <1>9 DEF LeftGaming, poolOffered, gaming_domains_working
  <2> QED
    BY <1>2, <2>1, <2>2, <2>3
<1>10. CASE UseWork
  <2>1. \A d \in Gaming : holder'[d] = holder[d]
    BY <1>10 DEF UseWork, UseDomain, user_status, IInv, TypeOK, Domain, Gaming
  <2> QED
    BY <1>10, <2>1, PoolHolderKept DEF UseWork, poolOffered,
       gaming_domains_working
<1>11. ASSUME NEW d \in Domain, GamingBooted(d) PROVE Pool!PoolNext
  <2>1. d \in Gaming /\ d \in listed
    BY <1>11 DEF GamingBooted, IInv, TypeOK, gaming_domains_working
  <2>2. Pool!Offer(d)
    BY <1>11, <2>1 DEF GamingBooted, Pool!Offer, gaming_domains_working
  <2> QED
    BY <2>1, <2>2 DEF Pool!PoolNext
<1>12. CASE \/ PickGaming \/ LeftWork
            \/ \E u \in Users : \/ \E h \in Hosts : LogIn(u, h)
                                \/ \E what \in {"use_work", "left_work"} : CliChoose(u, what)
            \/ \E d \in Domain : GuestHalts(d)
            \/ \E t \in SureThreads :
                  SureCheck(t) \/ SureSend(t) \/ SureIgnored(t) \/ SureBreak(t)
  BY <1>1, <1>12 DEF PickGaming, LeftWork, LogIn, CliChoose, GuestHalts,
     SureCheck, SureSend, SureIgnored, SureBreak
<1>13. CASE UNCHANGED vars
  BY <1>1, <1>13
<1> QED
  BY <1>4, <1>5, <1>6, <1>7, <1>8, <1>9, <1>10, <1>11, <1>12, <1>13 DEF Next

(* The gaming sessions of the server are a SessionPool: the detailed       *)
(* specification implements the abstract one.                              *)
THEOREM PoolRefined == Spec => PoolBehaviour
<1>1. Init => Pool!PoolInit
  BY DEF Init, Pool!PoolInit, gaming_domains_working, Domain
<1>2. IInv /\ [Next]_vars => [Pool!PoolNext]_(Pool!poolVars)
  BY PoolStep
<1> QED
  BY <1>1, <1>2, InitIInv, NextIInv, PTL DEF Spec, PoolBehaviour, Pool!PoolSpec
-----------------------------------------------------------------------------
(* The number of sessions.  While log_user_in is on its way the list may   *)
(* be one session short of the users; between packets it is not.           *)
Enough(n) ==
    \/ Cardinality(gaming_domains_working) >= MaxGaming
    \/ Cardinality(gaming_domains_working) >= n

CountInv ==
    /\ userCount = Cardinality(user_status)
    /\ ~DriverErrors =>
          /\ main.at \in {"loop", "out"} => Enough(userCount)
          /\ main.at \in {"work", "pick", "game"} => Enough(userCount - 1)
          /\ main.at = "game" => main.name \notin listed

(* Users and listed sessions are finite sets, so that they can be counted. *)
LEMMA FiniteSets ==
    /\ IsFiniteSet(user_status) /\ IsFiniteSet(gaming_domains_working)
    /\ Cardinality(user_status) \in Nat
    /\ Cardinality(gaming_domains_working) \in Nat
<1>1. user_status \in SUBSET Users /\ gaming_domains_working \in SUBSET Gaming
  BY DEF user_status, gaming_domains_working
<1>2. IsFiniteSet(Gaming)
  BY FS_Interval, MultisessionAssumption DEF Gaming
<1>3. IsFiniteSet(user_status) /\ IsFiniteSet(gaming_domains_working)
  BY <1>1, <1>2, FS_Subset, MultisessionAssumption
<1> QED
  BY <1>3, FS_CardinalityType

(* Where log_user_in starts no session, there are enough for all users. *)
LEMMA NoneDownMeansEnough ==
    ASSUME TypeOK, userCount > MaxGaming \/ find_gaming_domain_down = NoDomain,
           Enough(userCount - 1)
    PROVE  Enough(userCount)
<1> USE MultisessionAssumption, FiniteSets
<1>1. CASE userCount > MaxGaming
  BY <1>1 DEF Enough, TypeOK
<1>2. CASE find_gaming_domain_down = NoDomain
                /\ userCount > Cardinality(gaming_domains_working)
  <2>1. FirstGap # NoDomain
    BY FirstGapFound
  <2>2. FirstGap >= MaxGaming
    BY <1>2, <2>1, FirstGapFound DEF find_gaming_domain_down
  <2>3. 0..(MaxGaming - 1) \in SUBSET gaming_domains_working
    BY <2>2, FirstGapFound
  <2>4. Cardinality(0..(MaxGaming - 1)) = MaxGaming
    BY FS_Interval
  <2>5. Cardinality(0..(MaxGaming - 1)) <= Cardinality(gaming_domains_working)
    BY <2>3, FS_Subset
  <2> QED
    BY <2>4, <2>5 DEF Enough
<1> QED
  BY <1>1, <1>2 DEF Enough, TypeOK

(* Every step keeps the number of sessions in step with the users.         *)
LEMMA NextCountInv == IInv /\ CountInv /\ [Next]_vars => CountInv'
<1> SUFFICES ASSUME IInv, CountInv, [Next]_vars PROVE CountInv'
  OBVIOUS
<1> USE MultisessionAssumption, FiniteSets
        DEF vars, statusVars, userVars, sureVars
<1> DEFINE g == gaming_domains_working
           GamingKept == g' = g
           UsersKept == UNCHANGED <<host, userCount>>
<1>1. ASSUME GamingKept, UsersKept, UNCHANGED main,
             main.at = "game" => main.name \notin listed'
      PROVE  CountInv'
  BY <1>1 DEF CountInv, Enough, user_status
<1>2. ASSUME UsersKept, main'.at = "dead"
      PROVE  CountInv'
  BY <1>2 DEF CountInv, user_status
<1>3. ASSUME NEW u \in Users, NEW h \in Hosts, LogIn(u, h) PROVE CountInv'
  <2>1. user_status' = user_status \cup {u} /\ u \notin user_status
    BY <1>3 DEF LogIn, user_status, IInv, TypeOK
  <2>2. Cardinality(user_status') = Cardinality(user_status) + 1
    BY <2>1, FS_AddElement
  <2>3. GamingKept
    BY <1>3 DEF LogIn, gaming_domains_working
  <2> QED
    BY <1>3, <2>2, <2>3 DEF LogIn, CountInv, Enough
<1>4. CASE StartupWork
  <2>1. main.name \in Users /\ main.name \notin Gaming
    BY <1>4 DEF StartupWork, IInv, MainOK, Gaming
  <2>2. GamingKept
    BY <1>4, <2>1, StartupOutcome DEF IInv, Domain, StartupWork, AddStatus,
       gaming_domains_working
  <2>3. UsersKept /\ main.at = "work" /\ main'.at \in {"pick", "dead"}
    BY <1>4, <2>1, StartupOutcome DEF IInv, Domain, StartupWork, At
  <2> QED
    BY <2>2, <2>3 DEF CountInv, Enough, user_status
<1>5. CASE PickGaming
  <2>1. GamingKept /\ UsersKept /\ main.at = "pick" /\ UNCHANGED listed
    BY <1>5 DEF PickGaming, gaming_domains_working
  <2>2. CASE userCount <= MaxGaming /\ find_gaming_domain_down # NoDomain
    <3>1. main'.at = "game" /\ main'.name \notin listed
      BY <1>5, <2>2, GamingDownFound DEF PickGaming
    <3> QED
      BY <2>1, <3>1 DEF CountInv, Enough, user_status
  <2>3. CASE ~(userCount <= MaxGaming /\ find_gaming_domain_down # NoDomain)
    <3>1. main'.at = "loop"
      BY <1>5, <2>3 DEF PickGaming, At
    <3>2. ~DriverErrors => Enough(userCount)
      BY <2>1, <2>3, NoneDownMeansEnough DEF IInv, TypeOK, CountInv
    <3> QED
      BY <2>1, <3>1, <3>2 DEF CountInv, Enough, user_status
  <2> QED
    BY <2>2, <2>3
<1>6. CASE StartupGaming
  <2>1. UsersKept /\ main.at = "game"
    BY <1>6 DEF StartupGaming
  <2>2. CASE DriverErrors
    BY <2>1, <2>2 DEF CountInv, user_status
  <2>3. CASE ~DriverErrors
    <3>1. main.name \notin listed /\ main.name \in Gaming
      BY <2>1, <2>3 DEF CountInv, IInv, MainOK
    <3>2. AddStatus(main.name) /\ main'.at = "loop"
      BY <1>6, <2>3, <3>1 DEF StartupGaming, startup_name, DriverFails, At
    <3>3. g' = g \cup {main.name} /\ main.name \notin g
      BY <3>1, <3>2 DEF AddStatus, gaming_domains_working
    <3>4. Cardinality(g') = Cardinality(g) + 1
      BY <3>3, FS_AddElement
    <3> QED
      BY <2>1, <2>3, <3>2, <3>4 DEF CountInv, Enough, user_status, IInv, TypeOK
  <2> QED
    BY <2>2, <2>3
<1>7. ASSUME NEW u \in Users, LogOut(u) PROVE CountInv'
  <2>1. GamingKept
    BY <1>7 DEF LogOut, shutdown_name, gaming_domains_working, Gaming
  <2>2. UsersKept /\ main.at = "loop" /\ main'.at = "out"
    BY <1>7 DEF LogOut, At
  <2> QED
    BY <2>1, <2>2 DEF CountInv, Enough, user_status
<1>8. CASE LogOutGaming
  <2> DEFINE n == find_empty_gaming_status
  <2>1. main.name \in user_status
    BY <1>8 DEF LogOutGaming, IInv, MainOK, user_status
  <2>2. user_status' = user_status \ {main.name}
    BY <1>8, <2>1 DEF LogOutGaming, user_status, IInv, TypeOK
  <2>3. Cardinality(user_status') = Cardinality(user_status) - 1
    BY <2>1, <2>2, FS_RemoveElement
  <2>4. userCount' = userCount - 1 /\ main.at = "out" /\ main'.at = "loop"
    BY <1>8 DEF LogOutGaming, At
  <2>5. CASE userCount - 1 < MaxGaming /\ EmptyGaming # {}
    <3>1. g' = g \ {n} /\ n \in g
      BY <1>8, <2>5, EmptyGamingFound
         DEF LogOutGaming, shutdown_name, gaming_domains_working
    <3>2. Cardinality(g') = Cardinality(g) - 1
      BY <3>1, FS_RemoveElement
    <3> QED
      BY <2>3, <2>4, <2>5, <3>2 DEF CountInv, Enough
  <2>6. CASE ~(userCount - 1 < MaxGaming /\ EmptyGaming # {})
    <3>1. GamingKept
      BY <1>8, <2>6 DEF LogOutGaming, gaming_domains_working
    <3> QED
      BY <2>3, <2>4, <3>1 DEF CountInv, Enough
  <2> QED
    BY <2>5, <2>6
<1>9. ASSUME NEW u \in Users, LogInAgain(u) \/ UseGaming(u) \/ LeftGaming(u)
      PROVE  CountInv'
  BY <1>1, <1>9 DEF LogInAgain, UseGaming, LeftGaming, gaming_domains_working
<1>10. CASE UseWork
  BY <1>1, <1>2, <1>10 DEF UseWork, At, gaming_domains_working
<1>11. CASE LeftWork
  BY <1>2, <1>11 DEF LeftWork, At
<1>12. CASE \/ \E u \in Users, what \in {"use_work", "left_work"} : CliChoose(u, what)
            \/ \E d \in Domain : GamingBooted(d) \/ GuestHalts(d)
            \/ \E t \in SureThreads :
                  SureCheck(t) \/ SureSend(t) \/ SureIgnored(t) \/ SureBreak(t)
            \/ UNCHANGED vars
  <2>1. UNCHANGED <<listed, host, userCount, main>>
    BY <1>12 DEF CliChoose, GamingBooted, GuestHalts, SureCheck, SureSend,
       SureIgnored, SureBreak
  <2> QED
    BY <2>1 DEF CountInv, Enough, user_status, gaming_domains_working
<1> QED
  BY <1>3, <1>4, <1>5, <1>6, <1>7, <1>8, <1>9, <1>10, <1>11, <1>12 DEF Next

(* Without driver failures there is, between packets, a listed session for *)
(* every user up to max_gaming_count: neither count condition of log-in    *)
(* and log-out is off by one.                                              *)
THEOREM AlwaysEnoughSessions == Spec => []EnoughSessions
<1>1. Init => CountInv
  <2> SUFFICES ASSUME Init PROVE CountInv
    OBVIOUS
  <2>1. user_status = {}
    BY DEF Init, user_status
  <2>2. Cardinality(user_status) = 0
    BY <2>1, FS_EmptySet
  <2> QED
    BY <2>2, FiniteSets DEF Init, CountInv, Enough, At
<1>2. CountInv => EnoughSessions
  BY DEF CountInv, Enough, EnoughSessions
<1> QED
  BY <1>1, <1>2, InitIInv, NextIInv, NextCountInv, PTL DEF Spec
=============================================================================
