--------------------------- MODULE GamingStartup ---------------------------
(***************************************************************************)
(* The startup threads of gaming sessions (Hypervisor.__gaming_startup)    *)
(* and the pairing in the main loop (pair_gaming_domain of main.py).  Both *)
(* ask the slave program of a session how many nvcontainer processes it    *)
(* has, packet 21, and find the answer in one slot, last_nv_count, that    *)
(* the main loop writes for all of them.  Nothing is locked: every read of *)
(* the slot and of the status list is a step of its own.  Sessions are     *)
(* started and shut down again and again, their guests halt and restart,   *)
(* and answers, the slot and threads of an earlier start may be left over. *)
(***************************************************************************)
EXTENDS Integers, Sequences, FiniteSets

CONSTANTS
    Sessions,   \* the gaming sessions, in the order of their names; the
                \* address of a session is the session
    Threads,    \* the numbers of the startup threads: a bound on those that
                \* run at a time
    Packets,    \* a bound on the answers under way: more get lost
    Tries,      \* how often pair_gaming_domain looks into the slot
    NoAddress   \* the empty string for an address

ASSUME GamingStartupAssumption ==
    /\ Sessions \subseteq Nat
    /\ IsFiniteSet(Sessions)
    /\ Threads \subseteq Nat
    /\ Tries \in Nat \ {0} /\ Packets \in Nat \ {0}
    /\ NoAddress \notin Sessions

VARIABLES
    listed,         \* the sessions with a status in __gaming_domains_working
    booting,        \* those whose booting_up flag is set
    ip,             \* the ip of each status
    last_nv_count,  \* the slot: empty, or an address and a count
    session,        \* whose startup thread this is
    address,        \* the local variable ip of a thread
    pc,             \* where it is
    place,          \* the index its last loop is at
    length,         \* the length of the list when that loop began
    main,           \* what the main loop does: where it is and, in
                    \* pair_gaming_domain, with whom and how often it has looked
    guest,          \* "down": no slave runs there; "few": it runs, with fewer
                    \* than three processes; "enough"
    answers,        \* packets 21 on the way to the main loop or in its queue
    operational,    \* history: the listed sessions that have had enough
                    \* processes at some time since their status was put in
    astray          \* history: the listed sessions whose start met one of the
                    \* accidents named below

statusVars == <<listed, booting, ip>>
threadVars == <<session, address, pc, place, length>>
history == <<operational, astray>>
vars == <<statusVars, last_nv_count, threadVars, main, guest, answers, history>>

Empty == <<>>
Counts == {"few", "enough"}
Operational(count) == count = "enough"
Addresses == Sessions \cup {NoAddress}
Loop == [at |-> "loop", with |-> NoAddress, tries |-> 0]

(* What comes back to the server when it asks nobody: its own packet 21,   *)
(* without a count.                                                        *)
Echo == <<NoAddress, "echo">>

(* A thread that still waits for its answer, and one that has had it.      *)
Waiting == {"look", "addr", "count"}
Marking == {"take", "range", "name", "flag", "ip"}
Alive(t) == pc[t] # "ended"

TypeOK ==
    /\ listed \subseteq Sessions
    /\ booting \subseteq listed
    /\ ip \in [Sessions -> Addresses]
    /\ last_nv_count \in {Empty} \cup (Sessions \X Counts)
    /\ session \in [Threads -> Addresses]
    /\ \A t \in Threads : Alive(t) <=> session[t] \in Sessions
    /\ address \in [Threads -> Addresses]
    /\ pc \in [Threads -> {"agent"} \cup Waiting \cup Marking \cup {"ended"}]
    /\ place \in [Threads -> Nat]
    /\ length \in [Threads -> Nat]
    /\ main \in [at : {"loop", "look", "addr", "take", "dead"},
                 with : Addresses, tries : 0..Tries]
    /\ guest \in [Sessions -> {"down"} \cup Counts]
    /\ answers \subseteq (Sessions \X Counts) \cup {Echo}
    /\ operational \subseteq listed /\ astray \subseteq listed

(* A server without sessions in its list; some may run already.            *)
Init ==
    /\ listed = {} /\ booting = {}
    /\ ip = [d \in Sessions |-> NoAddress]
    /\ last_nv_count = Empty
    /\ session = [t \in Threads |-> NoAddress]
    /\ address = [t \in Threads |-> NoAddress]
    /\ pc = [t \in Threads |-> "ended"]
    /\ place = [t \in Threads |-> 0]
    /\ length = [t \in Threads |-> 0]
    /\ main = Loop
    /\ guest \in [Sessions -> {"down"} \cup Counts]
    /\ answers = {}
    /\ operational = {} /\ astray = {}

(* The status at index i of the list, as the list is now. *)
InList(i) == i < Cardinality(listed)
At(i) == CHOOSE d \in listed : Cardinality({e \in listed : e < d}) = i

Goto(t, where) == pc' = [pc EXCEPT ![t] = where]
Ends(t) ==
    /\ Goto(t, "ended")
    /\ session' = [session EXCEPT ![t] = NoAddress]
    /\ address' = [address EXCEPT ![t] = NoAddress]
    /\ place' = [place EXCEPT ![t] = 0]
    /\ length' = [length EXCEPT ![t] = 0]

(* Somebody at address a is asked.  Packets get lost; a slave answers with *)
(* its count, if it runs, and the answer may be long on its way.           *)
Answered(a) ==
    /\ Cardinality(answers) < Packets
    /\ answers' = answers \cup (IF a = NoAddress THEN {Echo}
                                ELSE {<<a, n>> : n \in {guest[a]} \cap Counts})
Asked(a) == UNCHANGED answers \/ Answered(a)
-----------------------------------------------------------------------------
(* What the code does not guard against.  These only record: no action     *)
(* looks at the two histories.                                             *)

(* A session is started while an answer, the slot or a thread of an        *)
(* earlier start is left over.                                             *)
LeftOver(d) ==
    \/ last_nv_count # Empty /\ last_nv_count[1] = d
    \/ \E n \in Counts : <<d, n>> \in answers
    \/ \E t \in Threads : Alive(t) /\ session[t] = d

(* The list changes while a thread goes through it by index: then it may   *)
(* mark another session, or miss its own.                                  *)
Shifts == \E t \in Threads : pc[t] \in {"name", "flag", "ip"}

(* A thread reads from the slot when it has been emptied, or from the list *)
(* when it has become shorter: an IndexError ends it.                      *)
Crashes(t) ==
    /\ Ends(t)
    /\ astray' = astray \cup ({session[t]} \cap listed)

(* The slot is overwritten with the answer of another between a thread's   *)
(* reading of the address and that of the count.                           *)
Mixed(a) == {d \in listed : \E t \in Threads :
                pc[t] = "count" /\ session[t] = d /\ a[1] # d}
-----------------------------------------------------------------------------
(* The main loop. *)

(* startup_name, of a session without a status, and __find_running, of one *)
(* that runs: a status and a thread.                                       *)
Startup(d, t) ==
    /\ main.at = "loop" /\ d \notin listed
    /\ ~Alive(t) /\ \A u \in Threads : u < t => Alive(u)
    /\ listed' = listed \cup {d} /\ booting' = booting \cup {d}
    /\ ip' = [ip EXCEPT ![d] = NoAddress]
    /\ session' = [session EXCEPT ![t] = d]
    /\ address' = [address EXCEPT ![t] = NoAddress]
    /\ Goto(t, "agent")
    /\ operational' = operational \cup {e \in {d} : Operational(guest[e])}
    /\ astray' = IF Shifts THEN listed'
                 ELSE astray \cup {e \in {d} : LeftOver(e)}
    /\ UNCHANGED <<last_nv_count, place, length, main, guest, answers>>

(* log_user_out takes a status that is ready out of the list. *)
Shutdown(d) ==
    /\ main.at = "loop" /\ d \in listed \ booting
    /\ listed' = listed \ {d}
    /\ ip' = [ip EXCEPT ![d] = NoAddress]
    /\ operational' = operational \ {d}
    /\ astray' = IF Shifts THEN listed' ELSE astray \ {d}
    /\ UNCHANGED <<booting, last_nv_count, threadVars, main, guest, answers>>

Dies == main' = [Loop EXCEPT !.at = "dead"]

(* Packet 21.  One without a count raises an IndexError. *)
TakeAnswer(a) ==
    /\ main.at = "loop" /\ a \in answers
    /\ answers' = answers \ {a}
    /\ IF a = Echo
       THEN Dies /\ UNCHANGED <<last_nv_count, astray>>
       ELSE /\ last_nv_count' = a
            /\ astray' = astray \cup Mixed(a)
            /\ UNCHANGED main
    /\ UNCHANGED <<statusVars, threadVars, guest, operational>>

(* Packet 23, of a user who plays in session d: the slave is asked. *)
PairStart(d) ==
    /\ main.at = "loop" /\ d \in listed \ booting
    /\ Asked(d)
    /\ main' = [Loop EXCEPT !.at = "look", !.with = d]
    /\ UNCHANGED <<statusVars, last_nv_count, threadVars, guest, history>>

NextTry == main' = [main EXCEPT !.at = "look", !.tries = @ + 1]
pairLeaves == <<statusVars, threadVars, guest, answers, history>>

(* The slot is looked at: first whether it is empty, then whose it is, and *)
(* then for the count, after which it is emptied.  A thread that empties   *)
(* it in between raises an IndexError in the main loop.                    *)
PairLook ==
    /\ main.at = "look" /\ main.tries < Tries
    /\ IF last_nv_count # Empty THEN main' = [main EXCEPT !.at = "addr"] ELSE NextTry
    /\ UNCHANGED <<last_nv_count, pairLeaves>>

PairAddr ==
    /\ main.at = "addr"
    /\ IF last_nv_count = Empty THEN Dies
       ELSE IF last_nv_count[1] = main.with THEN main' = [main EXCEPT !.at = "take"]
       ELSE NextTry
    /\ UNCHANGED <<last_nv_count, pairLeaves>>

PairTake ==
    /\ main.at = "take"
    /\ IF last_nv_count = Empty THEN Dies ELSE NextTry
    /\ last_nv_count' = Empty
    /\ UNCHANGED pairLeaves

(* The code goes to the slave, or an error to the client. *)
PairEnd ==
    /\ main.at = "look" /\ main.tries = Tries
    /\ main' = Loop
    /\ UNCHANGED <<last_nv_count, pairLeaves>>
-----------------------------------------------------------------------------
(* A startup thread t, of session session[t]. *)

threadLeaves == <<listed, main, guest, operational>>
sameThread == <<session, address, place, length, astray>>

(* Before the thread looks into the slot, and looks again, it asks.        *)
AsksAndLooks(t, a) == Asked(a) /\ Goto(t, "look")

(* The guest agent answers.  It may know no IPv4 address of "Ethernet 2"   *)
(* yet: then the thread is left with the empty one.                        *)
AgentUp(t) ==
    /\ pc[t] = "agent"
    /\ \E a \in {session[t], NoAddress} :
          address' = [address EXCEPT ![t] = a] /\ AsksAndLooks(t, a)
    /\ UNCHANGED <<threadLeaves, booting, ip, last_nv_count, session, place, length,
                   astray>>

(* The three reads of the slot.  An empty one raises an IndexError that    *)
(* ends the thread, after the first read has found it full.                *)
Look(t) ==
    /\ pc[t] = "look"
    /\ \/ last_nv_count = Empty /\ AsksAndLooks(t, address[t])
       \/ last_nv_count # Empty /\ Goto(t, "addr") /\ UNCHANGED answers
    /\ UNCHANGED <<threadLeaves, booting, ip, last_nv_count, sameThread>>

(* A read of the slot after which the thread goes on only if fits holds.   *)
LookAt(t, fits, next) ==
    /\ \/ last_nv_count = Empty /\ Crashes(t) /\ UNCHANGED answers
       \/ last_nv_count # Empty /\ fits /\ Goto(t, next)
                                /\ UNCHANGED <<answers, sameThread>>
       \/ last_nv_count # Empty /\ ~fits /\ AsksAndLooks(t, address[t])
                                /\ UNCHANGED sameThread
    /\ UNCHANGED <<threadLeaves, booting, ip, last_nv_count>>

LookAddr(t) ==
    pc[t] = "addr" /\ LookAt(t, last_nv_count[1] = address[t], "count")

(* Faulty: one process is enough. *)
LookCount_one(t) ==
    pc[t] = "count" /\ LookAt(t, last_nv_count[2] \in Counts, "take")

LookCount(t) ==
    pc[t] = "count" /\ LookAt(t, Operational(last_nv_count[2]), "take")

(* It is operational: the slot is emptied, and the slave asked once more.  *)
Take(t) ==
    /\ pc[t] = "take"
    /\ last_nv_count' = Empty
    /\ Asked(address[t])
    /\ Goto(t, "range")
    /\ UNCHANGED <<threadLeaves, booting, ip, sameThread>>

(* The loop over the indices of the list: its length is read once, the     *)
(* list anew at every use of an index.                                     *)
scanLeaves == <<threadLeaves, last_nv_count, answers>>

ScanBegins(t) ==
    /\ pc[t] = "range"
    /\ place' = [place EXCEPT ![t] = 0]
    /\ length' = [length EXCEPT ![t] = Cardinality(listed)]
    /\ Goto(t, "name")
    /\ UNCHANGED <<scanLeaves, booting, ip, session, address, astray>>

ScanName(t) ==
    /\ pc[t] = "name"
    /\ \/ place[t] >= length[t] /\ Ends(t) /\ UNCHANGED astray
       \/ place[t] < length[t] /\ ~InList(place[t]) /\ Crashes(t)
       \/ /\ place[t] < length[t] /\ InList(place[t])
          /\ IF At(place[t]) = session[t]
             THEN Goto(t, "flag") /\ UNCHANGED place
             ELSE place' = [place EXCEPT ![t] = @ + 1] /\ UNCHANGED pc
          /\ UNCHANGED <<session, address, length, astray>>
    /\ UNCHANGED <<scanLeaves, booting, ip>>

(* Faulty: the flag stays. *)
ScanFlag_forgotten(t) ==
    /\ pc[t] = "flag"
    /\ \/ InList(place[t]) /\ Goto(t, "ip") /\ UNCHANGED <<booting, sameThread>>
       \/ ~InList(place[t]) /\ Crashes(t) /\ UNCHANGED booting
    /\ UNCHANGED <<scanLeaves, ip>>

ScanFlag(t) ==
    /\ pc[t] = "flag"
    /\ \/ InList(place[t]) /\ Goto(t, "ip")
          /\ booting' = booting \ {At(place[t])} /\ UNCHANGED sameThread
       \/ ~InList(place[t]) /\ Crashes(t) /\ UNCHANGED booting
    /\ UNCHANGED <<scanLeaves, ip>>

ScanIp(t) ==
    /\ pc[t] = "ip"
    /\ \/ /\ InList(place[t]) /\ Goto(t, "name")
          /\ ip' = [ip EXCEPT ![At(place[t])] = address[t]]
          /\ place' = [place EXCEPT ![t] = @ + 1]
          /\ UNCHANGED <<session, address, length, astray>>
       \/ ~InList(place[t]) /\ Crashes(t) /\ UNCHANGED ip
    /\ UNCHANGED <<scanLeaves, booting>>
-----------------------------------------------------------------------------
(* The guests. *)

guestLeaves == <<statusVars, last_nv_count, threadVars, main, answers, astray>>

(* The slave and the processes come up, one after another. *)
GuestBoots(d) ==
    /\ guest' = [guest EXCEPT ![d] = IF @ = "down" THEN "few" ELSE "enough"]
    /\ operational' = operational \cup {e \in {d} \cap listed : Operational(guest'[e])}
    /\ UNCHANGED guestLeaves

(* It is told to halt, or halts or restarts as its user likes. *)
GuestHalts(d) ==
    /\ guest' = [guest EXCEPT ![d] = "down"]
    /\ UNCHANGED <<guestLeaves, operational>>

ThreadStep(t) ==
    \/ AgentUp(t) \/ Look(t) \/ LookAddr(t) \/ LookCount(t) \/ Take(t)
    \/ ScanBegins(t) \/ ScanName(t) \/ ScanFlag(t) \/ ScanIp(t)
PairStep == PairLook \/ PairAddr \/ PairTake \/ PairEnd

(* What happens to the server from outside, and what goes on in it.        *)
Outside ==
    \E d \in Sessions :
       \/ \E t \in Threads : Startup(d, t)
       \/ Shutdown(d) \/ PairStart(d) \/ GuestHalts(d)
Inside ==
    \/ \E d \in Sessions : GuestBoots(d)
    \/ \E t \in Threads : ThreadStep(t)
    \/ \E a \in answers : TakeAnswer(a)
    \/ PairStep

Next == Outside \/ Inside

Spec == Init /\ [][Next]_vars

(* Threads go on, the main loop takes what comes, and a slave that is      *)
(* asked again and again is heard in the end.                              *)
Fairness ==
    /\ WF_vars(PairStep)
    /\ SF_vars(\E a \in answers : TakeAnswer(a))
    /\ \A t \in Threads :
          /\ WF_vars(ThreadStep(t))
          /\ SF_vars(ThreadStep(t) /\ address[t] # NoAddress /\ Answered(address[t]))
FairSpec == Spec /\ Fairness
-----------------------------------------------------------------------------
(* hypervisor.py:256-270: a session that is offered to users has had three *)
(* nvcontainer processes since its status was put into the list, and its   *)
(* status bears no foreign address, however often sessions and guests are  *)
(* started, whichever packets are lost or late and whatever the pairing    *)
(* takes out of the slot - but for the sessions astray: something of an    *)
(* earlier start was left over when they were started (LeftOver), the list *)
(* changed while a thread went through it (Shifts), or the slot was        *)
(* overwritten between two reads (Mixed).                                  *)
FullyOperational ==
    \A d \in listed \ (booting \cup astray) :
        d \in operational /\ ip[d] \in {NoAddress, d}

(* A session whose thread has an address, and whose slave runs its three   *)
(* processes from some time on while nobody else is asked, is not booting  *)
(* for ever, unless an IndexError has ended the thread or the main loop or *)
(* it has gone astray otherwise.  A thread with the empty address waits    *)
(* for ever.                                                               *)
Stuck(d) ==
    /\ d \in booting \ astray /\ main.at # "dead"
    /\ \A t \in Threads : session[t] = d => address[t] = d
    /\ guest[d] = "enough" /\ \A a \in answers : a[1] = d
BootEnds == \A d \in Sessions : []<>~Stuck(d)

(* pair_gaming_domain keeps the main loop for six looks and no longer: it  *)
(* goes on, or an IndexError has ended it.                                 *)
PairEnds == []<>(main.at \in {"loop", "dead"})

(* hypervisor.py:254, main.py:262: who waits for the slot does not do so   *)
(* for ever.                                                               *)
StartupEnds == BootEnds /\ PairEnds
=============================================================================
