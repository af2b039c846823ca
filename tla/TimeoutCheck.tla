---------------------------- MODULE TimeoutCheck ----------------------------
(***************************************************************************)
(* The TimeoutCheckThread of the server (server/users.py) next to the main *)
(* loop, the clients and the network.  The thread asks every user for a    *)
(* sign of life, packet 19, and sends a log-out, packet 2, to the server   *)
(* itself for those who have been silent in too many rounds.  It shares    *)
(* two lists with the main loop and locks neither: user_status, which it   *)
(* iterates while users come and go, and timeout_feed, which the main loop *)
(* fills with answers and the thread clears.                               *)
(***************************************************************************)
EXTENDS Integers, FiniteSets

CONSTANTS
    UserIds,    \* the user ids, in the order of the user names
    MaxCount,   \* __max_count, the silent rounds that a user may have, in
                \* calm conditions and in others
    MaxLogins,  \* bound: so many log-ins, in calm conditions and in others
    MaxLogouts  \* bound: so many log-out packets of a user under way, in calm
                \* conditions and in others

(* A limit of one would log out who has just answered: the counter is      *)
(* incremented after it is reset.                                          *)
ASSUME TimeoutCheckAssumption ==
    /\ UserIds \subseteq Nat \ {0}
    /\ IsFiniteSet(UserIds)
    /\ MaxCount \in [BOOLEAN -> Nat \ {0, 1}]
    /\ MaxLogins \in [BOOLEAN -> Nat] /\ MaxLogouts \in [BOOLEAN -> Nat]

VARIABLES
    calm,               \* a choice made at the start: nothing is lost, an
                        \* interval is enough for all that is under way to be
                        \* served, and nobody whose client was killed is back
                        \* before the time is out
    user_status,        \* the users in the sorted list of User objects
    timeout_counter,    \* of the User object of each of them
    timeout_feed,       \* the ids that have answered, and perhaps "close"
    main,               \* "loop", "closing" or "over"
    pc,                 \* what the thread does next
    next,               \* the place its for loop looks at next
    client,             \* whether the client program of a user runs
    asks,               \* packets 19 on the way to a client
    answers,            \* packets 19 on the way to the main loop
    logouts,            \* the number of packets 2 on the way to the main loop
    logins,             \* log-ins so far
    shifted,            \* history: how often a change of the list has cost each
                        \* user a request or an extra count since the last
                        \* answer of theirs that was counted
    moved               \* history: the users to whom that has ever happened

listVars == <<user_status, timeout_counter>>
netVars == <<asks, answers, logouts>>
historyVars == <<shifted, moved>>
vars == <<calm, listVars, timeout_feed, main, pc, next, client, netVars, logins,
          historyVars>>

max_count == MaxCount[calm]
close == 0  \* the word "close" in timeout_feed

TypeOK ==
    /\ calm \in BOOLEAN
    /\ user_status \subseteq UserIds
    /\ timeout_counter \in [UserIds -> 0..max_count]
    /\ timeout_feed \subseteq UserIds \cup {close}
    /\ main \in {"loop", "closing", "over"}
    /\ pc \in {"ask", "sleep", "count", "clear", "done"}
    /\ next \in Nat \ {0}
    /\ client \in [UserIds -> {"on", "off"}]
    /\ asks \subseteq UserIds /\ answers \subseteq UserIds
    /\ logouts \in [UserIds -> 0..MaxLogouts[calm]]
    /\ logins \in 0..MaxLogins[calm]
    /\ shifted \in [UserIds -> 0..max_count]
    /\ moved \subseteq UserIds

Init ==
    /\ calm \in BOOLEAN
    /\ user_status = {}
    /\ timeout_counter = [u \in UserIds |-> 0]
    /\ timeout_feed = {}
    /\ main = "loop"
    /\ pc = "ask" /\ next = 1
    /\ client = [u \in UserIds |-> "off"]
    /\ asks = {} /\ answers = {}
    /\ logouts = [u \in UserIds |-> 0]
    /\ logins = 0
    /\ shifted = [u \in UserIds |-> 0] /\ moved = {}

(* The place of u in the list, as the list is now. *)
Place(u) == Cardinality({v \in user_status : v <= u})
AtNext(u) == u \in user_status /\ Place(u) = next
Exhausted == next > Cardinality(user_status)

(* One more log-out packet of u; those beyond the bound are left out. *)
SendLogout(u) ==
    logouts' = [logouts EXCEPT ![u] = IF @ < MaxLogouts[calm] THEN @ + 1 ELSE @]

(* Who loses a turn when v leaves the list while the thread asks, and who  *)
(* gets a second one when v comes into it while the thread counts; noted   *)
(* in calm conditions only.                                                *)
Skipped(v) ==
    {u \in user_status : calm /\ pc = "ask" /\ v \in user_status /\ v < u /\ AtNext(u)}
Recounted(v) ==
    {u \in user_status : calm /\ pc = "count" /\ v < u /\ Place(u) = next - 1}
Shift(us) ==
    /\ shifted' = [u \in UserIds |-> IF u \in us /\ shifted[u] < max_count
                                      THEN shifted[u] + 1 ELSE shifted[u]]
    /\ moved' = moved \cup us
-----------------------------------------------------------------------------
(* The main loop, between two packets. *)

(* Packet 1: a new User object is put into the list at its place. *)
LogIn(u) ==
    /\ main = "loop" /\ u \notin user_status
    /\ logins < MaxLogins[calm]
    /\ user_status' = user_status \cup {u}
    /\ timeout_counter' = [timeout_counter EXCEPT ![u] = 0]
    /\ client' = [client EXCEPT ![u] = "on"]
    /\ logins' = logins + 1
    /\ Shift(Recounted(u))
    /\ UNCHANGED <<calm, timeout_feed, main, pc, next, netVars>>

(* Packet 1 of a user who has a User object and the same address: it is    *)
(* used again, with the counter that it has.                               *)
LogInAgain(u) ==
    /\ main = "loop" /\ u \in user_status
    /\ ~calm /\ client[u] = "off" /\ logins < MaxLogins[calm]
    /\ client' = [client EXCEPT ![u] = "on"]
    /\ logins' = logins + 1
    /\ UNCHANGED <<calm, listVars, timeout_feed, main, pc, next, netVars,
                   historyVars>>

(* Packet 19. *)
TakeAnswer(u) ==
    /\ main = "loop" /\ u \in answers
    /\ answers' = answers \ {u}
    /\ timeout_feed' = timeout_feed \cup {u}
    /\ UNCHANGED <<calm, listVars, main, pc, next, client, asks, logouts, logins,
                   historyVars>>

(* Packet 2, whoever has sent it: the User object goes, with its counter;  *)
(* an unknown id is ignored.                                               *)
TakeLogout(u) ==
    /\ main = "loop" /\ logouts[u] > 0
    /\ logouts' = [logouts EXCEPT ![u] = @ - 1]
    /\ user_status' = user_status \ {u}
    /\ timeout_counter' = [timeout_counter EXCEPT ![u] = 0]
    /\ Shift(Skipped(u))
    /\ UNCHANGED <<calm, timeout_feed, main, pc, next, client, asks,
                   answers, logins>>

(* Packet 0: shutdown() empties timeout_feed, puts "close" into it and, at *)
(* the end, waits for the thread.                                          *)
ShutDown ==
    /\ main = "loop"
    /\ timeout_feed' = {close}
    /\ main' = "closing"
    /\ UNCHANGED <<calm, listVars, pc, next, client, netVars, logins,
                   historyVars>>

Joined ==
    /\ main = "closing" /\ pc = "done"
    /\ main' = "over"
    /\ UNCHANGED <<calm, listVars, timeout_feed, pc, next, client, netVars, logins,
                   historyVars>>
-----------------------------------------------------------------------------
(* The thread. *)

(* One round of the loop that sends the requests, at the start of the      *)
(* thread and in each round; with the list exhausted the thread sleeps.    *)
Ask ==
    /\ pc = "ask"
    /\ \/ /\ Exhausted
          /\ pc' = "sleep"
          /\ UNCHANGED <<next, asks>>
       \/ \E u \in UserIds :
             /\ AtNext(u)
             /\ asks' = asks \cup {u}
             /\ next' = next + 1
             /\ UNCHANGED pc
    /\ UNCHANGED <<calm, listVars, timeout_feed, main, client, answers, logouts, logins,
                   historyVars>>

Settled ==
    main = "loop" =>
        asks = {} /\ answers = {} /\ \A u \in UserIds : logouts[u] = 0

(* Faulty: "close" is looked for at the end of the round only. *)
Wake_late ==
    /\ pc = "sleep"
    /\ calm => Settled
    /\ pc' = "count"
    /\ next' = 1
    /\ UNCHANGED <<calm, listVars, timeout_feed, main, client, netVars, logins,
                   historyVars>>

(* The interval is over; "close" is looked for, in the first place. *)
Wake ==
    /\ pc = "sleep"
    /\ calm => Settled
    /\ pc' = IF close \in timeout_feed THEN "done" ELSE "count"
    /\ next' = 1
    /\ UNCHANGED <<calm, listVars, timeout_feed, main, client, netVars, logins,
                   historyVars>>

(* Faulty: the counter of a user who has answered is not reset. *)
Counted_noReset(u) == timeout_counter[u] + 1

(* The counter after the visit of u: an answer resets it first. *)
Counted(u) == (IF u \in timeout_feed THEN 0 ELSE timeout_counter[u]) + 1

(* Faulty: the log-out is sent in the round that reaches the limit only. *)
TimeIsOut_once(count) == count = max_count

TimeIsOut(count) == count >= max_count

(* One round of the loop over the users: a silent one counts up, and is    *)
(* logged out from the limit on, in every round.  Counts above the limit   *)
(* are kept at the limit: they are only compared with it.                  *)
Count ==
    /\ pc = "count"
    /\ \/ /\ Exhausted
          /\ pc' = "clear"
          /\ UNCHANGED <<timeout_counter, next, logouts, shifted>>
       \/ \E u \in UserIds :
             /\ AtNext(u)
             /\ timeout_counter' = [timeout_counter EXCEPT
                    ![u] = IF Counted(u) > max_count THEN max_count ELSE Counted(u)]
             /\ IF TimeIsOut(Counted(u)) THEN SendLogout(u) ELSE UNCHANGED logouts
             /\ shifted' = IF u \in timeout_feed THEN [shifted EXCEPT ![u] = 0] ELSE shifted
             /\ next' = next + 1
             /\ UNCHANGED pc
    /\ UNCHANGED <<calm, user_status, timeout_feed, main, client, asks, answers, logins,
                   moved>>

(* Whatever has come into timeout_feed by now goes. *)
Clear ==
    /\ pc = "clear"
    /\ timeout_feed' = {}
    /\ pc' = "ask" /\ next' = 1
    /\ UNCHANGED <<calm, listVars, main, client, netVars, logins, historyVars>>
-----------------------------------------------------------------------------
(* The clients and the network. *)

(* A client that is logged in answers a request, another one does not. *)
Answer(u) ==
    /\ u \in asks
    /\ asks' = asks \ {u}
    /\ answers' = IF client[u] = "on" THEN answers \cup {u} ELSE answers
    /\ UNCHANGED <<calm, listVars, timeout_feed, main, pc, next, client, logouts, logins,
                   historyVars>>

(* The user of a client logs out. *)
Leave(u) ==
    /\ client[u] = "on"
    /\ client' = [client EXCEPT ![u] = "off"]
    /\ SendLogout(u)
    /\ UNCHANGED <<calm, listVars, timeout_feed, main, pc, next, asks, answers, logins,
                   historyVars>>

(* A client is killed, or its machine loses the network. *)
Vanish(u) ==
    /\ client[u] = "on"
    /\ client' = [client EXCEPT ![u] = "off"]
    /\ UNCHANGED <<calm, listVars, timeout_feed, main, pc, next, netVars, logins,
                   historyVars>>

Lose(u) ==
    /\ ~calm
    /\ \/ u \in asks /\ asks' = asks \ {u} /\ UNCHANGED <<answers, logouts>>
       \/ u \in answers /\ answers' = answers \ {u} /\ UNCHANGED <<asks, logouts>>
       \/ /\ logouts[u] > 0
          /\ logouts' = [logouts EXCEPT ![u] = @ - 1]
          /\ UNCHANGED <<asks, answers>>
    /\ UNCHANGED <<calm, listVars, timeout_feed, main, pc, next, client, logins,
                   historyVars>>

Next ==
    \/ \E u \in UserIds :
          \/ LogIn(u) \/ LogInAgain(u) \/ TakeAnswer(u) \/ TakeLogout(u)
          \/ Answer(u) \/ Leave(u) \/ Vanish(u) \/ Lose(u)
    \/ ShutDown \/ Joined
    \/ Ask \/ Wake \/ Count \/ Clear

Spec == Init /\ [][Next]_vars

(* The thread runs, the main loop serves what is in its queue, and a       *)
(* packet that is sent again and again arrives in the end.                 *)
Fairness ==
    /\ WF_vars(Ask) /\ WF_vars(Wake) /\ WF_vars(Count) /\ WF_vars(Clear)
    /\ WF_vars(Joined)
    /\ \A u \in UserIds :
          WF_vars(TakeAnswer(u)) /\ SF_vars(TakeLogout(u)) /\ WF_vars(Answer(u))
FairSpec == Spec /\ Fairness
-----------------------------------------------------------------------------
(* users.py:32 "checks if logged in users are still online else log user   *)
(* out": in calm conditions, while the client of a user runs and the       *)
(* server serves, no log-out of that user is sent, neither by the client   *)
(* nor by the thread; unless the list, which the thread iterates while     *)
(* others come and go, has cost that user all rounds but one.              *)
OnlineKept ==
    [][\A u \in UserIds :
          calm /\ main = "loop" /\ logouts'[u] > logouts[u]
              => client'[u] = "off" \/ shifted[u] + 1 >= max_count]_vars

(* A log-out packet is no more than an id: in calm conditions none that    *)
(* was meant for an earlier session of a user ends a later one, if the     *)
(* thread has never lost the place of that user.                           *)
FreshSessionKept ==
    [][\A u \in user_status \ user_status' :
          calm => client[u] = "off" \/ u \in moved]_vars

(* A user whose client is gone is logged out in the end, however many      *)
(* packets are lost: the thread repeats the log-out in every round.        *)
SilentLoggedOut ==
    \A u \in UserIds :
        u \in user_status /\ client[u] = "off"
            ~> u \notin user_status \/ client[u] = "on" \/ main # "loop"

(* shutdown() of main.py, which joins the thread, ends if its word "close" *)
(* is put into the list while the thread asks or sleeps.                   *)
ShutdownSeen ==
    close \in timeout_feed /\ pc \in {"ask", "sleep"} ~> main = "over"
=============================================================================
