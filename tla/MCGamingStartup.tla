-------------------------- MODULE MCGamingStartup --------------------------
(***************************************************************************)
(* GamingStartup for TLC: the sessions are numbers, in the order of their  *)
(* names, no slave runs at first, and what happens to the server from      *)
(* outside, a start, a log-out, a pairing or a guest that halts, happens   *)
(* as often as Events says for the number of sessions that take part.      *)
(***************************************************************************)
EXTENDS GamingStartup

CONSTANTS One, Two   \* how many events there may be with one and two sessions

VARIABLES
    taking,     \* the sessions that take part: a choice made at the start
    events      \* how many events are left

MCInit ==
    /\ Init /\ \A d \in Sessions : guest[d] = "down"
    /\ \/ taking = {0} /\ events = One
       \/ taking = Sessions /\ events = Two

MCNext ==
    /\ UNCHANGED taking
    /\ \/ /\ events > 0 /\ events' = events - 1
          /\ \E d \in taking :
                \/ \E t \in Threads : Startup(d, t)
                \/ Shutdown(d) \/ PairStart(d) \/ GuestHalts(d)
       \/ Inside /\ UNCHANGED events

MCSpec == MCInit /\ [][MCNext]_<<vars, taking, events>> /\ Fairness
=============================================================================
