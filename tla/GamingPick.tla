----------------------------- MODULE GamingPick -----------------------------
(***************************************************************************)
(* Hypervisor.find_gaming_domain_down (server/hypervisor.py): the scan of  *)
(* the status list for the gaming session to start next.  The list is in   *)
(* the order of the names "g0", "g1", ..., that is of strings, and the     *)
(* scan takes it to be in the order of the numbers.                        *)
(***************************************************************************)
EXTENDS Integers, FiniteSets

CONSTANTS
    Defined,    \* the sessions are g0 .. g(Defined - 1), of at most two digits
    DomainError \* raised when there is no session to start

ASSUME GamingPickAssumption ==
    /\ Defined \in 0..100
    /\ DomainError \notin Int

VARIABLES
    working,        \* the numbers of the sessions in __gaming_domains_working
    user_count,
    max_gaming,
    scanPlace,      \* how far the loop has got in the list
    i,              \* the number expected there
    result,         \* what is returned or, DomainError, raised
    scanPc          \* "start", "loop" or "done"
pickVars == <<working, user_count, max_gaming, scanPlace, i, result, scanPc>>

Sessions == 0..(Defined - 1)

PickTypeOK ==
    /\ working \subseteq Sessions
    /\ user_count \in Nat /\ max_gaming \in 0..Defined
    /\ scanPlace \in 0..Cardinality(working)
    /\ i \in 0..Defined
    /\ result \in Sessions \cup {DomainError}
    /\ scanPc \in {"start", "loop", "done"}

(* Any list, any number of sessions, and as many users as sessions in the  *)
(* list or one more.                                                       *)
PickInit ==
    /\ working \in SUBSET Sessions
    /\ user_count \in {Cardinality(working), Cardinality(working) + 1}
    /\ max_gaming \in 0..Defined
    /\ scanPlace = 0 /\ i = 0
    /\ result = DomainError
    /\ scanPc = "start"

(* Name "g<m>" is before "g<n>": by the first digit, then the shorter one, *)
(* then by the second digit.                                               *)
Before(m, n) ==
    LET key(k) == IF k < 10 THEN 11 * k ELSE 11 * (k \div 10) + 1 + (k % 10)
    IN  key(m) < key(n)

AtPlace(n) == n \in working /\ Cardinality({m \in working : Before(m, n)}) = scanPlace

Return(r) ==
    /\ result' = r /\ scanPc' = "done"
    /\ UNCHANGED <<working, user_count, max_gaming, scanPlace, i>>

Start ==
    /\ scanPc = "start"
    /\ IF user_count <= Cardinality(working)
       THEN Return(DomainError)
       ELSE /\ scanPc' = "loop"
            /\ UNCHANGED <<working, user_count, max_gaming, scanPlace, i, result>>

Look ==
    /\ scanPc = "loop"
    /\ \E num \in working :
          /\ AtPlace(num)
          /\ IF num # i
             THEN Return(i)
             ELSE /\ scanPlace' = scanPlace + 1 /\ i' = i + 1
                  /\ UNCHANGED <<working, user_count, max_gaming, result, scanPc>>

(* Faulty: the session after the last one may be one too many. *)
PastEnd_tooMany ==
    /\ scanPc = "loop" /\ scanPlace = Cardinality(working)
    /\ Return(IF i <= max_gaming THEN i ELSE DomainError)

PastEnd ==
    /\ scanPc = "loop" /\ scanPlace = Cardinality(working)
    /\ Return(IF i < max_gaming THEN i ELSE DomainError)

PickNext == Start \/ Look \/ PastEnd

PickSpec == PickInit /\ [][PickNext]_pickVars
-----------------------------------------------------------------------------
FirstGap ==
    CHOOSE k \in 0..Defined :
        k \notin working /\ \A j \in 0..(k - 1) : j \in working

(* hypervisor.py:344 "finds gaming domain which is shutted down": the scan *)
(* returns the first gap, which is what Multisession takes it to do: below *)
(* the end of the list whatever its number is, past the end only below     *)
(* max_gaming.  With a two-digit name in the list, which comes right after *)
(* "g1", it does so only if the gap is g0, g1 or g2; otherwise it returns  *)
(* g2 although that has a status.                                          *)
PickIsFirstGap ==
    scanPc = "done" /\ (working \subseteq 0..9 \/ FirstGap <= 2) =>
        result = IF /\ user_count > Cardinality(working)
                    /\ FirstGap < max_gaming \/ \E n \in working : n > FirstGap
                 THEN FirstGap
                 ELSE DomainError
=============================================================================
