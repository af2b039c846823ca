---------------------------- MODULE Users_proofs ----------------------------
(***************************************************************************)
(* What the server promises its users: that a session is nobody else's,    *)
(* for any users and sessions; and that who is online stays logged in, for *)
(* any users, limit and number of log-ins.                                 *)
(***************************************************************************)
EXTENDS SessionPool, TimeoutCheck, FiniteSetTheorems, TLAPS

-----------------------------------------------------------------------------
(* The pool of sessions. *)

(* The variables of the pool keep their types. *)
THEOREM PoolTypeCorrect == PoolSpec => []PoolTypeOK
<1>1. PoolInit => PoolTypeOK
    BY DEF PoolInit, PoolTypeOK
<1>2. PoolTypeOK /\ [PoolNext]_poolVars => PoolTypeOK'
    BY DEF PoolTypeOK, PoolNext, poolVars, Offer, Withdraw, Acquire, Release
<1>3. QED
    BY <1>1, <1>2, PTL DEF PoolSpec

(* A step of the pool keeps every session with at most one holder, who     *)
(* holds no other session.                                                 *)
LEMMA PoolStepKeeps ==
    PoolTypeOK /\ OneSessionEach /\ [PoolNext]_poolVars => OneSessionEach'
<1> SUFFICES ASSUME PoolTypeOK, OneSessionEach, [PoolNext]_poolVars
             PROVE  OneSessionEach'
    OBVIOUS
<1> USE DEF PoolTypeOK, OneSessionEach
<1>1. CASE UNCHANGED poolVars
    BY <1>1 DEF poolVars
<1>2. ASSUME NEW s \in Sessions, Offer(s) PROVE OneSessionEach'
    BY <1>2 DEF Offer
<1>3. ASSUME NEW s \in Sessions, Withdraw(s) PROVE OneSessionEach'
    BY <1>3 DEF Withdraw
<1>4. ASSUME NEW s \in Sessions, NEW u \in Users, Acquire(u, s)
      PROVE  OneSessionEach'
    BY <1>4 DEF Acquire
<1>5. ASSUME NEW s \in Sessions, NEW u \in Users, Release(u, s)
      PROVE  OneSessionEach'
    BY <1>5 DEF Release
<1>6. QED
    BY <1>1, <1>2, <1>3, <1>4, <1>5 DEF PoolNext

(* Nobody holds two sessions, and only a session that is up is held; with  *)
(* PoolRefined of Multisession_proofs, the server's sessions do the same.  *)
THEOREM PoolSafe == PoolSpec => []OneSessionEach
<1>1. PoolInit => OneSessionEach
    BY DEF PoolInit, OneSessionEach
<1>2. QED
    BY <1>1, PoolTypeCorrect, PoolStepKeeps, PTL DEF PoolSpec

-----------------------------------------------------------------------------
(* The timeout thread.  The places of the list, as users come and go. *)

UpTo(us, u) == {v \in us : v <= u}

(* A place is one of those that the list has. *)
LEMMA PlaceIs ==
    ASSUME TypeOK, NEW u \in user_status
    PROVE  /\ IsFiniteSet(user_status) /\ IsFiniteSet(UpTo(user_status, u))
           /\ Place(u) = Cardinality(UpTo(user_status, u)) /\ Place(u) \in Nat
           /\ Cardinality(user_status) \in Nat /\ Place(u) <= Cardinality(user_status)
<1>1. IsFiniteSet(user_status)
    BY TimeoutCheckAssumption, FS_Subset DEF TypeOK
<1>2. UpTo(user_status, u) \subseteq user_status
    BY DEF UpTo
<1>3. IsFiniteSet(UpTo(user_status, u))
      /\ Cardinality(UpTo(user_status, u)) <= Cardinality(user_status)
    BY <1>1, <1>2, FS_Subset
<1>4. Place(u) = Cardinality(UpTo(user_status, u))
    BY DEF Place, UpTo
<1>5. Place(u) \in Nat /\ Cardinality(user_status) \in Nat
    BY <1>1, <1>3, <1>4, FS_CardinalityType
<1>6. QED
    BY <1>1, <1>3, <1>4, <1>5

(* No two users are at one place. *)
LEMMA PlacesApart ==
    ASSUME TypeOK, NEW u \in user_status, NEW v \in user_status, u # v
    PROVE  Place(u) # Place(v)
<1>1. u \in Nat /\ v \in Nat
    BY TimeoutCheckAssumption DEF TypeOK
<1>2. ASSUME NEW a \in user_status, NEW b \in user_status, a < b
      PROVE  Place(a) # Place(b)
    <2>1. a \in Nat /\ b \in Nat /\ user_status \subseteq Nat
        BY TimeoutCheckAssumption DEF TypeOK
    <2>2. UpTo(user_status, a) \subseteq UpTo(user_status, b)
        <3>1. ASSUME NEW w \in user_status, w <= a PROVE w <= b
            <4>1. w \in Nat
                BY <2>1
            <4>2. QED
                BY <1>2, <2>1, <3>1, <4>1
        <3>2. QED
            BY <3>1 DEF UpTo
    <2>3. b \in UpTo(user_status, b) /\ b \notin UpTo(user_status, a)
        BY <1>2, <2>1 DEF UpTo
    <2>4. IsFiniteSet(UpTo(user_status, b))
        BY PlaceIs
    <2>5. Cardinality(UpTo(user_status, b)) # Cardinality(UpTo(user_status, a))
        BY <2>2, <2>3, <2>4, FS_Subset
    <2>6. QED
        BY <2>5, PlaceIs
<1>3. u < v \/ v < u
    BY <1>1
<1>4. QED
    BY <1>2, <1>3

(* Who comes shifts those behind by one. *)
LEMMA PlaceAfterJoin ==
    ASSUME TypeOK, NEW u \in user_status, NEW v \in UserIds \ user_status,
           user_status' = user_status \cup {v}
    PROVE  Place(u)' = IF v < u THEN Place(u) + 1 ELSE Place(u)
<1>1. u \in Nat /\ v \in Nat
    BY TimeoutCheckAssumption DEF TypeOK
<1>2. Place(u)' = Cardinality(UpTo(user_status', u))
    BY DEF Place, UpTo
<1>3. CASE v < u
    <2>1. UpTo(user_status', u) = UpTo(user_status, u) \cup {v}
        BY <1>1, <1>3 DEF UpTo
    <2>2. v \notin UpTo(user_status, u)
        BY DEF UpTo
    <2>3. QED
        BY <1>2, <1>3, <2>1, <2>2, PlaceIs, FS_AddElement
<1>4. CASE ~(v < u)
    <2>1. UpTo(user_status', u) = UpTo(user_status, u)
        BY <1>1, <1>4 DEF UpTo
    <2>2. QED
        BY <1>2, <1>4, <2>1, PlaceIs
<1>5. QED
    BY <1>3, <1>4

(* Who leaves lets those behind move up by one. *)
LEMMA PlaceAfterLeave ==
    ASSUME TypeOK, NEW v \in user_status, NEW u \in user_status \ {v},
           user_status' = user_status \ {v}
    PROVE  Place(u)' = IF v < u THEN Place(u) - 1 ELSE Place(u)
<1>1. u \in Nat /\ v \in Nat
    BY TimeoutCheckAssumption DEF TypeOK
<1>2. Place(u)' = Cardinality(UpTo(user_status', u))
    BY DEF Place, UpTo
<1>3. UpTo(user_status', u) = UpTo(user_status, u) \ {v}
    BY DEF UpTo
<1>4. v \in UpTo(user_status, u) <=> v < u
    BY <1>1 DEF UpTo
<1>5. QED
    <2>1. /\ IsFiniteSet(UpTo(user_status, u)) /\ Place(u) = Cardinality(UpTo(user_status, u))
          /\ Place(u) \in Nat
        BY PlaceIs
    <2>2. Cardinality(UpTo(user_status, u) \ {v}) =
             IF v \in UpTo(user_status, u) THEN Place(u) - 1 ELSE Place(u)
        BY <2>1, FS_RemoveElement
    <2>3. QED
        BY <1>2, <1>3, <1>4, <2>2

(* The variables of TimeoutCheck keep their types. *)
LEMMA SendLogoutType ==
    ASSUME TypeOK, NEW u \in UserIds, SendLogout(u)
    PROVE  logouts' \in [UserIds -> 0..MaxLogouts[calm]]
BY TimeoutCheckAssumption DEF TypeOK, SendLogout

LEMMA ShiftType ==
    ASSUME TypeOK, NEW us \in SUBSET UserIds, Shift(us)
    PROVE  shifted' \in [UserIds -> 0..max_count] /\ moved' \subseteq UserIds
<1>1. max_count \in Nat
    BY TimeoutCheckAssumption DEF TypeOK, max_count
<1>2. QED
    BY <1>1 DEF TypeOK, Shift

LEMMA TimeoutTypeStep == TypeOK /\ [Next]_vars => TypeOK'
<1> SUFFICES ASSUME TypeOK, [Next]_vars PROVE TypeOK'
    OBVIOUS
<1>1. max_count \in Nat \ {0, 1}
    BY TimeoutCheckAssumption DEF TypeOK, max_count
<1>2. ASSUME NEW u \in UserIds, LogIn(u) PROVE TypeOK'
    <2>1. shifted' \in [UserIds -> 0..max_count] /\ moved' \subseteq UserIds
        <3>1. Recounted(u) \subseteq UserIds
            BY DEF Recounted, TypeOK
        <3>2. QED
            BY <1>2, <3>1, ShiftType DEF LogIn
    <2>2. logins' \in 0..MaxLogins[calm]
        BY <1>2, TimeoutCheckAssumption DEF LogIn, TypeOK
    <2>3. QED
        <3>1. 0 \in 0..max_count
            BY <1>1
        <3>2. timeout_counter' \in [UserIds -> 0..max_count]
            BY <1>2, <3>1 DEF LogIn, TypeOK
        <3>3. QED
            BY <1>2, <2>1, <2>2, <3>2 DEF LogIn, TypeOK, netVars, max_count
<1>3. ASSUME NEW u \in UserIds, LogInAgain(u) PROVE TypeOK'
    <2>1. logins' \in 0..MaxLogins[calm]
        BY <1>3, TimeoutCheckAssumption DEF LogInAgain, TypeOK
    <2>2. QED
        BY <1>3, <2>1 DEF LogInAgain, TypeOK, netVars, listVars, historyVars, max_count
<1>4. ASSUME NEW u \in UserIds, TakeAnswer(u) PROVE TypeOK'
    BY <1>4 DEF TakeAnswer, TypeOK, listVars, historyVars, max_count
<1>5. ASSUME NEW u \in UserIds, TakeLogout(u) PROVE TypeOK'
    <2>1. shifted' \in [UserIds -> 0..max_count] /\ moved' \subseteq UserIds
        <3>1. Skipped(u) \subseteq UserIds
            BY DEF Skipped, TypeOK
        <3>2. QED
            BY <1>5, <3>1, ShiftType DEF TakeLogout
    <2>2. logouts' \in [UserIds -> 0..MaxLogouts[calm]]
        BY <1>5, TimeoutCheckAssumption DEF TakeLogout, TypeOK
    <2>3. QED
        <3>1. 0 \in 0..max_count
            BY <1>1
        <3>2. timeout_counter' \in [UserIds -> 0..max_count]
            BY <1>5, <3>1 DEF TakeLogout, TypeOK
        <3>3. QED
            BY <1>5, <2>1, <2>2, <3>2 DEF TakeLogout, TypeOK, max_count
<1>6. ASSUME NEW u \in UserIds, Answer(u) \/ Vanish(u) PROVE TypeOK'
    BY <1>6 DEF Answer, Vanish, TypeOK, listVars, netVars, historyVars, max_count
<1>7. ASSUME NEW u \in UserIds, Leave(u) PROVE TypeOK'
    BY <1>7, SendLogoutType DEF Leave, TypeOK, listVars, historyVars, max_count
<1>8. ASSUME NEW u \in UserIds, Lose(u) PROVE TypeOK'
    <2>1. asks' \subseteq UserIds /\ answers' \subseteq UserIds
          /\ logouts' \in [UserIds -> 0..MaxLogouts[calm]]
        <3>1. logouts[u] > 0 => logouts[u] - 1 \in 0..MaxLogouts[calm]
            BY TimeoutCheckAssumption DEF TypeOK
        <3>2. logouts' \in [UserIds -> 0..MaxLogouts[calm]]
            BY <1>8, <3>1 DEF Lose, TypeOK
        <3>3. QED
            BY <1>8, <3>2 DEF Lose, TypeOK
    <2>2. QED
        BY <1>8, <2>1 DEF Lose, TypeOK, listVars, historyVars, max_count
<1>9. CASE ShutDown \/ Joined
    BY <1>9 DEF ShutDown, Joined, TypeOK, listVars, netVars, historyVars, max_count
<1>10. CASE Ask
    BY <1>10 DEF Ask, TypeOK, listVars, historyVars, max_count
<1>11. CASE Wake \/ Clear
    BY <1>11 DEF Wake, Clear, TypeOK, listVars, netVars, historyVars, max_count
<1>12. CASE Count
    <2>1. next' \in Nat \ {0} /\ pc' \in {"count", "clear"}
        BY <1>12 DEF Count, TypeOK
    <2>2. timeout_counter' \in [UserIds -> 0..max_count]
        BY <1>1, <1>12 DEF Count, Counted, TypeOK
    <2>3. logouts' \in [UserIds -> 0..MaxLogouts[calm]]
        BY <1>12, SendLogoutType DEF Count, TypeOK
    <2>4. shifted' \in [UserIds -> 0..max_count]
        BY <1>1, <1>12 DEF Count, TypeOK
    <2>5. QED
        BY <1>12, <2>1, <2>2, <2>3, <2>4 DEF Count, TypeOK, max_count
<1>13. CASE UNCHANGED vars
    BY <1>13 DEF vars, TypeOK, listVars, netVars, historyVars, max_count
<1>14. QED
    BY <1>2, <1>3, <1>4, <1>5, <1>6, <1>7, <1>8, <1>9, <1>10, <1>11, <1>12, <1>13
       DEF Next

-----------------------------------------------------------------------------
(* In calm conditions and while the server serves. *)
Going == calm /\ main = "loop"

(* The next count of u finds an answer, or there is none in this round. *)
Heard(u) ==
    \/ pc = "ask" /\ (Place(u) >= next \/ u \in asks \cup answers \cup timeout_feed)
    \/ pc = "sleep" /\ u \in asks \cup answers \cup timeout_feed
    \/ pc = "count" /\ (Place(u) < next \/ u \in timeout_feed)
    \/ pc = "clear"

(* The counter of an online user is no more than what the list has cost,   *)
(* or one more that an answer is about to reset.                           *)
CountOk(u) ==
    u \in user_status /\ client[u] = "on" =>
        \/ timeout_counter[u] <= shifted[u]
        \/ timeout_counter[u] = shifted[u] + 1 /\ Heard(u)

(* Of a user whose place was never lost, one log-out at most is under way, *)
(* and then it ends the session that it is for; the thread is not about to *)
(* send another.                                                           *)
FreshOk(u) ==
    u \notin moved =>
        /\ shifted[u] = 0
        /\ logouts[u] \in {0, 1}
        /\ logouts[u] = 1 => u \in user_status /\ client[u] = "off"
        /\ client[u] = "on" => u \in user_status
        /\ pc = "count" /\ logouts[u] = 1 /\ Place(u) >= next =>
              u \in timeout_feed \/ timeout_counter[u] = 0

(* The inductive invariant. *)
TimeoutInv ==
    /\ TypeOK
    /\ main = "loop" => close \notin timeout_feed
    /\ Going => \A u \in UserIds : CountOk(u) /\ FreshOk(u)

LEMMA LimitIs == TypeOK => max_count \in Nat \ {0, 1}
BY TimeoutCheckAssumption DEF TypeOK, max_count

LEMMA TimeoutInvInit == Init => TimeoutInv
<1> SUFFICES ASSUME Init PROVE TimeoutInv
    OBVIOUS
<1>1. max_count \in Nat /\ calm \in BOOLEAN
    BY TimeoutCheckAssumption DEF Init, max_count
<1>2. TypeOK
    BY <1>1, TimeoutCheckAssumption DEF Init, TypeOK
<1>3. \A u \in UserIds : CountOk(u) /\ FreshOk(u)
    BY DEF Init, CountOk, FreshOk
<1>4. QED
    BY <1>2, <1>3 DEF Init, TimeoutInv

(* A log-in. *)
LEMMA LogInKeeps ==
    ASSUME TimeoutInv, Going, NEW v \in UserIds, LogIn(v), NEW u \in UserIds
    PROVE  (CountOk(u) /\ FreshOk(u))'
<1>1. TypeOK /\ CountOk(u) /\ FreshOk(u)
    BY DEF TimeoutInv
<1>2. /\ v \notin user_status /\ user_status' = user_status \cup {v}
      /\ UNCHANGED <<calm, timeout_feed, pc, next, asks, answers, logouts>>
      /\ Shift(Recounted(v))
    BY DEF LogIn, netVars
<1>3. max_count \in Nat /\ shifted[u] \in 0..max_count /\ timeout_counter[u] \in 0..max_count
    BY <1>1, LimitIs DEF TypeOK
<1>4. CASE u = v
    <2>1. timeout_counter'[u] = 0 /\ client'[u] = "on" /\ u \in user_status'
        BY <1>1, <1>2, <1>4 DEF LogIn, TypeOK
    <2>2. u \notin Recounted(v)
        BY <1>2, <1>4 DEF Recounted
    <2>3. shifted'[u] = shifted[u] /\ (u \in moved' <=> u \in moved)
        BY <1>2, <2>2 DEF Shift
    <2>4. CountOk(u)'
        BY <1>3, <2>1, <2>3 DEF CountOk
    <2>5. FreshOk(u)'
        BY <1>1, <1>2, <1>4, <2>1, <2>3 DEF FreshOk
    <2>6. QED
        BY <2>4, <2>5
<1>5. CASE u # v
    <2>1. timeout_counter'[u] = timeout_counter[u] /\ client'[u] = client[u]
          /\ (u \in user_status' <=> u \in user_status)
        BY <1>1, <1>2, <1>5 DEF LogIn, TypeOK
    <2>2. CASE u \in Recounted(v)
        <3>1. u \in moved' /\ u \in user_status
            BY <1>2, <2>2 DEF Shift, Recounted
        <3>2. shifted'[u] = IF shifted[u] < max_count THEN shifted[u] + 1 ELSE shifted[u]
            BY <1>2, <2>2 DEF Shift
        <3>3. client[u] = "on" =>
                 timeout_counter[u] <= shifted[u] + 1 /\ timeout_counter[u] <= max_count
            BY <1>1, <1>3, <3>1 DEF CountOk
        <3>4. CountOk(u)'
            BY <1>3, <2>1, <3>2, <3>3 DEF CountOk
        <3>5. QED
            BY <3>1, <3>4 DEF FreshOk
    <2>3. CASE u \notin Recounted(v)
        <3>1. shifted'[u] = shifted[u] /\ (u \in moved' <=> u \in moved)
            BY <1>2, <2>3 DEF Shift
        <3>2. CASE u \notin user_status
            BY <1>1, <1>2, <2>1, <3>1, <3>2 DEF CountOk, FreshOk
        <3>3. CASE u \in user_status
            <4>1. Place(u) \in Nat /\ next \in Nat
                BY <1>1, <3>3, PlaceIs DEF TypeOK
            <4>2. Place(u)' = IF v < u THEN Place(u) + 1 ELSE Place(u)
                BY <1>1, <1>2, <3>3, PlaceAfterJoin
            <4>3. /\ Place(u) >= next => Place(u)' >= next
                  /\ pc = "count" /\ Place(u) < next => Place(u)' < next
                BY <1>2, <2>3, <3>3, <4>1, <4>2 DEF Recounted, Going
            <4>4. Heard(u) => Heard(u)'
                BY <1>2, <4>3 DEF Heard
            <4>5. CountOk(u)'
                BY <1>1, <2>1, <3>1, <3>3, <4>4 DEF CountOk
            <4>6. pc = "count" /\ Place(u)' >= next => Place(u) >= next
                BY <4>1, <4>2, <4>3
            <4>7. FreshOk(u)'
                BY <1>1, <1>2, <2>1, <3>1, <3>3, <4>6 DEF FreshOk
            <4>8. QED
                BY <4>5, <4>7
        <3>4. QED
            BY <3>2, <3>3
    <2>4. QED
        BY <2>2, <2>3
<1>6. QED
    BY <1>4, <1>5

(* A log-out arrives. *)
LEMMA TakeLogoutKeeps ==
    ASSUME TimeoutInv, Going, NEW v \in UserIds, TakeLogout(v), NEW u \in UserIds
    PROVE  (CountOk(u) /\ FreshOk(u))'
<1>1. TypeOK /\ CountOk(u) /\ FreshOk(u)
    BY DEF TimeoutInv
<1>2. /\ user_status' = user_status \ {v} /\ logouts[v] > 0
      /\ UNCHANGED <<calm, timeout_feed, pc, next, client, asks, answers>>
      /\ timeout_counter' = [timeout_counter EXCEPT ![v] = 0]
      /\ logouts' = [logouts EXCEPT ![v] = logouts[v] - 1]
      /\ Shift(Skipped(v))
    BY DEF TakeLogout
<1>3. max_count \in Nat /\ shifted[u] \in 0..max_count /\ timeout_counter[u] \in 0..max_count
    BY <1>1, LimitIs DEF TypeOK
<1>4. CASE u = v
    <2>1. u \notin user_status' /\ logouts'[u] = logouts[u] - 1
        BY <1>1, <1>2, <1>4 DEF TypeOK
    <2>2. u \notin Skipped(v)
        BY <1>1, <1>4, TimeoutCheckAssumption DEF Skipped
    <2>3. shifted'[u] = shifted[u] /\ (u \in moved' <=> u \in moved)
        BY <1>2, <2>2 DEF Shift
    <2>4. CountOk(u)'
        BY <2>1 DEF CountOk
    <2>5. FreshOk(u)'
        BY <1>1, <1>2, <1>4, <2>1, <2>3 DEF FreshOk
    <2>6. QED
        BY <2>4, <2>5
<1>5. CASE u # v
    <2>1. /\ logouts'[u] = logouts[u] /\ timeout_counter'[u] = timeout_counter[u]
          /\ u \in user_status' <=> u \in user_status
        BY <1>1, <1>2, <1>5 DEF TypeOK
    <2>2. CASE u \in Skipped(v)
        <3>1. u \in moved' /\ u \in user_status
            BY <1>2, <2>2 DEF Shift, Skipped
        <3>2. shifted'[u] = IF shifted[u] < max_count THEN shifted[u] + 1 ELSE shifted[u]
            BY <1>2, <2>2 DEF Shift
        <3>3. client[u] = "on" =>
                 timeout_counter[u] <= shifted[u] + 1 /\ timeout_counter[u] <= max_count
            BY <1>1, <1>3, <3>1 DEF CountOk
        <3>4. CountOk(u)'
            BY <1>2, <1>3, <2>1, <3>2, <3>3 DEF CountOk
        <3>5. QED
            BY <3>1, <3>4 DEF FreshOk
    <2>3. CASE u \notin Skipped(v)
        <3>1. shifted'[u] = shifted[u] /\ (u \in moved' <=> u \in moved)
            BY <1>2, <2>3 DEF Shift
        <3>2. CASE u \notin user_status
            BY <1>1, <1>2, <2>1, <3>1, <3>2 DEF CountOk, FreshOk
        <3>3. CASE u \in user_status
            <4>1. Place(u) \in Nat /\ next \in Nat
                BY <1>1, <3>3, PlaceIs DEF TypeOK
            <4>2. Place(u)' = IF v \in user_status /\ v < u THEN Place(u) - 1 ELSE Place(u)
                <5>1. CASE v \in user_status
                    BY <1>1, <1>2, <1>5, <3>3, <5>1, PlaceAfterLeave
                <5>2. CASE v \notin user_status
                    <6>1. user_status' = user_status
                        BY <1>2, <5>2
                    <6>2. QED
                        BY <5>2, <6>1 DEF Place
                <5>3. QED
                    BY <5>1, <5>2
            <4>3. /\ Place(u) < next => Place(u)' < next
                  /\ Place(u)' >= next => Place(u) >= next
                BY <4>1, <4>2
            <4>4. pc = "ask" /\ Place(u) >= next => Place(u)' >= next
                BY <2>3, <3>3, <4>1, <4>2 DEF Skipped, AtNext, Going
            <4>5. Heard(u) => Heard(u)'
                BY <1>2, <4>3, <4>4 DEF Heard
            <4>6. CountOk(u)'
                BY <1>1, <1>2, <2>1, <3>1, <3>3, <4>5 DEF CountOk
            <4>7. FreshOk(u)'
                BY <1>1, <1>2, <2>1, <3>1, <3>3, <4>3 DEF FreshOk
            <4>8. QED
                BY <4>6, <4>7
        <3>4. QED
            BY <3>2, <3>3
    <2>4. QED
        BY <2>2, <2>3
<1>6. QED
    BY <1>4, <1>5

(* The packets of a user whose client runs stay on their way, and nothing  *)
(* else of the user changes.                                               *)
LEMMA PacketKeeps ==
    ASSUME TimeoutInv, Going, NEW v \in UserIds, TakeAnswer(v) \/ Answer(v) \/ Vanish(v),
           NEW u \in UserIds
    PROVE  (CountOk(u) /\ FreshOk(u))'
<1>1. TypeOK /\ CountOk(u) /\ FreshOk(u)
    BY DEF TimeoutInv
<1>2. UNCHANGED <<calm, user_status, timeout_counter, pc, next, logouts, shifted, moved>>
    BY DEF TakeAnswer, Answer, Vanish, listVars, netVars, historyVars
<1>3. /\ client'[u] = client[u] \/ client'[u] = "off"
      /\ timeout_feed \subseteq timeout_feed'
      /\ client[u] = "on" /\ u \in asks \cup answers \cup timeout_feed =>
            u \in (asks \cup answers \cup timeout_feed)'
    BY <1>1 DEF TakeAnswer, Answer, Vanish, TypeOK, netVars
<1>4. Place(u)' = Place(u)
    BY <1>2 DEF Place
<1>5. client[u] = "on" /\ Heard(u) => Heard(u)'
    BY <1>2, <1>3, <1>4 DEF Heard
<1>6. CountOk(u)'
    BY <1>1, <1>2, <1>3, <1>5 DEF CountOk
<1>7. FreshOk(u)'
    BY <1>1, <1>2, <1>3, <1>4 DEF FreshOk
<1>8. QED
    BY <1>6, <1>7

(* A user leaves. *)
LEMMA LeaveKeeps ==
    ASSUME TimeoutInv, Going, NEW v \in UserIds, Leave(v), NEW u \in UserIds
    PROVE  (CountOk(u) /\ FreshOk(u))'
<1>1. TypeOK /\ CountOk(u) /\ FreshOk(u)
    BY DEF TimeoutInv
<1>2. /\ UNCHANGED <<calm, user_status, timeout_counter, timeout_feed, pc, next, asks, answers,
                     shifted, moved>>
      /\ client[v] = "on" /\ client' = [client EXCEPT ![v] = "off"] /\ SendLogout(v)
    BY DEF Leave, listVars, historyVars
<1>3. Place(u)' = Place(u)
    BY <1>2 DEF Place
<1>4. CASE u = v
    <2>1. client'[u] = "off"
        BY <1>1, <1>2, <1>4 DEF TypeOK
    <2>2. CountOk(u)'
        BY <2>1 DEF CountOk
    <2>3. ASSUME u \notin moved PROVE FreshOk(u)'
        <3>1. /\ shifted[u] = 0 /\ logouts[u] = 0 /\ u \in user_status
            BY <1>1, <1>2, <1>4, <2>3 DEF FreshOk
        <3>2. logouts'[u] \in {0, 1}
            BY <1>1, <1>2, <1>4, <3>1 DEF SendLogout, TypeOK
        <3>3. pc = "count" /\ Place(u) >= next => u \in timeout_feed \/ timeout_counter[u] = 0
            <4>1. Place(u) \in Nat /\ next \in Nat /\ timeout_counter[u] \in Nat
                BY <1>1, <3>1, PlaceIs, LimitIs DEF TypeOK
            <4>2. timeout_counter[u] <= 0 \/ Heard(u)
                BY <1>1, <1>2, <1>4, <3>1 DEF CountOk
            <4>3. QED
                BY <4>1, <4>2 DEF Heard
        <3>4. QED
            BY <1>2, <1>3, <2>1, <3>1, <3>2, <3>3 DEF FreshOk
    <2>4. QED
        BY <1>2, <2>2, <2>3 DEF FreshOk
<1>5. CASE u # v
    <2>1. client'[u] = client[u] /\ logouts'[u] = logouts[u]
        BY <1>1, <1>2, <1>5 DEF TypeOK, SendLogout
    <2>2. Heard(u) => Heard(u)'
        BY <1>2, <1>3 DEF Heard
    <2>3. CountOk(u)'
        BY <1>1, <1>2, <2>1, <2>2 DEF CountOk
    <2>4. FreshOk(u)'
        BY <1>1, <1>2, <1>3, <2>1 DEF FreshOk
    <2>5. QED
        BY <2>3, <2>4
<1>6. QED
    BY <1>4, <1>5

(* The thread asks. *)
LEMMA AskKeeps ==
    ASSUME TimeoutInv, Going, Ask, NEW u \in UserIds
    PROVE  (CountOk(u) /\ FreshOk(u))'
<1>1. TypeOK /\ CountOk(u) /\ FreshOk(u)
    BY DEF TimeoutInv
<1>2. /\ UNCHANGED <<calm, user_status, timeout_counter, timeout_feed, client, answers, logouts,
                     shifted, moved>>
      /\ pc = "ask" /\ pc' \in {"ask", "sleep"}
    BY DEF Ask, listVars, historyVars
<1>3. FreshOk(u)'
    BY <1>1, <1>2 DEF FreshOk
<1>4. Place(u)' = Place(u)
    BY <1>2 DEF Place
<1>5. ASSUME u \in user_status, Heard(u) PROVE Heard(u)'
    <2>1. /\ Place(u) \in Nat /\ Place(u) <= Cardinality(user_status)
          /\ Cardinality(user_status) \in Nat /\ next \in Nat
        BY <1>1, <1>5, PlaceIs DEF TypeOK
    <2>2. CASE Exhausted /\ pc' = "sleep" /\ UNCHANGED <<next, asks>>
        BY <1>2, <1>5, <2>1, <2>2 DEF Heard, Exhausted
    <2>3. ASSUME NEW v \in UserIds, AtNext(v), asks' = asks \cup {v}, next' = next + 1,
                 UNCHANGED pc
          PROVE  Heard(u)'
        <3>1. CASE u = v
            BY <1>2, <2>3, <3>1 DEF Heard
        <3>2. CASE u # v
            <4>1. Place(u) # next
                BY <1>1, <1>5, <2>3, <3>2, PlacesApart DEF AtNext
            <4>2. QED
                BY <1>2, <1>4, <1>5, <2>1, <2>3, <4>1 DEF Heard
        <3>3. QED
            BY <3>1, <3>2
    <2>4. QED
        BY <2>2, <2>3 DEF Ask
<1>6. CountOk(u)'
    BY <1>1, <1>2, <1>5 DEF CountOk
<1>7. QED
    BY <1>3, <1>6

(* The interval is over: all packets have arrived. *)
LEMMA WakeKeeps ==
    ASSUME TimeoutInv, Going, Wake, NEW u \in UserIds
    PROVE  (CountOk(u) /\ FreshOk(u))'
<1>1. TypeOK /\ CountOk(u) /\ FreshOk(u) /\ close \notin timeout_feed
    BY DEF TimeoutInv, Going
<1>2. /\ UNCHANGED <<calm, user_status, timeout_counter, timeout_feed, client, asks, answers,
                     logouts, shifted, moved>>
      /\ pc = "sleep" /\ pc' = "count"
    BY <1>1 DEF Wake, listVars, netVars, historyVars
<1>3. asks = {} /\ answers = {} /\ logouts[u] = 0
    BY DEF Wake, Going, Settled
<1>4. Heard(u) => Heard(u)'
    BY <1>2, <1>3 DEF Heard
<1>5. CountOk(u)'
    BY <1>1, <1>2, <1>4 DEF CountOk
<1>6. FreshOk(u)'
    BY <1>1, <1>2, <1>3 DEF FreshOk
<1>7. QED
    BY <1>5, <1>6

(* The answers are thrown away, and the next asking begins. *)
LEMMA ClearKeeps ==
    ASSUME TimeoutInv, Going, Clear, NEW u \in UserIds
    PROVE  (CountOk(u) /\ FreshOk(u))'
<1>1. TypeOK /\ CountOk(u) /\ FreshOk(u)
    BY DEF TimeoutInv
<1>2. /\ UNCHANGED <<calm, user_status, timeout_counter, client, logouts, shifted, moved>>
      /\ pc = "clear" /\ pc' = "ask" /\ next' = 1
    BY DEF Clear, listVars, netVars, historyVars
<1>3. ASSUME u \in user_status PROVE Heard(u)'
    <2>1. u \in UpTo(user_status, u)
        BY <1>1, <1>3, TimeoutCheckAssumption DEF UpTo, TypeOK
    <2>2. Place(u) # 0 /\ Place(u) \in Nat
        BY <1>1, <1>3, <2>1, PlaceIs, FS_EmptySet
    <2>3. Place(u)' = Place(u)
        BY <1>2 DEF Place
    <2>4. QED
        BY <1>2, <2>2, <2>3 DEF Heard
<1>4. timeout_counter[u] \in Nat /\ shifted[u] \in Nat
    BY <1>1, LimitIs DEF TypeOK
<1>5. CountOk(u)'
    BY <1>1, <1>2, <1>3, <1>4 DEF CountOk
<1>6. FreshOk(u)'
    BY <1>1, <1>2 DEF FreshOk
<1>7. QED
    BY <1>5, <1>6

(* The thread visits a user, in a count. *)
LEMMA VisitKeeps ==
    ASSUME TimeoutInv, Going, Count, NEW v \in UserIds, AtNext(v),
           timeout_counter' = [timeout_counter EXCEPT
               ![v] = IF Counted(v) > max_count THEN max_count ELSE Counted(v)],
           IF TimeIsOut(Counted(v)) THEN SendLogout(v) ELSE UNCHANGED logouts,
           shifted' = IF v \in timeout_feed THEN [shifted EXCEPT ![v] = 0] ELSE shifted,
           next' = next + 1, UNCHANGED pc,
           NEW u \in UserIds
    PROVE  (CountOk(u) /\ FreshOk(u))'
<1>1. TypeOK /\ CountOk(u) /\ FreshOk(u)
    BY DEF TimeoutInv
<1>2. /\ UNCHANGED <<calm, user_status, timeout_feed, client, asks, answers, moved>>
      /\ pc = "count" /\ v \in user_status
    BY DEF Count, AtNext
<1>3. max_count \in Nat \ {0, 1}
    BY <1>1, LimitIs
<1>4. /\ shifted[u] \in Nat /\ timeout_counter[u] \in 0..max_count /\ next \in Nat
      /\ logouts[u] \in Nat
    BY <1>1, <1>3, TimeoutCheckAssumption DEF TypeOK
<1>5. Place(u)' = Place(u)
    BY <1>2 DEF Place
<1>6. CASE u = v
    <2>1. Place(u) = next
        BY <1>6 DEF AtNext
    <2>2. Heard(u)'
        BY <1>2, <1>4, <1>5, <2>1 DEF Heard
    <2>3. CASE u \in timeout_feed
        <3>1. Counted(u) = 1 /\ ~TimeIsOut(Counted(u))
            BY <1>3, <2>3 DEF Counted, TimeIsOut
        <3>2. timeout_counter'[u] = 1 /\ shifted'[u] = 0 /\ UNCHANGED logouts
            BY <1>1, <1>3, <1>6, <2>3, <3>1 DEF TypeOK
        <3>3. CountOk(u)'
            BY <2>2, <3>2 DEF CountOk
        <3>4. FreshOk(u)'
            BY <1>1, <1>2, <2>3, <3>2 DEF FreshOk
        <3>5. QED
            BY <3>3, <3>4
    <2>4. CASE u \notin timeout_feed
        <3>1. Counted(u) = timeout_counter[u] + 1 /\ shifted' = shifted
            BY <1>6, <2>4 DEF Counted
        <3>2. timeout_counter'[u] =
                 IF timeout_counter[u] + 1 > max_count THEN max_count ELSE timeout_counter[u] + 1
            BY <1>1, <1>6, <3>1 DEF TypeOK
        <3>3. ~Heard(u)
            BY <1>2, <1>4, <2>1, <2>4 DEF Heard
        <3>4. CountOk(u)'
            <4>1. client[u] = "on" => timeout_counter[u] <= shifted[u]
                BY <1>1, <1>2, <1>6, <3>3 DEF CountOk
            <4>2. timeout_counter'[u] <= timeout_counter[u] + 1
                  /\ timeout_counter'[u] \in Nat
                BY <1>3, <1>4, <3>2
            <4>3. client[u] = "on" => \/ timeout_counter'[u] <= shifted[u]
                                      \/ timeout_counter'[u] = shifted[u] + 1
                BY <1>4, <4>1, <4>2
            <4>4. QED
                BY <1>2, <2>2, <3>1, <4>3 DEF CountOk
        <3>5. ASSUME u \notin moved PROVE FreshOk(u)'
            <4>1. ~(Place(u)' >= next')
                BY <1>4, <1>5, <2>1
            <4>2. CASE ~TimeIsOut(Counted(u))
                <5>1. UNCHANGED logouts
                    BY <1>6, <4>2
                <5>2. QED
                    BY <1>1, <1>2, <3>1, <4>1, <5>1 DEF FreshOk
            <4>3. CASE TimeIsOut(Counted(u))
                <5>1. timeout_counter[u] >= 1 /\ timeout_counter[u] # 0
                    BY <1>3, <1>4, <3>1, <4>3 DEF TimeIsOut
                <5>2. logouts[u] = 0 /\ shifted[u] = 0
                    BY <1>1, <1>2, <1>4, <2>1, <2>4, <3>5, <5>1 DEF FreshOk
                <5>3. client[u] = "off"
                    BY <1>1, <1>2, <1>4, <1>6, <3>3, <5>1, <5>2 DEF CountOk, TypeOK
                <5>4. logouts'[u] \in {0, 1}
                    BY <1>1, <1>6, <4>3, <5>2 DEF SendLogout, TypeOK
                <5>5. QED
                    BY <1>2, <1>6, <3>1, <4>1, <5>2, <5>3, <5>4 DEF FreshOk
            <4>4. QED
                BY <4>2, <4>3
        <3>6. QED
            BY <1>2, <3>4, <3>5 DEF FreshOk
    <2>5. QED
        BY <2>3, <2>4
<1>7. CASE u # v
    <2>1. /\ timeout_counter'[u] = timeout_counter[u] /\ shifted'[u] = shifted[u]
          /\ logouts'[u] = logouts[u]
        BY <1>1, <1>7 DEF TypeOK, SendLogout
    <2>2. CASE u \notin user_status
        BY <1>1, <1>2, <2>1, <2>2 DEF CountOk, FreshOk
    <2>3. CASE u \in user_status
        <3>1. Place(u) \in Nat
            BY <1>1, <2>3, PlaceIs
        <3>2. Heard(u) => Heard(u)'
            BY <1>2, <1>4, <1>5, <3>1 DEF Heard
        <3>3. Place(u)' >= next' => Place(u) >= next
            BY <1>4, <1>5, <3>1
        <3>4. CountOk(u)'
            BY <1>1, <1>2, <2>1, <3>2 DEF CountOk
        <3>5. FreshOk(u)'
            BY <1>1, <1>2, <2>1, <3>3 DEF FreshOk
        <3>6. QED
            BY <3>4, <3>5
    <2>4. QED
        BY <2>2, <2>3
<1>8. QED
    BY <1>6, <1>7

(* The thread counts. *)
LEMMA CountKeeps ==
    ASSUME TimeoutInv, Going, Count, NEW u \in UserIds
    PROVE  (CountOk(u) /\ FreshOk(u))'
<1>1. CASE /\ Exhausted /\ pc' = "clear"
           /\ UNCHANGED <<timeout_counter, next, logouts, shifted>>
    <2>1. CountOk(u) /\ FreshOk(u)
        BY DEF TimeoutInv
    <2>2. UNCHANGED <<user_status, client, moved>>
        BY DEF Count
    <2>3. Heard(u)'
        BY <1>1 DEF Heard
    <2>4. CountOk(u)'
        BY <1>1, <2>1, <2>2, <2>3 DEF CountOk
    <2>5. FreshOk(u)'
        BY <1>1, <2>1, <2>2 DEF FreshOk
    <2>6. QED
        BY <2>4, <2>5
<1>2. QED
    BY <1>1, VisitKeeps DEF Count

(* Every step of the server, its thread and the clients. *)
LEMMA TimeoutInvStep == TimeoutInv /\ [Next]_vars => TimeoutInv'
<1> SUFFICES ASSUME TimeoutInv, [Next]_vars PROVE TimeoutInv'
    OBVIOUS
<1>1. TypeOK'
    BY TimeoutTypeStep DEF TimeoutInv
<1>2. main' = "loop" => close \notin timeout_feed'
    <2>1. close \notin UserIds
        BY TimeoutCheckAssumption DEF close
    <2>2. QED
        BY <2>1 DEF TimeoutInv, Next, vars, LogIn, LogInAgain, TakeAnswer, TakeLogout, Answer,
                    Leave, Vanish, Lose, ShutDown, Joined, Ask, Wake, Count, Clear
<1>3. Going' => Going /\ ~ShutDown /\ ~Joined
    BY DEF Going, TimeoutInv, Next, vars, LogIn, LogInAgain, TakeAnswer, TakeLogout, Answer,
           Leave, Vanish, Lose, ShutDown, Joined, Ask, Wake, Count, Clear
<1>4. ASSUME Going, ~ShutDown, ~Joined, NEW u \in UserIds PROVE (CountOk(u) /\ FreshOk(u))'
    <2>1. CASE UNCHANGED vars
        <3>1. CountOk(u) /\ FreshOk(u)
            BY <1>4 DEF TimeoutInv
        <3>2. QED
            BY <2>1, <3>1 DEF vars, listVars, netVars, historyVars, CountOk, FreshOk, Heard, Place
    <2>2. ASSUME NEW v \in UserIds, LogInAgain(v) \/ Lose(v) PROVE FALSE
        BY <1>4, <2>2 DEF LogInAgain, Lose, Going
    <2>3. QED
        BY <1>4, <2>1, <2>2, LogInKeeps, TakeLogoutKeeps, PacketKeeps, LeaveKeeps, AskKeeps,
           WakeKeeps, ClearKeeps, CountKeeps DEF Next
<1>5. QED
    BY <1>1, <1>2, <1>3, <1>4 DEF TimeoutInv

(* In calm conditions, for any users, limit and number of log-ins: nobody  *)
(* whose client runs is logged out, unless the list has changed under the  *)
(* thread, at that user's cost, in all rounds but one that the limit has.  *)
THEOREM OnlineAlwaysKept == Spec => OnlineKept
<1>1. TimeoutInv /\ [Next]_vars =>
        [\A u \in UserIds : calm /\ main = "loop" /\ logouts'[u] > logouts[u]
              => client'[u] = "off" \/ shifted[u] + 1 >= max_count]_vars
    <2> SUFFICES ASSUME TimeoutInv, Next, NEW u \in UserIds, Going, logouts'[u] > logouts[u]
                 PROVE  client'[u] = "off" \/ shifted[u] + 1 >= max_count
        BY DEF Going
    <2>1. TypeOK /\ CountOk(u)
        BY DEF TimeoutInv
    <2>2. max_count \in Nat \ {0, 1}
        BY <2>1, LimitIs
    <2>3. shifted[u] \in Nat /\ timeout_counter[u] \in Nat /\ logouts[u] \in Nat /\ next \in Nat
        BY <2>1, <2>2, TimeoutCheckAssumption DEF TypeOK
    <2>4. ASSUME NEW v \in UserIds, Leave(v) PROVE client'[u] = "off"
        <3>1. u = v
            BY <2>1, <2>3, <2>4 DEF Leave, SendLogout, TypeOK
        <3>2. QED
            BY <2>1, <2>4, <3>1 DEF Leave, TypeOK
    <2>5. ASSUME Count PROVE client'[u] = "off" \/ shifted[u] + 1 >= max_count
        <3>1. PICK v \in UserIds :
                 AtNext(v) /\ IF TimeIsOut(Counted(v)) THEN SendLogout(v) ELSE UNCHANGED logouts
            BY <2>3, <2>5 DEF Count
        <3>2. u = v /\ TimeIsOut(Counted(u))
            BY <2>1, <2>3, <3>1 DEF SendLogout, TypeOK
        <3>3. u \in user_status /\ Place(u) = next /\ client' = client /\ pc = "count"
            BY <2>5, <3>1, <3>2 DEF AtNext, Count
        <3>4. u \notin timeout_feed /\ timeout_counter[u] + 1 >= max_count
            BY <2>2, <2>3, <3>2 DEF Counted, TimeIsOut
        <3>5. ~Heard(u)
            BY <2>3, <3>3, <3>4 DEF Heard
        <3>6. client[u] = "on" => timeout_counter[u] <= shifted[u]
            BY <2>1, <3>3, <3>5 DEF CountOk
        <3>7. client[u] \in {"on", "off"}
            BY <2>1 DEF TypeOK
        <3>8. QED
            BY <2>2, <2>3, <3>3, <3>4, <3>6, <3>7
    <2>6. ASSUME NEW v \in UserIds, TakeLogout(v) \/ Lose(v) PROVE FALSE
        BY <2>1, <2>3, <2>6 DEF TakeLogout, Lose, TypeOK, Going
    <2>7. CASE UNCHANGED logouts
        BY <2>3, <2>7
    <2>8. QED
        BY <2>4, <2>5, <2>6, <2>7
           DEF Next, LogIn, LogInAgain, TakeAnswer, Answer, Vanish, ShutDown, Joined, Ask, Wake,
               Clear, netVars
<1>2. QED
    BY <1>1, TimeoutInvInit, TimeoutInvStep, PTL DEF Spec, OnlineKept

(* In calm conditions, for any users, limit and number of log-ins: no      *)
(* log-out ends another session than the one it was meant for, unless the  *)
(* thread has lost the place of the user.                                  *)
THEOREM FreshSessionAlwaysKept == Spec => FreshSessionKept
<1>1. TimeoutInv /\ [Next]_vars =>
        [\A u \in user_status \ user_status' :
            calm => client[u] = "off" \/ u \in moved]_vars
    <2> SUFFICES ASSUME TimeoutInv, Next, NEW u \in user_status \ user_status', calm,
                        u \notin moved
                 PROVE  client[u] = "off"
        OBVIOUS
    <2>1. PICK v \in UserIds : TakeLogout(v)
        BY DEF Next, LogIn, LogInAgain, TakeAnswer, Answer, Leave, Vanish, Lose, ShutDown,
               Joined, Ask, Wake, Count, Clear, listVars
    <2>2. u = v /\ main = "loop" /\ logouts[u] > 0
        BY <2>1 DEF TakeLogout
    <2>3. FreshOk(u)
        BY <2>2 DEF TimeoutInv, Going
    <2>4. QED
        BY <2>2, <2>3 DEF FreshOk
<1>2. QED
    BY <1>1, TimeoutInvInit, TimeoutInvStep, PTL DEF Spec, FreshSessionKept
=============================================================================
