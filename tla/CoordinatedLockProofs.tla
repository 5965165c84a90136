----------------------- MODULE CoordinatedLockProofs -----------------------
(***************************************************************************)
(* What holds of the lock for any number of processes, acquisitions and    *)
(* faults.  The invariant says who has which lock: a process inside that   *)
(* did not lose its lock has its token in the key, or its connection has   *)
(* the advisory lock, and no two lock objects share a token.               *)
(***************************************************************************)
EXTENDS CoordinatedLock, TLAPS

TokensDiffer ==
  /\ \A p \in Process : pc[p] \in {"acquire", "redis"} => token[p] # NoToken
  /\ \A p, q \in Process : p # q /\ token[p] # NoToken => token[p] # token[q]

LocksHeld ==
  \A p \in Process \ lost :
    /\ pc[p] = "redis" => key = token[p]
    /\ pc[p] = "postgres" => advisory = p

IInv == TypeOK /\ TokensDiffer /\ LocksHeld

(* The invariant holds at the start.                                        *)
LEMMA InitIInv == Init => IInv
  BY LockAssumption DEF Init, IInv, TypeOK, TokensDiffer, LocksHeld, NoToken

(* Every step keeps the types.                                              *)
LEMMA TypeStep == TypeOK /\ [Next]_vars => TypeOK'
<1> SUFFICES ASSUME TypeOK, [Next]_vars PROVE TypeOK'
  OBVIOUS
<1> USE DEF TypeOK, NoToken
<1>1. CASE key_expires
  BY <1>1 DEF key_expires, Fault
<1>2. ASSUME NEW p \in Process, new_lock(p) PROVE TypeOK'
  BY <1>2 DEF new_lock, Goes
<1>3. ASSUME NEW p \in Process, acquire(p) PROVE TypeOK'
  BY <1>3 DEF acquire, Goes
<1>4. ASSUME NEW p \in Process, acquire_times_out(p) PROVE TypeOK'
  BY <1>4 DEF acquire_times_out, Goes, GiveUp
<1>5. ASSUME NEW p \in Process, acquire_raises(p) PROVE TypeOK'
  BY <1>5 DEF acquire_raises, Goes, GiveUp, Fault
<1>6. ASSUME NEW p \in Process, renew_loop_ends(p) PROVE TypeOK'
  BY <1>6 DEF renew_loop_ends, Fault
<1>7. ASSUME NEW p \in Process, release(p) PROVE TypeOK'
  BY <1>7 DEF release, Goes, Fault
<1>8. ASSUME NEW p \in Process, pg_advisory_lock(p) PROVE TypeOK'
  BY <1>8 DEF pg_advisory_lock, Goes
<1>9. ASSUME NEW p \in Process, pg_advisory_unlock(p) PROVE TypeOK'
  BY <1>9 DEF pg_advisory_unlock, Goes
<1>10. ASSUME NEW p \in Process, pg_connection_lost(p) PROVE TypeOK'
  BY <1>10 DEF pg_connection_lost, Fault
<1>11. ASSUME NEW p \in Process, crash(p) PROVE TypeOK'
  BY <1>11 DEF crash, Goes, Fault
<1>12. CASE UNCHANGED vars
  BY <1>12 DEF vars
<1> QED
  BY <1>1, <1>2, <1>3, <1>4, <1>5, <1>6, <1>7, <1>8, <1>9, <1>10, <1>11, <1>12 DEF Next

(* A new lock object gets a token that nobody has; nothing else hands out   *)
(* tokens, and only a process with a new one starts to acquire.             *)
LEMMA TokenStep == TypeOK /\ TokensDiffer /\ [Next]_vars => TokensDiffer'
<1> SUFFICES ASSUME TypeOK, TokensDiffer, [Next]_vars PROVE TokensDiffer'
  OBVIOUS
<1>1. ASSUME NEW p \in Process, new_lock(p) PROVE TokensDiffer'
  BY <1>1 DEF new_lock, Goes, TokensDiffer, TypeOK, NoToken
<1>2. ASSUME NEW p \in Process, acquire(p) PROVE TokensDiffer'
  BY <1>2 DEF acquire, Goes, TokensDiffer, TypeOK
<1>3. ASSUME UNCHANGED token, NEW p \in Process,
             NEW s \in {"idle", "fallback", "postgres"}, Goes(p, s)
      PROVE  TokensDiffer'
  BY <1>3 DEF Goes, TokensDiffer, TypeOK
<1>4. ASSUME UNCHANGED <<token, pc>> PROVE TokensDiffer'
  BY <1>4 DEF TokensDiffer
<1>5. CASE key_expires \/ UNCHANGED vars
  BY <1>4, <1>5 DEF key_expires, vars
<1>6. ASSUME NEW p \in Process,
             \/ acquire_times_out(p) \/ acquire_raises(p) \/ release(p)
             \/ pg_advisory_lock(p) \/ pg_advisory_unlock(p) \/ crash(p)
      PROVE  TokensDiffer'
  <2>1. UNCHANGED token
    BY <1>6 DEF acquire_times_out, acquire_raises, release, pg_advisory_lock,
                pg_advisory_unlock, crash
  <2>2. \E s \in {"idle", "fallback", "postgres"} : Goes(p, s)
    BY <1>6 DEF acquire_times_out, acquire_raises, release, pg_advisory_lock,
                pg_advisory_unlock, crash, GiveUp
  <2> QED
    BY <2>1, <2>2, <1>3
<1>7. ASSUME NEW p \in Process, renew_loop_ends(p) \/ pg_connection_lost(p)
      PROVE  TokensDiffer'
  BY <1>4, <1>7 DEF renew_loop_ends, pg_connection_lost
<1> QED
  BY <1>1, <1>2, <1>5, <1>6, <1>7 DEF Next

(* Every step keeps the locks of those inside that have not lost them.      *)
LEMMA LockStep == IInv /\ [Next]_vars => LocksHeld'
<1> SUFFICES ASSUME IInv, [Next]_vars, NEW q \in Process, q \notin lost'
             PROVE  /\ pc'[q] = "redis" => key' = token'[q]
                    /\ pc'[q] = "postgres" => advisory' = q
  BY DEF LocksHeld
<1> USE LockAssumption DEF IInv, TypeOK, LocksHeld, TokensDiffer
<1>1. CASE key_expires
  BY <1>1 DEF key_expires
<1>2. ASSUME NEW p \in Process, new_lock(p) PROVE LocksHeld'
  BY <1>2 DEF new_lock, Goes
<1>3. ASSUME NEW p \in Process, acquire(p) PROVE LocksHeld'
  BY <1>3 DEF acquire, Goes
<1>4. ASSUME NEW p \in Process, acquire_times_out(p) PROVE LocksHeld'
  BY <1>4 DEF acquire_times_out, Goes, GiveUp
<1>5. ASSUME NEW p \in Process, acquire_raises(p) PROVE LocksHeld'
  BY <1>5 DEF acquire_raises, Goes, GiveUp
<1>6. ASSUME NEW p \in Process, renew_loop_ends(p) PROVE LocksHeld'
  BY <1>6 DEF renew_loop_ends
<1>7. ASSUME NEW p \in Process, release(p) PROVE LocksHeld'
  BY <1>7 DEF release, Goes
<1>8. ASSUME NEW p \in Process, pg_advisory_lock(p) PROVE LocksHeld'
  BY <1>8 DEF pg_advisory_lock, Goes
<1>9. ASSUME NEW p \in Process, pg_advisory_unlock(p) PROVE LocksHeld'
  BY <1>9 DEF pg_advisory_unlock, Goes
<1>10. ASSUME NEW p \in Process, pg_connection_lost(p) PROVE LocksHeld'
  BY <1>10 DEF pg_connection_lost
<1>11. ASSUME NEW p \in Process, crash(p) PROVE LocksHeld'
  BY <1>11 DEF crash, Goes
<1>12. CASE UNCHANGED vars
  BY <1>12 DEF vars
<1> QED
  BY <1>1, <1>2, <1>3, <1>4, <1>5, <1>6, <1>7, <1>8, <1>9, <1>10, <1>11, <1>12 DEF Next

(* The inductive invariant holds of every behaviour of the lock.            *)
THEOREM LockInvariant == Spec => []IInv
<1>1. IInv /\ [Next]_vars => IInv'
  BY TypeStep, TokenStep, LockStep DEF IInv
<1> QED
  BY InitIInv, <1>1, PTL DEF Spec

(* Every variable of CoordinatedLock stays in its type.                     *)
THEOREM LockTypes == Spec => []TypeOK
<1>1. IInv => TypeOK
  BY DEF IInv
<1> QED
  BY LockInvariant, <1>1, PTL

(* Two processes are inside together only when one lost its lock or they    *)
(* hold locks of different kinds (redis_lock.py, coordinated_lock).         *)
THEOREM OverlapOnlyDegraded == Spec => []OverlapIsDegraded
<1>1. IInv => OverlapIsDegraded
  <2> SUFFICES ASSUME IInv, NEW p \in Inside \ lost, NEW q \in Inside \ lost,
                      p # q, pc[p] = pc[q]
               PROVE  FALSE
    BY DEF OverlapIsDegraded
  <2>1. CASE pc[p] = "redis"
    BY <2>1 DEF IInv, LocksHeld, TokensDiffer, Inside
  <2>2. CASE pc[p] = "postgres"
    BY <2>2 DEF IInv, LocksHeld, Inside
  <2> QED
    BY <2>1, <2>2 DEF Inside
<1> QED
  BY LockInvariant, <1>1, PTL

(* No step of another process takes the key from its holder: the scripts    *)
(* compare the token, and SET is NX (redis_lock.py, release and acquire).   *)
THEOREM KeyStaysOwn == Spec => KeyIsOwn
<1>1. ASSUME IInv, [Next]_vars
      PROVE  [\A p \in Process :
                pc[p] = "redis" /\ pc'[p] = "redis" /\ key = token[p]
                  => key' = key \/ p \in lost']_vars
  <2> SUFFICES ASSUME Next, NEW p \in Process,
                      pc[p] = "redis", pc'[p] = "redis", key = token[p]
               PROVE  key' = key \/ p \in lost'
    BY <1>1
  <2>1. key # NoToken
    BY <1>1 DEF IInv, TokensDiffer
  <2>2. \A q \in Process : q # p => token[q] # key
    BY <1>1, <2>1 DEF IInv, TokensDiffer
  <2>3. CASE key_expires
    BY <2>3 DEF key_expires
  <2>4. ASSUME NEW q \in Process, acquire(q) \/ acquire_raises(q) PROVE key' = key
    BY <2>1, <2>4 DEF acquire, acquire_raises
  <2>5. ASSUME NEW q \in Process, release(q) PROVE key' = key
    BY <1>1, <2>2, <2>5 DEF release, Goes, IInv, TypeOK
  <2>6. ASSUME NEW q \in Process,
               \/ new_lock(q) \/ acquire_times_out(q) \/ renew_loop_ends(q)
               \/ pg_advisory_lock(q) \/ pg_advisory_unlock(q)
               \/ pg_connection_lost(q) \/ crash(q)
        PROVE  key' = key
    BY <2>6 DEF new_lock, acquire_times_out, renew_loop_ends, pg_advisory_lock,
                pg_advisory_unlock, pg_connection_lost, crash
  <2> QED
    BY <2>3, <2>4, <2>5, <2>6 DEF Next
<1> QED
  BY LockInvariant, <1>1, PTL DEF Spec, KeyIsOwn
=============================================================================
