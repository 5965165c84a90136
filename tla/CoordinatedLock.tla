-------------------------- MODULE CoordinatedLock --------------------------
(***************************************************************************)
(* The locks of infrastructure/redis_lock.py on one key: the Redis lock    *)
(* with its token, TTL and renewal thread, and the fallback of             *)
(* coordinated_lock to a PostgreSQL advisory lock.  Three ways to use it:  *)
(* "critical" falls back (notes, memory keys, write tools), "optional"     *)
(* gives up after the wait, and "leader" is the bare RedisDistributedLock  *)
(* of apps/scheduler.py, which nothing renews.  All users of one key use   *)
(* it in one way.                                                          *)
(*                                                                         *)
(* A key that expires under a holder is a fault when a renewal thread is   *)
(* running, and only a matter of time when none is.                        *)
(***************************************************************************)
EXTENDS Naturals, FiniteSets

CONSTANTS
  Process,      \* threads of workers or schedulers that use the key
  Nobody,       \* the holder of a free advisory lock
  MaxTokens,    \* bound: acquisitions in one execution
  MaxFaults     \* bound: faults in one execution

ASSUME LockAssumption ==
  /\ Nobody \notin Process
  /\ MaxTokens \in Nat
  /\ MaxFaults \in Nat

VARIABLES
  mode,        \* how the key is used
  key,         \* the value of the Redis key, NoToken when it does not exist
  advisory,    \* the process whose connection holds the advisory lock
  pc,          \* pc[p]: where p is in coordinated_lock
  token,       \* token[p]: the uuid4 of the lock object of p
  renewing,    \* processes whose renewal thread runs
  lastToken,   \* last uuid4 handed out
  faults,      \* faults so far
  lost         \* history: processes inside whose lock is gone

vars == <<mode, key, advisory, pc, token, renewing, lastToken, faults, lost>>

NoToken == 0

TypeOK ==
  /\ mode \in {"critical", "optional", "leader"}
  /\ key \in 0..lastToken
  /\ advisory \in Process \cup {Nobody}
  /\ pc \in [Process -> {"idle", "acquire", "redis", "fallback", "postgres"}]
  /\ token \in [Process -> 0..lastToken]
  /\ renewing \subseteq Process
  /\ lastToken \in Nat
  /\ faults \in Nat
  /\ lost \subseteq Process

Init ==
  /\ mode \in {"critical", "optional", "leader"}
  /\ key = NoToken
  /\ advisory = Nobody
  /\ pc = [p \in Process |-> "idle"]
  /\ token = [p \in Process |-> NoToken]
  /\ renewing = {}
  /\ lastToken = NoToken
  /\ faults = 0
  /\ lost = {}

Fault == faults < MaxFaults /\ faults' = faults + 1
Goes(p, s) == pc' = [pc EXCEPT ![p] = s]
Inside == {p \in Process : pc[p] \in {"redis", "postgres"}}
GiveUp == IF mode = "critical" THEN "fallback" ELSE "idle"
-----------------------------------------------------------------------------
(* Lock objects that share a token.                                         *)
new_lock_same_token(p) ==
  /\ pc[p] = "idle"
  /\ lastToken < MaxTokens
  /\ token' = [token EXCEPT ![p] = lastToken + 1]
  /\ Goes(p, "acquire")
  /\ UNCHANGED <<mode, key, advisory, renewing, lastToken, faults, lost>>

(* RedisDistributedLock.__init__                                            *)
new_lock(p) ==
  /\ pc[p] = "idle"
  /\ lastToken < MaxTokens
  /\ lastToken' = lastToken + 1
  /\ token' = [token EXCEPT ![p] = lastToken + 1]
  /\ Goes(p, "acquire")
  /\ UNCHANGED <<mode, key, advisory, renewing, faults, lost>>

(* A SET without NX.                                                        *)
acquire_overwriting(p) ==
  /\ pc[p] = "acquire"
  /\ key' = token[p]
  /\ Goes(p, "redis")
  /\ renewing' = IF mode = "leader" THEN renewing ELSE renewing \cup {p}
  /\ UNCHANGED <<mode, advisory, token, lastToken, faults, lost>>

(* acquire: SET NX PX succeeds, and the renewal thread starts.              *)
acquire(p) ==
  /\ pc[p] = "acquire"
  /\ key = NoToken
  /\ key' = token[p]
  /\ Goes(p, "redis")
  /\ renewing' = IF mode = "leader" THEN renewing ELSE renewing \cup {p}
  /\ UNCHANGED <<mode, advisory, token, lastToken, faults, lost>>

(* acquire answers False: a SET that failed was past the deadline.          *)
acquire_times_out(p) ==
  /\ pc[p] = "acquire"
  /\ key # NoToken
  /\ Goes(p, GiveUp)
  /\ UNCHANGED <<mode, key, advisory, token, renewing, lastToken, faults, lost>>

(* acquire raises; the SET may have been executed.                          *)
acquire_raises(p) ==
  /\ pc[p] = "acquire"
  /\ Fault
  /\ key' \in {key, IF key = NoToken THEN token[p] ELSE key}
  /\ Goes(p, GiveUp)
  /\ UNCHANGED <<mode, advisory, token, renewing, lastToken, lost>>

(* renew_loop: a renewal that finds another token, or raises, ends the      *)
(* thread, and the body of the lock is not told.                            *)
renew_loop_ends(p) ==
  /\ p \in renewing
  /\ \/ key # token[p] /\ UNCHANGED faults
     \/ Fault
  /\ renewing' = renewing \ {p}
  /\ UNCHANGED <<mode, key, advisory, pc, token, lastToken, lost>>

(* The TTL runs out.                                                        *)
key_expires ==
  /\ key # NoToken
  /\ LET holders == {p \in Process : pc[p] = "redis" /\ token[p] = key}
     IN /\ IF holders \cap renewing # {} THEN Fault ELSE UNCHANGED faults
        /\ lost' = lost \cup holders
  /\ key' = NoToken
  /\ UNCHANGED <<mode, advisory, pc, token, renewing, lastToken>>

(* A DEL without the comparison of the token.                               *)
release_unchecked(p) ==
  /\ pc[p] = "redis"
  /\ key' = NoToken
  /\ Goes(p, "idle")
  /\ renewing' = renewing \ {p}
  /\ lost' = lost \ {p}
  /\ UNCHANGED <<mode, advisory, token, lastToken, faults>>

(* The body returned or raised.  release deletes the key if it holds the    *)
(* token; an exception of it is logged, and the key waits for its TTL.      *)
release(p) ==
  /\ pc[p] = "redis"
  /\ \/ key' = (IF key = token[p] THEN NoToken ELSE key) /\ UNCHANGED faults
     \/ key' = key /\ Fault
  /\ Goes(p, "idle")
  /\ renewing' = renewing \ {p}
  /\ lost' = lost \ {p}
  /\ UNCHANGED <<mode, advisory, token, lastToken>>

(* postgres_advisory_lock, on a connection of its own.                      *)
pg_advisory_lock(p) ==
  /\ pc[p] = "fallback"
  /\ advisory = Nobody
  /\ advisory' = p
  /\ Goes(p, "postgres")
  /\ UNCHANGED <<mode, key, token, renewing, lastToken, faults, lost>>

(* The connection goes back to the pool with the lock on it.                *)
pg_advisory_unlock_forgotten(p) ==
  /\ pc[p] = "postgres"
  /\ Goes(p, "idle")
  /\ lost' = lost \ {p}
  /\ UNCHANGED <<mode, key, advisory, token, renewing, lastToken, faults>>

pg_advisory_unlock(p) ==
  /\ pc[p] = "postgres"
  /\ advisory' = IF advisory = p THEN Nobody ELSE advisory
  /\ Goes(p, "idle")
  /\ lost' = lost \ {p}
  /\ UNCHANGED <<mode, key, token, renewing, lastToken, faults>>

(* The connection breaks: the server frees the lock, the body runs on.      *)
pg_connection_lost(p) ==
  /\ pc[p] = "postgres"
  /\ advisory = p
  /\ Fault
  /\ advisory' = Nobody
  /\ lost' = lost \cup {p}
  /\ UNCHANGED <<mode, key, pc, token, renewing, lastToken>>

(* The process dies, or a database call raises out of coordinated_lock; the *)
(* connection is closed and the Redis key waits for its TTL.                *)
crash(p) ==
  /\ pc[p] # "idle"
  /\ Fault
  /\ Goes(p, "idle")
  /\ renewing' = renewing \ {p}
  /\ lost' = lost \ {p}
  /\ advisory' = IF advisory = p THEN Nobody ELSE advisory
  /\ UNCHANGED <<mode, key, token, lastToken>>

Next ==
  \/ key_expires
  \/ \E p \in Process :
       \/ new_lock(p) \/ acquire(p) \/ acquire_times_out(p) \/ acquire_raises(p)
       \/ renew_loop_ends(p) \/ release(p)
       \/ pg_advisory_lock(p) \/ pg_advisory_unlock(p) \/ pg_connection_lost(p)
       \/ crash(p)

(* The body ends, the wait ends, the keys of the dead expire, and           *)
(* PostgreSQL serves the waiters of a lock in turn.                         *)
Fairness ==
  /\ WF_vars(key_expires /\ UNCHANGED faults)
  /\ \A p \in Process :
       /\ WF_vars(acquire(p) \/ acquire_times_out(p))
       /\ WF_vars(release(p))
       /\ WF_vars(pg_advisory_unlock(p))
       /\ SF_vars(pg_advisory_lock(p))

Spec == Init /\ [][Next]_vars /\ Fairness
-----------------------------------------------------------------------------
(* Two processes are inside together only in two ways: one of them lost its *)
(* lock while it was inside (TTL, connection), or one came in through Redis *)
(* and the other, after waiting or an error, through PostgreSQL.            *)
OverlapIsDegraded ==
  \A p, q \in Inside \ lost : p # q => pc[p] # pc[q]

(* Nobody takes the Redis lock from a process inside that has it: neither a *)
(* late release or renewal of an older token nor another SET.               *)
KeyIsOwn ==
  [][\A p \in Process :
       pc[p] = "redis" /\ pc'[p] = "redis" /\ key = token[p]
         => key' = key \/ p \in lost']_vars

(* Who asks for the lock gets an answer: it is inside or has given up.      *)
WaitEnds ==
  \A p \in Process : pc[p] \in {"acquire", "fallback"} ~> p \in Inside \/ pc[p] = "idle"

(* "memory writes take the lock of their memory key, so that concurrent     *)
(* merges do not overwrite each other": one process inside at a time.       *)
MutualExclusion ==
  Cardinality(Inside) <= 1
=============================================================================
