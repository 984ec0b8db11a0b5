------------------------------ MODULE Pthreads ------------------------------
(***************************************************************************)
(* The POSIX calls the cw01 programs synchronise with, as they use them.   *)
(* A semaphore is its count.  A mutex is 1 when free and 0 when locked: it *)
(* is a default mutex, which does not record its owner, and any thread may *)
(* unlock it.  A condition variable is the set of threads that sleep on    *)
(* it; a thread that is woken still has to lock the mutex again.           *)
(***************************************************************************)
EXTENDS Integers, FiniteSets

Wait(sem) == sem > 0 /\ sem' = sem - 1      \* sem_wait
Post(sem) == sem' = sem + 1                 \* sem_post

Lock(mutex)   == mutex = 1 /\ mutex' = 0    \* pthread_mutex_lock
Unlock(mutex) == mutex' = 1                 \* pthread_mutex_unlock

\* pthread_cond_wait by t, up to the point where it sleeps
CondWait(cond, mutex, t) == cond' = cond \cup {t} /\ Unlock(mutex)
Broadcast(cond) == cond' = {}               \* pthread_cond_broadcast
\* POSIX lets pthread_cond_wait return without a broadcast.
Spurious(cond, t) == t \in cond /\ cond' = cond \ {t}
=============================================================================
