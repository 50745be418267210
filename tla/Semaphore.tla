----------------------------- MODULE Semaphore -----------------------------
(***************************************************************************)
(* A semaphore of lab-threads: sem_init(), sem_destroy(), sem_wait() and   *)
(* sem_signal(), each atomic under the lock up to its sleep().  sem_init() *)
(* of a semaphore in use returns with the lock held.  The arguments are    *)
(* whatever ints the program passes, also negative ones.                   *)
(***************************************************************************)
EXTENDS Integers

CONSTANTS Thread,
          Values,     \* arguments of sem_init()
          Counts,     \* arguments of sem_wait() and sem_signal()
          MAXVALUE    \* bound: no int overflows before it

ASSUME SemAssumption == Values \subseteq Int /\ Counts \subseteq Int /\ MAXVALUE \in Nat

VARIABLES active, value, held,   \* struct semaphore; held: lock.locked on return
          tpc, want,             \* sem_wait() of each thread
          put, got,              \* what was given to it and taken from it
          minus,                 \* a negative value or count has been put
          missed                 \* threads asleep when the value changed
                                 \* without a wakeup()

semvars == <<active, value, held, tpc, want, put, got, minus, missed>>

SemInit ==
  /\ active = FALSE /\ value = 0 /\ held = FALSE
  /\ tpc = [t \in Thread |-> "user"]
  /\ want = [t \in Thread |-> 0]
  /\ put = 0 /\ got = 0 /\ minus = FALSE /\ missed = {}

acquired(t, where) == ~held /\ tpc[t] = where
Sleeping == {s \in Thread : tpc[s] = "asleep"}
InBounds(n) == n \in -MAXVALUE .. MAXVALUE

sem_init(t, v) ==
  /\ acquired(t, "user") /\ InBounds(v)
  /\ active' = TRUE
  /\ value' = IF active THEN value ELSE v
  /\ put' = IF active THEN put ELSE v
  /\ got' = IF active THEN got ELSE 0
  /\ minus' = IF active THEN minus ELSE v < 0
  /\ held' = active
  /\ missed' = IF active THEN missed ELSE Sleeping
  /\ UNCHANGED <<tpc, want>>

sem_destroy(t) ==
  /\ acquired(t, "user")
  /\ active' = FALSE
  /\ UNCHANGED <<value, held, tpc, want, put, got, minus, missed>>

(* The test of sem_wait(), on entry and after each sleep().                *)
sem_take(t, count) ==
  /\ InBounds(value - count)
  /\ tpc' = [tpc EXCEPT ![t] = "user"]
  /\ value' = value - count
  /\ got' = got + count
  /\ missed' = IF count < 0 THEN missed \cup Sleeping ELSE missed

test_and_take_if(t, count) ==   \* mutant: if instead of while
  IF value >= count \/ tpc[t] = "woken" THEN sem_take(t, count)
  ELSE /\ tpc' = [tpc EXCEPT ![t] = "asleep"]
       /\ UNCHANGED <<value, got, missed>>

test_and_take(t, count) ==
  IF value >= count THEN sem_take(t, count)
  ELSE /\ tpc' = [tpc EXCEPT ![t] = "asleep"]
       /\ UNCHANGED <<value, got, missed>>

sem_wait(t, count) ==
  /\ acquired(t, "user")
  /\ want' = [want EXCEPT ![t] = count]
  /\ test_and_take(t, count)
  /\ UNCHANGED <<active, held, put, minus>>

(* The return of sleep(), by sem_signal() or by kill().                    *)
sem_wait_woken(t) ==
  /\ acquired(t, "woken")
  /\ test_and_take(t, want[t])
  /\ UNCHANGED <<active, held, want, put, minus>>

sem_signal(t, count) ==
  /\ acquired(t, "user") /\ InBounds(value + count) /\ InBounds(put + count)
  /\ value' = value + count
  /\ put' = put + count
  /\ minus' = (minus \/ count < 0)
  /\ tpc' = [s \in Thread |-> IF tpc[s] = "asleep" THEN "woken" ELSE tpc[s]]
  /\ missed' = {}
  /\ UNCHANGED <<active, held, want, got>>

kill_thread(t) ==
  /\ tpc[t] = "asleep"
  /\ tpc' = [tpc EXCEPT ![t] = "woken"]
  /\ missed' = missed \ {t}
  /\ UNCHANGED <<active, value, held, want, put, got, minus>>

SemNext ==
  \E t \in Thread :
    \/ \E v \in Values : sem_init(t, v)
    \/ sem_destroy(t)
    \/ \E count \in Counts : sem_wait(t, count) \/ sem_signal(t, count)
    \/ sem_wait_woken(t) \/ kill_thread(t)

SemSpec == SemInit /\ [][SemNext]_semvars
-----------------------------------------------------------------------------
(* lab-threads: a semaphore gives out what was put into it and no more,    *)
(* whatever the counts of those who wait: only a negative argument of      *)
(* sem_init() or sem_signal() takes the value below zero.  No thread       *)
(* sleeps through a value it could take, except one that slept when the    *)
(* value changed without a wakeup(), in sem_init() of a semaphore that was *)
(* destroyed or sem_wait() of a negative count, until the next             *)
(* sem_signal().                                                           *)
SemaphoreExact ==
  /\ value = put - got
  /\ value < 0 => minus
  /\ \A t \in Thread : tpc[t] = "asleep" => value < want[t] \/ t \in missed
=============================================================================
