------------------------------ MODULE ConnPool -----------------------------
(***************************************************************************)
(* What a thread of a process does to its pool of database connections     *)
(* (src/db/pool.py) and to the two caches it fills through it: the ladder  *)
(* (src/common/tiers.py), whose lock is held while it is filled, and the   *)
(* runtime flags (src/common/runtime.py), which have no lock.              *)
(*                                                                         *)
(* A thread serves one call at a time; todo is what the call has left to   *)
(* do.  A thread that asks for a connection the pool does not have waits   *)
(* for it with whatever it holds already.                                  *)
(***************************************************************************)
EXTENDS TierLadder, Sequences

CONSTANTS
  Threads,  \* the threads of all the processes
  Home,     \* Home[r]: the process of thread r
  PoolMax,  \* PoolMax[p]: DB_POOL_MAX of process p
  Nobody    \* no thread

ASSUME PoolAssumption ==
  /\ Home \in [Threads -> Processes]
  /\ PoolMax \in [Processes -> Nat \ {0}]
  /\ Nobody \notin Threads

VARIABLES
  todo,   \* todo[r]: the steps left of the call that thread r serves
  free,   \* free[p]: connections p can still hand out
  conns,  \* conns[r]: connections thread r has checked out
  lock,   \* lock[p]: the thread inside tiers._lock of process p
  fresh   \* fresh[p]: the flags of p were read less than CACHE_SECONDS ago

pvars == <<todo, free, conns, lock, fresh, cache>>

PoolInit ==
  /\ todo = [r \in Threads |-> <<>>]
  /\ free = PoolMax
  /\ conns = [r \in Threads |-> 0]
  /\ lock = [p \in Processes |-> Nobody]
  /\ fresh = [p \in Processes |-> FALSE]
  /\ cache = [p \in Processes |-> Cold]

Serving(r) == todo[r] # <<>>
Doing(r, step) == Serving(r) /\ Head(todo[r]) = step
Goes(r, steps) == todo' = [todo EXCEPT ![r] = steps]
Passes(r) == Goes(r, Tail(todo[r]))

\* A transaction, the flags and the ladder each need a connection.
Asking(r) == \E step \in {"open", "load", "fill"} : Doing(r, step)
Waiting(r) == Asking(r) /\ free[Home[r]] = 0

Checkout(r) ==
  /\ Asking(r) /\ free[Home[r]] > 0
  /\ free' = [free EXCEPT ![Home[r]] = @ - 1]
  /\ conns' = [conns EXCEPT ![r] = @ + 1]
  /\ \/ Doing(r, "open") /\ Passes(r)
     \/ Doing(r, "load") /\ Goes(r, <<"loading">> \o Tail(todo[r]))
     \/ Doing(r, "fill") /\ Goes(r, <<"filling">> \o Tail(todo[r]))
  /\ UNCHANGED <<lock, fresh, cache>>

\* The inner `with pool().connection()` ends.
GivesBack(r) ==
  /\ free' = [free EXCEPT ![Home[r]] = @ + 1]
  /\ conns' = [conns EXCEPT ![r] = @ - 1]

\* flags().
AsksFlags(r) ==
  /\ Doing(r, "flags")
  /\ IF fresh[Home[r]] THEN Passes(r) ELSE Goes(r, <<"load">> \o Tail(todo[r]))
  /\ UNCHANGED <<free, conns, lock, fresh, cache>>

\* The connection of flags() kept until the transaction around it ends.
LoadsFlags_Kept(r) ==
  /\ Doing(r, "loading")
  /\ fresh' = [fresh EXCEPT ![Home[r]] = TRUE]
  /\ Passes(r)
  /\ UNCHANGED <<free, conns, lock, cache>>

LoadsFlags(r) ==
  /\ Doing(r, "loading")
  /\ fresh' = [fresh EXCEPT ![Home[r]] = TRUE]
  /\ GivesBack(r)
  /\ Passes(r)
  /\ UNCHANGED <<lock, cache>>

\* refresh left on: every use of the ladder reads the table.
AsksTiers_Refreshing(r) ==
  /\ Doing(r, "tiers") /\ lock[Home[r]] = Nobody
  /\ Goes(r, <<"fill">> \o Tail(todo[r]))
  /\ lock' = [lock EXCEPT ![Home[r]] = r]
  /\ UNCHANGED <<free, conns, fresh, cache>>

\* all_tiers(): the lock first, and a connection only when there is no copy.
AsksTiers(r) ==
  /\ Doing(r, "tiers") /\ lock[Home[r]] = Nobody
  /\ \/ /\ cache[Home[r]] # Cold
        /\ Passes(r)
        /\ UNCHANGED lock
     \/ /\ cache[Home[r]] = Cold
        /\ Goes(r, <<"fill">> \o Tail(todo[r]))
        /\ lock' = [lock EXCEPT ![Home[r]] = r]
  /\ UNCHANGED <<free, conns, fresh, cache>>

FillsTiers(r) ==
  /\ Doing(r, "filling")
  /\ FillCache(Home[r])
  /\ lock' = [lock EXCEPT ![Home[r]] = Nobody]
  /\ GivesBack(r)
  /\ Passes(r)
  /\ UNCHANGED <<fresh>>

\* CACHE_SECONDS pass.
FlagsAge(p) ==
  /\ fresh[p]
  /\ fresh' = [fresh EXCEPT ![p] = FALSE]
  /\ UNCHANGED <<todo, free, conns, lock, cache>>

\* An exception that leaves the lock taken.
Ends_Locked(r) ==
  /\ free' = [free EXCEPT ![Home[r]] = @ + conns[r]]
  /\ conns' = [conns EXCEPT ![r] = 0]
  /\ Goes(r, <<>>)
  /\ UNCHANGED <<lock, fresh, cache>>

\* A call ends, or an exception leaves its `with` blocks: everything is given back.
Ends(r) ==
  /\ free' = [free EXCEPT ![Home[r]] = @ + conns[r]]
  /\ conns' = [conns EXCEPT ![r] = 0]
  /\ lock' = [lock EXCEPT ![Home[r]] = IF @ = r THEN Nobody ELSE @]
  /\ Goes(r, <<>>)
  /\ UNCHANGED <<fresh, cache>>

\* A new process: pool, caches and lock as at the start, its calls gone.
Restarts(p) ==
  /\ free' = [free EXCEPT ![p] = PoolMax[p]]
  /\ conns' = [r \in Threads |-> IF Home[r] = p THEN 0 ELSE conns[r]]
  /\ todo' = [r \in Threads |-> IF Home[r] = p THEN <<>> ELSE todo[r]]
  /\ lock' = [lock EXCEPT ![p] = Nobody]
  /\ fresh' = [fresh EXCEPT ![p] = FALSE]
  /\ cache' = [cache EXCEPT ![p] = Cold]
=============================================================================
