--------------------------- MODULE ReentrantLock ---------------------------
(***************************************************************************)
(* guac_rwlock: a readers-writer lock that a thread may take again while   *)
(* it holds it (libguac/rwlock.c).  The state of one lock is what each     *)
(* thread keeps under the lock's key: a flag and a depth.  The underlying  *)
(* pthread lock is held by exactly the threads whose flag is set, so it    *)
(* needs no state of its own; a thread waits for it where CanRead or       *)
(* CanWrite is false.  The depth of 2^60 that would_overflow_count guards  *)
(* against is out of reach.                                                *)
(***************************************************************************)
EXTENDS Naturals

Flags == {"none", "read", "write"}

(* guac_rwlock_init *)
NewLock(threads) == [t \in threads |-> [flag |-> "none", count |-> 0]]

CanRead(lock, t) ==
    lock[t].flag # "none" \/ \A s \in DOMAIN lock \ {t} : lock[s].flag # "write"

(* A reader that asks for the write lock first gives up its read lock, so  *)
(* another writer may get in before it.                                    *)
CanWrite(lock, t) ==
    lock[t].flag = "write" \/ \A s \in DOMAIN lock \ {t} : lock[s].flag = "none"

AcquireRead(lock, t) ==
    [lock EXCEPT ![t] = [flag |-> IF @.flag = "none" THEN "read" ELSE @.flag,
                         count |-> @.count + 1]]

AcquireWrite(lock, t) ==
    [lock EXCEPT ![t] = [flag |-> "write", count |-> @.count + 1]]

(* Releasing a lock that is not held changes nothing.                      *)
Release(lock, t) ==
    [lock EXCEPT ![t] = CASE @.count = 0 -> @
                          [] @.count = 1 -> [flag |-> "none", count |-> 0]
                          [] OTHER -> [flag |-> @.flag, count |-> @.count - 1]]

(* What the lock is for.                                                   *)
Exclusive(lock) ==
    \A s, t \in DOMAIN lock :
        s # t /\ lock[s].flag = "write" => lock[t].flag = "none"
=============================================================================
