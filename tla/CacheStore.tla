----------------------------- MODULE CacheStore -----------------------------
(***************************************************************************)
(* What the cache database promises to its callers                         *)
(* (lib_storage/storage/cache/storage_cache_database.h).  It is a cache:   *)
(* any value may be gone at any time.  What it may never do is to return   *)
(* anything but the value last put under the key, whatever was removed,    *)
(* moved, compacted or cut short by a crash in between.                    *)
(***************************************************************************)
EXTENDS Integers

CONSTANTS
    Keys,
    Values          \* what may be put: numbers from 1, 0 is no value

VARIABLES
    last,           \* the value last put under the key and not removed since
    store,          \* what get() returns
    damaged         \* a record of the database's log has been lost

Put(k, v) ==
    /\ last' = [last EXCEPT ![k] = v]
    /\ store' = [store EXCEPT ![k] = v]

Remove(k) ==
    /\ last' = [last EXCEPT ![k] = 0]
    /\ store' = [store EXCEPT ![k] = 0]

\* Values are forgotten, or come back when the database is opened again.
Change ==
    /\ UNCHANGED last
    /\ \A k \in Keys : store'[k] \in {0, last[k]}
    /\ DOMAIN store' = Keys

\* With a record of the log the promise is lost, for good.
Damage ==
    /\ damaged' = TRUE
    /\ last' \in [Keys -> Values \cup {0}]
    /\ store' \in [Keys -> Values \cup {0}]

Init ==
    /\ last = [k \in Keys |-> 0]
    /\ store = [k \in Keys |-> 0]
    /\ damaged = FALSE

Next ==
    \/ /\ ~damaged /\ UNCHANGED damaged
       /\ Change \/ \E k \in Keys : Remove(k) \/ \E v \in Values : Put(k, v)
    \/ Damage

Spec == Init /\ [][Next]_<<last, store, damaged>>

=============================================================================
