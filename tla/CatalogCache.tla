---------------------------- MODULE CatalogCache ----------------------------
(***************************************************************************)
(* The cache of public catalog responses: apps/products/cache.py, the      *)
(* signals that invalidate it (apps/products/signals.py) and the reads of  *)
(* PublicCatalogCacheMixin (apps/api/views.py).                            *)
(*                                                                         *)
(* Keys carry the catalog version, one number in the shared cache.  One    *)
(* request path is modelled, so a key is a version.  What a response says  *)
(* is the number of changes that were committed when it was built.  One    *)
(* action is one call to the cache or to the database.                     *)
(***************************************************************************)
EXTENDS Integers

CONSTANTS
    Readers,        \* workers that answer catalog requests
    Writers,        \* workers that save catalog rows, stock included
    FirstVersion,   \* the version in the cache at the start, 0 if none is
    MaxChanges      \* bound of the model: changes saved

ASSUME CacheAssumption ==
    /\ FirstVersion \in {0, 1}
    /\ MaxChanges \in Nat

VARIABLES
    changes,    \* changes committed to the database
    version,    \* the key catalog:version, 0 if absent
    entries,    \* <<version, changes>> of every cached response
    announced,  \* newest change whose invalidation is over
    reader,     \* what each reader is in the middle of
    writer      \* what each writer is in the middle of

cacheVars == <<changes, version, entries, announced, reader, writer>>

Resting == [at |-> "rest"]
Reading == [at : {"lookup", "query", "store", "answer"}, since : Nat,
            key : Nat \ {0}, data : Nat]
Saving == [at : {"committed", "missing"}, change : Nat]

CacheTypeOK ==
    /\ changes \in Nat
    /\ version \in Nat
    /\ entries \subseteq Nat \X Nat
    /\ announced \in Nat
    /\ reader \in [Readers -> Reading \cup {Resting}]
    /\ writer \in [Writers -> Saving \cup {Resting}]

CacheInit ==
    /\ changes = 0
    /\ version = FirstVersion
    /\ entries = {}
    /\ announced = 0
    /\ reader = [r \in Readers |-> Resting]
    /\ writer = [w \in Writers |-> Resting]

-----------------------------------------------------------------------------
(* Reads *)

\* Faulty variant: an absent version is not set.
ReadVersionAsIs(r) ==
    /\ reader[r] = Resting
    /\ reader' = [reader EXCEPT ![r] =
         [at |-> "lookup", since |-> announced, key |-> version, data |-> 0]]
    /\ UNCHANGED <<changes, version, entries, announced, writer>>

\* catalog_cache_version: the version, or 1 set there and then.
ReadVersion(r) ==
    /\ reader[r] = Resting
    /\ version' = IF version = 0 THEN 1 ELSE version
    /\ reader' = [reader EXCEPT ![r] =
         [at |-> "lookup", since |-> announced, key |-> version', data |-> 0]]
    /\ UNCHANGED <<changes, entries, announced, writer>>

\* cache.get: a hit is answered, a miss goes to the database.
Lookup(r) ==
    /\ reader[r].at = "lookup"
    /\ \/ \E e \in entries :
            /\ e[1] = reader[r].key
            /\ reader' = [reader EXCEPT ![r].at = "answer", ![r].data = e[2]]
       \/ /\ \A e \in entries : e[1] # reader[r].key
          /\ reader' = [reader EXCEPT ![r].at = "query"]
    /\ UNCHANGED <<changes, version, entries, announced, writer>>

\* Faulty variant: the response is stored under the version of the moment.
QueryUnderNewVersion(r) ==
    /\ reader[r].at = "query"
    /\ reader' = [reader EXCEPT ![r].at = "store", ![r].data = changes,
                                ![r].key = version + 1]
    /\ UNCHANGED <<changes, version, entries, announced, writer>>

\* The view builds its response from the database.
Query(r) ==
    /\ reader[r].at = "query"
    /\ reader' = [reader EXCEPT ![r] = [@ EXCEPT !.at = "store", !.data = changes]]
    /\ UNCHANGED <<changes, version, entries, announced, writer>>

\* cache.set, under the version read at the start, then the answer.
Store(r) ==
    /\ reader[r].at = "store"
    /\ entries' = {e \in entries : e[1] # reader[r].key}
                    \cup {<<reader[r].key, reader[r].data>>}
    /\ reader' = [reader EXCEPT ![r].at = "answer"]
    /\ UNCHANGED <<changes, version, announced, writer>>

\* The response is sent, or the worker dies on the way.
EndRead(r) ==
    /\ reader[r] # Resting
    /\ reader' = [reader EXCEPT ![r] = Resting]
    /\ UNCHANGED <<changes, version, entries, announced, writer>>

\* Faulty variant: the entry under the current version has no timeout.
ExpireOld(e) ==
    /\ e \in entries
    /\ e[1] # version
    /\ entries' = entries \ {e}
    /\ UNCHANGED <<changes, version, announced, reader, writer>>

\* PUBLIC_API_CACHE_SECONDS pass.
Expire(e) ==
    /\ e \in entries
    /\ entries' = entries \ {e}
    /\ UNCHANGED <<changes, version, announced, reader, writer>>

-----------------------------------------------------------------------------
(* Changes *)

\* A model is saved or deleted, and its transaction commits.
Commit(w) ==
    /\ writer[w] = Resting
    /\ changes < MaxChanges
    /\ changes' = changes + 1
    /\ writer' = [writer EXCEPT ![w] = [at |-> "committed", change |-> changes']]
    /\ UNCHANGED <<version, entries, announced, reader>>

Announce(w) ==
    /\ announced' = IF writer[w].change > announced THEN writer[w].change ELSE announced
    /\ writer' = [writer EXCEPT ![w] = Resting]

\* invalidate_catalog_cache, run when the transaction has committed:
\* cache.incr, which raises when the key is absent.
Increment(w) ==
    /\ writer[w].at = "committed"
    /\ \/ /\ version # 0
          /\ version' = version + 1
          /\ Announce(w)
       \/ /\ version = 0
          /\ writer' = [writer EXCEPT ![w].at = "missing"]
          /\ UNCHANGED <<version, announced>>
    /\ UNCHANGED <<changes, entries, reader>>

\* The handler of that error: cache.set of 2.
SetVersion(w) ==
    /\ writer[w].at = "missing"
    /\ version' = 2
    /\ Announce(w)
    /\ UNCHANGED <<changes, entries, reader>>

\* The worker dies, or the cache cannot be reached, after the commit.
WriterDies(w) ==
    /\ writer[w] # Resting
    /\ writer' = [writer EXCEPT ![w] = Resting]
    /\ UNCHANGED <<changes, version, entries, announced, reader>>

CacheNext ==
    \/ \E r \in Readers :
        ReadVersion(r) \/ Lookup(r) \/ Query(r) \/ Store(r) \/ EndRead(r)
    \/ \E e \in entries : Expire(e)
    \/ \E w \in Writers : Commit(w) \/ Increment(w) \/ SetVersion(w) \/ WriterDies(w)

CacheSpec == CacheInit /\ [][CacheNext]_cacheVars

-----------------------------------------------------------------------------

\* A catalog read that begins after a change was invalidated answers with the
\* change: what a slow reader stores late does no harm, because it is stored
\* under the version the reader started from.
AnswersAreFresh ==
    \A r \in Readers : reader[r].at = "answer" => reader[r].data >= reader[r].since

\* Requests end and entries have a timeout.
Responses == (1 .. MaxChanges + 2) \X (0 .. MaxChanges)
CacheFairness ==
    /\ \A r \in Readers : WF_cacheVars(EndRead(r) \/ Store(r))
    /\ \A e \in Responses : WF_cacheVars(Expire(e))
TimedSpec == CacheSpec /\ CacheFairness

\* Even when the worker dies before it can invalidate, from some time on no
\* response without the change is in the cache.
StaleEntriesDie ==
    \A n \in 1 .. MaxChanges :
        changes >= n ~> [](\A e \in entries : e[2] >= n)

=============================================================================
