---------------------------- MODULE CacheProofs ----------------------------
(***************************************************************************)
(* Catalog reads answer with every change that was invalidated before they *)
(* began, for any number of readers and changes, and for any number of     *)
(* writers once the version is in the cache.                               *)
(***************************************************************************)
EXTENDS CatalogCache, TLAPS

\* Two writers that both find no version may set it back (SetVersion), so a
\* cache that is cold has one.
ColdHasOneWriter == FirstVersion = 0 => \A v, w \in Writers : v = w

\* What is known of a read under way, of the response it is about to store,
\* and of the responses in the cache.
InFlight(r) == reader[r].at \in {"lookup", "query", "store"}

ReadersInv ==
    \A r \in Readers :
        /\ InFlight(r) => reader[r].since <= announced /\ reader[r].key <= version
        /\ reader[r].at = "store" =>
            /\ reader[r].key = version => reader[r].data >= announced
            /\ \A q \in Readers :
                 InFlight(q) /\ reader[q].key = reader[r].key =>
                     reader[r].data >= reader[q].since

EntriesInv ==
    \A e \in entries :
        /\ e[1] <= version
        /\ e[1] = version => e[2] >= announced
        /\ \A r \in Readers :
             InFlight(r) /\ reader[r].key = e[1] => e[2] >= reader[r].since

WritersInv ==
    /\ announced <= changes
    /\ version = 0 => FirstVersion = 0 /\ entries = {}
    /\ \A w \in Writers :
         /\ writer[w] # Resting => writer[w].change <= changes
         /\ writer[w].at = "missing" => FirstVersion = 0 /\ version <= 1

CacheInv ==
    /\ CacheTypeOK /\ ReadersInv /\ EntriesInv /\ WritersInv
    /\ AnswersAreFresh

-----------------------------------------------------------------------------

\* Every step keeps the types of the cache.
LEMMA StepCacheTypeOK == CacheTypeOK /\ [CacheNext]_cacheVars => CacheTypeOK'
<1> SUFFICES ASSUME CacheTypeOK, [CacheNext]_cacheVars PROVE CacheTypeOK'
    OBVIOUS
<1> USE DEF CacheTypeOK, Reading, Saving, Resting
<1>1. ASSUME NEW r \in Readers, ReadVersion(r) PROVE CacheTypeOK'
  BY <1>1 DEF ReadVersion
<1>2. ASSUME NEW r \in Readers, Lookup(r) PROVE CacheTypeOK'
  BY <1>2 DEF Lookup
<1>3. ASSUME NEW r \in Readers, Query(r) PROVE CacheTypeOK'
  <2> DEFINE stored == [reader[r] EXCEPT !.at = "store", !.data = changes]
  <2>1. stored \in Reading
    <3>1. reader[r] \in Reading /\ changes \in Nat
      BY <1>3 DEF Query
    <3>2. QED
      BY <3>1
  <2>2. reader' = [reader EXCEPT ![r] = stored]
    BY <1>3 DEF Query
  <2> HIDE DEF stored
  <2>3. QED
    BY <1>3, <2>1, <2>2 DEF Query
<1>4. ASSUME NEW r \in Readers, Store(r) PROVE CacheTypeOK'
  BY <1>4 DEF Store
<1>5. ASSUME NEW r \in Readers, EndRead(r) PROVE CacheTypeOK'
  BY <1>5 DEF EndRead
<1>6. ASSUME NEW e \in entries, Expire(e) PROVE CacheTypeOK'
  BY <1>6 DEF Expire
<1>7. ASSUME NEW w \in Writers, Commit(w) PROVE CacheTypeOK'
  BY <1>7 DEF Commit
<1>8. ASSUME NEW w \in Writers, Increment(w) \/ SetVersion(w) PROVE CacheTypeOK'
  BY <1>8 DEF Increment, SetVersion, Announce
<1>9. ASSUME NEW w \in Writers, WriterDies(w) PROVE CacheTypeOK'
  BY <1>9 DEF WriterDies
<1>10. CASE UNCHANGED cacheVars
  BY <1>10 DEF cacheVars
<1> HIDE DEF CacheTypeOK
<1>11. QED
  BY <1>1, <1>2, <1>3, <1>4, <1>5, <1>6, <1>7, <1>8, <1>9, <1>10 DEF CacheNext

\* Every variable of the cache keeps its type; no response is ever looked up
\* or stored without a version.
THEOREM CacheTypeCorrect == CacheSpec => []CacheTypeOK
<1>1. CacheInit => CacheTypeOK
  BY CacheAssumption DEF CacheInit, CacheTypeOK, Resting
<1>2. QED
  BY <1>1, StepCacheTypeOK, PTL DEF CacheSpec

\* Every step keeps reads, entries and pending invalidations in step.
LEMMA StepCacheInv ==
    ASSUME ColdHasOneWriter
    PROVE  CacheInv /\ [CacheNext]_cacheVars => CacheInv'
<1> SUFFICES ASSUME CacheInv, [CacheNext]_cacheVars PROVE CacheInv'
    OBVIOUS
<1>1. CacheTypeOK /\ CacheTypeOK'
  BY StepCacheTypeOK DEF CacheInv
<1> DEFINE Rest == ReadersInv /\ EntriesInv /\ WritersInv /\ AnswersAreFresh
<1> USE <1>1 DEF CacheInv, CacheTypeOK, Reading, Saving, Resting, ReadersInv,
        EntriesInv, WritersInv, AnswersAreFresh, InFlight
<1>2. ASSUME NEW r \in Readers, ReadVersion(r) PROVE Rest'
  BY <1>2 DEF ReadVersion
<1>3. ASSUME NEW r \in Readers, Lookup(r) PROVE Rest'
  BY <1>3 DEF Lookup
<1>4. ASSUME NEW r \in Readers, Query(r) PROVE Rest'
  BY <1>4 DEF Query
<1>5. ASSUME NEW r \in Readers, Store(r) PROVE Rest'
  BY <1>5 DEF Store
<1>6. ASSUME NEW r \in Readers, EndRead(r) PROVE Rest'
  BY <1>6 DEF EndRead
<1>7. ASSUME NEW e \in entries, Expire(e) PROVE Rest'
  BY <1>7 DEF Expire
<1>8. ASSUME NEW w \in Writers, Commit(w) PROVE Rest'
  BY <1>8 DEF Commit
<1>9. ASSUME NEW w \in Writers, Increment(w) \/ SetVersion(w) PROVE Rest'
  <2>1. CASE Increment(w) /\ version # 0
    <3>1. \A v \in Writers : v # w => writer[v].at # "missing"
      BY <2>1 DEF ColdHasOneWriter
    <3>2. QED
      BY <2>1, <3>1 DEF Increment, Announce
  <2>2. CASE Increment(w) /\ version = 0
    BY <2>2 DEF Increment
  <2>3. CASE SetVersion(w)
    <3>1. \A v \in Writers : v = w
      BY <2>3 DEF SetVersion, ColdHasOneWriter
    <3>2. QED
      BY <2>3, <3>1 DEF SetVersion, Announce
  <2>4. QED
    BY <1>9, <2>1, <2>2, <2>3
<1>10. ASSUME NEW w \in Writers, WriterDies(w) PROVE Rest'
  BY <1>10 DEF WriterDies
<1>11. CASE UNCHANGED cacheVars
  BY <1>11 DEF cacheVars
<1> HIDE DEF CacheInv, CacheTypeOK, ReadersInv, EntriesInv, WritersInv, AnswersAreFresh
<1>12. Rest' \/ CacheInv'
  BY <1>2, <1>3, <1>4, <1>5, <1>6, <1>7, <1>8, <1>9, <1>10, <1>11 DEF CacheNext
<1>13. QED
  BY <1>1, <1>12 DEF CacheInv

\* A read that begins after a change was invalidated answers with the change,
\* if the version is in the cache from the start or there is but one writer.
THEOREM ReadsAreFresh ==
    ASSUME ColdHasOneWriter
    PROVE  CacheSpec => []AnswersAreFresh
<1>1. CacheInit => CacheInv
  <2> SUFFICES ASSUME CacheInit PROVE CacheInv
      OBVIOUS
  <2>1. CacheTypeOK
    BY CacheAssumption DEF CacheInit, CacheTypeOK, Resting
  <2>2. QED
    BY <2>1 DEF CacheInit, CacheInv, ReadersInv, EntriesInv, WritersInv,
                AnswersAreFresh, InFlight, Resting
<1>2. CacheInv => AnswersAreFresh
  BY DEF CacheInv
<1>3. QED
  BY <1>1, <1>2, StepCacheInv, PTL DEF CacheSpec

=============================================================================
