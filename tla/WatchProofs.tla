---------------------------- MODULE WatchProofs ----------------------------
(***************************************************************************)
(* Theorems about SignInWatch, for any number of addresses, clients,       *)
(* workers and staff, and any limit.                                       *)
(*                                                                         *)
(* The count of failures alone is not inductive: what bounds it is the     *)
(* failures there are together with the sign-ins that were let through and *)
(* may still fail.  An address and a client are counted alike, so the      *)
(* argument is made once, for the pairs of address and client a count      *)
(* looks at.                                                               *)
(***************************************************************************)
EXTENDS SignInWatch, SequenceTheorems, SumProofs

-----------------------------------------------------------------------------
(* Types *)

\* What a worker is in the middle of.
LEMMA SignInShapes ==
    ASSUME WatchTypeOK, NEW w \in Workers, NEW place, At(w, place)
    PROVE  /\ place = "checked" => /\ signIn[w].email \in Emails
                                   /\ signIn[w].source \in Sources
           /\ place = "recorded" => signIn[w].row \in Attempts
BY DEF WatchTypeOK, At, SignIns

\* The failures after one more.
LEMMA Appended ==
    ASSUME failures \in Seq(Attempts), NEW row \in Attempts,
           failures' = Append(failures, row)
    PROVE  /\ Len(failures) \in Nat
           /\ DOMAIN failures = 1 .. Len(failures)
           /\ failures' \in Seq(Attempts)
           /\ DOMAIN failures' = 1 .. Len(failures) + 1
           /\ \A k \in 1 .. Len(failures) : failures'[k] = failures[k]
           /\ failures'[Len(failures) + 1] = row
BY AppendProperties, LenProperties

\* The failures after the oldest has gone.
LEMMA Shifted ==
    ASSUME failures \in Seq(Attempts), Expire
    PROVE  /\ Len(failures) \in Nat \ {0}
           /\ DOMAIN failures = 1 .. Len(failures)
           /\ failures' \in Seq(Attempts)
           /\ DOMAIN failures' = 1 .. Len(failures) - 1
           /\ \A k \in 1 .. Len(failures) - 1 : failures'[k] = failures[k + 1]
<1>1. failures # <<>> /\ failures' = Tail(failures)
  BY DEF Expire
<1>2. Len(failures) \in Nat \ {0} /\ DOMAIN failures = 1 .. Len(failures)
  BY <1>1, EmptySeq, LenProperties
<1>3. /\ failures' \in Seq(Attempts)
      /\ Len(failures') = Len(failures) - 1
      /\ \A k \in 1 .. Len(failures') : failures'[k] = failures[k + 1]
  BY <1>1, HeadTailProperties
<1>4. DOMAIN failures' = 1 .. Len(failures')
  BY <1>3, LenProperties
<1>5. QED
  BY <1>2, <1>3, <1>4

\* The row of a failure that is recorded.
LEMMA RowOf ==
    ASSUME WatchTypeOK, NEW w \in Workers, RecordFailure(w)
    PROVE  \E row \in Attempts :
             /\ row = [id |-> drawn + 1, email |-> signIn[w].email, source |-> signIn[w].source]
             /\ row.id = drawn + 1
             /\ row.email = signIn[w].email /\ row.source = signIn[w].source
             /\ drawn' = drawn + 1 /\ drawn' \in 0 .. MaxAttempts
             /\ failures' = Append(failures, row)
             /\ signIn' = [signIn EXCEPT ![w] = [at |-> "recorded", row |-> row]]
             /\ UNCHANGED <<event, audits, desk, lost>>
<1> DEFINE row == [id |-> drawn + 1, email |-> signIn[w].email, source |-> signIn[w].source]
<1>1. drawn + 1 \in Ids /\ drawn + 1 \in 0 .. MaxAttempts
  BY WatchAssumption DEF RecordFailure, WatchTypeOK, Ids
<1>2. row \in Attempts
  BY <1>1, SignInShapes DEF RecordFailure, Attempts
<1>3. QED
  BY <1>1, <1>2 DEF RecordFailure

\* Every step keeps the types.
LEMMA StepWatchTypeOK == WatchTypeOK /\ [WatchNext]_watchVars => WatchTypeOK'
<1> SUFFICES ASSUME WatchTypeOK, [WatchNext]_watchVars PROVE WatchTypeOK'
    OBVIOUS
<1>1. ASSUME NEW w \in Workers, NEW e \in Emails, NEW i \in Sources, Submit(w, e, i)
      PROVE  WatchTypeOK'
  <2>1. [at |-> "checked", email |-> e, source |-> i] \in SignIns
    BY DEF SignIns
  <2>2. QED
    BY <1>1, <2>1 DEF Submit, WatchTypeOK
<1>2. ASSUME NEW w \in Workers, RecordFailure(w) PROVE WatchTypeOK'
  <2>1. PICK row \in Attempts :
             /\ drawn' \in 0 .. MaxAttempts
             /\ failures' = Append(failures, row)
             /\ signIn' = [signIn EXCEPT ![w] = [at |-> "recorded", row |-> row]]
             /\ UNCHANGED <<event, audits, desk, lost>>
    BY <1>2, RowOf
  <2>2. [at |-> "recorded", row |-> row] \in SignIns
    BY DEF SignIns
  <2>3. failures' \in Seq(Attempts)
    BY <2>1, Appended DEF WatchTypeOK
  <2>4. QED
    BY <2>1, <2>2, <2>3 DEF WatchTypeOK
<1>3. ASSUME NEW w \in Workers, Succeed(w) PROVE WatchTypeOK'
  BY <1>3 DEF Succeed, WatchTypeOK
<1>4. ASSUME NEW w \in Workers, ReportLock(w) PROVE WatchTypeOK'
  <2>1. event' = event \/ event' = [event EXCEPT ![signIn[w].row.id] = Open]
    BY <1>4 DEF ReportLock
  <2>2. event' \in [Ids -> Staff \cup {None, Open}]
    BY <2>1 DEF WatchTypeOK
  <2>3. QED
    BY <1>4, <2>2 DEF ReportLock, WatchTypeOK
<1>5. ASSUME NEW w \in Workers, Die(w) PROVE WatchTypeOK'
  <2>1. lost' \subseteq Ids
    BY <1>5, SignInShapes DEF Die, WatchTypeOK, Attempts
  <2>2. QED
    BY <1>5, <2>1 DEF Die, WatchTypeOK
<1>6. ASSUME Expire PROVE WatchTypeOK'
  BY <1>6, Shifted DEF Expire, WatchTypeOK
<1>7. ASSUME NEW s \in Staff, NEW chosen \in SUBSET Ids, ReadEvents(s, chosen)
      PROVE  WatchTypeOK'
  BY <1>7 DEF ReadEvents, WatchTypeOK
<1>8. ASSUME NEW s \in Staff, NEW n \in Ids, Resolve(s, n) PROVE WatchTypeOK'
  <2>1. desk' \in [Staff -> SUBSET Ids]
    BY <1>8 DEF Resolve, WatchTypeOK
  <2>2. Append(audits[n], s) \in Seq(Staff)
    BY AppendProperties DEF WatchTypeOK
  <2>3. audits' \in [Ids -> Seq(Staff)] /\ event' \in [Ids -> Staff \cup {None, Open}]
    BY <1>8, <2>2 DEF Resolve, WatchTypeOK
  <2>4. QED
    BY <1>8, <2>1, <2>3 DEF Resolve, WatchTypeOK
<1>9. ASSUME NEW s \in Staff, GiveUp(s) PROVE WatchTypeOK'
  BY <1>9 DEF GiveUp, WatchTypeOK
<1>10. CASE UNCHANGED watchVars
  BY <1>10 DEF watchVars, WatchTypeOK
<1>11. QED
  BY <1>1, <1>2, <1>3, <1>4, <1>5, <1>6, <1>7, <1>8, <1>9, <1>10 DEF WatchNext

\* Every variable keeps its type: in particular a worker only counts again for
\* a row that was recorded, and staff only visit events that exist.
THEOREM WatchTypeCorrect == WatchSpec => []WatchTypeOK
<1>1. WatchInit => WatchTypeOK
  BY WatchAssumption, EmptySeq DEF WatchInit, WatchTypeOK
<1>2. QED
  BY <1>1, StepWatchTypeOK, PTL DEF WatchSpec

-----------------------------------------------------------------------------
(* Events are resolved once *)

\* A failure that is being counted has raised no event yet, and no other worker
\* counts for the same one.
CountingInv ==
    /\ \A n \in Ids : n > drawn => event[n] = None
    /\ \A w \in Workers : At(w, "recorded") =>
         signIn[w].row.id <= drawn /\ event[signIn[w].row.id] = None
    /\ \A v, w \in Workers :
         At(v, "recorded") /\ At(w, "recorded") /\ signIn[v].row.id = signIn[w].row.id => v = w

\* Steps that let workers go and raise no event keep the invariant.
LEMMA FewerCounting ==
    ASSUME CountingInv, drawn' = drawn, event' = event,
           \A w \in Workers : At(w, "recorded")' => At(w, "recorded") /\ signIn'[w] = signIn[w]
    PROVE  CountingInv'
BY DEF CountingInv

\* Every step keeps the invariant.
LEMMA StepCountingInv ==
    WatchTypeOK /\ CountingInv /\ [WatchNext]_watchVars => CountingInv'
<1> SUFFICES ASSUME WatchTypeOK, CountingInv, [WatchNext]_watchVars PROVE CountingInv'
    OBVIOUS
<1>1. /\ signIn \in [Workers -> SignIns \cup {Idle}]
      /\ event \in [Ids -> Staff \cup {None, Open}]
      /\ drawn \in Nat
  BY DEF WatchTypeOK
<1>2. ASSUME NEW w \in Workers, NEW e \in Emails, NEW i \in Sources, Submit(w, e, i)
      PROVE  CountingInv'
  BY <1>1, <1>2, FewerCounting DEF Submit, At
<1>3. ASSUME NEW w \in Workers, RecordFailure(w) PROVE CountingInv'
  <2>1. PICK row \in Attempts :
             /\ row.id = drawn + 1
             /\ drawn' = drawn + 1
             /\ signIn' = [signIn EXCEPT ![w] = [at |-> "recorded", row |-> row]]
             /\ event' = event
    BY <1>3, RowOf
  <2>2. row.id \in Ids /\ event[row.id] = None
    BY <1>1, <2>1 DEF Attempts, CountingInv
  <2>3. \A v \in Workers : v # w => signIn'[v] = signIn[v]
    BY <1>1, <2>1
  <2>4. signIn'[w] = [at |-> "recorded", row |-> row]
    BY <1>1, <2>1
  <2>5. \A v \in Workers : v # w /\ At(v, "recorded")' =>
           /\ At(v, "recorded")
           /\ signIn'[v].row.id <= drawn /\ event[signIn'[v].row.id] = None
           /\ signIn'[v].row.id \in Ids
    <3> SUFFICES ASSUME NEW v \in Workers, v # w, At(v, "recorded")'
                 PROVE  /\ At(v, "recorded")
                        /\ signIn[v].row.id <= drawn /\ event[signIn[v].row.id] = None
                        /\ signIn[v].row.id \in Ids
        BY <2>3
    <3>1. At(v, "recorded")
      BY <2>3 DEF At
    <3>2. QED
      BY <3>1, SignInShapes DEF CountingInv, Attempts
  <2>6. \A n \in Ids : n \in Int
    BY DEF Ids
  <2>7. QED
    BY <1>1, <2>1, <2>2, <2>3, <2>4, <2>5, <2>6 DEF CountingInv, At
<1>4. ASSUME NEW w \in Workers, Succeed(w) \/ Die(w) PROVE CountingInv'
  <2>1. drawn' = drawn /\ event' = event /\ signIn' = [signIn EXCEPT ![w] = Idle]
    BY <1>4 DEF Succeed, Die
  <2>2. QED
    BY <1>1, <2>1, FewerCounting DEF At
<1>5. ASSUME NEW w \in Workers, ReportLock(w) PROVE CountingInv'
  <2>1. signIn' = [signIn EXCEPT ![w] = Idle] /\ drawn' = drawn /\ At(w, "recorded")
    BY <1>5 DEF ReportLock
  <2>2. /\ signIn[w].row.id \in Ids
        /\ event' = event \/ event' = [event EXCEPT ![signIn[w].row.id] = Open]
    BY <1>5, <2>1, SignInShapes DEF ReportLock, Attempts
  <2>3. \A n \in Ids : n # signIn[w].row.id => event'[n] = event[n]
    BY <1>1, <2>2
  <2>4. \A v \in Workers : At(v, "recorded")' =>
           v # w /\ At(v, "recorded") /\ signIn'[v] = signIn[v] /\ signIn[v].row.id \in Ids
    <3> SUFFICES ASSUME NEW v \in Workers, At(v, "recorded")'
                 PROVE  v # w /\ At(v, "recorded") /\ signIn'[v] = signIn[v] /\ signIn[v].row.id \in Ids
        OBVIOUS
    <3>1. v # w /\ signIn'[v] = signIn[v]
      BY <1>1, <2>1 DEF At
    <3>2. At(v, "recorded")
      BY <3>1 DEF At
    <3>3. QED
      BY <3>1, <3>2, SignInShapes DEF Attempts
  <2>5. signIn[w].row.id <= drawn
    BY <2>1 DEF CountingInv
  <2>6. \A n \in Ids : n > drawn => event'[n] = None
    BY <1>1, <2>3, <2>5 DEF CountingInv, Ids
  <2>7. QED
    BY <2>1, <2>3, <2>4, <2>6 DEF CountingInv
<1>6. ASSUME NEW s \in Staff, NEW n \in Ids, Resolve(s, n) PROVE CountingInv'
  <2>1. signIn' = signIn /\ drawn' = drawn
    BY <1>6 DEF Resolve
  <2>2. \A m \in Ids : event[m] = None => event'[m] = None
    BY <1>1, <1>6, WatchAssumption DEF Resolve
  <2>3. \A v \in Workers : At(v, "recorded") => signIn[v].row.id \in Ids
    BY SignInShapes DEF Attempts
  <2>4. QED
    BY <2>1, <2>2, <2>3 DEF CountingInv, At
<1>7. CASE \/ Expire \/ UNCHANGED watchVars
           \/ \E s \in Staff : GiveUp(s) \/ \E chosen \in SUBSET Ids : ReadEvents(s, chosen)
  BY <1>7, FewerCounting DEF Expire, GiveUp, ReadEvents, watchVars, At
<1>8. QED
  BY <1>2, <1>3, <1>4, <1>5, <1>6, <1>7 DEF WatchNext

\* Every step keeps an event's record in step with who resolved it.
LEMMA StepResolvedOnce ==
    WatchTypeOK /\ CountingInv /\ ResolvedOnce /\ [WatchNext]_watchVars => ResolvedOnce'
<1> SUFFICES ASSUME WatchTypeOK, CountingInv, ResolvedOnce, [WatchNext]_watchVars
             PROVE  ResolvedOnce'
    OBVIOUS
<1>1. /\ event \in [Ids -> Staff \cup {None, Open}]
      /\ audits \in [Ids -> Seq(Staff)]
  BY DEF WatchTypeOK
<1>2. ASSUME NEW w \in Workers, RecordFailure(w) PROVE ResolvedOnce'
  BY <1>2, RowOf DEF ResolvedOnce
<1>3. ASSUME NEW w \in Workers, ReportLock(w) PROVE ResolvedOnce'
  <2>1. /\ signIn[w].row.id \in Ids /\ event[signIn[w].row.id] = None
        /\ event' = event \/ event' = [event EXCEPT ![signIn[w].row.id] = Open]
        /\ audits' = audits
    BY <1>3, SignInShapes DEF ReportLock, Attempts, CountingInv
  <2>2. QED
    BY <1>1, <2>1, WatchAssumption DEF ResolvedOnce
<1>4. ASSUME NEW s \in Staff, NEW n \in Ids, Resolve(s, n) PROVE ResolvedOnce'
  <2>1. CASE event[n] = Open
    <3>1. audits[n] = <<>>
      BY <2>1, WatchAssumption DEF ResolvedOnce
    <3>2. Append(<<>>, s) = <<s>>
      OBVIOUS
    <3>3. event' = [event EXCEPT ![n] = s] /\ audits' = [audits EXCEPT ![n] = <<s>>]
      BY <1>4, <2>1, <3>1, <3>2 DEF Resolve
    <3>4. QED
      BY <1>1, <3>3 DEF ResolvedOnce
  <2>2. CASE event[n] # Open
    BY <1>4, <2>2 DEF Resolve, ResolvedOnce
  <2>3. QED
    BY <2>1, <2>2
<1>5. CASE UNCHANGED <<event, audits>>
  BY <1>5 DEF ResolvedOnce
<1>6. QED
  BY <1>2, <1>3, <1>4, <1>5
     DEF WatchNext, Submit, Succeed, Die, Expire, ReadEvents, GiveUp, watchVars

\* A lockout's event is resolved at most once, however many of staff have read
\* it as open, and the record says who did.
THEOREM EventsResolveOnce == WatchSpec => []ResolvedOnce
<1>1. WatchInit => WatchTypeOK /\ CountingInv /\ ResolvedOnce
  BY WatchAssumption, EmptySeq DEF WatchInit, WatchTypeOK, CountingInv, ResolvedOnce, At
<1>2. QED
  BY <1>1, StepWatchTypeOK, StepCountingInv, StepResolvedOnce, PTL DEF WatchSpec

-----------------------------------------------------------------------------
(* Failures are bounded *)

\* The rows, and the sign-ins that may still fail, with one of some pairs of
\* address and client.
RowsOf(M) == {k \in DOMAIN failures : <<failures[k].email, failures[k].source>> \in M}
MayFail(M) ==
    {w \in Workers : At(w, "checked") /\ <<signIn[w].email, signIn[w].source>> \in M}

\* The pairs a count looks at: those of an address, and those of a client.
Watched == {{e} \X Sources : e \in Emails} \cup {Emails \X {i} : i \in Sources}

BoundedInv ==
    \A M \in Watched :
        Cardinality(RowsOf(M)) + Cardinality(MayFail(M)) <= Limit - 1 + Cardinality(Workers)

\* The rows of an address and of a client are those of the pairs with them.
LEMMA RowsOfOne ==
    ASSUME WatchTypeOK
    PROVE  /\ \A e \in Emails : OfEmail(e) = RowsOf({e} \X Sources)
           /\ \A i \in Sources : OfSource(i) = RowsOf(Emails \X {i})
<1>1. \A k \in DOMAIN failures : failures[k].email \in Emails /\ failures[k].source \in Sources
  <2>1. \A k \in DOMAIN failures : failures[k] \in Attempts
    BY LenProperties DEF WatchTypeOK
  <2>2. QED
    BY <2>1 DEF Attempts
<1>2. QED
  BY <1>1 DEF OfEmail, OfSource, RowsOf

\* There are finitely many rows and workers to count.
LEMMA CountsAreNumbers ==
    ASSUME WatchTypeOK, NEW M
    PROVE  /\ IsFiniteSet(DOMAIN failures)
           /\ IsFiniteSet(RowsOf(M)) /\ Cardinality(RowsOf(M)) \in Nat
           /\ IsFiniteSet(MayFail(M)) /\ Cardinality(MayFail(M)) \in Nat
           /\ Cardinality(MayFail(M)) <= Cardinality(Workers)
           /\ Cardinality(Workers) \in Nat
<1>1. Len(failures) \in Nat /\ DOMAIN failures = 1 .. Len(failures)
  BY LenProperties DEF WatchTypeOK
<1>2. IsFiniteSet(1 .. Len(failures))
  BY <1>1, FS_Interval
<1>3. RowsOf(M) \in SUBSET (1 .. Len(failures)) /\ MayFail(M) \in SUBSET Workers
  BY <1>1 DEF RowsOf, MayFail
<1>4. QED
  BY <1>1, <1>2, <1>3, FS_Subset, FS_CardinalityType, WatchAssumption

\* Who is let through belongs to a count that is below the limit.
LEMMA LetThroughBelowLimit ==
    ASSUME WatchTypeOK, NEW e \in Emails, NEW i \in Sources, ~Locked(e, i),
           NEW M \in Watched, <<e, i>> \in M
    PROVE  Cardinality(RowsOf(M)) <= Limit - 1
<1> DEFINE both == OfEmail(e) \cup OfSource(i)
<1>1. RowsOf(M) \in SUBSET both
  <2>1. M = {e} \X Sources \/ M = Emails \X {i}
    BY DEF Watched
  <2>2. QED
    BY <2>1, RowsOfOne
<1>2. both \in SUBSET (DOMAIN failures) /\ IsFiniteSet(DOMAIN failures)
  BY CountsAreNumbers DEF OfEmail, OfSource
<1>3. Cardinality(RowsOf(M)) <= Cardinality(both) /\ Cardinality(both) \in Nat
  BY <1>1, <1>2, FS_Subset, FS_CardinalityType
<1>4. Cardinality(both) < Limit
  BY <1>3, WatchAssumption DEF Locked
<1>5. QED
  BY <1>3, <1>4, CountsAreNumbers, WatchAssumption

\* Steps with fewer rows and fewer sign-ins keep the bound.
LEMMA FewerKeepBound ==
    ASSUME WatchTypeOK, BoundedInv, NEW M \in Watched,
           NEW rows, NEW waiting, IsFiniteSet(rows), IsFiniteSet(waiting),
           Cardinality(rows) <= Cardinality(RowsOf(M)), waiting \subseteq MayFail(M)
    PROVE  Cardinality(rows) + Cardinality(waiting) <= Limit - 1 + Cardinality(Workers)
<1>1. Cardinality(waiting) <= Cardinality(MayFail(M))
  BY CountsAreNumbers, FS_Subset
<1>2. /\ Cardinality(rows) \in Nat /\ Cardinality(waiting) \in Nat
      /\ Cardinality(RowsOf(M)) \in Nat /\ Cardinality(MayFail(M)) \in Nat
      /\ Cardinality(Workers) \in Nat
  BY CountsAreNumbers, FS_CardinalityType
<1>3. Cardinality(RowsOf(M)) + Cardinality(MayFail(M)) <= Limit - 1 + Cardinality(Workers)
  BY DEF BoundedInv
<1>4. QED
  BY <1>1, <1>2, <1>3, WatchAssumption

\* One row fewer, the rest shifted: no count grows when a failure expires.
LEMMA ExpireShrinks ==
    ASSUME WatchTypeOK, Expire, NEW M
    PROVE  /\ \A k \in RowsOf(M)' : k \in Nat /\ k + 1 \in RowsOf(M) /\ failures'[k] = failures[k + 1]
           /\ \A k \in RowsOf(M) : k # 1 => k - 1 \in RowsOf(M)'
           /\ IsFiniteSet(RowsOf(M)')
           /\ Cardinality(RowsOf(M)') <= Cardinality(RowsOf(M))
<1>1. /\ Len(failures) \in Nat \ {0}
      /\ DOMAIN failures = 1 .. Len(failures)
      /\ DOMAIN failures' = 1 .. Len(failures) - 1
      /\ \A k \in 1 .. Len(failures) - 1 : failures'[k] = failures[k + 1]
  BY Shifted DEF WatchTypeOK
<1>2. \A k \in RowsOf(M)' : k \in Nat /\ k + 1 \in RowsOf(M) /\ failures'[k] = failures[k + 1]
  BY <1>1 DEF RowsOf
<1>3. \A k \in RowsOf(M) : k # 1 => k - 1 \in RowsOf(M)'
  <2> SUFFICES ASSUME NEW k \in RowsOf(M), k # 1 PROVE k - 1 \in RowsOf(M)'
      OBVIOUS
  <2>1. k \in 2 .. Len(failures) /\ k - 1 \in 1 .. Len(failures) - 1
    BY <1>1 DEF RowsOf
  <2>2. failures'[k - 1] = failures[k]
    BY <1>1, <2>1
  <2>3. QED
    BY <1>1, <2>1, <2>2 DEF RowsOf
<1> DEFINE shift == [k \in RowsOf(M)' |-> k + 1]
<1>4. shift \in Injection(RowsOf(M)', RowsOf(M))
  BY <1>2 DEF Injection, IsInjective
<1>5. QED
  BY <1>2, <1>3, <1>4, CountsAreNumbers, FS_Injection

\* Every step keeps the bound.
LEMMA StepBoundedInv ==
    WatchTypeOK /\ BoundedInv /\ [WatchNext]_watchVars => BoundedInv'
<1> SUFFICES ASSUME WatchTypeOK, BoundedInv, [WatchNext]_watchVars, NEW M \in Watched
             PROVE  Cardinality(RowsOf(M)') + Cardinality(MayFail(M)')
                      <= Limit - 1 + Cardinality(Workers)
    BY DEF BoundedInv, Watched
<1> DEFINE rows == RowsOf(M)'
<1> DEFINE waiting == MayFail(M)'
<1> DEFINE Goal == Cardinality(rows) + Cardinality(waiting) <= Limit - 1 + Cardinality(Workers)
<1>1. signIn \in [Workers -> SignIns \cup {Idle}]
  BY DEF WatchTypeOK
<1>2. waiting \in SUBSET Workers /\ IsFiniteSet(waiting) /\ Cardinality(waiting) \in Nat
      /\ Cardinality(waiting) <= Cardinality(Workers) /\ Cardinality(Workers) \in Nat
  <2>1. waiting \in SUBSET Workers
    BY DEF MayFail
  <2>2. QED
    BY <2>1, FS_Subset, FS_CardinalityType, WatchAssumption
<1>3. ASSUME failures' = failures PROVE rows = RowsOf(M)
  BY <1>3 DEF RowsOf
<1>4. ASSUME NEW w \in Workers, NEW e \in Emails, NEW i \in Sources, Submit(w, e, i)
      PROVE  Goal
  <2>1. failures' = failures /\ ~Locked(e, i)
        /\ signIn' = [signIn EXCEPT ![w] = [at |-> "checked", email |-> e, source |-> i]]
    BY <1>4 DEF Submit
  <2>2. CASE <<e, i>> \in M
    <3>1. Cardinality(rows) <= Limit - 1
      BY <1>3, <2>1, <2>2, LetThroughBelowLimit
    <3>2. Cardinality(rows) \in Nat
      BY <1>3, <2>1, CountsAreNumbers
    <3> HIDE DEF rows, waiting
    <3>3. QED
      BY <1>2, <3>1, <3>2, WatchAssumption
  <2>3. CASE <<e, i>> \notin M
    <3>1. waiting \subseteq MayFail(M)
      BY <1>1, <2>1, <2>3 DEF MayFail, At
    <3>2. rows = RowsOf(M) /\ IsFiniteSet(rows) /\ Cardinality(rows) <= Cardinality(RowsOf(M))
      BY <1>3, <2>1, CountsAreNumbers
    <3> HIDE DEF rows, waiting
    <3>3. QED
      BY <1>2, <3>1, <3>2, FewerKeepBound
  <2>4. QED
    BY <2>2, <2>3
<1>5. ASSUME NEW w \in Workers, RecordFailure(w) PROVE Goal
  <2>1. PICK row \in Attempts :
             /\ row.email = signIn[w].email /\ row.source = signIn[w].source
             /\ failures' = Append(failures, row)
             /\ signIn' = [signIn EXCEPT ![w] = [at |-> "recorded", row |-> row]]
    BY <1>5, RowOf
  <2> DEFINE pair == <<signIn[w].email, signIn[w].source>>
  <2> DEFINE last == Len(failures) + 1
  <2>2. /\ Len(failures) \in Nat
        /\ DOMAIN failures = 1 .. Len(failures)
        /\ DOMAIN failures' = 1 .. last
        /\ \A k \in 1 .. Len(failures) : failures'[k] = failures[k]
        /\ failures'[last] = row
    BY <2>1, Appended DEF WatchTypeOK
  <2>3. /\ \A k \in 1 .. Len(failures) : k \in rows <=> k \in RowsOf(M)
        /\ last \in rows <=> pair \in M
        /\ rows \subseteq 1 .. last /\ RowsOf(M) \subseteq 1 .. Len(failures)
        /\ last \notin 1 .. Len(failures) /\ 1 .. last = (1 .. Len(failures)) \cup {last}
    <3>1. last \in 1 .. last /\ 1 .. Len(failures) \subseteq 1 .. last
      BY <2>2
    <3>2. /\ rows \subseteq 1 .. last /\ RowsOf(M) \subseteq 1 .. Len(failures)
          /\ last \notin 1 .. Len(failures) /\ 1 .. last = (1 .. Len(failures)) \cup {last}
      BY <2>2 DEF RowsOf
    <3>3. last \in rows <=> pair \in M
      BY <2>1, <2>2, <3>1 DEF RowsOf
    <3>4. \A k \in 1 .. Len(failures) : k \in rows <=> k \in RowsOf(M)
      BY <2>2, <3>1 DEF RowsOf
    <3>5. QED
      BY <3>2, <3>3, <3>4
  <2>4. waiting = MayFail(M) \ {w}
    BY <1>1, <2>1 DEF MayFail, At
  <2>5. CASE pair \in M
    <3>1. rows = RowsOf(M) \cup {last} /\ last \notin RowsOf(M)
      BY <2>5, <2>3
    <3>2. Cardinality(rows) = Cardinality(RowsOf(M)) + 1
      BY <3>1, CountsAreNumbers, FS_AddElement
    <3>3. w \in MayFail(M)
      BY <1>5, <2>5 DEF MayFail, RecordFailure
    <3>4. Cardinality(waiting) = Cardinality(MayFail(M)) - 1
      BY <2>4, <3>3, CountsAreNumbers, FS_RemoveElement
    <3>5. Cardinality(RowsOf(M)) + Cardinality(MayFail(M)) <= Limit - 1 + Cardinality(Workers)
      BY DEF BoundedInv
    <3>6. QED
      BY <3>2, <3>4, <3>5, CountsAreNumbers, WatchAssumption
  <2>6. CASE pair \notin M
    <3>1. rows = RowsOf(M)
      BY <2>6, <2>3
    <3>2. IsFiniteSet(rows) /\ Cardinality(rows) <= Cardinality(RowsOf(M))
      BY <3>1, CountsAreNumbers
    <3>3. waiting \subseteq MayFail(M)
      BY <2>4
    <3> HIDE DEF rows, waiting
    <3>4. QED
      BY <1>2, <3>2, <3>3, FewerKeepBound
  <2>7. QED
    BY <2>5, <2>6
<1>6. ASSUME failures' = failures,
             \A w \in Workers : At(w, "checked")' => At(w, "checked") /\ signIn'[w] = signIn[w]
      PROVE  Goal
  <2>1. waiting \subseteq MayFail(M)
    BY <1>6 DEF MayFail
  <2>2. IsFiniteSet(rows) /\ Cardinality(rows) <= Cardinality(RowsOf(M))
    BY <1>3, <1>6, CountsAreNumbers
  <2> HIDE DEF rows, waiting
  <2>3. QED
    BY <1>2, <2>1, <2>2, FewerKeepBound
<1>7. ASSUME NEW w \in Workers, Succeed(w) \/ ReportLock(w) \/ Die(w) PROVE Goal
  <2>1. failures' = failures /\ signIn' = [signIn EXCEPT ![w] = Idle]
    BY <1>7 DEF Succeed, ReportLock, Die
  <2>2. \A v \in Workers : At(v, "checked")' => At(v, "checked") /\ signIn'[v] = signIn[v]
    BY <1>1, <2>1 DEF At
  <2>3. QED
    BY <1>6, <2>1, <2>2
<1>8. ASSUME Expire PROVE Goal
  <2>1. waiting \subseteq MayFail(M)
    BY <1>8 DEF Expire, MayFail, At
  <2>2. IsFiniteSet(rows) /\ Cardinality(rows) <= Cardinality(RowsOf(M))
    BY <1>8, ExpireShrinks
  <2> HIDE DEF rows, waiting
  <2>3. QED
    BY <1>2, <2>1, <2>2, FewerKeepBound
<1>9. ASSUME UNCHANGED <<failures, signIn>> PROVE Goal
  BY <1>6, <1>9 DEF At
<1>10. QED
  BY <1>4, <1>5, <1>7, <1>8, <1>9
     DEF WatchNext, ReadEvents, Resolve, GiveUp, watchVars

\* However many workers check at the same time, an address or a client fails
\* within a window at most once per further worker beyond the limit.
THEOREM FailuresStayBounded == WatchSpec => []FailuresBounded
<1>1. WatchInit => WatchTypeOK /\ BoundedInv
  <2> SUFFICES ASSUME WatchInit PROVE WatchTypeOK /\ BoundedInv
      OBVIOUS
  <2>1. WatchTypeOK
    BY WatchAssumption, EmptySeq DEF WatchInit, WatchTypeOK
  <2>2. \A M : RowsOf(M) = {} /\ MayFail(M) = {}
    BY DEF WatchInit, RowsOf, MayFail, At
  <2>3. Cardinality({}) = 0 /\ Cardinality(Workers) \in Nat
    BY FS_EmptySet, FS_CardinalityType, WatchAssumption
  <2>4. QED
    BY <2>1, <2>2, <2>3, WatchAssumption DEF BoundedInv
<1>2. WatchTypeOK /\ BoundedInv => FailuresBounded
  <2> SUFFICES ASSUME WatchTypeOK, BoundedInv PROVE FailuresBounded
      OBVIOUS
  <2>1. \A M \in Watched : Cardinality(RowsOf(M)) <= Limit - 1 + Cardinality(Workers)
    <3> SUFFICES ASSUME NEW M \in Watched
                 PROVE  Cardinality(RowsOf(M)) <= Limit - 1 + Cardinality(Workers)
        OBVIOUS
    <3>1. Cardinality(RowsOf(M)) + Cardinality(MayFail(M)) <= Limit - 1 + Cardinality(Workers)
      BY DEF BoundedInv
    <3>2. QED
      BY <3>1, CountsAreNumbers, WatchAssumption
  <2>2. QED
    BY <2>1, RowsOfOne DEF FailuresBounded, Watched
<1>3. QED
  BY <1>1, <1>2, StepWatchTypeOK, StepBoundedInv, PTL DEF WatchSpec

-----------------------------------------------------------------------------
(* Lockouts are reported *)

\* A finite set of integers that is not empty has a largest member.
LEMMA LargestExists ==
    ASSUME NEW R, IsFiniteSet(R), R # {}, \A k \in R : k \in Int
    PROVE  \E k \in R : \A j \in R : j <= k
<1> DEFINE later(k) == {j \in R : j > k}
<1> DEFINE B == {later(k) : k \in R}
<1>1. B \in SUBSET SUBSET R /\ B # {}
  OBVIOUS
<1>2. PICK T \in B : \A U \in B : U \subseteq T => U = T
  <2> HIDE DEF B
  <2> QED
    BY <1>1, SmallestSubset
<1>3. PICK k \in R : T = later(k)
  BY <1>2
<1>4. ASSUME NEW j \in R, j > k PROVE FALSE
  <2>1. later(j) \in B /\ j \in later(k) /\ j \notin later(j)
    BY <1>4
  <2>2. \A i \in R : i > j => i > k
    BY <1>4
  <2>3. later(j) \subseteq later(k)
    BY <2>2
  <2>4. QED
    BY <1>2, <1>3, <2>1, <2>3
<1>5. QED
  BY <1>4

\* A set of row numbers that is not empty has one latest member.
LEMMA LatestIs ==
    ASSUME NEW n \in Nat, NEW rows \in SUBSET (1 .. n), rows # {}
    PROVE  /\ Latest(rows) \in rows
           /\ \A j \in rows : j <= Latest(rows)
           /\ \A k \in rows : (\A j \in rows : j <= k) => k = Latest(rows)
<1>1. \A k \in rows : k \in Int
  OBVIOUS
<1>2. IsFiniteSet(rows)
  <2>1. IsFiniteSet(1 .. n)
    BY FS_Interval
  <2>2. QED
    BY <2>1, FS_Subset
<1>3. \E k \in rows : \A j \in rows : j <= k
  BY <1>1, <1>2, LargestExists
<1>4. Latest(rows) \in rows /\ \A j \in rows : j <= Latest(rows)
  BY <1>3 DEF Latest
<1>5. ASSUME NEW k \in rows, \A j \in rows : j <= k PROVE k = Latest(rows)
  <2>1. k <= Latest(rows) /\ Latest(rows) <= k /\ Latest(rows) \in Int
    BY <1>1, <1>4, <1>5
  <2>2. QED
    BY <1>1, <2>1
<1>6. QED
  BY <1>4, <1>5

\* What the report of a row comes to.
ReportedRow(row) ==
    \/ event[row.id] # None
    \/ row.id \in lost
    \/ \E w \in Workers : At(w, "recorded") /\ signIn[w].row = row

LatestReported ==
    \A M \in Watched : Cardinality(RowsOf(M)) >= Limit => ReportedRow(failures[Latest(RowsOf(M))])

\* The lockout of an address or a client looks at the latest row with it.
LEMMA LatestReportedIs ==
    ASSUME WatchTypeOK PROVE LatestReported <=> LocksAreReported
BY RowsOfOne DEF LatestReported, LocksAreReported, Reported, ReportedRow, Watched

\* The latest of enough rows is one of them.
LEMMA LatestRow ==
    ASSUME WatchTypeOK, NEW M, Cardinality(RowsOf(M)) >= Limit
    PROVE  /\ RowsOf(M) \in SUBSET (1 .. Len(failures)) /\ Len(failures) \in Nat
           /\ RowsOf(M) # {}
           /\ Latest(RowsOf(M)) \in RowsOf(M)
           /\ \A j \in RowsOf(M) : j <= Latest(RowsOf(M))
           /\ failures[Latest(RowsOf(M))] \in Attempts
<1>1. Len(failures) \in Nat /\ DOMAIN failures = 1 .. Len(failures)
      /\ failures \in [1 .. Len(failures) -> Attempts]
  BY LenProperties DEF WatchTypeOK
<1>2. RowsOf(M) \in SUBSET (1 .. Len(failures))
  BY <1>1 DEF RowsOf
<1>3. RowsOf(M) # {}
  BY FS_EmptySet, WatchAssumption
<1>4. QED
  BY <1>1, <1>2, <1>3, LatestIs

\* A worker that counts for the latest of enough rows finds the lock.
LEMMA CountFindsLock ==
    ASSUME WatchTypeOK, NEW M \in Watched, Cardinality(RowsOf(M)) >= Limit,
           NEW k \in RowsOf(M), failures[k] \in Attempts
    PROVE  Locked(failures[k].email, failures[k].source)
<1> DEFINE e == failures[k].email
<1> DEFINE i == failures[k].source
<1> DEFINE both == OfEmail(e) \cup OfSource(i)
<1>1. e \in Emails /\ i \in Sources /\ <<e, i>> \in M
  BY DEF Attempts, RowsOf
<1>2. RowsOf(M) \in SUBSET both
  <2>1. M = {e} \X Sources \/ M = Emails \X {i}
    BY <1>1 DEF Watched
  <2> HIDE DEF e, i
  <2>2. QED
    BY <1>1, <2>1, RowsOfOne
<1>3. both \in SUBSET (DOMAIN failures) /\ IsFiniteSet(DOMAIN failures)
  BY CountsAreNumbers DEF OfEmail, OfSource
<1>4. Cardinality(RowsOf(M)) <= Cardinality(both) /\ Cardinality(both) \in Nat
  BY <1>2, <1>3, FS_Subset, FS_CardinalityType
<1>5. Cardinality(RowsOf(M)) \in Nat
  BY CountsAreNumbers
<1>6. QED
  BY <1>4, <1>5, WatchAssumption DEF Locked

\* What is reported of a row stays so, whichever row is looked at.
LEMMA ReportsStay ==
    ASSUME WatchTypeOK, [WatchNext]_watchVars, NEW row \in Attempts, ReportedRow(row),
           \A w \in Workers : At(w, "recorded") /\ signIn[w].row = row /\ ReportLock(w) =>
               Locked(row.email, row.source)
    PROVE  ReportedRow(row)'
<1>1. /\ event \in [Ids -> Staff \cup {None, Open}]
      /\ signIn \in [Workers -> SignIns \cup {Idle}]
      /\ row.id \in Ids
  BY DEF WatchTypeOK, Attempts
<1>2. CASE event[row.id] # None
  <2>1. event'[row.id] # None
    BY <1>1, <1>2, WatchAssumption
       DEF WatchNext, Submit, RecordFailure, Succeed, ReportLock, Die, Expire,
           ReadEvents, Resolve, GiveUp, watchVars
  <2>2. QED
    BY <2>1 DEF ReportedRow
<1>3. CASE row.id \in lost
  <2>1. row.id \in lost'
    BY <1>3 DEF WatchNext, Submit, RecordFailure, Succeed, ReportLock, Die, Expire,
                ReadEvents, Resolve, GiveUp, watchVars
  <2>2. QED
    BY <2>1 DEF ReportedRow
<1>4. ASSUME NEW w \in Workers, At(w, "recorded"), signIn[w].row = row PROVE ReportedRow(row)'
  <2>1. CASE signIn'[w] = signIn[w]
    BY <1>4, <2>1 DEF ReportedRow, At
  <2>2. CASE ReportLock(w)
    <3>1. event' = [event EXCEPT ![row.id] = Open]
      BY <1>4, <2>2 DEF ReportLock
    <3>2. QED
      BY <1>1, <3>1, WatchAssumption DEF ReportedRow
  <2>3. CASE Die(w)
    BY <1>4, <2>3 DEF Die, ReportedRow
  <2>4. ASSUME NEW v \in Workers, v # w,
               \/ \E e \in Emails, i \in Sources : Submit(v, e, i)
               \/ RecordFailure(v) \/ Succeed(v) \/ ReportLock(v) \/ Die(v)
        PROVE  signIn'[w] = signIn[w]
    BY <1>1, <2>4 DEF Submit, RecordFailure, Succeed, ReportLock, Die
  <2>5. ASSUME \/ \E e \in Emails, i \in Sources : Submit(w, e, i)
               \/ RecordFailure(w) \/ Succeed(w)
        PROVE  FALSE
    BY <1>4, <2>5 DEF Submit, RecordFailure, Succeed, At
  <2>6. QED
    BY <2>1, <2>2, <2>3, <2>4, <2>5
       DEF WatchNext, Expire, ReadEvents, Resolve, GiveUp, watchVars
<1>5. QED
  BY <1>2, <1>3, <1>4 DEF ReportedRow

\* Every step keeps the latest failures reported.
LEMMA StepLatestReported ==
    WatchTypeOK /\ WatchTypeOK' /\ LatestReported /\ [WatchNext]_watchVars => LatestReported'
<1> SUFFICES ASSUME WatchTypeOK, WatchTypeOK', LatestReported, [WatchNext]_watchVars,
                    NEW M \in Watched, Cardinality(RowsOf(M)') >= Limit
             PROVE  ReportedRow(failures[Latest(RowsOf(M))])'
    BY DEF LatestReported, Watched
\* The latest row is one that was there: it was reported, and stays so.
<1>1. ASSUME Cardinality(RowsOf(M)) >= Limit,
             failures'[Latest(RowsOf(M)')] = failures[Latest(RowsOf(M))]
      PROVE  ReportedRow(failures[Latest(RowsOf(M))])'
  <2> DEFINE row == failures[Latest(RowsOf(M))]
  <2>1. ReportedRow(row) /\ row \in Attempts
    BY <1>1, LatestRow DEF LatestReported
  <2>2. Locked(row.email, row.source)
    BY <1>1, LatestRow, CountFindsLock
  <2>3. ASSUME NEW r \in Attempts, ReportedRow(r), Locked(r.email, r.source)
        PROVE  ReportedRow(r)'
    BY <2>3, ReportsStay
  <2>4. ASSUME NEW r \in Attempts, r = row PROVE ReportedRow(r)'
    BY <2>1, <2>2, <2>3, <2>4
  <2>5. PICK r \in Attempts : r = row
    BY <2>1
  <2>6. failures'[Latest(RowsOf(M)')] = r
    BY <1>1, <2>5
  <2>7. QED
    BY <2>4, <2>5, <2>6 DEF ReportedRow
<1>2. ASSUME failures' = failures PROVE ReportedRow(failures[Latest(RowsOf(M))])'
  <2>1. RowsOf(M)' = RowsOf(M)
    BY <1>2 DEF RowsOf
  <2>2. QED
    BY <1>1, <1>2, <2>1
<1>3. ASSUME Expire PROVE ReportedRow(failures[Latest(RowsOf(M))])'
  <2> DEFINE after == RowsOf(M)'
  <2>1. /\ \A k \in after : k \in Nat /\ k + 1 \in RowsOf(M) /\ failures'[k] = failures[k + 1]
        /\ \A k \in RowsOf(M) : k # 1 => k - 1 \in after
        /\ IsFiniteSet(after) /\ Cardinality(after) <= Cardinality(RowsOf(M))
    BY <1>3, ExpireShrinks
  <2>2. Cardinality(RowsOf(M)) >= Limit
    <3>1. Cardinality(after) \in Nat /\ Cardinality(RowsOf(M)) \in Nat
      BY <2>1, FS_CardinalityType, CountsAreNumbers
    <3> HIDE DEF after
    <3>2. Cardinality(after) >= Limit
      BY DEF after
    <3>3. QED
      BY <2>1, <3>1, <3>2, WatchAssumption
  <2>3. after # {}
    BY FS_EmptySet, WatchAssumption
  <2> DEFINE top == Latest(RowsOf(M))
  <2>4. /\ RowsOf(M) \in SUBSET (1 .. Len(failures)) /\ Len(failures) \in Nat
        /\ top \in RowsOf(M) /\ \A j \in RowsOf(M) : j <= top
    BY <2>2, LatestRow
  <2> HIDE DEF after, top
  <2>5. top - 1 \in after /\ \A k \in after : k <= top - 1
    <3>1. PICK k \in after : TRUE
      BY <2>3
    <3>2. k \in Nat /\ k + 1 <= top /\ k + 1 >= 1 /\ top \in Nat
      BY <2>1, <2>4
    <3>3. k # 0
      <4>1. k \in 1 .. Len(failures')
        BY LenProperties DEF after, RowsOf, WatchTypeOK
      <4>2. QED
        BY <4>1
    <3>4. top # 1
      BY <3>2, <3>3
    <3>5. \A j \in after : j <= top - 1
      <4> SUFFICES ASSUME NEW j \in after PROVE j <= top - 1
          OBVIOUS
      <4>1. j \in Nat /\ j + 1 <= top
        BY <2>1, <2>4
      <4>2. QED
        BY <3>2, <4>1
    <3>6. QED
      BY <2>1, <2>4, <3>4, <3>5
  <2>6. after \in SUBSET (1 .. Len(failures'))  /\ Len(failures') \in Nat
    BY LenProperties DEF after, RowsOf, WatchTypeOK
  <2>7. Latest(after) = top - 1
    BY <2>3, <2>5, <2>6, LatestIs
  <2>8. failures'[top - 1] = failures[top]
    <3>1. failures'[top - 1] = failures[(top - 1) + 1] /\ top \in Int
      BY <2>1, <2>4, <2>5
    <3>2. QED
      BY <3>1
  <2>9. QED
    BY <1>1, <2>2, <2>7, <2>8 DEF after, top
<1>4. ASSUME NEW w \in Workers, RecordFailure(w)
      PROVE  ReportedRow(failures[Latest(RowsOf(M))])'
  <2>1. PICK row \in Attempts :
             /\ row.email = signIn[w].email /\ row.source = signIn[w].source
             /\ failures' = Append(failures, row)
             /\ signIn' = [signIn EXCEPT ![w] = [at |-> "recorded", row |-> row]]
    BY <1>4, RowOf
  <2> DEFINE last == Len(failures) + 1
  <2>2. /\ Len(failures) \in Nat
        /\ DOMAIN failures = 1 .. Len(failures)
        /\ DOMAIN failures' = 1 .. last
        /\ \A k \in 1 .. Len(failures) : failures'[k] = failures[k]
        /\ failures'[last] = row
    BY <2>1, Appended DEF WatchTypeOK
  <2>3. RowsOf(M)' \in SUBSET (1 .. last) /\ last \in Nat
    BY <2>2 DEF RowsOf
  <2>4. CASE last \in RowsOf(M)'
    <3>1. Latest(RowsOf(M)') = last
      <4>1. \A j \in RowsOf(M)' : j <= last
        BY <2>3
      <4>2. QED
        BY <2>3, <2>4, <4>1, LatestIs
    <3>2. signIn'[w] = [at |-> "recorded", row |-> row]
      BY <2>1 DEF WatchTypeOK
    <3>3. At(w, "recorded")' /\ signIn'[w].row = row
      <4>1. [at |-> "recorded", row |-> row] \in SignIns
        BY DEF SignIns
      <4>2. QED
        BY <3>2, <4>1, WatchAssumption DEF At
    <3>4. QED
      BY <2>2, <3>1, <3>3 DEF ReportedRow
  <2>5. CASE last \notin RowsOf(M)'
    <3>1. RowsOf(M)' \in SUBSET (1 .. Len(failures))
      BY <2>2, <2>3, <2>5
    <3>2. RowsOf(M)' = RowsOf(M)
      BY <2>2, <3>1 DEF RowsOf
    <3>3. Cardinality(RowsOf(M)) >= Limit
      BY <3>2
    <3>4. failures'[Latest(RowsOf(M))] = failures[Latest(RowsOf(M))]
      BY <2>2, <3>3, LatestRow
    <3>5. QED
      BY <1>1, <3>2, <3>3, <3>4
  <2>6. QED
    BY <2>4, <2>5
<1>5. QED
  BY <1>2, <1>3, <1>4
     DEF WatchNext, Submit, Succeed, ReportLock, Die, ReadEvents, Resolve, GiveUp, watchVars

\* Every lockout raises an event: no interleaving of the counts of several
\* workers misses the failure that reached the limit, only a crash does.
THEOREM LockoutsAreReported == WatchSpec => []LocksAreReported
<1>1. WatchInit => WatchTypeOK /\ LatestReported
  <2> SUFFICES ASSUME WatchInit PROVE WatchTypeOK /\ LatestReported
      OBVIOUS
  <2>1. WatchTypeOK
    BY WatchAssumption, EmptySeq DEF WatchInit, WatchTypeOK
  <2>2. \A M : RowsOf(M) = {}
    BY DEF WatchInit, RowsOf
  <2>3. QED
    BY <2>1, <2>2, FS_EmptySet, WatchAssumption DEF LatestReported
<1>2. WatchTypeOK /\ LatestReported => LocksAreReported
  BY LatestReportedIs
<1>3. QED
  BY <1>1, <1>2, StepWatchTypeOK, StepLatestReported, PTL DEF WatchSpec

=============================================================================
