---------------------------- MODULE SignInWatch ----------------------------
(***************************************************************************)
(* The lock on repeated failed sign-ins (apps/accounts/services.py) and    *)
(* the security events it raises, until staff resolve them (apps/security).*)
(*                                                                         *)
(* The sign-in form, the second factor's form and the token endpoint count *)
(* the recent failures, decide on the answer, record a failure and count   *)
(* again: three statements, and other workers come between them.  Who      *)
(* signs in with what, and what a success opens, is in AccountLife.        *)
(***************************************************************************)
EXTENDS Integers, Sequences, FiniteSets

CONSTANTS
    Emails,         \* addresses typed in the forms, with an account or without
    Sources,        \* client addresses
    Workers,        \* web workers
    Staff,          \* who may resolve events, each with one request at a time
    Limit,          \* LOGIN_FAILURE_LIMIT
    MaxAttempts,    \* failures ever recorded; a bound of the model
    Idle,           \* a worker without a request
    None, Open      \* no event, and an event nobody has resolved

VARIABLES
    failures,       \* failed LoginAttempt rows younger than LOGIN_LOCKOUT_SECONDS, oldest first
    drawn,          \* failures recorded so far; numbers the rows
    signIn,         \* the sign-in each worker is in the middle of
    event,          \* the SecurityEvent a failure has raised, by its number
    audits,         \* who is on record as having resolved it, oldest first
    desk,           \* the open events a staff request has read and not yet visited
    lost            \* history: failures whose worker died before it counted

watchVars == <<failures, drawn, signIn, event, audits, desk, lost>>

Ids == 1 .. MaxAttempts

Attempts == [id : Ids, email : Emails, source : Sources]
SignIns == [at : {"checked"}, email : Emails, source : Sources]
              \cup [at : {"recorded"}, row : Attempts]

ASSUME WatchAssumption ==
    /\ Limit \in Nat \ {0} /\ MaxAttempts \in Nat
    /\ None \notin Staff /\ Open \notin Staff /\ None # Open
    /\ IsFiniteSet(Workers)
    /\ Idle \notin SignIns

WatchTypeOK ==
    /\ failures \in Seq(Attempts)
    /\ drawn \in 0 .. MaxAttempts
    /\ signIn \in [Workers -> SignIns \cup {Idle}]
    /\ event \in [Ids -> Staff \cup {None, Open}]
    /\ audits \in [Ids -> Seq(Staff)]
    /\ desk \in [Staff -> SUBSET Ids]
    /\ lost \subseteq Ids

WatchInit ==
    /\ failures = <<>>
    /\ drawn = 0
    /\ signIn = [w \in Workers |-> Idle]
    /\ event = [n \in Ids |-> None]
    /\ audits = [n \in Ids |-> <<>>]
    /\ desk = [s \in Staff |-> {}]
    /\ lost = {}

OfEmail(e) == {k \in DOMAIN failures : failures[k].email = e}
OfSource(i) == {k \in DOMAIN failures : failures[k].source = i}

\* login_is_locked: failures of the address or from the client, counted together.
Locked(e, i) == Cardinality(OfEmail(e) \cup OfSource(i)) >= Limit

At(w, place) == signIn[w] # Idle /\ signIn[w].at = place

-----------------------------------------------------------------------------
(* Signing in *)

\* Faulty variant: a form without the check.
SubmitUnchecked(w, e, i) ==
    /\ signIn[w] = Idle
    /\ signIn' = [signIn EXCEPT ![w] = [at |-> "checked", email |-> e, source |-> i]]
    /\ UNCHANGED <<failures, drawn, event, audits, desk, lost>>

\* A sign-in that is not refused with "too many"; a refused one leaves no trace.
Submit(w, e, i) ==
    /\ signIn[w] = Idle
    /\ ~Locked(e, i)
    /\ signIn' = [signIn EXCEPT ![w] = [at |-> "checked", email |-> e, source |-> i]]
    /\ UNCHANGED <<failures, drawn, event, audits, desk, lost>>

\* Faulty variant: the two addresses of the row the other way round.
RecordFailureSwapped(w) ==
    LET row == [id |-> drawn + 1, email |-> signIn[w].source, source |-> signIn[w].email] IN
    /\ At(w, "checked")
    /\ drawn < MaxAttempts
    /\ drawn' = drawn + 1
    /\ failures' = Append(failures, row)
    /\ signIn' = [signIn EXCEPT ![w] = [at |-> "recorded", row |-> row]]
    /\ UNCHANGED <<event, audits, desk, lost>>

\* A wrong password or code, or an account that may not sign in.
RecordFailure(w) ==
    LET row == [id |-> drawn + 1, email |-> signIn[w].email, source |-> signIn[w].source] IN
    /\ At(w, "checked")
    /\ drawn < MaxAttempts
    /\ drawn' = drawn + 1
    /\ failures' = Append(failures, row)
    /\ signIn' = [signIn EXCEPT ![w] = [at |-> "recorded", row |-> row]]
    /\ UNCHANGED <<event, audits, desk, lost>>

\* A success is recorded as one, which no count looks at: it forgives nothing.
Succeed(w) ==
    /\ At(w, "checked")
    /\ signIn' = [signIn EXCEPT ![w] = Idle]
    /\ UNCHANGED <<failures, drawn, event, audits, desk, lost>>

\* Faulty variant: reports only what goes past the limit.
ReportLockLate(w) ==
    /\ At(w, "recorded")
    /\ LET row == signIn[w].row IN
       event' = IF Cardinality(OfEmail(row.email) \cup OfSource(row.source)) > Limit
                THEN [event EXCEPT ![row.id] = Open] ELSE event
    /\ signIn' = [signIn EXCEPT ![w] = Idle]
    /\ UNCHANGED <<failures, drawn, audits, desk, lost>>

\* record_login_attempt counts again, with its own row, and raises the event.
ReportLock(w) ==
    /\ At(w, "recorded")
    /\ LET row == signIn[w].row IN
       event' = IF Locked(row.email, row.source)
                THEN [event EXCEPT ![row.id] = Open] ELSE event
    /\ signIn' = [signIn EXCEPT ![w] = Idle]
    /\ UNCHANGED <<failures, drawn, audits, desk, lost>>

\* A worker that dies, or an error, at any point.
Die(w) ==
    /\ signIn[w] # Idle
    /\ signIn' = [signIn EXCEPT ![w] = Idle]
    /\ lost' = IF At(w, "recorded") THEN lost \cup {signIn[w].row.id} ELSE lost
    /\ UNCHANGED <<failures, drawn, event, audits, desk>>

\* The oldest failure leaves the window.
Expire ==
    /\ failures # <<>>
    /\ failures' = Tail(failures)
    /\ UNCHANGED <<drawn, signIn, event, audits, desk, lost>>

-----------------------------------------------------------------------------
(* Resolving events *)

\* resolve_event reads one event, the action resolve_selected those selected.
ReadEvents(s, chosen) ==
    /\ desk[s] = {}
    /\ chosen # {} /\ \A n \in chosen : event[n] = Open
    /\ desk' = [desk EXCEPT ![s] = chosen]
    /\ UNCHANGED <<failures, drawn, signIn, event, audits, lost>>

\* Faulty variant: goes by what the request has read.
ResolveUnread(s, n) ==
    /\ n \in desk[s]
    /\ desk' = [desk EXCEPT ![s] = @ \ {n}]
    /\ event' = [event EXCEPT ![n] = s]
    /\ audits' = [audits EXCEPT ![n] = Append(@, s)]
    /\ UNCHANGED <<failures, drawn, signIn, lost>>

\* resolve_security_event: one transaction for each event, which reads it again.
Resolve(s, n) ==
    /\ n \in desk[s]
    /\ desk' = [desk EXCEPT ![s] = @ \ {n}]
    /\ \/ /\ event[n] = Open
          /\ event' = [event EXCEPT ![n] = s]
          /\ audits' = [audits EXCEPT ![n] = Append(@, s)]
       \/ /\ event[n] # Open
          /\ UNCHANGED <<event, audits>>
    /\ UNCHANGED <<failures, drawn, signIn, lost>>

GiveUp(s) ==
    /\ desk[s] # {}
    /\ desk' = [desk EXCEPT ![s] = {}]
    /\ UNCHANGED <<failures, drawn, signIn, event, audits, lost>>

-----------------------------------------------------------------------------
WatchNext ==
    \/ \E w \in Workers :
        \/ \E e \in Emails, i \in Sources : Submit(w, e, i)
        \/ RecordFailure(w)
        \/ Succeed(w)
        \/ ReportLock(w)
        \/ Die(w)
    \/ Expire
    \/ \E s \in Staff :
        \/ \E chosen \in SUBSET Ids : ReadEvents(s, chosen)
        \/ \E n \in Ids : Resolve(s, n)
        \/ GiveUp(s)

WatchSpec == WatchInit /\ [][WatchNext]_watchVars

-----------------------------------------------------------------------------
(* Properties *)

\* However many workers check at the same time, no address is failed for, and
\* no client fails, more often in a window than the limit allows, but for one
\* attempt per further worker (login_is_locked is asked before, and holds no
\* lock until, the failure is recorded).
FailuresBounded ==
    LET most == Limit - 1 + Cardinality(Workers) IN
    /\ \A e \in Emails : Cardinality(OfEmail(e)) <= most
    /\ \A i \in Sources : Cardinality(OfSource(i)) <= most

\* "Each lockout creates a high-severity security event": once an address, or a
\* client, has as many failures as the limit, the latest of them has raised an
\* event, unless its worker has yet to count, or died before it did.
Latest(rows) == CHOOSE k \in rows : \A j \in rows : j <= k
Reported(rows) ==
    Cardinality(rows) >= Limit =>
        LET latest == failures[Latest(rows)] IN
        \/ event[latest.id] # None
        \/ latest.id \in lost
        \/ \E w \in Workers : At(w, "recorded") /\ signIn[w].row = latest
LocksAreReported ==
    /\ \A e \in Emails : Reported(OfEmail(e))
    /\ \A i \in Sources : Reported(OfSource(i))

\* "Resolve an open event once and record who made the decision": a resolved
\* event has one record, of who resolved it; an open one has none.
ResolvedOnce ==
    \A n \in Ids : audits[n] = IF event[n] \in Staff THEN <<event[n]>> ELSE <<>>

=============================================================================
