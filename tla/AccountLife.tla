---------------------------- MODULE AccountLife ----------------------------
(***************************************************************************)
(* Customer accounts (apps/accounts): registration, e-mail verification,   *)
(* signing in with a password and a second factor, setting the factor up   *)
(* and removing it, password reset, tokens and the profile of the REST     *)
(* API, and the account and password pages of the admin.                   *)
(*                                                                         *)
(* A request reads the user or profile row, decides, and writes later;     *)
(* none of these requests locks a row.  Reading and writing are separate   *)
(* actions, so that any other request may come between them.  A write of   *)
(* the whole row puts back every column as it was read.                    *)
(***************************************************************************)
EXTENDS Integers

CONSTANTS
    Accounts,       \* e-mail addresses
    Browsers,       \* each has one session
    Workers,        \* web workers
    MaxHashes,      \* passwords that are ever set; a bound of the model
    MaxSecrets,     \* authenticator secrets; a bound of the model
    Nobody,         \* no account in a session
    Idle            \* a worker without a request

VARIABLES
    user,           \* CustomUser rows
    profile,        \* UserProfile rows; get_or_create makes a missing one read as the default
    session,        \* what SESSION_KEY and HASH_SESSION_KEY name, per browser
    pending,        \* session["pending_mfa_user_id"], per browser
    links,          \* links mailed so far; a lost mail is a link nobody opens
    tokens,         \* accounts with REST tokens; one that expires is one nobody sends
    worker,         \* the request each worker is in the middle of
    drawn,          \* passwords and secrets drawn so far
    used,           \* history: links that did their work
    touched         \* history: accounts a staff form has written

accountVars == <<user, profile, session, pending, links, tokens, worker, drawn,
                 used, touched>>

\* A password is the hash stored for it: set again, it hashes differently.
Hashes == 0 .. MaxHashes
Secrets == 0 .. MaxSecrets

UserRows == [verified : BOOLEAN, active : BOOLEAN, hash : Hashes]
Profiles == [enabled : BOOLEAN, secret : Secrets]
SessionData == [account : Accounts, hash : Hashes]

NoUser == [verified |-> FALSE, active |-> FALSE, hash |-> 0]
Exists(a) == user[a].hash # 0

\* Faulty variant: the password is not signed over.
ResetTokenWithoutHash(a, row) == [kind |-> "reset", account |-> a, hash |-> 0]

\* What the links of a row are signed over.  A reset link also dies with the
\* next sign-in, which is left out: links live longer here than in the code.
VerifyToken(a, row) == [kind |-> "verify", account |-> a, hash |-> row.hash,
                        verified |-> row.verified]
ResetToken(a, row) == [kind |-> "reset", account |-> a, hash |-> row.hash]
TokensOf(a, row) == {VerifyToken(a, row), ResetToken(a, row)}
Valid(l) == l \in TokensOf(l.account, user[l.account])

Links == [kind : {"verify"}, account : Accounts, hash : Hashes, verified : BOOLEAN]
            \cup [kind : {"reset"}, account : Accounts, hash : Hashes]

\* A request under way: the account it is about, the rows it has read.
JobKinds == {"register", "verify", "login", "token", "challenge", "setup",
             "disable", "reset", "me", "staff", "password"}
Jobs == [kind : JobKinds, account : Accounts, row : UserRows, secret : Secrets,
         browser : Browsers \cup {Nobody}]

ASSUME AccountAssumption ==
    /\ MaxHashes \in Nat /\ MaxSecrets \in Nat
    /\ Nobody \notin Accounts \cup Browsers
    /\ Nobody \notin SessionData
    /\ Idle \notin Jobs

AccountTypeOK ==
    /\ user \in [Accounts -> UserRows]
    /\ profile \in [Accounts -> Profiles]
    /\ session \in [Browsers -> SessionData \cup {Nobody}]
    /\ pending \in [Browsers -> Accounts \cup {Nobody}]
    /\ links \subseteq Links
    /\ tokens \subseteq Accounts
    /\ worker \in [Workers -> Jobs \cup {Idle}]
    /\ drawn \in [hash : Hashes, secret : Secrets]
    /\ used \subseteq Links
    /\ touched \subseteq Accounts

AccountInit ==
    /\ user = [a \in Accounts |-> NoUser]
    /\ profile = [a \in Accounts |-> [enabled |-> FALSE, secret |-> 0]]
    /\ session = [b \in Browsers |-> Nobody]
    /\ pending = [b \in Browsers |-> Nobody]
    /\ links = {}
    /\ tokens = {}
    /\ worker = [w \in Workers |-> Idle]
    /\ drawn = [hash |-> 0, secret |-> 0]
    /\ used = {}
    /\ touched = {}

-----------------------------------------------------------------------------
(* Requests *)

\* What a request has read and uses later: the set-up page the secret, the token
\* endpoint and the page that removes the factor nothing, the others the user row.
Begin(w, kind, a, b) ==
    LET row == IF kind \in {"setup", "token", "disable"} THEN NoUser ELSE user[a]
        secret == IF kind = "setup" THEN profile[a].secret ELSE 0 IN
    /\ worker[w] = Idle
    /\ worker' = [worker EXCEPT ![w] = [kind |-> kind, account |-> a, row |-> row,
                                        secret |-> secret, browser |-> b]]

Holds(w, kind) == worker[w] # Idle /\ worker[w].kind = kind
End(w) == worker' = [worker EXCEPT ![w] = Idle]

\* AuthenticationMiddleware: the session's account, while it is active and
\* its password is the one the session was opened with.
SignedIn(b, a) ==
    /\ user[a].active
    /\ session[b] = [account |-> a, hash |-> user[a].hash]

\* The customer's authenticator has a code that verify_totp accepts: every
\* secret that is stored was shown by the request that stored it.
HasCode(secret) == secret # 0

FreshHash == drawn.hash + 1
FreshSecret == drawn.secret + 1

\* django.contrib.auth.login: a session of another account, or of another
\* password of this one, is emptied first.
Login(b, a, hash, stillPending) ==
    LET opened == [account |-> a, hash |-> hash] IN
    /\ session' = [session EXCEPT ![b] = opened]
    /\ pending' = [pending EXCEPT ![b] =
            IF session[b] \in {Nobody, opened} THEN stillPending ELSE Nobody]

\* An error, or a worker that dies before it writes.
Abandon(w) ==
    /\ worker[w] # Idle
    /\ End(w)
    /\ UNCHANGED <<user, profile, session, pending, links, tokens, drawn,
                   used, touched>>

-----------------------------------------------------------------------------
(* Registration and e-mail verification *)

\* clean_email finds no account with this address.
SubmitRegistration(w, a) ==
    /\ ~Exists(a)
    /\ Begin(w, "register", a, Nobody)
    /\ UNCHANGED <<user, profile, session, pending, links, tokens, drawn,
                   used, touched>>

\* Faulty variants: the account is active at once; the second registration
\* writes over the row of the first.
CreateActiveUser(w) ==
    /\ Holds(w, "register")
    /\ End(w)
    /\ LET a == worker[w].account
           row == [NoUser EXCEPT !.active = TRUE, !.hash = FreshHash] IN
       /\ ~Exists(a)
       /\ drawn.hash < MaxHashes
       /\ drawn' = [drawn EXCEPT !.hash = @ + 1]
       /\ user' = [user EXCEPT ![a] = row]
       /\ links' = links \cup {VerifyToken(a, row)}
    /\ UNCHANGED <<profile, session, pending, tokens, used, touched>>

CreateOverUser(w) ==
    /\ Holds(w, "register")
    /\ End(w)
    /\ LET a == worker[w].account
           row == [NoUser EXCEPT !.hash = FreshHash] IN
       /\ drawn.hash < MaxHashes
       /\ drawn' = [drawn EXCEPT !.hash = @ + 1]
       /\ user' = [user EXCEPT ![a] = row]
       /\ links' = links \cup {VerifyToken(a, row)}
    /\ UNCHANGED <<profile, session, pending, tokens, used, touched>>

\* The address is unique in the database: of two registrations the second
\* ends in an error, and only the first is written and mailed a link.
CreatePendingUser(w) ==
    /\ Holds(w, "register")
    /\ End(w)
    /\ LET a == worker[w].account
           row == [NoUser EXCEPT !.hash = FreshHash] IN
       \/ /\ ~Exists(a)
          /\ drawn.hash < MaxHashes
          /\ drawn' = [drawn EXCEPT !.hash = @ + 1]
          /\ user' = [user EXCEPT ![a] = row]
          /\ links' = links \cup {VerifyToken(a, row)}
       \/ /\ Exists(a)
          /\ UNCHANGED <<drawn, user, links>>
    /\ UNCHANGED <<profile, session, pending, tokens, used, touched>>

ResendVerification(a) ==
    /\ Exists(a)
    /\ ~user[a].verified
    /\ links' = links \cup {VerifyToken(a, user[a])}
    /\ UNCHANGED <<user, profile, session, pending, tokens, worker, drawn,
                   used, touched>>

\* The view reads the user and checks the link against what it read.
OpenVerification(w, l) ==
    /\ l.kind = "verify"
    /\ Valid(l)
    /\ Begin(w, "verify", l.account, Nobody)
    /\ UNCHANGED <<user, profile, session, pending, links, tokens, drawn,
                   used, touched>>

\* Two columns are written, whatever the others have become.
VerifyUserEmail(w) ==
    /\ Holds(w, "verify")
    /\ LET a == worker[w].account IN
       /\ user' = [user EXCEPT ![a].verified = TRUE, ![a].active = TRUE]
       /\ used' = used \cup {VerifyToken(a, worker[w].row)}
    /\ End(w)
    /\ UNCHANGED <<profile, session, pending, links, tokens, drawn, touched>>

-----------------------------------------------------------------------------
(* Signing in *)

\* ModelBackend: the right password of an active account.  What follows works
\* on the row read here, in the browser's form ("login") and in the token
\* endpoint ("token"), which refuses a row that is not verified.
Authenticate(w, kind, b, a) ==
    /\ user[a].active
    /\ kind = "token" => user[a].verified
    /\ Begin(w, kind, a, b)
    /\ UNCHANGED <<user, profile, session, pending, links, tokens, drawn,
                   used, touched>>

\* Faulty variant: the session notes the browser where the account belongs.
FinishPasswordForBrowser(w) ==
    /\ Holds(w, "login")
    /\ End(w)
    /\ pending' = [pending EXCEPT ![worker[w].browser] = worker[w].browser]
    /\ UNCHANGED <<user, session, profile, links, tokens, drawn, used, touched>>

FinishPassword(w) ==
    /\ Holds(w, "login")
    /\ End(w)
    /\ LET a == worker[w].account
           b == worker[w].browser IN
       \/ /\ profile[a].enabled
          /\ pending' = [pending EXCEPT ![b] = a]
          /\ UNCHANGED session
       \/ /\ ~profile[a].enabled
          /\ Login(b, a, worker[w].row.hash, pending[b])
    /\ UNCHANGED <<user, profile, links, tokens, drawn, used, touched>>

\* A pending sign-in is dropped when its account is inactive, its secret gone,
\* or too many sign-ins failed lately: the clock decides, so it may be any time.
ChallengeRefused(b) ==
    /\ pending[b] # Nobody
    /\ pending' = [pending EXCEPT ![b] = Nobody]
    /\ UNCHANGED <<user, profile, session, links, tokens, worker, drawn,
                   used, touched>>

\* A wrong code changes nothing but the audit trail.
AnswerChallenge(w, b) ==
    /\ pending[b] # Nobody
    /\ user[pending[b]].active
    /\ HasCode(profile[pending[b]].secret)
    /\ Begin(w, "challenge", pending[b], b)
    /\ UNCHANGED <<user, profile, session, pending, links, tokens, drawn,
                   used, touched>>

FinishChallenge(w) ==
    /\ Holds(w, "challenge")
    /\ Login(worker[w].browser, worker[w].account, worker[w].row.hash, Nobody)
    /\ End(w)
    /\ UNCHANGED <<user, profile, links, tokens, drawn, used, touched>>

SignOut(b) ==
    /\ session[b] # Nobody \/ pending[b] # Nobody
    /\ session' = [session EXCEPT ![b] = Nobody]
    /\ pending' = [pending EXCEPT ![b] = Nobody]
    /\ UNCHANGED <<user, profile, links, tokens, worker, drawn, used, touched>>

\* SecureTokenObtainPairSerializer.validate after authenticate.
IssueToken(w) ==
    /\ Holds(w, "token")
    /\ LET a == worker[w].account IN
       /\ profile[a].enabled => HasCode(profile[a].secret)
       /\ tokens' = tokens \cup {a}
    /\ End(w)
    /\ UNCHANGED <<user, profile, session, pending, links, drawn, used, touched>>

-----------------------------------------------------------------------------
(* The second factor *)

\* A factor that is on already sends the customer back to the profile page.
OpenSetup(w, b, a) ==
    /\ SignedIn(b, a)
    /\ ~profile[a].enabled
    /\ Begin(w, "setup", a, b)
    /\ UNCHANGED <<user, profile, session, pending, links, tokens, drawn,
                   used, touched>>

\* The page shows the secret that was read, or a new one where there was none.
ShowSecret(w) ==
    /\ Holds(w, "setup")
    /\ End(w)
    /\ LET a == worker[w].account IN
       \/ /\ worker[w].secret # 0
          /\ UNCHANGED <<profile, drawn>>
       \/ /\ worker[w].secret = 0
          /\ drawn.secret < MaxSecrets
          /\ drawn' = [drawn EXCEPT !.secret = @ + 1]
          /\ profile' = [profile EXCEPT ![a].secret = FreshSecret]
    /\ UNCHANGED <<user, session, pending, links, tokens, used, touched>>

\* A code of the secret that was read; only mfa_enabled is written.
ConfirmSecret(w) ==
    /\ Holds(w, "setup")
    /\ HasCode(worker[w].secret)
    /\ profile' = [profile EXCEPT ![worker[w].account].enabled = TRUE]
    /\ End(w)
    /\ UNCHANGED <<user, session, pending, links, tokens, drawn, used, touched>>

\* The form has checked the password of the customer who is signed in.
OpenDisable(w, b, a) ==
    /\ SignedIn(b, a)
    /\ Begin(w, "disable", a, b)
    /\ UNCHANGED <<user, profile, session, pending, links, tokens, drawn,
                   used, touched>>

\* Faulty variant: the secret goes and the factor stays on.
DisableSecretOnly(w) ==
    /\ Holds(w, "disable")
    /\ profile' = [profile EXCEPT ![worker[w].account].secret = 0]
    /\ End(w)
    /\ UNCHANGED <<user, session, pending, links, tokens, drawn, used, touched>>

DisableFactor(w) ==
    /\ Holds(w, "disable")
    /\ profile' = [profile EXCEPT ![worker[w].account] = [enabled |-> FALSE, secret |-> 0]]
    /\ End(w)
    /\ UNCHANGED <<user, session, pending, links, tokens, drawn, used, touched>>

-----------------------------------------------------------------------------
(* Password reset, the profile of the REST API, and staff *)

RequestReset(a) ==
    /\ user[a].active
    /\ links' = links \cup {ResetToken(a, user[a])}
    /\ UNCHANGED <<user, profile, session, pending, tokens, worker, drawn,
                   used, touched>>

OpenReset(w, l) ==
    /\ l.kind = "reset"
    /\ Valid(l)
    /\ Begin(w, "reset", l.account, Nobody)
    /\ UNCHANGED <<user, profile, session, pending, links, tokens, drawn,
                   used, touched>>

\* Faulty variant: setting a password also switches the account on.
SetPasswordAndActivate(w) ==
    /\ Holds(w, "reset")
    /\ drawn.hash < MaxHashes
    /\ drawn' = [drawn EXCEPT !.hash = @ + 1]
    /\ LET a == worker[w].account IN
       /\ user' = [user EXCEPT ![a] =
                    [worker[w].row EXCEPT !.hash = FreshHash, !.active = TRUE]]
       /\ used' = used \cup {ResetToken(a, worker[w].row)}
    /\ End(w)
    /\ UNCHANGED <<profile, session, pending, links, tokens, touched>>

\* SetPasswordForm.save writes the whole row it has read.
SetPassword(w) ==
    /\ Holds(w, "reset")
    /\ drawn.hash < MaxHashes
    /\ drawn' = [drawn EXCEPT !.hash = @ + 1]
    /\ LET a == worker[w].account IN
       /\ user' = [user EXCEPT ![a] = [worker[w].row EXCEPT !.hash = FreshHash]]
       /\ used' = used \cup {ResetToken(a, worker[w].row)}
    /\ End(w)
    /\ UNCHANGED <<profile, session, pending, links, tokens, touched>>

\* PATCH /me/: by token or by session.
ReadMe(w, a) ==
    /\ user[a].active
    /\ a \in tokens \/ \E b \in Browsers : SignedIn(b, a)
    /\ Begin(w, "me", a, Nobody)
    /\ UNCHANGED <<user, profile, session, pending, links, tokens, drawn,
                   used, touched>>

\* The serializer sets a name and writes the whole row.
SaveMe(w) ==
    /\ Holds(w, "me")
    /\ user' = [user EXCEPT ![worker[w].account] = worker[w].row]
    /\ End(w)
    /\ UNCHANGED <<profile, session, pending, links, tokens, drawn, used, touched>>

\* The add form of the admin: active at once, not verified.
StaffAdd(a) ==
    /\ ~Exists(a)
    /\ drawn.hash < MaxHashes
    /\ drawn' = [drawn EXCEPT !.hash = @ + 1]
    /\ user' = [user EXCEPT ![a] = [NoUser EXCEPT !.active = TRUE, !.hash = FreshHash]]
    /\ touched' = touched \cup {a}
    /\ UNCHANGED <<profile, session, pending, links, tokens, worker, used>>

StaffOpen(w, a) ==
    /\ Exists(a)
    /\ Begin(w, "staff", a, Nobody)
    /\ UNCHANGED <<user, profile, session, pending, links, tokens, drawn,
                   used, touched>>

\* The request that posts the form reads the row and writes all of it: the two
\* boxes as they are posted, the other columns as they were read.
StaffSave(w, active, verified) ==
    /\ Holds(w, "staff")
    /\ LET a == worker[w].account IN
       /\ user' = [user EXCEPT ![a] =
                    [worker[w].row EXCEPT !.active = active, !.verified = verified]]
       /\ touched' = touched \cup {a}
    /\ End(w)
    /\ UNCHANGED <<profile, session, pending, links, tokens, drawn, used>>

\* The password page of UserAdmin: staff choose a password, and the whole row is
\* written as this request has read it.
StaffOpenPassword(w, a) ==
    /\ Exists(a)
    /\ Begin(w, "password", a, Nobody)
    /\ UNCHANGED <<user, profile, session, pending, links, tokens, drawn,
                   used, touched>>

StaffSetPassword(w) ==
    /\ Holds(w, "password")
    /\ drawn.hash < MaxHashes
    /\ drawn' = [drawn EXCEPT !.hash = @ + 1]
    /\ LET a == worker[w].account IN
       /\ user' = [user EXCEPT ![a] = [worker[w].row EXCEPT !.hash = FreshHash]]
       /\ touched' = touched \cup {a}
    /\ End(w)
    /\ UNCHANGED <<profile, session, pending, links, tokens, used>>

-----------------------------------------------------------------------------
AccountNext ==
    \/ \E w \in Workers :
        \/ Abandon(w)
        \/ CreatePendingUser(w)
        \/ VerifyUserEmail(w)
        \/ FinishPassword(w)
        \/ FinishChallenge(w)
        \/ IssueToken(w)
        \/ ShowSecret(w)
        \/ ConfirmSecret(w)
        \/ DisableFactor(w)
        \/ SetPassword(w)
        \/ SaveMe(w)
        \/ \E active, verified \in BOOLEAN : StaffSave(w, active, verified)
        \/ StaffSetPassword(w)
        \/ \E l \in links : OpenVerification(w, l) \/ OpenReset(w, l)
        \/ \E b \in Browsers : AnswerChallenge(w, b)
        \/ \E a \in Accounts :
            \/ SubmitRegistration(w, a)
            \/ ReadMe(w, a)
            \/ StaffOpen(w, a)
            \/ StaffOpenPassword(w, a)
            \/ Authenticate(w, "token", Nobody, a)
            \/ \E b \in Browsers :
                Authenticate(w, "login", b, a) \/ OpenSetup(w, b, a) \/ OpenDisable(w, b, a)
    \/ \E b \in Browsers :
        \/ ChallengeRefused(b)
        \/ SignOut(b)
    \/ \E a \in Accounts :
        \/ ResendVerification(a)
        \/ RequestReset(a)
        \/ StaffAdd(a)

AccountSpec == AccountInit /\ [][AccountNext]_accountVars

-----------------------------------------------------------------------------
(* Properties *)

\* Worker w finishes a request about account a.
Finishes(w, a) == worker[w] # Idle /\ worker'[w] = Idle /\ worker[w].account = a

\* Nobody is signed in to an account, or holds a token for it, before one of
\* the links mailed to its address was opened, unless staff had a hand in it
\* (create_pending_user, and every later write of the row).
NobodyEntersUnverified ==
    \A a \in Accounts \ touched :
        (a \in tokens \/ \E b \in Browsers : session[b] # Nobody /\ session[b].account = a)
            => user[a].verified /\ \E l \in used : l.kind = "verify" /\ l.account = a

\* An account that is off is switched on by staff, by a link that was opened while
\* its address was not verified, or by a request that writes whole rows and had
\* read this one before it was switched off; no sign-in, reset or profile request
\* that began later does it (verify_user_email, SetPasswordForm.save, MeView).
\* (So the link does it also for an account that staff switched off, if it was
\* never verified.)
DeactivationHolds ==
    [][\A a \in Accounts :
        Exists(a) /\ ~user[a].active /\ user'[a].active =>
            \E w \in Workers :
                /\ Finishes(w, a)
                /\ \/ worker[w].kind = "staff"
                   \/ worker[w].kind = "verify" /\ ~worker[w].row.verified
                   \/ worker[w].kind \in {"reset", "me", "password"} /\ worker[w].row.active]_accountVars

\* A link that did its work is dead ("replayed links are invalidated by the
\* token").  A used link comes back to life only with an older password, which a
\* profile request or the account page of the admin had read and writes back; a
\* verification link also when its account is written as unverified again.
UsedLinksStayDead ==
    [][\A l \in used' :
        Valid(l)' =>
            \/ l \in used /\ Valid(l)
            \/ \E w \in Workers :
                /\ Finishes(w, l.account)
                /\ worker[w].kind \in {"me", "staff"}
                /\ \/ worker[w].row.hash # user[l.account].hash
                   \/ /\ l.kind = "verify"
                      /\ user[l.account].verified /\ ~user'[l.account].verified]_accountVars

\* The password of an account is replaced by a reset or on the password page of
\* the admin, or put back by a request that had read an older one; registering
\* its address again leaves it alone, also when both registrations found the
\* address free.
PasswordKept ==
    [][\A a \in Accounts :
        Exists(a) /\ user'[a].hash # user[a].hash =>
            \E w \in Workers :
                /\ Finishes(w, a)
                /\ \/ worker[w].kind \in {"reset", "password"}
                   \/ worker[w].kind \in {"me", "staff"}
                        /\ worker[w].row.hash # user[a].hash]_accountVars

\* While the factor is on, its secret stays and is not empty, unless a set-up
\* page was open when the secret changed (MFASetupView, MFADisableView).
Broken(p) == p.enabled /\ p.secret = 0
FactorKept ==
    [][\A a \in Accounts : LET p == profile[a] q == profile'[a] IN
        ~Broken(p) /\ (Broken(q) \/ (p.enabled /\ q.enabled /\ q.secret # p.secret)) =>
            \E w \in Workers : /\ Finishes(w, a)
                               /\ worker[w].kind = "setup"
                               /\ worker[w].secret # p.secret]_accountVars

\* "Password resets use Django's signed, one-time reset tokens": a link that
\* has set a password is never accepted again (SetPassword, SaveMe).
ResetLinkWorksOnce == \A l \in used : l.kind = "reset" => ~Valid(l)

=============================================================================
