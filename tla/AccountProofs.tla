---------------------------- MODULE AccountProofs ----------------------------
(***************************************************************************)
(* Accounts, for any number of addresses, browsers, requests and           *)
(* passwords.                                                              *)
(***************************************************************************)
EXTENDS AccountLife, TLAPS

\* Passwords are drawn once; a row without one was never written; links are
\* signed over a password, and those that verify over an unverified row; what
\* a request has read is a row that was written.
RowsInv ==
    /\ \A a \in Accounts : /\ user[a].hash <= drawn.hash
                           /\ user[a].hash = 0 => user[a] = NoUser
    /\ \A l \in links \cup used : /\ 0 < l.hash /\ l.hash <= drawn.hash
                                  /\ l.kind = "verify" => ~l.verified
    /\ \A w \in Workers : worker[w] # Idle =>
        /\ worker[w].row.hash <= drawn.hash
        /\ worker[w].kind = "verify" => ~worker[w].row.verified
        /\ worker[w].kind \in {"verify", "reset", "me", "staff", "password"} =>
             worker[w].row.hash # 0 /\ user[worker[w].account].hash # 0

VerifiedBy(a) == \E l \in used : l.kind = "verify" /\ l.account = a

\* What is a way into account a, or becomes one without another look at the row.
WayIn(a) ==
    \/ a \in tokens
    \/ \E b \in Browsers : session[b] # Nobody /\ session[b].account = a
    \/ \E b \in Browsers : pending[b] = a
    \/ \E l \in links : l.kind = "reset" /\ l.account = a
    \/ \E w \in Workers : /\ worker[w] # Idle /\ worker[w].account = a
                          /\ worker[w].kind \in {"login", "token", "challenge", "reset", "me"}

\* An account staff have left alone is verified, and stays so, before there is
\* a way in, and is verified only by its link.
EntryAt(a) ==
    /\ user[a].active \/ WayIn(a) => user[a].verified
    /\ user[a].verified => VerifiedBy(a)
    /\ \A w \in Workers : worker[w] # Idle /\ worker[w].account = a
                            /\ worker[w].kind \in {"reset", "me"} => worker[w].row.verified

EntryInv == \A a \in Accounts \ touched : EntryAt(a)

AccountInv == AccountTypeOK /\ RowsInv /\ EntryInv

-----------------------------------------------------------------------------
(* Kinds of steps *)

\* A request reads its rows and writes nothing yet.
Opens(w) ==
    \E j \in Jobs :
        /\ worker' = [worker EXCEPT ![w] = j]
        /\ UNCHANGED <<user, profile, session, pending, links, tokens, drawn,
                       used, touched>>

\* A job that Begin makes is one.
LEMMA Beginning ==
    ASSUME AccountTypeOK, NEW w \in Workers, NEW kind \in JobKinds,
           NEW a \in Accounts, NEW b \in Browsers \cup {Nobody}, Begin(w, kind, a, b)
    PROVE  \E j \in Jobs :
             /\ worker' = [worker EXCEPT ![w] = j]
             /\ j.kind = kind /\ j.account = a
             /\ j.row = IF kind \in {"setup", "token", "disable"} THEN NoUser ELSE user[a]
<1> DEFINE row == IF kind \in {"setup", "token", "disable"} THEN NoUser ELSE user[a]
           secret == IF kind = "setup" THEN profile[a].secret ELSE 0
           j == [kind |-> kind, account |-> a, row |-> row, secret |-> secret,
                 browser |-> b]
<1>1. row \in UserRows
  BY AccountAssumption DEF AccountTypeOK, UserRows, NoUser, Hashes
<1>2. secret \in Secrets
  BY AccountAssumption DEF AccountTypeOK, Profiles, Secrets
<1>3. j \in Jobs
  BY <1>1, <1>2 DEF Jobs
<1>4. worker' = [worker EXCEPT ![w] = j]
  BY DEF Begin
<1> QED
  BY <1>3, <1>4

\* The links signed over a row are links.
LEMMA TokensAreLinks ==
    ASSUME NEW a \in Accounts, NEW row \in UserRows
    PROVE  VerifyToken(a, row) \in Links /\ ResetToken(a, row) \in Links
BY DEF VerifyToken, ResetToken, Links, UserRows

\* Every field of a row, and a row from its fields.
LEMMA RowParts ==
    ASSUME NEW row \in UserRows
    PROVE  /\ row.verified \in BOOLEAN /\ row.active \in BOOLEAN /\ row.hash \in Hashes
           /\ \A h \in Hashes : [row EXCEPT !.hash = h] \in UserRows
           /\ \A on, yes \in BOOLEAN :
                [row EXCEPT !.active = on, !.verified = yes] \in UserRows
           /\ [row EXCEPT !.verified = TRUE, !.active = TRUE] \in UserRows
BY DEF UserRows

LEMMA FreshHashIsOne ==
    ASSUME AccountTypeOK, drawn.hash < MaxHashes
    PROVE  /\ FreshHash \in Hashes
           /\ [drawn EXCEPT !.hash = @ + 1] \in [hash : Hashes, secret : Secrets]
BY AccountAssumption DEF AccountTypeOK, FreshHash, Hashes, Secrets

-----------------------------------------------------------------------------
(* Types *)

\* The requests that begin.
LEMMA Openings ==
    ASSUME AccountTypeOK, NEW w \in Workers
    PROVE  /\ \A a \in Accounts : SubmitRegistration(w, a) => Opens(w)
           /\ \A l \in links : OpenVerification(w, l) => Opens(w)
           /\ \A l \in links : OpenReset(w, l) => Opens(w)
           /\ \A b \in Browsers : AnswerChallenge(w, b) => Opens(w)
           /\ \A a \in Accounts, b \in Browsers : Authenticate(w, "login", b, a) => Opens(w)
           /\ \A a \in Accounts : Authenticate(w, "token", Nobody, a) => Opens(w)
           /\ \A a \in Accounts, b \in Browsers : OpenSetup(w, b, a) => Opens(w)
           /\ \A a \in Accounts : ReadMe(w, a) => Opens(w)
           /\ \A a \in Accounts, b \in Browsers : OpenDisable(w, b, a) => Opens(w)
           /\ \A a \in Accounts : StaffOpen(w, a) => Opens(w)
           /\ \A a \in Accounts : StaffOpenPassword(w, a) => Opens(w)
<1> DEFINE B == Browsers \cup {Nobody}
<1>0. /\ \A l \in links : l.account \in Accounts
      /\ \A b \in Browsers : pending[b] # Nobody => pending[b] \in Accounts
  BY DEF AccountTypeOK, Links
<1>1. \A kind \in JobKinds, a \in Accounts, b \in B :
        Begin(w, kind, a, b) /\ UNCHANGED <<user, profile, session, pending, links,
                                            tokens, drawn, used, touched>> => Opens(w)
  BY Beginning DEF Opens
<1> QED
  BY <1>0, <1>1 DEF SubmitRegistration, OpenVerification, OpenReset, AnswerChallenge,
     Authenticate, OpenSetup, OpenDisable, ReadMe, StaffOpen, StaffOpenPassword, JobKinds

LEMMA TypesInit == AccountInit => AccountTypeOK
BY AccountAssumption DEF AccountInit, AccountTypeOK, NoUser, UserRows, Profiles, Hashes, Secrets

LEMMA JobParts ==
    ASSUME AccountTypeOK, NEW w \in Workers, worker[w] # Idle
    PROVE  /\ worker[w] \in Jobs
           /\ worker[w].account \in Accounts
           /\ worker[w].row \in UserRows
           /\ worker[w].secret \in Secrets
           /\ worker[w].browser \in Browsers \cup {Nobody}
           /\ worker[w].kind \in JobKinds
BY DEF AccountTypeOK, Jobs

LEMMA OpensTypes ==
    ASSUME AccountTypeOK, NEW w \in Workers, Opens(w)
    PROVE  AccountTypeOK'
BY DEF Opens, AccountTypeOK

\* An ended request leaves the workers typed.
LEMMA EndTypes ==
    ASSUME AccountTypeOK, NEW w \in Workers, End(w)
    PROVE  worker' \in [Workers -> Jobs \cup {Idle}]
BY DEF End, AccountTypeOK

LEMMA LoginTypes ==
    ASSUME AccountTypeOK, NEW b \in Browsers \cup {Nobody}, NEW a \in Accounts,
           NEW hash \in Hashes, NEW still \in Accounts \cup {Nobody},
           Login(b, a, hash, still)
    PROVE  /\ session' \in [Browsers -> SessionData \cup {Nobody}]
           /\ pending' \in [Browsers -> Accounts \cup {Nobody}]
<1>1. [account |-> a, hash |-> hash] \in SessionData
  BY DEF SessionData
<1> QED
  BY <1>1 DEF Login, AccountTypeOK

\* What a request writes when it ends.
LEMMA RequestTypes ==
    ASSUME AccountTypeOK, NEW w \in Workers,
           \/ Abandon(w) \/ CreatePendingUser(w) \/ VerifyUserEmail(w)
           \/ FinishPassword(w) \/ FinishChallenge(w) \/ IssueToken(w)
           \/ ShowSecret(w) \/ ConfirmSecret(w) \/ DisableFactor(w)
           \/ SetPassword(w) \/ SaveMe(w) \/ StaffSetPassword(w)
           \/ \E active, verified \in BOOLEAN : StaffSave(w, active, verified)
    PROVE  AccountTypeOK'
<1> DEFINE a == worker[w].account
           row == worker[w].row
           fresh == [NoUser EXCEPT !.hash = FreshHash]
<1>1. CASE Abandon(w)
  BY <1>1, EndTypes DEF Abandon, AccountTypeOK
<1>2. CASE CreatePendingUser(w)
  <2>1. a \in Accounts
    BY <1>2, JobParts DEF CreatePendingUser, Holds
  <2>2. drawn.hash < MaxHashes => fresh \in UserRows
    BY FreshHashIsOne DEF NoUser, UserRows
  <2>3. drawn.hash < MaxHashes => VerifyToken(a, fresh) \in Links
    BY <2>1, <2>2, TokensAreLinks
  <2> QED
    BY <1>2, <2>1, <2>2, <2>3, EndTypes, FreshHashIsOne DEF CreatePendingUser, AccountTypeOK
<1>3. CASE VerifyUserEmail(w)
  <2>1. a \in Accounts /\ row \in UserRows
    BY <1>3, JobParts DEF VerifyUserEmail, Holds
  <2>2. [user[a] EXCEPT !.verified = TRUE, !.active = TRUE] \in UserRows
    BY <2>1, RowParts DEF AccountTypeOK
  <2> QED
    BY <1>3, <2>1, <2>2, EndTypes, TokensAreLinks DEF VerifyUserEmail, AccountTypeOK
<1>4. CASE FinishPassword(w)
  <2>1. a \in Accounts /\ row.hash \in Hashes /\ worker[w].browser \in Browsers \cup {Nobody}
    BY <1>4, JobParts, RowParts DEF FinishPassword, Holds
  <2>2. CASE profile[a].enabled
    BY <1>4, <2>1, <2>2, EndTypes DEF FinishPassword, AccountTypeOK
  <2>3. CASE ~profile[a].enabled
    BY <1>4, <2>1, <2>3, EndTypes DEF FinishPassword, Login, AccountTypeOK, SessionData
  <2> QED
    BY <2>2, <2>3
<1>5. CASE FinishChallenge(w)
  <2>1. a \in Accounts /\ row.hash \in Hashes /\ worker[w].browser \in Browsers \cup {Nobody}
    BY <1>5, JobParts, RowParts DEF FinishChallenge, Holds
  <2> QED
    BY <1>5, <2>1, EndTypes, LoginTypes DEF FinishChallenge, AccountTypeOK
<1>6. CASE IssueToken(w)
  BY <1>6, JobParts, EndTypes DEF IssueToken, Holds, AccountTypeOK
<1>7. CASE ShowSecret(w)
  <2>1. a \in Accounts
    BY <1>7, JobParts DEF ShowSecret, Holds
  <2>2. drawn.secret < MaxSecrets =>
          /\ FreshSecret \in Secrets
          /\ [drawn EXCEPT !.secret = @ + 1] \in [hash : Hashes, secret : Secrets]
    BY AccountAssumption DEF AccountTypeOK, FreshSecret, Hashes, Secrets
  <2> QED
    BY <1>7, <2>1, <2>2, EndTypes DEF ShowSecret, AccountTypeOK, Profiles
<1>8. CASE ConfirmSecret(w)
  BY <1>8, JobParts, EndTypes DEF ConfirmSecret, Holds, AccountTypeOK, Profiles
<1>9. CASE SetPassword(w)
  <2>1. a \in Accounts /\ row \in UserRows
    BY <1>9, JobParts DEF SetPassword, Holds
  <2>2. [row EXCEPT !.hash = FreshHash] \in UserRows
    BY <1>9, <2>1, FreshHashIsOne, RowParts DEF SetPassword
  <2> QED
    BY <1>9, <2>1, <2>2, EndTypes, FreshHashIsOne, TokensAreLinks DEF SetPassword, AccountTypeOK
<1>10. CASE SaveMe(w)
  BY <1>10, JobParts, EndTypes DEF SaveMe, Holds, AccountTypeOK
<1>11. ASSUME NEW on \in BOOLEAN, NEW yes \in BOOLEAN, StaffSave(w, on, yes)
       PROVE  AccountTypeOK'
  <2>1. a \in Accounts /\ row \in UserRows
    BY <1>11, JobParts DEF StaffSave, Holds
  <2>2. [row EXCEPT !.active = on, !.verified = yes] \in UserRows
    BY <2>1, RowParts
  <2> QED
    BY <1>11, <2>1, <2>2, EndTypes DEF StaffSave, AccountTypeOK
<1>12. CASE StaffSetPassword(w)
  <2>1. a \in Accounts /\ row \in UserRows
    BY <1>12, JobParts DEF StaffSetPassword, Holds
  <2>2. [row EXCEPT !.hash = FreshHash] \in UserRows
    BY <1>12, <2>1, FreshHashIsOne, RowParts DEF StaffSetPassword
  <2> QED
    BY <1>12, <2>1, <2>2, EndTypes, FreshHashIsOne DEF StaffSetPassword, AccountTypeOK
<1>13. CASE DisableFactor(w)
  BY <1>13, JobParts, EndTypes, AccountAssumption
     DEF DisableFactor, Holds, AccountTypeOK, Profiles, Secrets
<1> QED
  BY <1>1, <1>2, <1>3, <1>4, <1>5, <1>6, <1>7, <1>8, <1>9, <1>10, <1>11, <1>12, <1>13

\* Pages answered in one step.
LEMMA PageTypes ==
    ASSUME AccountTypeOK,
           \/ \E b \in Browsers : ChallengeRefused(b) \/ SignOut(b)
           \/ \E a \in Accounts : ResendVerification(a) \/ RequestReset(a) \/ StaffAdd(a)
    PROVE  AccountTypeOK'
<1>1. ASSUME NEW b \in Browsers, ChallengeRefused(b) \/ SignOut(b)
      PROVE  AccountTypeOK'
  BY <1>1 DEF ChallengeRefused, SignOut, AccountTypeOK
<1>2. ASSUME NEW a \in Accounts, ResendVerification(a) \/ RequestReset(a)
      PROVE  AccountTypeOK'
  <2>1. VerifyToken(a, user[a]) \in Links /\ ResetToken(a, user[a]) \in Links
    BY TokensAreLinks DEF AccountTypeOK
  <2> QED
    BY <1>2, <2>1 DEF ResendVerification, RequestReset, AccountTypeOK
<1>3. ASSUME NEW a \in Accounts, StaffAdd(a)
      PROVE  AccountTypeOK'
  <2>1. [NoUser EXCEPT !.active = TRUE, !.hash = FreshHash] \in UserRows
    BY <1>3, FreshHashIsOne DEF StaffAdd, NoUser, UserRows
  <2> QED
    BY <1>3, <2>1, FreshHashIsOne DEF StaffAdd, AccountTypeOK
<1> QED
  BY <1>1, <1>2, <1>3

LEMMA TypesStep == AccountTypeOK /\ [AccountNext]_accountVars => AccountTypeOK'
<1> SUFFICES ASSUME AccountTypeOK, [AccountNext]_accountVars
             PROVE  AccountTypeOK'
  OBVIOUS
<1>1. CASE UNCHANGED accountVars
  BY <1>1 DEF accountVars, AccountTypeOK
<1>2. CASE \E w \in Workers : Opens(w)
  BY <1>2, OpensTypes
<1>3. CASE AccountNext
  BY <1>2, <1>3, Openings, RequestTypes, PageTypes DEF AccountNext
<1> QED
  BY <1>1, <1>3

\* Users, profiles, sessions, links and requests under way are always well
\* formed: no view writes a row, a session or a link of another shape.
THEOREM AccountTypeCorrect == AccountSpec => []AccountTypeOK
<1> QED
  BY TypesInit, TypesStep, PTL DEF AccountSpec

-----------------------------------------------------------------------------
(* Rows and ways in *)

\* What is known when a request reads its rows.
Reads(w) ==
    \E j \in Jobs :
        /\ worker' = [worker EXCEPT ![w] = j]
        /\ j.row = user[j.account] \/ (j.kind \in {"setup", "token", "disable"} /\ j.row = NoUser)
        /\ j.kind = "verify" => ~user[j.account].verified
        /\ j.kind \in {"verify", "reset", "me", "staff", "password"} => user[j.account].hash # 0
        /\ j.kind \in {"login", "token", "challenge", "reset", "me"} =>
             user[j.account].active \/ WayIn(j.account)
        /\ UNCHANGED <<user, profile, session, pending, links, tokens, drawn,
                       used, touched>>

\* A link is signed over a row while the password is the one it was made with
\* and, of a verification link, the account as unverified as it was.
LEMMA TokensIff ==
    ASSUME NEW l \in Links, NEW row
    PROVE  l \in TokensOf(l.account, row) <=>
             /\ l.hash = row.hash
             /\ l.kind = "verify" => l.verified = row.verified
<1>1. CASE l.kind = "verify"
  <2>1. l = [kind |-> l.kind, account |-> l.account, hash |-> l.hash, verified |-> l.verified]
    BY <1>1 DEF Links
  <2>2. l = VerifyToken(l.account, row) <=> l.hash = row.hash /\ l.verified = row.verified
    BY <1>1, <2>1 DEF VerifyToken
  <2>3. l # ResetToken(l.account, row)
    BY <1>1 DEF ResetToken
  <2> QED
    BY <1>1, <2>2, <2>3 DEF TokensOf
<1>2. CASE l.kind = "reset"
  <2>1. l = [kind |-> l.kind, account |-> l.account, hash |-> l.hash]
    BY <1>2 DEF Links
  <2>2. l = ResetToken(l.account, row) <=> l.hash = row.hash
    BY <1>2, <2>1 DEF ResetToken
  <2>3. l # VerifyToken(l.account, row)
    BY <1>2 DEF VerifyToken
  <2> QED
    BY <1>2, <2>2, <2>3 DEF TokensOf
<1> QED
  BY <1>1, <1>2 DEF Links

LEMMA Readings ==
    ASSUME AccountTypeOK, RowsInv, NEW w \in Workers
    PROVE  /\ \A a \in Accounts : SubmitRegistration(w, a) => Reads(w)
           /\ \A l \in links : OpenVerification(w, l) => Reads(w)
           /\ \A l \in links : OpenReset(w, l) => Reads(w)
           /\ \A b \in Browsers : AnswerChallenge(w, b) => Reads(w)
           /\ \A a \in Accounts, b \in Browsers : Authenticate(w, "login", b, a) => Reads(w)
           /\ \A a \in Accounts : Authenticate(w, "token", Nobody, a) => Reads(w)
           /\ \A a \in Accounts, b \in Browsers : OpenSetup(w, b, a) => Reads(w)
           /\ \A a \in Accounts : ReadMe(w, a) => Reads(w)
           /\ \A a \in Accounts, b \in Browsers : OpenDisable(w, b, a) => Reads(w)
           /\ \A a \in Accounts : StaffOpen(w, a) => Reads(w)
           /\ \A a \in Accounts : StaffOpenPassword(w, a) => Reads(w)
<1> DEFINE B == Browsers \cup {Nobody}
           quiet == UNCHANGED <<user, profile, session, pending, links, tokens, drawn,
                                used, touched>>
<1>1. \A a \in Accounts : user[a].active => user[a].hash # 0
  BY DEF RowsInv, NoUser
<1>2. \A b \in Browsers : pending[b] # Nobody => pending[b] \in Accounts
  BY DEF AccountTypeOK
<1>3. ASSUME NEW kind \in JobKinds, NEW a \in Accounts, NEW b \in B,
             Begin(w, kind, a, b), quiet,
             kind = "verify" => ~user[a].verified,
             kind \in {"verify", "reset", "me", "staff", "password"} => user[a].hash # 0,
             kind \in {"login", "token", "challenge", "reset", "me"} =>
               user[a].active \/ WayIn(a)
      PROVE  Reads(w)
  BY <1>3, Beginning DEF Reads
<1>4. ASSUME NEW l \in links, Valid(l)
      PROVE  /\ l.account \in Accounts
             /\ user[l.account].hash # 0
             /\ l.kind = "verify" => ~user[l.account].verified
             /\ l.kind = "reset" => WayIn(l.account)
  <2>1. l \in Links
    BY DEF AccountTypeOK
  <2>2. 0 < l.hash /\ (l.kind = "verify" => ~l.verified)
    BY DEF RowsInv
  <2>3. l.account \in Accounts
    BY <2>1 DEF Links
  <2>4. l.kind = "reset" => WayIn(l.account)
    BY DEF WayIn
  <2> QED
    BY <1>4, <2>1, <2>2, <2>3, <2>4, TokensIff DEF Valid
<1>5. \A l \in links : OpenVerification(w, l) \/ OpenReset(w, l) => Reads(w)
  BY <1>3, <1>4 DEF OpenVerification, OpenReset, JobKinds
<1>6. \A b \in Browsers : AnswerChallenge(w, b) => Reads(w)
  BY <1>2, <1>3 DEF AnswerChallenge, JobKinds
<1>7. \A a \in Accounts :
        ReadMe(w, a) \/ StaffOpen(w, a) \/ StaffOpenPassword(w, a)
          \/ SubmitRegistration(w, a) => Reads(w)
  BY <1>1, <1>3 DEF ReadMe, StaffOpen, StaffOpenPassword, SubmitRegistration, Exists, JobKinds
<1>8. \A a \in Accounts, b \in Browsers :
        Authenticate(w, "login", b, a) \/ OpenSetup(w, b, a) \/ OpenDisable(w, b, a)
          => Reads(w)
  BY <1>3 DEF Authenticate, OpenSetup, OpenDisable, JobKinds
<1>9. \A a \in Accounts : Authenticate(w, "token", Nobody, a) => Reads(w)
  BY <1>3 DEF Authenticate, JobKinds
<1> QED
  BY <1>5, <1>6, <1>7, <1>8, <1>9

\* Steps that write no user row and mail no link, and open no way in to an
\* account that had none.
Calm ==
    /\ UNCHANGED <<user, links, used, touched>>
    /\ drawn'.hash = drawn.hash
    /\ worker' = worker \/ \E w \in Workers : End(w)
    /\ \A a \in Accounts : WayIn(a)' => WayIn(a)

\* A request that signs a browser in was a way in itself.
LEMMA LoginCalm ==
    ASSUME AccountTypeOK, NEW w \in Workers, worker[w] # Idle,
           worker[w].kind \in {"login", "challenge"},
           NEW hash, NEW still, still \in {pending[worker[w].browser], Nobody},
           Login(worker[w].browser, worker[w].account, hash, still), End(w),
           UNCHANGED <<links, tokens>>
    PROVE  \A a \in Accounts : WayIn(a)' => WayIn(a)
<1> DEFINE b == worker[w].browser
<1>1. ASSUME NEW a \in Accounts, WayIn(a)'
      PROVE  WayIn(a)
  <2>1. CASE worker[w].account = a
    BY <2>1 DEF WayIn
  <2>2. CASE worker[w].account # a
    <3>1. ASSUME NEW c \in Browsers, session'[c] # Nobody, session'[c].account = a
          PROVE  session[c] # Nobody /\ session[c].account = a
      BY <2>2, <3>1 DEF Login, AccountTypeOK
    <3>2. ASSUME NEW c \in Browsers, pending'[c] = a
          PROVE  pending[c] = a
      BY <3>2, AccountAssumption DEF Login, AccountTypeOK
    <3>3. \A v \in Workers : worker'[v] # Idle => worker'[v] = worker[v]
      BY DEF End, AccountTypeOK
    <3> QED
      BY <1>1, <3>1, <3>2, <3>3 DEF WayIn
  <2> QED
    BY <2>1, <2>2
<1> QED
  BY <1>1

LEMMA CalmSteps ==
    ASSUME AccountTypeOK,
           \/ \E w \in Workers : \/ Abandon(w) \/ FinishPassword(w) \/ FinishChallenge(w)
                                 \/ IssueToken(w) \/ ShowSecret(w) \/ ConfirmSecret(w)
                                 \/ DisableFactor(w)
           \/ \E b \in Browsers : ChallengeRefused(b) \/ SignOut(b)
           \/ UNCHANGED accountVars
    PROVE  Calm
<1>1. ASSUME NEW w \in Workers, End(w), UNCHANGED <<session, pending, links, tokens>>
      PROVE  \A a \in Accounts : WayIn(a)' => WayIn(a)
  <2>1. \A v \in Workers : worker'[v] # Idle => worker'[v] = worker[v]
    BY <1>1 DEF End, AccountTypeOK
  <2> QED
    BY <1>1, <2>1 DEF WayIn
<1>2. ASSUME NEW w \in Workers,
             Abandon(w) \/ ShowSecret(w) \/ ConfirmSecret(w) \/ DisableFactor(w)
      PROVE  Calm
  BY <1>1, <1>2 DEF Abandon, ShowSecret, ConfirmSecret, DisableFactor, Calm, AccountTypeOK
<1>3. ASSUME NEW w \in Workers, FinishPassword(w)
      PROVE  Calm
  <2> DEFINE a == worker[w].account
             b == worker[w].browser
  <2>1. CASE profile[a].enabled /\ pending' = [pending EXCEPT ![b] = a] /\ UNCHANGED session
    <3>1. \A v \in Workers : worker'[v] # Idle => worker'[v] = worker[v]
      BY <1>3 DEF FinishPassword, End, AccountTypeOK
    <3>2. WayIn(a)
      BY <1>3 DEF FinishPassword, Holds, WayIn
    <3>3. \A c \in Browsers, x \in Accounts : pending'[c] = x => pending[c] = x \/ x = a
      BY <2>1 DEF AccountTypeOK
    <3>4. \A x \in Accounts : WayIn(x)' => WayIn(x)
      BY <1>3, <2>1, <3>1, <3>2, <3>3 DEF FinishPassword, WayIn
    <3> QED
      BY <1>3, <3>4 DEF FinishPassword, Calm
  <2>2. CASE Login(b, a, worker[w].row.hash, pending[b])
    BY <1>3, <2>2, LoginCalm DEF FinishPassword, Holds, Calm
  <2> QED
    BY <1>3, <2>1, <2>2 DEF FinishPassword
<1>4. ASSUME NEW w \in Workers, FinishChallenge(w)
      PROVE  Calm
  BY <1>4, LoginCalm DEF FinishChallenge, Holds, Calm
<1>5. ASSUME NEW w \in Workers, IssueToken(w)
      PROVE  Calm
  <2>1. \A v \in Workers : worker'[v] # Idle => worker'[v] = worker[v]
    BY <1>5 DEF IssueToken, End, AccountTypeOK
  <2>2. WayIn(worker[w].account)
    BY <1>5 DEF IssueToken, Holds, WayIn
  <2>3. \A x \in Accounts : WayIn(x)' => WayIn(x)
    BY <1>5, <2>1, <2>2 DEF IssueToken, WayIn
  <2> QED
    BY <1>5, <2>3 DEF IssueToken, Calm
<1>6. ASSUME NEW b \in Browsers, ChallengeRefused(b) \/ SignOut(b)
      PROVE  Calm
  <2>1. \A c \in Browsers : /\ session'[c] \in {session[c], Nobody}
                            /\ pending'[c] \in {pending[c], Nobody}
    BY <1>6 DEF ChallengeRefused, SignOut, AccountTypeOK
  <2>2. \A x \in Accounts : WayIn(x)' => WayIn(x)
    BY <1>6, <2>1, AccountAssumption DEF ChallengeRefused, SignOut, WayIn
  <2> QED
    BY <1>6, <2>2 DEF ChallengeRefused, SignOut, Calm
<1>7. CASE UNCHANGED accountVars
  BY <1>7 DEF accountVars, Calm, WayIn
<1> QED
  BY <1>2, <1>3, <1>4, <1>5, <1>6, <1>7

\* The steps that write a user row or mail a link.
Writes ==
    \/ \E w \in Workers : \/ CreatePendingUser(w) \/ VerifyUserEmail(w)
                          \/ SetPassword(w) \/ SaveMe(w) \/ StaffSetPassword(w)
                          \/ \E active, verified \in BOOLEAN : StaffSave(w, active, verified)
    \/ \E a \in Accounts : ResendVerification(a) \/ RequestReset(a) \/ StaffAdd(a)

LEMMA StepKinds ==
    ASSUME AccountTypeOK, RowsInv, [AccountNext]_accountVars
    PROVE  (\E w \in Workers : Reads(w)) \/ Calm \/ Writes
<1>1. CASE UNCHANGED accountVars
  BY <1>1, CalmSteps
<1>2. CASE AccountNext
  <2>1. ASSUME NEW w \in Workers, NEW a \in Accounts,
               \/ SubmitRegistration(w, a) \/ ReadMe(w, a) \/ StaffOpen(w, a)
               \/ StaffOpenPassword(w, a) \/ Authenticate(w, "token", Nobody, a)
               \/ \E b \in Browsers : \/ Authenticate(w, "login", b, a)
                                     \/ OpenSetup(w, b, a) \/ OpenDisable(w, b, a)
        PROVE  Reads(w)
    BY <2>1, Readings
  <2>2. ASSUME NEW w \in Workers,
               \/ \E l \in links : OpenVerification(w, l) \/ OpenReset(w, l)
               \/ \E b \in Browsers : AnswerChallenge(w, b)
        PROVE  Reads(w)
    BY <2>2, Readings
  <2> QED
    BY <1>2, <2>1, <2>2, CalmSteps DEF AccountNext, Writes
<1> QED
  BY <1>1, <1>2

\* A password that is drawn is later than every one before.
LEMMA DrawnLater ==
    ASSUME AccountTypeOK, drawn.hash < MaxHashes,
           drawn' = [drawn EXCEPT !.hash = @ + 1]
    PROVE  /\ drawn.hash \in Nat /\ FreshHash = drawn.hash + 1
           /\ drawn'.hash = FreshHash
BY AccountAssumption DEF AccountTypeOK, FreshHash, Hashes

LEMMA RowsInit == AccountInit => RowsInv
BY AccountAssumption DEF AccountInit, RowsInv, NoUser

\* A row written with a password drawn by now, and links mailed or used.
RowWrite(a, row) ==
    /\ row \in UserRows
    /\ user' = [user EXCEPT ![a] = row]
    /\ row.hash # 0 /\ row.hash <= drawn'.hash /\ drawn.hash <= drawn'.hash
    /\ worker' = worker \/ \E w \in Workers : End(w)
    /\ \A l \in links' \cup used' :
         \/ l \in links \cup used
         \/ 0 < l.hash /\ l.hash <= drawn'.hash /\ (l.kind = "verify" => ~l.verified)

LEMMA RowWritten ==
    ASSUME AccountTypeOK, AccountTypeOK', RowsInv, NEW a \in Accounts, NEW row,
           RowWrite(a, row)
    PROVE  RowsInv'
<1> USE DEF RowWrite
<1>0. /\ \A x \in Accounts : user[x].hash \in Nat
      /\ \A l \in links \cup used : l.hash \in Nat
      /\ drawn.hash \in Nat /\ drawn'.hash \in Nat
      /\ \A w \in Workers : worker[w] # Idle => worker[w].row.hash \in Nat
  BY AccountAssumption DEF AccountTypeOK, UserRows, Links, Hashes, Jobs
<1>1. \A x \in Accounts : user'[x] = IF x = a THEN row ELSE user[x]
  BY DEF AccountTypeOK
<1>2. \A v \in Workers : worker'[v] # Idle => worker'[v] = worker[v]
  BY DEF End, AccountTypeOK
<1>3. ASSUME NEW x \in Accounts
      PROVE  user'[x].hash <= drawn'.hash /\ (user'[x].hash = 0 => user'[x] = NoUser)
  <2>1. user[x].hash <= drawn.hash /\ (user[x].hash = 0 => user[x] = NoUser)
    BY DEF RowsInv
  <2> QED
    BY <1>0, <1>1, <2>1
<1>4. ASSUME NEW l \in links' \cup used'
      PROVE  0 < l.hash /\ l.hash <= drawn'.hash /\ (l.kind = "verify" => ~l.verified)
  BY <1>0 DEF RowsInv
<1>5. ASSUME NEW v \in Workers, worker'[v] # Idle
      PROVE  /\ worker'[v].row.hash <= drawn'.hash
             /\ worker'[v].kind = "verify" => ~worker'[v].row.verified
             /\ worker'[v].kind \in {"verify", "reset", "me", "staff", "password"} =>
                  worker'[v].row.hash # 0 /\ user'[worker'[v].account].hash # 0
  <2>1. worker'[v] = worker[v] /\ worker[v] # Idle
    BY <1>2, <1>5
  <2>2. worker[v].account \in Accounts
    BY <2>1, JobParts
  <2>3. worker[v].row.hash <= drawn'.hash
    BY <1>0, <2>1 DEF RowsInv
  <2> QED
    BY <1>1, <2>1, <2>2, <2>3 DEF RowsInv
<1> QED
  BY <1>3, <1>4, <1>5 DEF RowsInv

LEMMA RowsStep ==
    ASSUME AccountTypeOK, AccountTypeOK', RowsInv, [AccountNext]_accountVars
    PROVE  RowsInv'
<1>0. /\ drawn.hash \in Nat
      /\ \A x \in Accounts : user[x] \in UserRows /\ user[x].hash \in Nat
  BY AccountAssumption DEF AccountTypeOK, UserRows, Hashes
<1>1. ASSUME NEW w \in Workers, Reads(w)
      PROVE  RowsInv'
  <2>1. PICK j \in Jobs :
        /\ worker' = [worker EXCEPT ![w] = j]
        /\ j.row = user[j.account] \/ (j.kind \in {"setup", "token", "disable"} /\ j.row = NoUser)
        /\ j.kind = "verify" => ~user[j.account].verified
        /\ j.kind \in {"verify", "reset", "me", "staff", "password"} => user[j.account].hash # 0
        /\ UNCHANGED <<user, links, drawn, used>>
    BY <1>1 DEF Reads
  <2>2. j.account \in Accounts
    BY DEF Jobs
  <2>3. /\ j.row.hash <= drawn.hash
        /\ j.kind = "verify" => ~j.row.verified
        /\ j.kind \in {"verify", "reset", "me", "staff", "password"} =>
             j.row.hash # 0 /\ user[j.account].hash # 0
    BY <1>0, <2>1, <2>2 DEF RowsInv, NoUser
  <2>4. \A v \in Workers : worker'[v] = IF v = w THEN j ELSE worker[v]
    BY <2>1 DEF AccountTypeOK
  <2> QED
    BY <2>1, <2>3, <2>4 DEF RowsInv
<1>2. CASE Calm
  <2>1. \A v \in Workers : worker'[v] # Idle => worker'[v] = worker[v]
    BY <1>2 DEF Calm, End, AccountTypeOK
  <2> QED
    BY <1>2, <2>1 DEF Calm, RowsInv
<1>3. ASSUME NEW w \in Workers, CreatePendingUser(w)
      PROVE  RowsInv'
  <2> DEFINE a == worker[w].account
             row == [NoUser EXCEPT !.hash = FreshHash]
  <2>1. a \in Accounts
    BY <1>3, JobParts DEF CreatePendingUser, Holds
  <2>2. CASE Exists(a) /\ UNCHANGED <<drawn, user, links>>
    <3>1. \A v \in Workers : worker'[v] # Idle => worker'[v] = worker[v]
      BY <1>3 DEF CreatePendingUser, End, AccountTypeOK
    <3> QED
      BY <1>3, <2>2, <3>1 DEF CreatePendingUser, RowsInv
  <2>3. CASE /\ drawn.hash < MaxHashes
             /\ drawn' = [drawn EXCEPT !.hash = @ + 1]
             /\ user' = [user EXCEPT ![a] = row]
             /\ links' = links \cup {VerifyToken(a, row)}
    <3>1. drawn'.hash = drawn.hash + 1 /\ row.hash = drawn.hash + 1 /\ ~row.verified
      BY <2>3, DrawnLater DEF NoUser
    <3>2. row \in UserRows
      BY <2>3, FreshHashIsOne DEF NoUser, UserRows
    <3>3. VerifyToken(a, row).hash = drawn.hash + 1 /\ ~VerifyToken(a, row).verified
      BY <3>1 DEF VerifyToken
    <3> HIDE DEF row
    <3> QED
      <4>1. RowWrite(a, row)
        BY <1>0, <1>3, <2>3, <3>1, <3>2, <3>3 DEF CreatePendingUser, RowWrite
      <4> QED
        BY <2>1, <4>1, RowWritten
  <2> QED
    BY <1>3, <2>2, <2>3 DEF CreatePendingUser
<1>4. ASSUME NEW w \in Workers, VerifyUserEmail(w)
      PROVE  RowsInv'
  <2> DEFINE a == worker[w].account
             row == [user[a] EXCEPT !.verified = TRUE, !.active = TRUE]
             l == VerifyToken(a, worker[w].row)
  <2>1. worker[w] # Idle /\ worker[w].kind = "verify" /\ a \in Accounts
    BY <1>4, JobParts DEF VerifyUserEmail, Holds
  <2>2. row \in UserRows /\ row.hash = user[a].hash
    BY <1>0, <2>1, RowParts DEF UserRows
  <2>3. user[a].hash # 0 /\ user[a].hash <= drawn.hash
    BY <2>1 DEF RowsInv
  <2>4. worker[w].row.hash \in Nat
    BY <2>1, JobParts, AccountAssumption DEF UserRows, Hashes
  <2>5. 0 < l.hash /\ l.hash <= drawn.hash /\ ~l.verified
    BY <2>1, <2>4 DEF RowsInv, VerifyToken
  <2>6. drawn' = drawn /\ user' = [user EXCEPT ![a] = row] /\ End(w)
        /\ links' = links /\ used' = used \cup {l}
    BY <1>4 DEF VerifyUserEmail
  <2> HIDE DEF row, l
  <2>9. RowWrite(a, row)
    BY <1>0, <2>2, <2>3, <2>5, <2>6 DEF RowWrite
  <2> QED
    BY <2>1, <2>9, RowWritten
<1>5. ASSUME NEW w \in Workers, SetPassword(w)
      PROVE  RowsInv'
  <2> DEFINE a == worker[w].account
             row == [worker[w].row EXCEPT !.hash = FreshHash]
             l == ResetToken(a, worker[w].row)
  <2>1. worker[w] # Idle /\ worker[w].kind = "reset" /\ a \in Accounts
        /\ worker[w].row \in UserRows
    BY <1>5, JobParts DEF SetPassword, Holds
  <2>2. row \in UserRows /\ row.hash = drawn'.hash /\ drawn'.hash = drawn.hash + 1
    BY <1>5, <2>1, FreshHashIsOne, DrawnLater, RowParts DEF SetPassword, UserRows
  <2>3. worker[w].row.hash \in Nat
    BY <2>1, AccountAssumption DEF UserRows, Hashes
  <2>4. 0 < l.hash /\ l.hash <= drawn.hash /\ l.kind = "reset"
    BY <2>1, <2>3 DEF RowsInv, ResetToken
  <2>5. user' = [user EXCEPT ![a] = row] /\ End(w)
        /\ links' = links /\ used' = used \cup {l}
    BY <1>5 DEF SetPassword
  <2>6. l.hash \in Nat
    BY <2>3 DEF ResetToken
  <2> HIDE DEF row, l
  <2>9. RowWrite(a, row)
    BY <1>0, <2>2, <2>4, <2>5, <2>6 DEF RowWrite
  <2> QED
    BY <2>1, <2>9, RowWritten
<1>6. ASSUME NEW w \in Workers, SaveMe(w)
      PROVE  RowsInv'
  <2>1. worker[w] # Idle /\ worker[w].kind = "me" /\ worker[w].account \in Accounts
        /\ worker[w].row \in UserRows
    BY <1>6, JobParts DEF SaveMe, Holds
  <2>2. worker[w].row.hash # 0 /\ worker[w].row.hash <= drawn.hash
    BY <2>1 DEF RowsInv
  <2>9. RowWrite(worker[w].account, worker[w].row)
    BY <1>0, <1>6, <2>1, <2>2 DEF RowWrite, SaveMe
  <2> QED
    BY <2>1, <2>9, RowWritten
<1>7. ASSUME NEW w \in Workers, NEW on \in BOOLEAN, NEW yes \in BOOLEAN,
             StaffSave(w, on, yes)
      PROVE  RowsInv'
  <2> DEFINE a == worker[w].account
             row == [worker[w].row EXCEPT !.active = on, !.verified = yes]
  <2>1. worker[w] # Idle /\ worker[w].kind = "staff" /\ a \in Accounts
        /\ worker[w].row \in UserRows
    BY <1>7, JobParts DEF StaffSave, Holds
  <2>2. row \in UserRows /\ row.hash = worker[w].row.hash
    BY <2>1, RowParts DEF UserRows
  <2>3. worker[w].row.hash # 0 /\ worker[w].row.hash <= drawn.hash
    BY <2>1 DEF RowsInv
  <2>4. user' = [user EXCEPT ![a] = row] /\ End(w) /\ UNCHANGED <<links, drawn, used>>
    BY <1>7 DEF StaffSave
  <2> HIDE DEF row
  <2>9. RowWrite(a, row)
    BY <1>0, <2>2, <2>3, <2>4 DEF RowWrite
  <2> QED
    BY <2>1, <2>9, RowWritten
<1>10. ASSUME NEW w \in Workers, StaffSetPassword(w)
       PROVE  RowsInv'
  <2> DEFINE a == worker[w].account
             row == [worker[w].row EXCEPT !.hash = FreshHash]
  <2>1. worker[w] # Idle /\ a \in Accounts /\ worker[w].row \in UserRows
    BY <1>10, JobParts DEF StaffSetPassword, Holds
  <2>2. row \in UserRows /\ row.hash = drawn'.hash /\ drawn'.hash = drawn.hash + 1
    BY <1>10, <2>1, FreshHashIsOne, DrawnLater, RowParts DEF StaffSetPassword, UserRows
  <2>3. user' = [user EXCEPT ![a] = row] /\ End(w) /\ UNCHANGED <<links, used>>
    BY <1>10 DEF StaffSetPassword
  <2> HIDE DEF row
  <2>9. RowWrite(a, row)
    BY <1>0, <2>2, <2>3 DEF RowWrite
  <2> QED
    BY <2>1, <2>9, RowWritten
<1>8. ASSUME NEW a \in Accounts, ResendVerification(a) \/ RequestReset(a)
      PROVE  RowsInv'
  <2>1. user[a].hash # 0 /\ user[a].hash <= drawn.hash
    BY <1>8 DEF ResendVerification, RequestReset, Exists, RowsInv, NoUser
  <2>2. user' = [user EXCEPT ![a] = user[a]]
    BY <1>8 DEF ResendVerification, RequestReset, AccountTypeOK
  <2>3. \A l \in links' : l \in links \/ (0 < l.hash /\ l.hash <= drawn.hash
                                          /\ (l.kind = "verify" => ~l.verified))
    BY <1>0, <1>8, <2>1 DEF ResendVerification, RequestReset, VerifyToken, ResetToken
  <2>9. RowWrite(a, user[a])
    BY <1>0, <1>8, <2>1, <2>2, <2>3 DEF RowWrite, ResendVerification, RequestReset
  <2> QED
    BY <2>1, <2>9, RowWritten
<1>9. ASSUME NEW a \in Accounts, StaffAdd(a)
      PROVE  RowsInv'
  <2> DEFINE row == [NoUser EXCEPT !.active = TRUE, !.hash = FreshHash]
  <2>1. row \in UserRows /\ row.hash = drawn'.hash /\ drawn'.hash = drawn.hash + 1
    BY <1>9, FreshHashIsOne, DrawnLater DEF StaffAdd, NoUser, UserRows
  <2>2. user' = [user EXCEPT ![a] = row] /\ UNCHANGED <<links, used, worker>>
    BY <1>9 DEF StaffAdd
  <2> HIDE DEF row
  <2>9. RowWrite(a, row)
    BY <1>0, <2>1, <2>2 DEF RowWrite
  <2> QED
    BY <2>1, <2>9, RowWritten
<1> QED
  BY <1>1, <1>2, <1>3, <1>4, <1>5, <1>6, <1>7, <1>8, <1>9, <1>10, StepKinds DEF Writes

LEMMA EntryInit == AccountInit => EntryInv
<1> SUFFICES ASSUME AccountInit, NEW a \in Accounts
             PROVE  EntryAt(a)
  BY DEF EntryInv
<1>1. a # Nobody
  BY AccountAssumption
<1>2. ~user[a].active /\ ~user[a].verified
  BY DEF AccountInit, NoUser
<1>3. ~WayIn(a)
  BY <1>1 DEF AccountInit, WayIn
<1> QED
  BY <1>2, <1>3 DEF AccountInit, EntryAt

\* The writing steps, all but one, mail no reset link.
LEMMA SameWays ==
    ASSUME AccountTypeOK, NEW x \in Accounts, UNCHANGED <<session, pending, tokens>>,
           worker' = worker \/ \E w \in Workers : End(w),
           \A l \in links' : l \in links \/ l.kind = "verify"
    PROVE  WayIn(x)' => WayIn(x)
<1>1. \A w \in Workers : worker'[w] # Idle => worker'[w] = worker[w]
  BY DEF End, AccountTypeOK
<1> QED
  BY <1>1 DEF WayIn

\* An account whose row a step leaves alone, and to which it opens no way.
LEMMA EntryElsewhere ==
    ASSUME AccountTypeOK, EntryInv, NEW x \in Accounts, x \notin touched,
           used \subseteq used', user'[x] = user[x], WayIn(x)' => WayIn(x),
           worker' = worker \/ \E w \in Workers : End(w)
    PROVE  EntryAt(x)'
<1>1. \A w \in Workers : worker'[w] # Idle => worker'[w] = worker[w]
  BY DEF End, AccountTypeOK
<1>2. VerifiedBy(x) => VerifiedBy(x)'
  BY DEF VerifiedBy
<1> QED
  BY <1>1, <1>2 DEF EntryInv, EntryAt

\* An account that is written as verified, after its link was opened.
LEMMA EntryVerified ==
    ASSUME AccountTypeOK, EntryInv, NEW x \in Accounts, x \notin touched,
           user'[x].verified, VerifiedBy(x)',
           worker' = worker \/ \E w \in Workers : End(w)
    PROVE  EntryAt(x)'
<1>1. \A w \in Workers : worker'[w] # Idle => worker'[w] = worker[w]
  BY DEF End, AccountTypeOK
<1> QED
  BY <1>1 DEF EntryInv, EntryAt

LEMMA EntryStep ==
    ASSUME AccountTypeOK, RowsInv, EntryInv, [AccountNext]_accountVars
    PROVE  EntryInv'
<1> DEFINE Ended == worker' = worker \/ \E w \in Workers : End(w)
<1>1. ASSUME NEW w \in Workers, Reads(w)
      PROVE  EntryInv'
  <2>1. PICK j \in Jobs :
        /\ worker' = [worker EXCEPT ![w] = j]
        /\ j.row = user[j.account] \/ (j.kind \in {"setup", "token", "disable"} /\ j.row = NoUser)
        /\ j.kind \in {"login", "token", "challenge", "reset", "me"} =>
             user[j.account].active \/ WayIn(j.account)
        /\ UNCHANGED <<user, session, pending, links, tokens, used, touched>>
    BY <1>1 DEF Reads
  <2>2. \A v \in Workers : worker'[v] = IF v = w THEN j ELSE worker[v]
    BY <2>1 DEF AccountTypeOK
  <2>3. ASSUME NEW x \in Accounts, x \notin touched
        PROVE  EntryAt(x)'
    <3>1. EntryAt(x)
      BY <2>3 DEF EntryInv
    <3>2. WayIn(x)' => WayIn(x) \/ (j.account = x
                         /\ j.kind \in {"login", "token", "challenge", "reset", "me"})
      BY <2>1, <2>2 DEF WayIn
    <3>3. VerifiedBy(x)' <=> VerifiedBy(x)
      BY <2>1 DEF VerifiedBy
    <3>4. user'[x] = user[x]
      BY <2>1
    <3> QED
      BY <2>1, <2>2, <3>1, <3>2, <3>3, <3>4 DEF EntryAt
  <2> QED
    BY <2>1, <2>3 DEF EntryInv
<1>2. CASE Calm
  BY <1>2, EntryElsewhere DEF Calm, EntryInv
<1>3. ASSUME NEW w \in Workers, CreatePendingUser(w)
      PROVE  EntryInv'
  <2> DEFINE a == worker[w].account
             row == [NoUser EXCEPT !.hash = FreshHash]
  <2>1. Ended /\ used' = used /\ touched' = touched
    BY <1>3 DEF CreatePendingUser
  <2>2. \A x \in Accounts : WayIn(x)' => WayIn(x)
    <3>1. \A l \in links' : l \in links \/ l.kind = "verify"
      BY <1>3 DEF CreatePendingUser, VerifyToken
    <3> QED
      BY <1>3, <2>1, <3>1, SameWays DEF CreatePendingUser
  <2>3. ASSUME NEW x \in Accounts, x \notin touched, user'[x] # user[x]
        PROVE  EntryAt(x)'
    <3>1. x = a /\ ~Exists(a) /\ user' = [user EXCEPT ![a] = row]
      BY <1>3, <2>3 DEF CreatePendingUser, AccountTypeOK
    <3>2. user'[x] = row
      BY <3>1 DEF AccountTypeOK
    <3>3. ~user'[x].active /\ ~user'[x].verified
      BY <3>2 DEF NoUser
    <3>4. ~user[x].verified
      BY <3>1 DEF Exists, RowsInv, NoUser
    <3>5. ~WayIn(x)
      BY <2>3, <3>4 DEF EntryInv, EntryAt
    <3>6. \A v \in Workers : worker'[v] # Idle => worker'[v] = worker[v]
      BY <2>1 DEF End, AccountTypeOK
    <3>7. \A v \in Workers : worker'[v] # Idle /\ worker'[v].account = x
                                => worker'[v].kind \notin {"reset", "me"}
      BY <3>5, <3>6 DEF WayIn
    <3> QED
      BY <2>2, <3>3, <3>5, <3>7 DEF EntryAt
  <2> QED
    BY <2>1, <2>2, <2>3, EntryElsewhere DEF EntryInv
<1>4. ASSUME NEW w \in Workers, VerifyUserEmail(w)
      PROVE  EntryInv'
  <2>0. PICK a \in Accounts : a = worker[w].account
    BY <1>4, JobParts DEF VerifyUserEmail, Holds
  <2>1. Ended /\ used' = used \cup {VerifyToken(a, worker[w].row)} /\ touched' = touched
        /\ user' = [user EXCEPT ![a].verified = TRUE, ![a].active = TRUE]
    BY <1>4, <2>0 DEF VerifyUserEmail
  <2>2. \A x \in Accounts : WayIn(x)' => WayIn(x)
    BY <1>4, <2>1, SameWays DEF VerifyUserEmail
  <2>3. user'[a].verified /\ \A x \in Accounts \ {a} : user'[x] = user[x]
    BY <2>1 DEF AccountTypeOK, UserRows
  <2>4. VerifiedBy(a)'
    <3>1. PICK l : l = VerifyToken(a, worker[w].row)
      OBVIOUS
    <3>2. l.kind = "verify" /\ l.account = a
      BY <3>1 DEF VerifyToken
    <3>3. l \in used'
      BY <2>1, <3>1
    <3> QED
      BY <3>2, <3>3 DEF VerifiedBy
  <2>5. a \notin touched => EntryAt(a)'
    BY <2>1, <2>3, <2>4, EntryVerified
  <2> QED
    BY <2>1, <2>2, <2>3, <2>5, EntryElsewhere DEF EntryInv
<1>5. ASSUME NEW w \in Workers, SetPassword(w) \/ SaveMe(w)
      PROVE  EntryInv'
  <2>0. PICK a \in Accounts : a = worker[w].account
    BY <1>5, JobParts DEF SetPassword, SaveMe, Holds
  <2>1. /\ Ended /\ used \subseteq used' /\ touched' = touched
        /\ worker[w] # Idle /\ worker[w].kind \in {"reset", "me"}
        /\ UNCHANGED <<session, pending, links, tokens>>
    BY <1>5 DEF SetPassword, SaveMe, Holds
  <2>2. worker[w].row \in UserRows
    BY <2>1, JobParts
  <2>3. \A x \in Accounts : WayIn(x)' => WayIn(x)
    BY <2>1, SameWays
  <2>4. user'[a].verified = worker[w].row.verified /\ \A x \in Accounts \ {a} : user'[x] = user[x]
    BY <1>5, <2>0, <2>2 DEF SetPassword, SaveMe, AccountTypeOK, UserRows
  <2>5. ASSUME a \notin touched
        PROVE  EntryAt(a)'
    <3>1. EntryAt(a) /\ WayIn(a)
      BY <2>0, <2>1, <2>5 DEF EntryInv, WayIn
    <3>2. worker[w].row.verified /\ VerifiedBy(a)
      BY <2>0, <2>1, <3>1 DEF EntryAt
    <3>3. VerifiedBy(a)'
      BY <2>1, <3>2 DEF VerifiedBy
    <3> QED
      BY <2>1, <2>4, <2>5, <3>2, <3>3, EntryVerified
  <2> QED
    BY <2>1, <2>3, <2>4, <2>5, EntryElsewhere DEF EntryInv
<1>6. ASSUME NEW w \in Workers,
             StaffSetPassword(w) \/ \E on, yes \in BOOLEAN : StaffSave(w, on, yes)
      PROVE  EntryInv'
  <2> DEFINE a == worker[w].account
  <2>1. Ended /\ used' = used /\ touched' = touched \cup {a}
        /\ UNCHANGED <<session, pending, links, tokens>>
    BY <1>6 DEF StaffSave, StaffSetPassword
  <2>2. \A x \in Accounts : WayIn(x)' => WayIn(x)
    BY <2>1, SameWays
  <2>3. \A x \in Accounts \ {a} : user'[x] = user[x]
    BY <1>6 DEF StaffSave, StaffSetPassword, AccountTypeOK
  <2> QED
    BY <2>1, <2>2, <2>3, EntryElsewhere DEF EntryInv
<1>7. ASSUME NEW a \in Accounts, ResendVerification(a)
      PROVE  EntryInv'
  <2>1. \A l \in links' : l \in links \/ l.kind = "verify"
    BY <1>7 DEF ResendVerification, VerifyToken
  <2>2. \A x \in Accounts : WayIn(x)' => WayIn(x)
    BY <1>7, <2>1, SameWays DEF ResendVerification
  <2> QED
    BY <1>7, <2>2, EntryElsewhere DEF ResendVerification, EntryInv
<1>8. ASSUME NEW a \in Accounts, RequestReset(a)
      PROVE  EntryInv'
  <2>1. ASSUME NEW x \in Accounts, x \notin touched
        PROVE  EntryAt(x)'
    <3>1. EntryAt(x)
      BY <2>1 DEF EntryInv
    <3>2. WayIn(x)' => WayIn(x) \/ x = a
      BY <1>8 DEF RequestReset, WayIn, ResetToken
    <3>3. VerifiedBy(x)' <=> VerifiedBy(x)
      BY <1>8 DEF RequestReset, VerifiedBy
    <3> QED
      BY <1>8, <3>1, <3>2, <3>3 DEF RequestReset, EntryAt
  <2> QED
    BY <1>8, <2>1 DEF RequestReset, EntryInv
<1>9. ASSUME NEW a \in Accounts, StaffAdd(a)
      PROVE  EntryInv'
  <2>1. worker' = worker /\ used' = used /\ touched' = touched \cup {a}
        /\ UNCHANGED <<session, pending, links, tokens>>
    BY <1>9 DEF StaffAdd
  <2>2. \A x \in Accounts : WayIn(x)' => WayIn(x)
    BY <2>1, SameWays
  <2>3. \A x \in Accounts \ {a} : user'[x] = user[x]
    BY <1>9 DEF StaffAdd, AccountTypeOK
  <2> QED
    BY <2>1, <2>2, <2>3, EntryElsewhere DEF EntryInv
<1> QED
  BY <1>1, <1>2, <1>3, <1>4, <1>5, <1>6, <1>7, <1>8, <1>9, StepKinds DEF Writes

\* The invariant the theorems below rest on.
LEMMA AccountInvariant == AccountSpec => []AccountInv
<1>1. AccountInit => AccountInv
  BY TypesInit, RowsInit, EntryInit DEF AccountInv
<1>2. AccountInv /\ [AccountNext]_accountVars => AccountInv'
  BY TypesStep, RowsStep, EntryStep DEF AccountInv
<1> QED
  BY <1>1, <1>2, PTL DEF AccountSpec

\* No customer is signed in, or sent an API token, before a link mailed to
\* the address was opened, however registrations, links, sign-ins and resets
\* interleave; accounts that staff have written are exempt.
THEOREM NoEntryBeforeVerification == AccountSpec => []NobodyEntersUnverified
<1>1. AccountInv => NobodyEntersUnverified
  BY DEF AccountInv, EntryInv, EntryAt, WayIn, VerifiedBy, NobodyEntersUnverified
<1> QED
  BY <1>1, AccountInvariant, PTL

-----------------------------------------------------------------------------
(* What a step may never do *)

\* Rows are left alone but by the steps that write them.
LEMMA UserKept ==
    ASSUME AccountInv, [AccountNext]_accountVars
    PROVE  (UNCHANGED <<user, used>>) \/ Writes
BY StepKinds DEF AccountInv, Reads, Calm

\* A password changes with a reset or on the password page of the admin, or is
\* put back by a request that had read an older one: registering an address again
\* leaves it alone, also when both registrations found the address free.
THEOREM PasswordsKept == AccountSpec => PasswordKept
<1> DEFINE Kept(a) ==
      Exists(a) /\ user'[a].hash # user[a].hash =>
        \E w \in Workers :
            /\ Finishes(w, a)
            /\ \/ worker[w].kind \in {"reset", "password"}
               \/ worker[w].kind \in {"me", "staff"} /\ worker[w].row.hash # user[a].hash
<1>1. ASSUME AccountInv, [AccountNext]_accountVars, NEW a \in Accounts,
             Exists(a), user'[a].hash # user[a].hash
      PROVE  Kept(a)
  <2>1. AccountTypeOK
    BY <1>1 DEF AccountInv
  <2>2. Writes
    BY <1>1, UserKept
  <2>3. ASSUME NEW w \in Workers, CreatePendingUser(w)
        PROVE  Kept(a)
    BY <1>1, <2>1, <2>3 DEF CreatePendingUser, Exists, AccountTypeOK
  <2>4. ASSUME NEW w \in Workers, VerifyUserEmail(w)
        PROVE  Kept(a)
    BY <1>1, <2>1, <2>4 DEF VerifyUserEmail, AccountTypeOK, UserRows
  <2>5. ASSUME NEW w \in Workers, SetPassword(w)
        PROVE  Kept(a)
    BY <1>1, <2>1, <2>5 DEF SetPassword, Holds, End, Finishes, AccountTypeOK
  <2>6. ASSUME NEW w \in Workers, SaveMe(w)
        PROVE  Kept(a)
    BY <1>1, <2>1, <2>6 DEF SaveMe, Holds, End, Finishes, AccountTypeOK
  <2>7. ASSUME NEW w \in Workers, NEW on \in BOOLEAN, NEW yes \in BOOLEAN,
               StaffSave(w, on, yes)
        PROVE  Kept(a)
    <3>1. worker[w].row \in UserRows
      BY <2>1, <2>7, JobParts DEF StaffSave, Holds
    <3>2. worker[w].account = a /\ user'[a].hash = worker[w].row.hash
      BY <1>1, <2>1, <2>7, <3>1 DEF StaffSave, AccountTypeOK, UserRows
    <3>3. Finishes(w, a) /\ worker[w].kind = "staff"
      BY <2>1, <2>7, <3>2 DEF StaffSave, Holds, End, Finishes, AccountTypeOK
    <3> QED
      BY <1>1, <3>2, <3>3
  <2>9. ASSUME NEW w \in Workers, StaffSetPassword(w)
        PROVE  Kept(a)
    BY <1>1, <2>1, <2>9 DEF StaffSetPassword, Holds, End, Finishes, AccountTypeOK
  <2>8. ASSUME NEW b \in Accounts, ResendVerification(b) \/ RequestReset(b) \/ StaffAdd(b)
        PROVE  Kept(a)
    BY <1>1, <2>1, <2>8 DEF ResendVerification, RequestReset, StaffAdd, Exists, AccountTypeOK
  <2> QED
    BY <2>2, <2>3, <2>4, <2>5, <2>6, <2>7, <2>8, <2>9 DEF Writes
<1>2. AccountInv /\ [AccountNext]_accountVars => \A a \in Accounts : Kept(a)
  BY <1>1
<1> QED
  BY <1>2, AccountInvariant, PTL DEF AccountSpec, PasswordKept

\* An account that is off, verified or not, is switched on by staff, by a link
\* opened while its address was not verified, or by a request that had read its
\* row while it was on; no sign-in, reset or profile request begun later does it.
THEOREM DeactivationsHold == AccountSpec => DeactivationHolds
<1> DEFINE Kept(a) ==
      Exists(a) /\ ~user[a].active /\ user'[a].active =>
        \E w \in Workers :
            /\ Finishes(w, a)
            /\ \/ worker[w].kind = "staff"
               \/ worker[w].kind = "verify" /\ ~worker[w].row.verified
               \/ worker[w].kind \in {"reset", "me", "password"} /\ worker[w].row.active
<1>1. ASSUME AccountInv, [AccountNext]_accountVars, NEW a \in Accounts,
             Exists(a), ~user[a].active, user'[a].active
      PROVE  Kept(a)
  <2>1. AccountTypeOK /\ RowsInv
    BY <1>1 DEF AccountInv
  <2>2. Writes
    BY <1>1, UserKept
  <2>3. \A w \in Workers : End(w) /\ worker[w] # Idle /\ worker[w].account = a
          => Finishes(w, a)
    BY <2>1 DEF End, Finishes, AccountTypeOK
  <2>4. ASSUME NEW w \in Workers, CreatePendingUser(w)
        PROVE  Kept(a)
    BY <1>1, <2>1, <2>4 DEF CreatePendingUser, AccountTypeOK
  <2>5. ASSUME NEW w \in Workers, VerifyUserEmail(w)
        PROVE  Kept(a)
    <3>1. worker[w].account = a
      BY <1>1, <2>1, <2>5 DEF VerifyUserEmail, AccountTypeOK
    <3> QED
      BY <2>1, <2>3, <2>5, <3>1 DEF VerifyUserEmail, Holds, RowsInv
  <2>6. ASSUME NEW w \in Workers, SetPassword(w) \/ StaffSetPassword(w)
        PROVE  Kept(a)
    <3>1. worker[w].row \in UserRows
      BY <2>1, <2>6, JobParts DEF SetPassword, StaffSetPassword, Holds
    <3>2. worker[w].account = a /\ worker[w].row.active
      BY <1>1, <2>1, <2>6, <3>1 DEF SetPassword, StaffSetPassword, AccountTypeOK, UserRows
    <3> QED
      BY <2>3, <2>6, <3>2 DEF SetPassword, StaffSetPassword, Holds
  <2>7. ASSUME NEW w \in Workers, SaveMe(w)
        PROVE  Kept(a)
    <3>1. worker[w].account = a /\ worker[w].row.active
      BY <1>1, <2>1, <2>7 DEF SaveMe, AccountTypeOK
    <3> QED
      BY <2>3, <2>7, <3>1 DEF SaveMe, Holds
  <2>8. ASSUME NEW w \in Workers, NEW on \in BOOLEAN, NEW yes \in BOOLEAN,
               StaffSave(w, on, yes)
        PROVE  Kept(a)
    <3>1. worker[w].account = a
      BY <1>1, <2>1, <2>8 DEF StaffSave, AccountTypeOK
    <3> QED
      BY <2>3, <2>8, <3>1 DEF StaffSave, Holds
  <2>9. ASSUME NEW b \in Accounts, ResendVerification(b) \/ RequestReset(b) \/ StaffAdd(b)
        PROVE  Kept(a)
    BY <1>1, <2>1, <2>9 DEF ResendVerification, RequestReset, StaffAdd, AccountTypeOK
  <2> QED
    BY <2>2, <2>4, <2>5, <2>6, <2>7, <2>8, <2>9 DEF Writes
<1>2. AccountInv /\ [AccountNext]_accountVars => \A a \in Accounts : Kept(a)
  BY <1>1
<1> QED
  BY <1>2, AccountInvariant, PTL DEF AccountSpec, DeactivationHolds

\* A link that did its work is dead: it is accepted again only when an older
\* password is written back by a request that had read it, or, a verification
\* link, when the account is written as unverified again.
THEOREM UsedLinksDead == AccountSpec => UsedLinksStayDead
<1> DEFINE Dead(l) ==
      Valid(l)' => \/ l \in used /\ Valid(l)
                   \/ \E w \in Workers :
                        /\ Finishes(w, l.account)
                        /\ worker[w].kind \in {"me", "staff"}
                        /\ \/ worker[w].row.hash # user[l.account].hash
                           \/ /\ l.kind = "verify"
                              /\ user[l.account].verified /\ ~user'[l.account].verified
<1>1. ASSUME AccountInv, AccountTypeOK', [AccountNext]_accountVars, NEW l \in used', Valid(l)'
      PROVE  Dead(l)
  <2>1. AccountTypeOK /\ RowsInv
    BY <1>1 DEF AccountInv
  <2>2. l \in Links /\ l.account \in Accounts
    BY <1>1 DEF AccountTypeOK, Links
  <2>3. /\ l.hash = user'[l.account].hash
        /\ l.kind = "verify" => l.verified = user'[l.account].verified
    BY <1>1, <2>2, TokensIff DEF Valid
  <2>4. l \in used => 0 < l.hash /\ l.hash <= drawn.hash /\ (l.kind = "verify" => ~l.verified)
    BY <2>1 DEF RowsInv
  <2>5. ASSUME l \in used, l.hash = user[l.account].hash,
               l.kind = "verify" => l.verified = user[l.account].verified
        PROVE  Dead(l)
    BY <2>2, <2>5, TokensIff DEF Valid
  <2>6. CASE UNCHANGED <<user, used>>
    BY <2>3, <2>5, <2>6
  <2>7. ASSUME NEW w \in Workers, CreatePendingUser(w)
        PROVE  Dead(l)
    <3>1. l \in used
      BY <2>7 DEF CreatePendingUser
    <3>2. user'[l.account] = user[l.account] \/
            (drawn.hash < MaxHashes /\ user'[l.account].hash = FreshHash)
      BY <2>1, <2>2, <2>7 DEF CreatePendingUser, AccountTypeOK, NoUser
    <3>3. drawn.hash < MaxHashes => FreshHash > drawn.hash
      BY <2>1, AccountAssumption DEF AccountTypeOK, FreshHash, Hashes
    <3>4. user'[l.account] = user[l.account]
      <4>1. l.hash \in Nat /\ drawn.hash \in Nat /\ FreshHash \in Int
        BY <2>1, <2>2, AccountAssumption DEF AccountTypeOK, Links, Hashes, FreshHash
      <4> QED
        BY <2>3, <2>4, <3>1, <3>2, <3>3, <4>1
    <3> QED
      BY <2>3, <2>5, <3>1, <3>4
  <2>8. ASSUME NEW w \in Workers, VerifyUserEmail(w)
        PROVE  Dead(l)
    <3>1. worker[w].account \in Accounts /\ ~worker[w].row.verified
      BY <2>1, <2>8, JobParts DEF VerifyUserEmail, Holds, RowsInv
    <3>2. CASE l.kind = "verify" /\ l.account = worker[w].account
      <4>1. ~l.verified
        BY <2>4, <2>8, <3>1, <3>2 DEF VerifyUserEmail, VerifyToken
      <4>2. user'[l.account].verified
        BY <2>1, <2>2, <2>8, <3>2 DEF VerifyUserEmail, AccountTypeOK, UserRows
      <4> QED
        BY <2>3, <3>2, <4>1, <4>2
    <3>3. CASE l.kind # "verify" \/ l.account # worker[w].account
      <4>1. l \in used
        BY <2>8, <3>3 DEF VerifyUserEmail, VerifyToken
      <4>2. user'[l.account].hash = user[l.account].hash
        BY <2>1, <2>2, <2>8 DEF VerifyUserEmail, AccountTypeOK, UserRows
      <4>3. l.account # worker[w].account => user'[l.account] = user[l.account]
        BY <2>1, <2>2, <2>8 DEF VerifyUserEmail, AccountTypeOK
      <4> QED
        BY <2>3, <2>5, <3>3, <4>1, <4>2, <4>3
    <3> QED
      BY <3>2, <3>3
  <2>9. ASSUME NEW w \in Workers, SetPassword(w)
        PROVE  Dead(l)
    <3> DEFINE row == worker[w].row
    <3>1. worker[w].account \in Accounts /\ row \in UserRows /\ row.hash <= drawn.hash
      BY <2>1, <2>9, JobParts DEF SetPassword, Holds, RowsInv
    <3>2. FreshHash > drawn.hash
      BY <2>1, AccountAssumption DEF AccountTypeOK, FreshHash, Hashes
    <3>3. l \in used \/ l.hash = row.hash
      BY <2>9 DEF SetPassword, ResetToken
    <3>4. CASE l.account = worker[w].account
      <4>1. user'[l.account].hash = FreshHash
        BY <2>1, <2>2, <2>9, <3>1, <3>4 DEF SetPassword, AccountTypeOK, UserRows
      <4>2. l.hash <= drawn.hash
        BY <2>4, <3>1, <3>3
      <4>3. l.hash \in Nat /\ drawn.hash \in Nat
        BY <2>1, <2>2, AccountAssumption DEF AccountTypeOK, Links, Hashes
      <4> QED
        BY <2>3, <3>2, <4>1, <4>2, <4>3 DEF FreshHash
    <3>5. CASE l.account # worker[w].account
      <4>1. l \in used /\ user'[l.account] = user[l.account]
        BY <2>1, <2>2, <2>9, <3>5 DEF SetPassword, ResetToken, AccountTypeOK
      <4> QED
        BY <2>3, <2>5, <4>1
    <3> QED
      BY <3>4, <3>5
  <2>10. ASSUME NEW w \in Workers,
                SaveMe(w) \/ \E on, yes \in BOOLEAN : StaffSave(w, on, yes)
         PROVE  Dead(l)
    <3>1. /\ l \in used /\ worker[w] # Idle /\ worker[w].kind \in {"me", "staff"} /\ End(w)
      BY <2>10 DEF SaveMe, StaffSave, Holds
    <3>2. worker[w].row \in UserRows
      BY <2>1, <3>1, JobParts
    <3>3. CASE l.account # worker[w].account
      <4>1. user'[l.account] = user[l.account]
        BY <2>1, <2>2, <2>10, <3>3 DEF SaveMe, StaffSave, AccountTypeOK
      <4> QED
        BY <2>3, <2>5, <3>1, <4>1
    <3>4. CASE l.account = worker[w].account
      <4>1. Finishes(w, l.account)
        BY <2>1, <3>1, <3>4 DEF End, Finishes, AccountTypeOK
      <4>2. user'[l.account].hash = worker[w].row.hash
        <5>1. CASE SaveMe(w)
          BY <2>1, <2>2, <3>4, <5>1 DEF SaveMe, AccountTypeOK
        <5>2. ASSUME NEW on \in BOOLEAN, NEW yes \in BOOLEAN, StaffSave(w, on, yes)
              PROVE  user'[l.account].hash = worker[w].row.hash
          BY <2>1, <2>2, <3>2, <3>4, <5>2 DEF StaffSave, AccountTypeOK, UserRows
        <5> QED
          BY <2>10, <5>1, <5>2
      <4>3. CASE worker[w].row.hash # user[l.account].hash
        BY <3>1, <4>1, <4>3
      <4>4. CASE worker[w].row.hash = user[l.account].hash
        <5>1. l.hash = user[l.account].hash
          BY <2>3, <4>2, <4>4
        <5>2. user[l.account].verified \in BOOLEAN
          BY <2>1, <2>2 DEF AccountTypeOK, UserRows
        <5>3. l.kind = "verify" => ~l.verified /\ ~user'[l.account].verified
          BY <2>3, <2>4, <3>1
        <5>4. l.kind = "verify" => l.verified \in BOOLEAN
          BY <2>2 DEF Links
        <5>5. CASE l.kind = "verify" /\ user[l.account].verified
          BY <3>1, <4>1, <5>3, <5>5
        <5>6. CASE ~(l.kind = "verify" /\ user[l.account].verified)
          <6>1. l.kind = "verify" => l.verified = user[l.account].verified
            BY <5>2, <5>3, <5>4, <5>6
          <6> QED
            BY <2>5, <3>1, <5>1, <6>1
        <5> QED
          BY <5>5, <5>6
      <4> QED
        BY <4>3, <4>4
    <3> QED
      BY <3>3, <3>4
  <2>11. ASSUME NEW w \in Workers, StaffSetPassword(w)
         PROVE  Dead(l)
    <3>1. l \in used
      BY <2>11 DEF StaffSetPassword
    <3>2. worker[w].row \in UserRows
      BY <2>1, <2>11, JobParts DEF StaffSetPassword, Holds
    <3>3. user'[l.account] = user[l.account] \/ user'[l.account].hash = FreshHash
      BY <2>1, <2>2, <2>11, <3>2 DEF StaffSetPassword, AccountTypeOK, UserRows
    <3>4. FreshHash > drawn.hash
      BY <2>1, AccountAssumption DEF AccountTypeOK, FreshHash, Hashes
    <3>5. user'[l.account] = user[l.account]
      <4>1. l.hash \in Nat /\ drawn.hash \in Nat /\ FreshHash \in Int
        BY <2>1, <2>2, AccountAssumption DEF AccountTypeOK, Links, Hashes, FreshHash
      <4> QED
        BY <2>3, <2>4, <3>1, <3>3, <3>4, <4>1
    <3> QED
      BY <2>3, <2>5, <3>1, <3>5
  <2>12. ASSUME NEW b \in Accounts, StaffAdd(b)
         PROVE  Dead(l)
    <3>1. l \in used
      BY <2>12 DEF StaffAdd
    <3>2. user'[l.account] = user[l.account] \/ user'[l.account].hash = FreshHash
      BY <2>1, <2>2, <2>12 DEF StaffAdd, AccountTypeOK, NoUser
    <3>3. FreshHash > drawn.hash
      BY <2>1, AccountAssumption DEF AccountTypeOK, FreshHash, Hashes
    <3>4. user'[l.account] = user[l.account]
      <4>1. l.hash \in Nat /\ drawn.hash \in Nat /\ FreshHash \in Int
        BY <2>1, <2>2, AccountAssumption DEF AccountTypeOK, Links, Hashes, FreshHash
      <4> QED
        BY <2>3, <2>4, <3>1, <3>2, <3>3, <4>1
    <3> QED
      BY <2>3, <2>5, <3>1, <3>4
  <2>13. ASSUME NEW b \in Accounts, ResendVerification(b) \/ RequestReset(b)
         PROVE  Dead(l)
    BY <2>6, <2>13 DEF ResendVerification, RequestReset
  <2> QED
    BY <1>1, <2>6, <2>7, <2>8, <2>9, <2>10, <2>11, <2>12, <2>13, UserKept DEF Writes
<1>2. AccountInv /\ [AccountNext]_accountVars => AccountTypeOK'
  BY TypesStep DEF AccountInv
<1>3. AccountInv /\ [AccountNext]_accountVars => \A l \in used' : Dead(l)
  BY <1>1, <1>2
<1> QED
  BY <1>3, AccountInvariant, PTL DEF AccountSpec, UsedLinksStayDead

\* The steps that write a profile.
LEMMA ProfileWrites ==
    ASSUME AccountTypeOK, [AccountNext]_accountVars
    PROVE  \/ profile' = profile
           \/ \E w \in Workers : ShowSecret(w) \/ ConfirmSecret(w) \/ DisableFactor(w)
BY DEF AccountNext, accountVars, Abandon, CreatePendingUser, VerifyUserEmail, FinishPassword,
   FinishChallenge, IssueToken, SetPassword, SaveMe, StaffSave, OpenVerification, OpenReset,
   AnswerChallenge, SubmitRegistration, ReadMe, StaffOpen, StaffOpenPassword,
   StaffSetPassword, Authenticate, OpenSetup, OpenDisable, ChallengeRefused, SignOut, ResendVerification, RequestReset, StaffAdd

\* A second factor that is on keeps its secret, unless a set-up page was open
\* when the secret changed.
THEOREM FactorsKept == AccountSpec => FactorKept
<1> DEFINE Kept(a) ==
      ~Broken(profile[a])
        /\ (Broken(profile'[a])
              \/ (profile[a].enabled /\ profile'[a].enabled
                   /\ profile'[a].secret # profile[a].secret)) =>
        \E w \in Workers : /\ Finishes(w, a)
                           /\ worker[w].kind = "setup"
                           /\ worker[w].secret # profile[a].secret
<1>1. ASSUME AccountTypeOK, [AccountNext]_accountVars, NEW a \in Accounts
      PROVE  Kept(a)
  <2>1. profile[a] \in Profiles /\ drawn.secret \in Nat
    BY <1>1, AccountAssumption DEF AccountTypeOK, Secrets
  <2>2. CASE profile'[a] = profile[a]
    BY <2>2
  <2>3. ASSUME NEW w \in Workers, ShowSecret(w), profile'[a] # profile[a]
        PROVE  Kept(a)
    <3>1. /\ worker[w] # Idle /\ worker[w].kind = "setup" /\ worker[w].account = a
          /\ worker[w].secret = 0 /\ profile'[a] = [profile[a] EXCEPT !.secret = FreshSecret]
      BY <1>1, <2>3 DEF ShowSecret, Holds, AccountTypeOK
    <3>2. profile'[a].secret = drawn.secret + 1
      BY <2>1, <3>1 DEF FreshSecret, Profiles
    <3>3. Finishes(w, a)
      BY <1>1, <2>3, <3>1 DEF ShowSecret, End, Finishes, AccountTypeOK
    <3> QED
      BY <2>1, <3>1, <3>2, <3>3 DEF Broken
  <2>4. ASSUME NEW w \in Workers, ConfirmSecret(w), profile'[a] # profile[a]
        PROVE  Kept(a)
    <3>1. /\ worker[w] # Idle /\ worker[w].kind = "setup" /\ worker[w].account = a
          /\ worker[w].secret # 0 /\ profile'[a].secret = profile[a].secret
      BY <1>1, <2>1, <2>4 DEF ConfirmSecret, Holds, HasCode, AccountTypeOK, Profiles
    <3>2. Finishes(w, a)
      BY <1>1, <2>4, <3>1 DEF ConfirmSecret, End, Finishes, AccountTypeOK
    <3> QED
      BY <3>1, <3>2 DEF Broken
  <2>5. ASSUME NEW w \in Workers, DisableFactor(w), profile'[a] # profile[a]
        PROVE  Kept(a)
    <3>1. profile'[a] = [enabled |-> FALSE, secret |-> 0]
      BY <1>1, <2>5 DEF DisableFactor, AccountTypeOK
    <3> QED
      BY <3>1 DEF Broken
  <2> QED
    BY <1>1, <2>2, <2>3, <2>4, <2>5, ProfileWrites
<1>2. AccountTypeOK /\ [AccountNext]_accountVars => \A a \in Accounts : Kept(a)
  BY <1>1
<1> QED
  BY <1>2, AccountTypeCorrect, PTL DEF AccountSpec, FactorKept
=============================================================================
