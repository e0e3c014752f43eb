------------------------------- MODULE Accounts -------------------------------
(* Accounts, identities, sessions and mailed links (identity.ts with its     *)
(* Postgres store) under the handlers of routes/auth.ts, several requests in *)
(* progress.  An action is one statement of the database and what the        *)
(* handler does up to the next one.  An account and a session are named      *)
(* after the request that creates them, and so is a password.                *)
EXTENDS Naturals, FiniteSets

CONSTANTS
  AuthRequest, AuthMix,   \* requests and, mix by mix, the handler each calls
  Email, EmailOf,         \* the address it carries, or NoEmail
  Identity, IdentityOf,   \* the external account of a callback
  NoEmail, Nobody

AuthKinds == {"register", "login", "verify", "reset", "change", "callback", "logout"}

ASSUME AccountsAssumption ==
  /\ AuthMix \subseteq [AuthRequest -> AuthKinds]
  /\ EmailOf \in [AuthRequest -> Email \cup {NoEmail}] /\ NoEmail \notin Email
  /\ IdentityOf \in [AuthRequest -> Identity]
  /\ Nobody \notin AuthRequest

VARIABLES
  authKind,    \* the mix of handlers called
  authPhase,   \* what each request awaits
  authUser,    \* the account its handler holds
  authRead,    \* the password hash its handler holds
  account,     \* users: those that exist
  email,       \* users.email
  verified,    \* users.email_verified_at is set
  password,    \* users.password_hash
  linked,      \* user_identities
  session,     \* sessions: whose session each request opened
  link,        \* user_tokens: whose link was mailed for each request to open
  spent,       \* requests that used up the link they opened
  older        \* sessions that were there when a handler set the password

authVars == <<authKind, authPhase, authUser, authRead, account, email, verified, password,
              linked, session, link, spent, older>>
userVars == <<account, email, verified, password, linked>>

Who == AuthRequest \cup {Nobody}

AuthInit ==
  /\ authKind \in AuthMix
  /\ authPhase = [r \in AuthRequest |-> "idle"]
  /\ authUser = [r \in AuthRequest |-> Nobody]
  /\ authRead = [r \in AuthRequest |-> Nobody]
  /\ account = {} /\ verified = {} /\ spent = {}
  /\ email = [a \in AuthRequest |-> NoEmail]
  /\ password = [a \in AuthRequest |-> Nobody]
  /\ linked = [i \in Identity |-> Nobody]
  /\ session = [r \in AuthRequest |-> Nobody]
  /\ link = [r \in AuthRequest |-> Nobody]
  /\ older = [r \in AuthRequest |-> {}]

AuthTo(r, p) == authPhase' = [authPhase EXCEPT ![r] = p]
Holders(e) == {a \in account : e # NoEmail /\ email[a] = e}
Start(r, kind) == authKind[r] = kind /\ authPhase[r] = "idle"

-----------------------------------------------------------------------------
\* The address is looked up when the request arrives, and no index refuses it.
TakenAtArrival(r) == FALSE

\* The unique index on lower(email), which leaves out the missing ones.
EmailTaken(r) == Holders(EmailOf[r]) # {}

\* createPasswordUser
Register(r) ==
  /\ Start(r, "register")
  /\ IF EmailTaken(r)
     THEN AuthTo(r, "conflict") /\ UNCHANGED <<authUser, userVars>>
     ELSE /\ account' = account \cup {r}
          /\ email' = [email EXCEPT ![r] = EmailOf[r]]
          /\ password' = [password EXCEPT ![r] = r]
          /\ authUser' = [authUser EXCEPT ![r] = r]
          /\ AuthTo(r, "session")
          /\ UNCHANGED <<verified, linked>>
  /\ UNCHANGED <<authRead, session, link, spent, older>>

\* credentialsByEmail; the hash is compared while other requests go on.
Login(r) ==
  /\ Start(r, "login")
  /\ \E a \in Holders(EmailOf[r]) :
       /\ password[a] # Nobody
       /\ authUser' = [authUser EXCEPT ![r] = a]
       /\ authRead' = [authRead EXCEPT ![r] = password[a]]
  /\ AuthTo(r, "comparing")
  /\ UNCHANGED <<userVars, session, link, spent, older>>

\* No such account, or the wrong password.
LoginRefused(r) ==
  /\ Start(r, "login") \/ authPhase[r] = "comparing"
  /\ AuthTo(r, "refused")
  /\ UNCHANGED <<authUser, authRead, userVars, session, link, spent, older>>

Compared(r) ==
  /\ authPhase[r] = "comparing"
  /\ AuthTo(r, IF authKind[r] = "change" THEN "setting" ELSE "session")
  /\ UNCHANGED <<authUser, authRead, userVars, session, link, spent, older>>

\* startSession, the last step of each handler but logout.
OpenSession(r) ==
  /\ authPhase[r] = "session"
  /\ session' = [session EXCEPT ![r] = authUser[r]]
  /\ AuthTo(r, "done")
  /\ UNCHANGED <<authUser, authRead, userVars, link, spent, older>>

\* issueEmailLink for whoever asked: registering, resending, or forgetting.
MailLink(r) ==
  /\ authKind[r] \in {"verify", "reset"} /\ link[r] = Nobody
  /\ \E a \in Holders(EmailOf[r]) : link' = [link EXCEPT ![r] = a]
  /\ UNCHANGED <<authPhase, authUser, authRead, userVars, session, spent, older>>

\* A link is looked up and marked in two statements.
Reusable(s) == TRUE

\* used_at is null
Unused(s) == s \notin spent

\* consumeUserToken: the condition and the mark are one statement.
ConsumeLink(r) ==
  /\ authKind[r] \in {"verify", "reset"} /\ authPhase[r] = "idle"
  /\ \E s \in AuthRequest :   \* the mail it was opened from
       /\ link[s] # Nobody /\ authKind[s] = authKind[r]
       /\ IF Unused(s)
          THEN /\ spent' = spent \cup {s}
               /\ authUser' = [authUser EXCEPT ![r] = link[s]]
               /\ AuthTo(r, IF authKind[r] = "reset" THEN "setting" ELSE "confirming")
          ELSE AuthTo(r, "refused") /\ UNCHANGED <<spent, authUser>>
  /\ UNCHANGED <<authRead, userVars, session, link, older>>

\* The new password is too weak: the link is used up all the same.
WeakPassword(r) ==
  /\ authPhase[r] = "setting"
  /\ AuthTo(r, "refused")
  /\ UNCHANGED <<authUser, authRead, userVars, session, link, spent, older>>

\* POST /password/change: the viewer and, with a password, the current one.
ChangeStarts(r) ==
  /\ Start(r, "change")
  /\ \E q \in AuthRequest :
       /\ session[q] # Nobody
       /\ IF email[session[q]] = NoEmail
          THEN AuthTo(r, "refused") /\ UNCHANGED <<authUser, authRead>>
          ELSE /\ authUser' = [authUser EXCEPT ![r] = session[q]]
               /\ authRead' = [authRead EXCEPT ![r] = password[session[q]]]
               /\ AuthTo(r, IF password[session[q]] = Nobody THEN "setting" ELSE "comparing")
  /\ UNCHANGED <<userVars, session, link, spent, older>>

SessionsOf(a) == {q \in AuthRequest : session[q] = a}

SetPassword(r) ==
  /\ authPhase[r] = "setting"
  /\ password' = [password EXCEPT ![authUser[r]] = r]
  /\ older' = [older EXCEPT ![r] = SessionsOf(authUser[r])]
  /\ AuthTo(r, IF authKind[r] = "reset" THEN "confirming" ELSE "sweeping")
  /\ UNCHANGED <<authUser, authRead, account, email, verified, linked, session, link, spent>>

\* markEmailVerified
Confirm(r) ==
  /\ authPhase[r] = "confirming"
  /\ verified' = verified \cup {authUser[r]}
  /\ AuthTo(r, IF authKind[r] = "reset" THEN "sweeping" ELSE "session")
  /\ UNCHANGED <<authUser, authRead, account, email, password, linked, session, link, spent, older>>

\* Only the session that asked is ended.
SweepOne(r) == {r}

Sweep(r) == SessionsOf(authUser[r])

\* destroySessionsFor
SweepSessions(r) ==
  /\ authPhase[r] = "sweeping"
  /\ session' = [q \in AuthRequest |-> IF q \in Sweep(r) THEN Nobody ELSE session[q]]
  /\ AuthTo(r, "session")
  /\ UNCHANGED <<authUser, authRead, userVars, link, spent, older>>

\* destroySession, or the session ran out.
SessionEnds(q) ==
  /\ session[q] # Nobody
  /\ session' = [session EXCEPT ![q] = Nobody]
  /\ UNCHANGED <<authPhase, authUser, authRead, userVars, link, spent, older>>

-----------------------------------------------------------------------------
(* userForIdentity: one transaction that reads the identity, then writes.    *)

SignInReads(r) ==
  /\ Start(r, "callback")
  /\ authUser' = [authUser EXCEPT ![r] = linked[IdentityOf[r]]]
  /\ AuthTo(r, "resolving")
  /\ UNCHANGED <<authRead, userVars, session, link, spent, older>>

FillsEmail(r) == email[authUser[r]] = NoEmail /\ EmailOf[r] # NoEmail
WasLinked(r) == authPhase[r] = "resolving" /\ authUser[r] # Nobody
NotLinked(r) == authPhase[r] = "resolving" /\ authUser[r] = Nobody

\* The account of the identity; its missing address is filled in.
SignInLinked(r) ==
  /\ WasLinked(r) /\ ~(FillsEmail(r) /\ EmailTaken(r))
  /\ email' = IF FillsEmail(r) THEN [email EXCEPT ![authUser[r]] = EmailOf[r]] ELSE email
  /\ verified' = IF FillsEmail(r) THEN verified \cup {authUser[r]} ELSE verified
  /\ AuthTo(r, "session")
  /\ UNCHANGED <<authUser, authRead, account, password, linked, session, link, spent, older>>

\* The account of the address; an identity linked meanwhile stays as it is.
SignInByEmail(r) ==
  /\ NotLinked(r)
  /\ \E a \in Holders(EmailOf[r]) :
       /\ linked' = IF linked[IdentityOf[r]] = Nobody
                    THEN [linked EXCEPT ![IdentityOf[r]] = a] ELSE linked
       /\ verified' = verified \cup {a}
       /\ authUser' = [authUser EXCEPT ![r] = a]
  /\ AuthTo(r, "session")
  /\ UNCHANGED <<authRead, account, email, password, session, link, spent, older>>

SignInCreates(r) ==
  /\ NotLinked(r) /\ ~EmailTaken(r) /\ linked[IdentityOf[r]] = Nobody
  /\ account' = account \cup {r}
  /\ email' = [email EXCEPT ![r] = EmailOf[r]]
  /\ verified' = IF EmailOf[r] = NoEmail THEN verified ELSE verified \cup {r}
  /\ linked' = [linked EXCEPT ![IdentityOf[r]] = r]
  /\ authUser' = [authUser EXCEPT ![r] = r]
  /\ AuthTo(r, "session")
  /\ UNCHANGED <<authRead, password, session, link, spent, older>>

\* A unique index rolls the transaction back: somebody has the address, or
\* took the address or the identity after this transaction read them.
SignInFails(r) ==
  /\ \/ WasLinked(r) /\ FillsEmail(r) /\ EmailTaken(r)
     \/ NotLinked(r) /\ (EmailTaken(r) \/ linked[IdentityOf[r]] # Nobody)
  /\ AuthTo(r, "error")
  /\ UNCHANGED <<authUser, authRead, userVars, session, link, spent, older>>

AuthStep(r) ==
    \/ Register(r) \/ Login(r) \/ LoginRefused(r) \/ Compared(r) \/ OpenSession(r)
    \/ MailLink(r) \/ ConsumeLink(r) \/ WeakPassword(r) \/ ChangeStarts(r)
    \/ SetPassword(r) \/ Confirm(r) \/ SweepSessions(r) \/ SessionEnds(r)
    \/ SignInReads(r) \/ SignInLinked(r) \/ SignInByEmail(r) \/ SignInCreates(r)
    \/ SignInFails(r)

AuthNext == \E r \in AuthRequest : AuthStep(r) /\ UNCHANGED authKind

AuthSpec == AuthInit /\ [][AuthNext]_authVars

-----------------------------------------------------------------------------

AuthTypeOK ==
  /\ authKind \in AuthMix
  /\ authPhase \in [AuthRequest -> {"idle", "resolving", "comparing", "setting", "confirming", "sweeping",
                                    "session", "done", "refused", "conflict", "error"}]
  /\ authUser \in [AuthRequest -> Who] /\ authRead \in [AuthRequest -> Who]
  /\ account \subseteq AuthRequest /\ verified \subseteq account
  /\ email \in [AuthRequest -> Email \cup {NoEmail}] /\ password \in [AuthRequest -> Who]
  /\ linked \in [Identity -> account \cup {Nobody}] /\ session \in [AuthRequest -> account \cup {Nobody}]
  /\ link \in [AuthRequest -> account \cup {Nobody}] /\ spent \subseteq AuthRequest
  /\ older \in [AuthRequest -> SUBSET AuthRequest]

\* "a mesma pessoa entrando pelos dois caminhos precisa cair na mesma conta"
\* (identity.ts): an address belongs to one account, and a sign-in that carries
\* an address lands in the account that has it or in that of its identity.
OneAccountPerPerson ==
  /\ \A e \in Email : Cardinality(Holders(e)) <= 1
  /\ \A r \in AuthRequest : authKind[r] = "callback" /\ authPhase[r] \in {"session", "done"} =>
       authUser[r] = linked[IdentityOf[r]] \/ authUser[r] \in Holders(EmailOf[r])

\* What an opened link lets a request do.
Granted == {r \in AuthRequest : authKind[r] \in {"verify", "reset"}
              /\ authPhase[r] \in {"setting", "confirming", "sweeping", "session", "done"}}

\* A mailed link is used by one request, and the session that was open when a
\* password was set is over when that request is answered, whatever logins and
\* other changes of the password ran in between.
PasswordChangeEndsSessions ==
  /\ Cardinality(Granted) <= Cardinality(spent)
  /\ \A r \in AuthRequest : authPhase[r] = "done" =>
       \A q \in older[r] : q # r /\ session[q] # Nobody => session[q] # authUser[r]
=============================================================================
