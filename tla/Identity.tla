------------------------------- MODULE Identity -------------------------------
(***************************************************************************)
(* Sessions and two-factor authentication, ivadoo/identity.                *)
(*                                                                         *)
(* A login validates the credentials, and a recovery code without using    *)
(* it, before the transaction that uses the code and creates the session.  *)
(* An authenticated request reads its session, then renews it, then runs;  *)
(* one that reauthenticates, confirms two factors, replaces recovery codes *)
(* or edits a user reads rows, without a lock, before the step that writes.*)
(***************************************************************************)
EXTENDS Integers, FiniteSets, FiniteSetsExt

CONSTANTS
    Users, Sessions,          \* primary keys
    Codes,                    \* recovery codes; a batch has one (bound of a run)
    IdleLifetime, AbsoluteLifetime,
    MaxTime,                  \* bound of a run
    None

ASSUME LifetimesAreNatural == {IdleLifetime, AbsoluteLifetime, MaxTime} \subseteq Nat

VARIABLES
    now,
    enabled,      \* users with is_active, the column of users that matters here
    session,      \* ApiSession rows, or None
    login,        \* validated logins that have not created their session
    call,         \* the request that each session is making
    credential,   \* state of the TotpCredential of each user
    code          \* RecoveryCode rows

authenticated == <<session, login, call>>
factors == <<credential, code>>
identity == <<now, enabled, authenticated, factors>>

Session == [user: Users, verified: BOOLEAN, revoked: BOOLEAN,
            expires: Nat, idle: Nat, boughtWith: Codes \union {None}]

\* method is the second factor that was checked; a code only with "recovery".
Login == [user: Users, method: {"none", "totp", "recovery"},
          code: Codes \union {None}]

\* What a PATCH of a user saves, and whether the row it read was active.
UserEdit == [user: Users, wasActive: BOOLEAN, active: BOOLEAN, password: BOOLEAN]

\* row is the session as it was read, second the code of the reauthentication
\* and had the state of the credential that the request remembers; one that
\* administers somebody else has asked for that permission first.  A request
\* that replaces codes has seen those it deletes, one that edits has its edit.
Stages == {"resolved", "running", "reauthenticated", "administering",
           "confirming", "replacing", "editing"}
CredentialStates == {"none", "pending", "confirmed"}
Call == [stage: Stages, row: Session, second: Codes \union {None},
         had: CredentialStates, seen: SUBSET Codes, edit: UserEdit \union {None}]

Code == [user: Users \union {None},
         state: {"unissued", "unused", "used", "deleted"}]

ASSUME NoneIsNoIdentity ==
    None \notin Users \union Codes \union Session \union Login \union Call
                 \union UserEdit

IdentityInit ==
    /\ now = 0 /\ enabled \in SUBSET Users
    /\ session = [s \in Sessions |-> None]
    /\ login = [s \in Sessions |-> None]
    /\ call = [s \in Sessions |-> None]
    /\ credential = [u \in Users |-> "none"]
    /\ code = [c \in Codes |-> [user |-> None, state |-> "unissued"]]

-----------------------------------------------------------------------------
(* Sessions.                                                               *)

Expired(row) == now >= row.expires \/ now >= row.idle

\* verify_second_factor without using the code.
Valid(u, c) == code[c].user = u /\ code[c].state = "unused"

\* LoginSerializer.validate.
BeginLogin(s, u, method, c) ==
    /\ session[s] = None /\ login[s] = None
    /\ u \in enabled
    /\ credential[u] = "confirmed" <=> method # "none"
    /\ method = "recovery" <=> c # None
    /\ c # None => Valid(u, c)
    /\ login' = [login EXCEPT ![s] = [user |-> u, method |-> method, code |-> c]]
    /\ UNCHANGED <<now, enabled, session, call, factors>>

\* Fault: the code that was valid is used, whatever became of it since.
ConsumeUnchecked(c) ==
    code' = [x \in Codes |->
       IF x = c THEN [code[x] EXCEPT !.state = "used"] ELSE code[x]]

\* _consume_recovery_if_needed: the row is locked, and read again.
Consume(c) ==
    /\ c # None => code[c].state = "unused"
    /\ code' = [x \in Codes |->
         IF x = c THEN [code[x] EXCEPT !.state = "used"] ELSE code[x]]

\* create_api_session.
NewSession(u, verified, c) ==
    [user |-> u, verified |-> verified, revoked |-> FALSE,
     expires |-> now + AbsoluteLifetime,
     idle |-> Min({now + IdleLifetime, now + AbsoluteLifetime}),
     boughtWith |-> c]

\* LoginView.
CommitLogin(s) ==
    /\ login[s] # None
    /\ Consume(login[s].code)
    /\ session' = [session EXCEPT ![s] =
         NewSession(login[s].user, login[s].method # "none", login[s].code)]
    /\ login' = [login EXCEPT ![s] = None]
    /\ UNCHANGED <<now, enabled, call, credential>>

FailLogin(s) ==
    /\ login[s] # None
    /\ login' = [login EXCEPT ![s] = None]
    /\ UNCHANGED <<now, enabled, session, call, factors>>

\* resolve_api_session.
Resolve(s) ==
    /\ session[s] # None /\ call[s] = None
    /\ ~session[s].revoked /\ ~Expired(session[s])
    /\ session[s].user \in enabled
    /\ call' = [call EXCEPT ![s] =
         [stage |-> "resolved", row |-> session[s], second |-> None,
          had |-> "none", seen |-> {}, edit |-> None]]
    /\ UNCHANGED <<now, enabled, session, login, factors>>

Renewed(row) == [row EXCEPT !.idle = Min({now + IdleLifetime, row.expires})]

\* Fault: the row that was read is saved whole.
TouchSavingRow(s) ==
    /\ call[s] # None /\ call[s].stage = "resolved"
    /\ session' = [session EXCEPT ![s] = Renewed(call[s].row)]
    /\ call' = [call EXCEPT ![s].stage = "running"]
    /\ UNCHANGED <<now, enabled, login, factors>>

\* touch_api_session: only a session that is not revoked is updated.
Touch(s) ==
    /\ call[s] # None /\ call[s].stage = "resolved"
    /\ session' = IF session[s].revoked THEN session
                  ELSE [session EXCEPT ![s].idle = Renewed(call[s].row).idle]
    /\ call' = [call EXCEPT ![s].stage = "running"]
    /\ UNCHANGED <<now, enabled, login, factors>>

EndCall(s) == call' = [call EXCEPT ![s] = None]

\* The request returns, or fails, without changing anything.
Return(s) == /\ call[s] # None
             /\ EndCall(s)
             /\ UNCHANGED <<now, enabled, session, login, factors>>

Running(s) == call[s] # None /\ call[s].stage = "running"

\* revoke_user_sessions.
Revoked(u, except) ==
    [s \in Sessions |->
       IF session[s] # None /\ s # except /\ session[s].user = u
       THEN [session[s] EXCEPT !.revoked = TRUE] ELSE session[s]]

\* LogoutView and SessionRevokeView.
RevokeSession(s, t) ==
    /\ Running(s)
    /\ session[t] # None /\ session[t].user = session[s].user
    /\ session' = [session EXCEPT ![t].revoked = TRUE]
    /\ EndCall(s)
    /\ UNCHANGED <<now, enabled, login, factors>>

RevokeOthers(s) ==
    /\ Running(s)
    /\ session' = Revoked(session[s].user, s)
    /\ EndCall(s)
    /\ UNCHANGED <<now, enabled, login, factors>>

-----------------------------------------------------------------------------
(* Two factors.                                                            *)

\* ReauthenticationSerializer.validate, with a code or none.
Reauthenticate(s, c, stage) ==
    /\ Running(s)
    /\ c # None => /\ credential[session[s].user] = "confirmed"
                   /\ Valid(session[s].user, c)
    /\ call' = [call EXCEPT ![s].stage = stage, ![s].second = c,
                            ![s].had = credential[session[s].user]]
    /\ UNCHANGED <<now, enabled, session, login, factors>>

Reauthenticated(s) == call[s] # None /\ call[s].stage = "reauthenticated"

\* begin_totp_setup: whether two factors are enabled was read before.
BeginSetup(s) ==
    /\ Reauthenticated(s) /\ call[s].had # "confirmed"
    /\ credential' = [credential EXCEPT ![session[s].user] = "pending"]
    /\ EndCall(s)
    /\ UNCHANGED <<now, enabled, session, login, code>>

CodesOf(u) == {x \in Codes : code[x].user = u /\ code[x].state # "deleted"}

\* replace_recovery_codes: the codes that its DELETE saw go, a new batch comes.
ReplaceCodes(u, seen, c) ==
    /\ code[c].state = "unissued"
    /\ code' = [x \in Codes |->
         IF x = c THEN [user |-> u, state |-> "unused"]
         ELSE IF x \in seen THEN [code[x] EXCEPT !.state = "deleted"]
         ELSE code[x]]

WithVerified(sessions, s, verified) ==
    [sessions EXCEPT ![s].verified = verified]

\* confirm_totp_setup reads the credential without a lock.
CheckSetup(s) ==
    /\ Running(s)
    /\ credential[session[s].user] = "pending"
    /\ call' = [call EXCEPT ![s].stage = "confirming"]
    /\ UNCHANGED <<now, enabled, session, login, factors>>

\* It saves it, unless its row was deleted (EndAndDelete); the rest of
\* TotpConfirmView.
ConfirmSetup(s, c) ==
    /\ call[s] # None /\ call[s].stage = "confirming"
    /\ credential' = [credential EXCEPT ![session[s].user] = "confirmed"]
    /\ ReplaceCodes(session[s].user, CodesOf(session[s].user), c)
    /\ session' = WithVerified(Revoked(session[s].user, s), s, TRUE)
    /\ EndCall(s)
    /\ UNCHANGED <<now, enabled, login>>

\* Consume in a transaction that deletes the codes of u, maybe other ones.
ConsumeAndDelete(c, u) ==
    /\ c # None => code[c].state = "unused"
    /\ code' = [x \in Codes |->
         IF code[x].user = u THEN [code[x] EXCEPT !.state = "deleted"]
         ELSE IF x = c THEN [code[x] EXCEPT !.state = "used"] ELSE code[x]]

\* disable_two_factor deletes the credential of u: saving it fails from now on.
EndAndDelete(s, u) ==
    /\ credential' = [credential EXCEPT ![u] = "none"]
    /\ call' = [t \in Sessions |->
         IF t = s THEN None
         ELSE IF /\ call[t] # None /\ call[t].stage = "confirming"
                 /\ session[t].user = u
         THEN None ELSE call[t]]

\* TwoFactorDisableView.
DisableTwoFactor(s) ==
    LET u == session[s].user
    IN  /\ Reauthenticated(s) /\ call[s].had = "confirmed"
        /\ ConsumeAndDelete(call[s].second, u)
        /\ session' = WithVerified(Revoked(u, s), s, FALSE)
        /\ EndAndDelete(s, u)
        /\ UNCHANGED <<now, enabled, login>>

\* RecoveryCodesRegenerateView; a recovery code does not reauthenticate here,
\* and no lock makes two replacements wait for one another.
SeeCodes(s) ==
    /\ Reauthenticated(s) /\ call[s].had = "confirmed" /\ call[s].second = None
    /\ call' = [call EXCEPT ![s].stage = "replacing",
                            ![s].seen = CodesOf(session[s].user)]
    /\ UNCHANGED <<now, enabled, session, login, factors>>

RegenerateCodes(s, c) ==
    /\ call[s] # None /\ call[s].stage = "replacing"
    /\ ReplaceCodes(session[s].user, call[s].seen, c)
    /\ EndCall(s)
    /\ UNCHANGED <<now, enabled, session, login, credential>>

\* AccessUserTwoFactorResetView, for somebody else.
ResetTwoFactor(s, u) ==
    /\ call[s] # None /\ call[s].stage = "administering" /\ u # session[s].user
    /\ ConsumeAndDelete(call[s].second, u)
    /\ session' = Revoked(u, None)
    /\ EndAndDelete(s, u)
    /\ UNCHANGED <<now, enabled, login>>

\* AccessUserDetailView reads the row: a PATCH says whether the user is active,
\* though nobody deactivates oneself, or leaves that column as it was read.
ReadUser(s, u, active, password) ==
    /\ Running(s)
    /\ u = session[s].user => active \/ u \notin enabled
    /\ call' = [call EXCEPT ![s].stage = "editing",
         ![s].edit = [user |-> u, wasActive |-> u \in enabled,
                      active |-> active, password |-> password]]
    /\ UNCHANGED <<now, enabled, session, login, factors>>

\* AccessUserSerializer.update saves every column of it.
SaveUser(s) ==
    LET edit == call[s].edit
    IN  /\ call[s] # None /\ edit # None
        /\ enabled' = IF edit.active THEN enabled \union {edit.user}
                      ELSE enabled \ {edit.user}
        /\ session' = IF edit.password \/ (edit.wasActive /\ ~edit.active)
                      THEN Revoked(edit.user, None) ELSE session
        /\ EndCall(s)
        /\ UNCHANGED <<now, login, factors>>

Tick == /\ now < MaxTime /\ now' = now + 1
        /\ UNCHANGED <<enabled, authenticated, factors>>

-----------------------------------------------------------------------------
LogIn ==
    \E s \in Sessions :
       \/ \E u \in Users, method \in {"none", "totp", "recovery"},
             c \in Codes \union {None} : BeginLogin(s, u, method, c)
       \/ CommitLogin(s) \/ FailLogin(s)

UseSession ==
    \E s \in Sessions :
       \/ Touch(s) \/ Return(s)
       \/ \E t \in Sessions : RevokeSession(s, t)
       \/ RevokeOthers(s)

ManageFactors ==
    \E s \in Sessions :
       \/ \E c \in Codes \union {None} : Reauthenticate(s, c, "reauthenticated")
       \/ BeginSetup(s) \/ CheckSetup(s) \/ DisableTwoFactor(s) \/ SeeCodes(s)
       \/ \E c \in Codes : ConfirmSetup(s, c) \/ RegenerateCodes(s, c)

-----------------------------------------------------------------------------
(* Properties.                                                             *)

IdentityTypeOK ==
    /\ now \in 0..MaxTime
    /\ enabled \subseteq Users
    /\ session \in [Sessions -> Session \union {None}]
    /\ login \in [Sessions -> Login \union {None}]
    /\ call \in [Sessions -> Call \union {None}]
    /\ credential \in [Users -> CredentialStates]
    /\ code \in [Codes -> Code]

\* A session that is revoked or past its absolute lifetime stays so, whatever
\* requests that were authenticated before still write, and no renewal takes it
\* beyond that lifetime.
KeepsItsEnd(s) ==
    session[s] # None =>
       /\ session'[s] # None
       /\ session[s].revoked => session'[s].revoked
       /\ session'[s].expires = session[s].expires
       /\ session'[s].idle <= session[s].expires

SessionsEnd == [][\A s \in Sessions : KeepsItsEnd(s)]_identity

\* A recovery code buys one session at most, and is spent once it has, however
\* many logins were validated with it at the same time.
CodesAreSpentOnce ==
    \A s \in Sessions : session[s] # None /\ session[s].boughtWith # None =>
       /\ code[session[s].boughtWith].state \in {"used", "deleted"}
       /\ \A t \in Sessions \ {s} : session[t] # None =>
             session[t].boughtWith # session[s].boughtWith

=============================================================================
