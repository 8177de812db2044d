----------------------------- MODULE AccessProofs -----------------------------
(***************************************************************************)
(* Proofs about Access, for any users, sessions, codes, roles, grants and  *)
(* modules: a recovery code is spent once, a session ends for good, and    *)
(* lists agree with the checks of single objects.                          *)
(***************************************************************************)
EXTENDS Access, TLAPS

\* A login is for a session that does not exist yet; a request is made with one
\* that does, which it remembers with the same lifetime.
SessionsAreInUse ==
    \A s \in Sessions :
       /\ login[s] # None => session[s] = None
       /\ call[s] # None => /\ session[s] # None
                            /\ call[s].row.expires = session[s].expires
       /\ session[s] # None => session[s].idle <= session[s].expires

IdInv == IdentityTypeOK /\ SessionsAreInUse /\ CodesAreSpentOnce

SessionStep == \A s \in Sessions : KeepsItsEnd(s)

-----------------------------------------------------------------------------
(* What an action does to identities.                                      *)

Finish(s) == EndCall(s) /\ UNCHANGED <<now, enabled, session, login, factors>>

\* What is about grants and modules at most ends the request that asks for it.
LEMMA StepOfIdentity ==
  ASSUME [AccessNext]_access
  PROVE  \/ UNCHANGED identity
         \/ Tick \/ LogIn \/ CallApi \/ UseSession \/ ManageFactors
         \/ AdministerUsers
         \/ \E s \in Sessions : Finish(s)
  BY DEF AccessNext, access, ManageAccess, ManageModules, SwitchModule, Finish

LEMMA MinOfTwo ==
  ASSUME NEW a \in Nat, NEW b \in Nat
  PROVE  Min({a, b}) \in Nat /\ Min({a, b}) <= a /\ Min({a, b}) <= b
  <1>1. \E x \in {a, b} : \A y \in {a, b} : x <= y
    OBVIOUS
  <1>2. Min({a, b}) \in {a, b} /\ \A y \in {a, b} : Min({a, b}) <= y
    BY <1>1 DEF Min
  <1>3. QED
    BY <1>2

\* The rows of a session before and after it is revoked, or its second factor
\* is noted.
OnlyEnds(row, new) ==
    /\ row = None => new = None
    /\ row # None => /\ new \in Session
                     /\ row.revoked => new.revoked
                     /\ new.user = row.user /\ new.boughtWith = row.boughtWith
                     /\ new.expires = row.expires /\ new.idle = row.idle

\* A step that creates no session, renews none and makes no spent code usable.
LEMMA QuietStep ==
  ASSUME IdInv, IdentityTypeOK',
         \A s \in Sessions : OnlyEnds(session[s], session'[s]),
         \A s \in Sessions : login'[s] # None => session[s] = None,
         \A s \in Sessions : call'[s] # None =>
            call[s] # None /\ call'[s].row = call[s].row,
         \A c \in Codes : code[c].state \in {"used", "deleted"} =>
            code'[c].state \in {"used", "deleted"}
  PROVE  IdInv' /\ SessionStep
  <1> USE DEF IdInv, IdentityTypeOK, OnlyEnds
  <1>1. SessionsAreInUse'
    BY NoneIsNoIdentity DEF SessionsAreInUse
  <1>2. CodesAreSpentOnce'
    BY NoneIsNoIdentity DEF CodesAreSpentOnce, Session
  <1>3. SessionStep
    BY NoneIsNoIdentity DEF SessionStep, KeepsItsEnd, SessionsAreInUse
  <1>4. QED
    BY <1>1, <1>2, <1>3

\* The rows that a request leaves: none for the session that it ended.
LEMMA EndedCalls ==
  ASSUME NEW s \in Sessions, IdentityTypeOK, EndCall(s)
  PROVE  /\ call' \in [Sessions -> Call \union {None}]
         /\ \A t \in Sessions : call'[t] # None => call'[t] = call[t]
  BY DEF IdentityTypeOK, EndCall

LEMMA DeletedCredential ==
  ASSUME NEW s \in Sessions, NEW u, IdentityTypeOK, EndAndDelete(s, u)
  PROVE  /\ call' \in [Sessions -> Call \union {None}]
         /\ \A t \in Sessions : call'[t] # None => call'[t] = call[t]
         /\ credential' \in [Users -> CredentialStates]
  BY DEF IdentityTypeOK, EndAndDelete, CredentialStates

LEMMA RevokedRows ==
  ASSUME NEW u, NEW except, session \in [Sessions -> Session \union {None}]
  PROVE  /\ Revoked(u, except) \in [Sessions -> Session \union {None}]
         /\ \A t \in Sessions : OnlyEnds(session[t], Revoked(u, except)[t])
  BY NoneIsNoIdentity DEF Revoked, OnlyEnds, Session

LEMMA VerifiedRows ==
  ASSUME NEW s \in Sessions, NEW rows \in [Sessions -> Session \union {None}],
         NEW verified \in BOOLEAN, rows[s] # None
  PROVE  /\ WithVerified(rows, s, verified) \in [Sessions -> Session \union {None}]
         /\ \A t \in Sessions : OnlyEnds(rows[t], WithVerified(rows, s, verified)[t])
  BY NoneIsNoIdentity DEF WithVerified, OnlyEnds, Session

-----------------------------------------------------------------------------
(* Sessions.                                                               *)

LEMMA TickStep ==
  ASSUME IdInv, Tick
  PROVE  IdInv' /\ SessionStep
  <1>1. IdentityTypeOK'
    BY LifetimesAreNatural DEF IdInv, IdentityTypeOK, Tick, authenticated, factors
  <1>2. QED
    BY <1>1, QuietStep DEF IdInv, IdentityTypeOK, SessionsAreInUse, OnlyEnds, Tick,
                           authenticated, factors

LEMMA FinishStep ==
  ASSUME IdInv, NEW s \in Sessions, Finish(s)
  PROVE  IdInv' /\ SessionStep
  <1>1. IdentityTypeOK'
    BY EndedCalls DEF IdInv, IdentityTypeOK, Finish, factors
  <1>2. QED
    BY <1>1, EndedCalls, QuietStep
       DEF IdInv, IdentityTypeOK, SessionsAreInUse, OnlyEnds, Finish, factors

LEMMA BeginLoginStep ==
  ASSUME IdInv, NEW s \in Sessions, NEW u \in Users,
         NEW method \in {"none", "totp", "recovery"}, NEW c \in Codes \union {None},
         BeginLogin(s, u, method, c)
  PROVE  IdInv' /\ SessionStep
  <1>1. IdentityTypeOK'
    BY DEF IdInv, IdentityTypeOK, BeginLogin, Login, factors
  <1>2. QED
    BY <1>1, QuietStep DEF IdInv, IdentityTypeOK, SessionsAreInUse, OnlyEnds,
                           BeginLogin, factors

\* The one action that creates a session: its code was unused, so no session
\* was bought with it before.
LEMMA CommitLoginStep ==
  ASSUME IdInv, NEW s \in Sessions, CommitLogin(s)
  PROVE  IdInv' /\ SessionStep
  <1> USE DEF IdInv, IdentityTypeOK
  <1> DEFINE c == login[s].code
             new == NewSession(login[s].user, login[s].method # "none", c)
  <1>1. login[s] \in Login /\ session[s] = None /\ call[s] = None
    BY DEF CommitLogin, SessionsAreInUse
  <1>2. /\ now + AbsoluteLifetime \in Nat
        /\ Min({now + IdleLifetime, now + AbsoluteLifetime}) \in Nat
        /\ Min({now + IdleLifetime, now + AbsoluteLifetime})
             <= now + AbsoluteLifetime
    <2>1. now + IdleLifetime \in Nat /\ now + AbsoluteLifetime \in Nat
      BY LifetimesAreNatural
    <2>2. QED
      BY <2>1, MinOfTwo
  <1>3. /\ new \in Session /\ new.boughtWith = c
        /\ new.idle <= new.expires
    BY <1>1, <1>2 DEF NewSession, Session, Login
  <1>4. /\ session' \in [Sessions -> Session \union {None}]
        /\ session'[s] = new
        /\ \A t \in Sessions \ {s} : session'[t] = session[t]
    BY <1>3 DEF CommitLogin
  <1>5. /\ code' \in [Codes -> Code]
        /\ c # None => code[c].state = "unused" /\ code'[c].state = "used"
        /\ \A x \in Codes : code[x].state \in {"used", "deleted"}
                             => code'[x].state = code[x].state
    BY <1>1, NoneIsNoIdentity DEF CommitLogin, Consume, Login, Code
  <1>6. IdentityTypeOK'
    BY <1>4, <1>5 DEF CommitLogin
  <1>7. SessionsAreInUse'
    BY <1>1, <1>3, <1>4 DEF CommitLogin, SessionsAreInUse
  <1>8. \A t \in Sessions : session[t] # None /\ session[t].boughtWith # None =>
           c # session[t].boughtWith
    BY <1>5 DEF CodesAreSpentOnce
  <1>9. CodesAreSpentOnce'
    BY <1>1, <1>3, <1>4, <1>5, <1>8, NoneIsNoIdentity DEF CodesAreSpentOnce, Session
  <1>10. SessionStep
    BY <1>1, <1>4 DEF SessionStep, KeepsItsEnd, SessionsAreInUse
  <1>11. QED
    BY <1>6, <1>7, <1>9, <1>10

LEMMA FailLoginStep ==
  ASSUME IdInv, NEW s \in Sessions, FailLogin(s)
  PROVE  IdInv' /\ SessionStep
  <1>1. IdentityTypeOK'
    BY DEF IdInv, IdentityTypeOK, FailLogin, factors
  <1>2. QED
    BY <1>1, QuietStep DEF IdInv, IdentityTypeOK, SessionsAreInUse, OnlyEnds,
                           FailLogin, factors

LEMMA ResolveStep ==
  ASSUME IdInv, NEW s \in Sessions, Resolve(s)
  PROVE  IdInv' /\ SessionStep
  <1> USE DEF IdInv, IdentityTypeOK
  <1>1. session[s] \in Session
    BY DEF Resolve
  <1>2. /\ call'[s] = [stage |-> "resolved", row |-> session[s], second |-> None,
                       had |-> "none", seen |-> {}, edit |-> None]
        /\ \A t \in Sessions \ {s} : call'[t] = call[t]
        /\ UNCHANGED <<now, enabled, session, login, credential, code>>
    BY DEF Resolve, factors
  <1>3. call' \in [Sessions -> Call \union {None}]
    BY <1>1 DEF Resolve, Call, Stages, CredentialStates
  <1>4. SessionsAreInUse' /\ CodesAreSpentOnce'
    BY <1>1, <1>2, NoneIsNoIdentity DEF SessionsAreInUse, CodesAreSpentOnce
  <1>5. SessionStep
    BY <1>2 DEF SessionStep, KeepsItsEnd, SessionsAreInUse
  <1>6. QED
    BY <1>2, <1>3, <1>4, <1>5

\* The one action that renews a session: the lifetime that the request read is
\* still the lifetime of the session.
LEMMA TouchStep ==
  ASSUME IdInv, NEW s \in Sessions, Touch(s)
  PROVE  IdInv' /\ SessionStep
  <1> USE DEF IdInv, IdentityTypeOK
  <1> DEFINE idle == Min({now + IdleLifetime, call[s].row.expires})
  <1>1. /\ call[s] \in Call /\ call[s].row \in Session /\ session[s] \in Session
        /\ call[s].row.expires = session[s].expires
    BY DEF Touch, SessionsAreInUse, Call
  <1>2. idle \in Nat /\ idle <= session[s].expires
    <2>1. now + IdleLifetime \in Nat /\ call[s].row.expires \in Nat
      BY <1>1, LifetimesAreNatural DEF Session
    <2>2. QED
      BY <1>1, <2>1, MinOfTwo
  <1>3. Renewed(call[s].row).idle = idle
    BY <1>1 DEF Renewed, Session
  <1>4. /\ session'[s] \in Session
        /\ session'[s].revoked = session[s].revoked
        /\ session'[s].boughtWith = session[s].boughtWith
        /\ session'[s].expires = session[s].expires
        /\ session'[s].idle <= session[s].expires
        /\ \A t \in Sessions \ {s} : session'[t] = session[t]
        /\ session' \in [Sessions -> Session \union {None}]
    <2>1. CASE session[s].revoked
      BY <1>1, <2>1, NoneIsNoIdentity DEF Touch, SessionsAreInUse
    <2>2. CASE ~session[s].revoked
      BY <1>1, <1>2, <1>3, <2>2 DEF Touch, Session
    <2>3. QED
      BY <2>1, <2>2
  <1>5. /\ call' \in [Sessions -> Call \union {None}]
        /\ call'[s].row = call[s].row
        /\ \A t \in Sessions \ {s} : call'[t] = call[t]
    BY <1>1 DEF Touch, Call, Stages
  <1>6. UNCHANGED <<now, enabled, login, credential, code>>
    BY DEF Touch, factors
  <1>7. SessionsAreInUse'
    BY <1>1, <1>4, <1>5, <1>6, NoneIsNoIdentity DEF SessionsAreInUse
  <1>8. CodesAreSpentOnce'
    BY <1>1, <1>4, <1>6, NoneIsNoIdentity DEF CodesAreSpentOnce
  <1>9. SessionStep
    BY <1>1, <1>4, NoneIsNoIdentity DEF SessionStep, KeepsItsEnd, SessionsAreInUse
  <1>10. QED
    BY <1>4, <1>5, <1>6, <1>7, <1>8, <1>9

\* A request is made with a session.
LEMMA CallerHasSession ==
  ASSUME IdInv, NEW s \in Sessions, call[s] # None
  PROVE  session[s] \in Session /\ session[s].user \in Users
  BY DEF IdInv, IdentityTypeOK, SessionsAreInUse, Session

LEMMA RevokeSessionStep ==
  ASSUME IdInv, NEW s \in Sessions, NEW t \in Sessions, RevokeSession(s, t)
  PROVE  IdInv' /\ SessionStep
  <1> USE DEF IdInv, IdentityTypeOK
  <1>1. /\ session' \in [Sessions -> Session \union {None}]
        /\ \A x \in Sessions : OnlyEnds(session[x], session'[x])
    <2>1. session[t] \in Session
      BY DEF RevokeSession
    <2>2. /\ session'[t] = [session[t] EXCEPT !.revoked = TRUE]
          /\ \A x \in Sessions \ {t} : session'[x] = session[x]
          /\ session' \in [Sessions -> Session \union {None}]
      BY <2>1 DEF RevokeSession, Session
    <2>3. OnlyEnds(session[t], session'[t])
      BY <2>1, <2>2, NoneIsNoIdentity DEF OnlyEnds, Session
    <2>4. QED
      BY <2>2, <2>3 DEF OnlyEnds
  <1>2. EndCall(s) /\ UNCHANGED <<now, enabled, login, credential, code>>
    BY DEF RevokeSession, factors
  <1>3. IdentityTypeOK'
    BY <1>1, <1>2, EndedCalls
  <1>4. QED
    BY <1>1, <1>2, <1>3, EndedCalls, QuietStep DEF SessionsAreInUse

LEMMA RevokeOthersStep ==
  ASSUME IdInv, NEW s \in Sessions, RevokeOthers(s)
  PROVE  IdInv' /\ SessionStep
  <1> USE DEF IdInv, IdentityTypeOK
  <1>1. /\ session' \in [Sessions -> Session \union {None}]
        /\ \A x \in Sessions : OnlyEnds(session[x], session'[x])
    BY RevokedRows DEF RevokeOthers
  <1>2. EndCall(s) /\ UNCHANGED <<now, enabled, login, credential, code>>
    BY DEF RevokeOthers, factors
  <1>3. IdentityTypeOK'
    BY <1>1, <1>2, EndedCalls
  <1>4. QED
    BY <1>1, <1>2, <1>3, EndedCalls, QuietStep DEF SessionsAreInUse

-----------------------------------------------------------------------------
(* Two factors.                                                            *)

LEMMA ReauthenticateStep ==
  ASSUME IdInv, NEW s \in Sessions, NEW c \in Codes \union {None},
         NEW stage \in {"reauthenticated", "administering"},
         Reauthenticate(s, c, stage)
  PROVE  IdInv' /\ SessionStep
  <1> USE DEF IdInv, IdentityTypeOK
  <1>1. call[s] \in Call /\ session[s].user \in Users
    BY CallerHasSession DEF Reauthenticate, Running
  <1>2. /\ call' \in [Sessions -> Call \union {None}]
        /\ call'[s].row = call[s].row
        /\ \A t \in Sessions \ {s} : call'[t] = call[t]
        /\ UNCHANGED <<now, enabled, session, login, credential, code>>
    BY <1>1 DEF Reauthenticate, Call, Stages, CredentialStates, factors
  <1>3. call[s] # None
    BY DEF Reauthenticate, Running
  <1>4. QED
    BY <1>2, <1>3, QuietStep DEF SessionsAreInUse, OnlyEnds

LEMMA ReplacedCodes ==
  ASSUME IdInv, NEW u \in Users, NEW seen, NEW c \in Codes, ReplaceCodes(u, seen, c)
  PROVE  /\ code' \in [Codes -> Code]
         /\ \A x \in Codes : code[x].state \in {"used", "deleted"} =>
               code'[x].state \in {"used", "deleted"}
  BY DEF IdInv, IdentityTypeOK, ReplaceCodes, Code

LEMMA DeletedCodes ==
  ASSUME IdInv, NEW u \in Users, NEW c, ConsumeAndDelete(c, u)
  PROVE  /\ code' \in [Codes -> Code]
         /\ \A x \in Codes : code[x].state \in {"used", "deleted"} =>
               code'[x].state \in {"used", "deleted"}
  BY DEF IdInv, IdentityTypeOK, ConsumeAndDelete, Code

LEMMA BeginSetupStep ==
  ASSUME IdInv, NEW s \in Sessions, BeginSetup(s)
  PROVE  IdInv' /\ SessionStep
  <1> USE DEF IdInv, IdentityTypeOK
  <1>1. EndCall(s) /\ UNCHANGED <<now, enabled, session, login, code>>
          /\ credential' \in [Users -> CredentialStates]
    BY DEF BeginSetup, CredentialStates
  <1>2. IdentityTypeOK'
    BY <1>1, EndedCalls
  <1>3. QED
    BY <1>1, <1>2, EndedCalls, QuietStep DEF SessionsAreInUse, OnlyEnds

\* All sessions of u but one are revoked, that one notes its second factor.
LEMMA VerifiedAndRevoked ==
  ASSUME IdInv, NEW s \in Sessions, call[s] # None, NEW u, NEW verified \in BOOLEAN
  PROVE  LET new == WithVerified(Revoked(u, s), s, verified)
         IN  /\ new \in [Sessions -> Session \union {None}]
             /\ \A t \in Sessions : OnlyEnds(session[t], new[t])
  <1> DEFINE revoked == Revoked(u, s)
  <1>1. /\ revoked \in [Sessions -> Session \union {None}]
        /\ \A t \in Sessions : OnlyEnds(session[t], revoked[t])
    BY RevokedRows DEF IdInv, IdentityTypeOK
  <1>2. revoked[s] # None
    BY <1>1, CallerHasSession, NoneIsNoIdentity DEF OnlyEnds
  <1> HIDE DEF revoked
  <1>3. /\ WithVerified(revoked, s, verified) \in [Sessions -> Session \union {None}]
        /\ \A t \in Sessions :
              OnlyEnds(revoked[t], WithVerified(revoked, s, verified)[t])
    BY <1>1, <1>2, VerifiedRows
  <1>4. \A t \in Sessions :
           OnlyEnds(session[t], WithVerified(revoked, s, verified)[t])
    BY <1>1, <1>3, NoneIsNoIdentity DEF OnlyEnds
  <1>5. QED
    BY <1>3, <1>4 DEF revoked

LEMMA CheckSetupStep ==
  ASSUME IdInv, NEW s \in Sessions, CheckSetup(s)
  PROVE  IdInv' /\ SessionStep
  <1> USE DEF IdInv, IdentityTypeOK
  <1>1. call[s] \in Call /\ call[s] # None
    BY DEF CheckSetup, Running
  <1>2. /\ call' \in [Sessions -> Call \union {None}]
        /\ call'[s].row = call[s].row
        /\ \A t \in Sessions \ {s} : call'[t] = call[t]
        /\ UNCHANGED <<now, enabled, session, login, credential, code>>
    BY <1>1 DEF CheckSetup, Call, Stages, factors
  <1>3. QED
    BY <1>1, <1>2, QuietStep DEF SessionsAreInUse, OnlyEnds

LEMMA ConfirmSetupStep ==
  ASSUME IdInv, NEW s \in Sessions, NEW c \in Codes, ConfirmSetup(s, c)
  PROVE  IdInv' /\ SessionStep
  <1> USE DEF IdInv, IdentityTypeOK
  <1>1. call[s] # None /\ session[s].user \in Users
    BY CallerHasSession DEF ConfirmSetup
  <1>2. /\ session' \in [Sessions -> Session \union {None}]
        /\ \A x \in Sessions : OnlyEnds(session[x], session'[x])
    BY <1>1, VerifiedAndRevoked DEF ConfirmSetup
  <1>3. /\ code' \in [Codes -> Code]
        /\ \A x \in Codes : code[x].state \in {"used", "deleted"} =>
              code'[x].state \in {"used", "deleted"}
    BY <1>1, ReplacedCodes DEF ConfirmSetup
  <1>4. EndCall(s) /\ UNCHANGED <<now, enabled, login>>
          /\ credential' \in [Users -> CredentialStates]
    BY DEF ConfirmSetup, CredentialStates
  <1>5. IdentityTypeOK'
    BY <1>2, <1>3, <1>4, EndedCalls
  <1>6. QED
    BY <1>2, <1>3, <1>4, <1>5, EndedCalls, QuietStep DEF SessionsAreInUse

LEMMA DisableTwoFactorStep ==
  ASSUME IdInv, NEW s \in Sessions, DisableTwoFactor(s)
  PROVE  IdInv' /\ SessionStep
  <1> USE DEF IdInv, IdentityTypeOK
  <1>1. call[s] # None /\ session[s].user \in Users
    BY CallerHasSession DEF DisableTwoFactor, Reauthenticated
  <1>2. /\ session' \in [Sessions -> Session \union {None}]
        /\ \A x \in Sessions : OnlyEnds(session[x], session'[x])
    BY <1>1, VerifiedAndRevoked DEF DisableTwoFactor
  <1>3. /\ code' \in [Codes -> Code]
        /\ \A x \in Codes : code[x].state \in {"used", "deleted"} =>
              code'[x].state \in {"used", "deleted"}
    BY <1>1, DeletedCodes DEF DisableTwoFactor
  <1>4. EndAndDelete(s, session[s].user) /\ UNCHANGED <<now, enabled, login>>
    BY DEF DisableTwoFactor
  <1>5. IdentityTypeOK'
    BY <1>2, <1>3, <1>4, DeletedCredential
  <1>6. QED
    BY <1>2, <1>3, <1>4, <1>5, DeletedCredential, QuietStep DEF SessionsAreInUse

LEMMA SeeCodesStep ==
  ASSUME IdInv, NEW s \in Sessions, SeeCodes(s)
  PROVE  IdInv' /\ SessionStep
  <1> USE DEF IdInv, IdentityTypeOK
  <1>1. call[s] \in Call /\ call[s] # None /\ CodesOf(session[s].user) \in SUBSET Codes
    BY DEF SeeCodes, Reauthenticated, CodesOf
  <1>2. /\ call' \in [Sessions -> Call \union {None}]
        /\ call'[s].row = call[s].row
        /\ \A t \in Sessions \ {s} : call'[t] = call[t]
        /\ UNCHANGED <<now, enabled, session, login, credential, code>>
    BY <1>1 DEF SeeCodes, Call, Stages, factors
  <1>3. QED
    BY <1>1, <1>2, QuietStep DEF SessionsAreInUse, OnlyEnds

LEMMA RegenerateCodesStep ==
  ASSUME IdInv, NEW s \in Sessions, NEW c \in Codes, RegenerateCodes(s, c)
  PROVE  IdInv' /\ SessionStep
  <1> USE DEF IdInv, IdentityTypeOK
  <1>1. session[s].user \in Users
    BY CallerHasSession DEF RegenerateCodes
  <1>2. /\ code' \in [Codes -> Code]
        /\ \A x \in Codes : code[x].state \in {"used", "deleted"} =>
              code'[x].state \in {"used", "deleted"}
    BY <1>1, ReplacedCodes DEF RegenerateCodes
  <1>3. EndCall(s) /\ UNCHANGED <<now, enabled, session, login, credential>>
    BY DEF RegenerateCodes
  <1>4. IdentityTypeOK'
    BY <1>2, <1>3, EndedCalls
  <1>5. QED
    BY <1>2, <1>3, <1>4, EndedCalls, QuietStep DEF SessionsAreInUse, OnlyEnds

LEMMA ResetTwoFactorStep ==
  ASSUME IdInv, NEW s \in Sessions, NEW u \in Users, ResetTwoFactor(s, u)
  PROVE  IdInv' /\ SessionStep
  <1> USE DEF IdInv, IdentityTypeOK
  <1>1. /\ session' \in [Sessions -> Session \union {None}]
        /\ \A x \in Sessions : OnlyEnds(session[x], session'[x])
    BY RevokedRows DEF ResetTwoFactor
  <1>2. /\ code' \in [Codes -> Code]
        /\ \A x \in Codes : code[x].state \in {"used", "deleted"} =>
              code'[x].state \in {"used", "deleted"}
    BY DeletedCodes DEF ResetTwoFactor
  <1>3. EndAndDelete(s, u) /\ UNCHANGED <<now, enabled, login>>
    BY DEF ResetTwoFactor
  <1>4. IdentityTypeOK'
    BY <1>1, <1>2, <1>3, DeletedCredential
  <1>5. QED
    BY <1>1, <1>2, <1>3, <1>4, DeletedCredential, QuietStep DEF SessionsAreInUse

LEMMA ReadUserStep ==
  ASSUME IdInv, NEW s \in Sessions, NEW u \in Users, NEW active \in BOOLEAN,
         NEW password \in BOOLEAN, ReadUser(s, u, active, password)
  PROVE  IdInv' /\ SessionStep
  <1> USE DEF IdInv, IdentityTypeOK
  <1> DEFINE edit == [user |-> u, wasActive |-> u \in enabled, active |-> active,
                      password |-> password]
  <1>1. call[s] \in Call /\ call[s] # None
    BY DEF ReadUser, Running
  <1>2. edit \in UserEdit
    BY DEF UserEdit
  <1>3. call' = [call EXCEPT ![s].stage = "editing", ![s].edit = edit]
          /\ UNCHANGED <<now, enabled, session, login, credential, code>>
    BY DEF ReadUser, factors
  <1> HIDE DEF edit
  <1>4. /\ call' \in [Sessions -> Call \union {None}]
        /\ call'[s].row = call[s].row
        /\ \A t \in Sessions \ {s} : call'[t] = call[t]
    BY <1>1, <1>2, <1>3 DEF Call, Stages
  <1>5. QED
    BY <1>1, <1>3, <1>4, QuietStep DEF SessionsAreInUse, OnlyEnds

LEMMA SaveUserStep ==
  ASSUME IdInv, NEW s \in Sessions, SaveUser(s)
  PROVE  IdInv' /\ SessionStep
  <1> USE DEF IdInv, IdentityTypeOK
  <1>1. call[s].edit \in UserEdit
    BY DEF SaveUser, Call
  <1>2. EndCall(s) /\ enabled' \subseteq Users
          /\ UNCHANGED <<now, login, credential, code>>
    BY <1>1 DEF SaveUser, UserEdit, factors
  <1>3. CASE session' = session
    <2>1. IdentityTypeOK'
      BY <1>2, <1>3, EndedCalls
    <2>2. QED
      BY <1>2, <1>3, <2>1, EndedCalls, QuietStep DEF SessionsAreInUse, OnlyEnds
  <1>4. CASE session' = Revoked(call[s].edit.user, None)
    <2>1. /\ session' \in [Sessions -> Session \union {None}]
          /\ \A x \in Sessions : OnlyEnds(session[x], session'[x])
      BY <1>4, RevokedRows
    <2>2. IdentityTypeOK'
      BY <1>2, <2>1, EndedCalls
    <2>3. QED
      BY <1>2, <2>1, <2>2, EndedCalls, QuietStep DEF SessionsAreInUse
  <1>5. QED
    BY <1>3, <1>4 DEF SaveUser

-----------------------------------------------------------------------------
(* Together.                                                               *)

LEMMA IdentityStep ==
  ASSUME IdInv, [AccessNext]_access
  PROVE  IdInv' /\ (SessionStep \/ UNCHANGED identity)
  <1>1. CASE UNCHANGED identity
    BY <1>1 DEF IdInv, IdentityTypeOK, SessionsAreInUse, CodesAreSpentOnce,
                identity, authenticated, factors
  <1>2. CASE Tick
    BY <1>2, TickStep
  <1>3. CASE LogIn
    BY <1>3, BeginLoginStep, CommitLoginStep, FailLoginStep DEF LogIn
  <1>4. CASE CallApi
    BY <1>4, ResolveStep DEF CallApi, CallModule
  <1>5. CASE UseSession
    <2>1. ASSUME NEW s \in Sessions, Return(s)
          PROVE  IdInv' /\ SessionStep
      BY <2>1, FinishStep DEF Return, Finish
    <2>2. QED
      BY <1>5, <2>1, TouchStep, RevokeSessionStep, RevokeOthersStep DEF UseSession
  <1>6. CASE ManageFactors
    BY <1>6, ReauthenticateStep, BeginSetupStep, CheckSetupStep, ConfirmSetupStep,
       DisableTwoFactorStep, SeeCodesStep, RegenerateCodesStep DEF ManageFactors
  <1>7. CASE AdministerUsers
    BY <1>7, ReauthenticateStep, ReadUserStep, SaveUserStep, ResetTwoFactorStep
       DEF AdministerUsers
  <1>8. CASE \E s \in Sessions : Finish(s)
    BY <1>8, FinishStep
  <1>9. QED
    BY <1>1, <1>2, <1>3, <1>4, <1>5, <1>6, <1>7, <1>8, StepOfIdentity

\* Users, sessions, requests and factors are well typed, and no request is made
\* with a session that was never created.
THEOREM IdentityInvariant == AccessSpec => []IdInv
  <1>1. AccessInit => IdInv
    <2>1. AccessInit => IdentityTypeOK
      BY LifetimesAreNatural
         DEF AccessInit, IdentityInit, IdentityTypeOK, CredentialStates, Code
    <2>2. AccessInit => SessionsAreInUse /\ CodesAreSpentOnce
      BY DEF AccessInit, IdentityInit, SessionsAreInUse, CodesAreSpentOnce
    <2>3. QED
      BY <2>1, <2>2 DEF IdInv
  <1>2. QED
    BY <1>1, IdentityStep, PTL DEF AccessSpec

\* However logins, setups and resets overlap, a recovery code buys one session.
THEOREM CodesSpentOnce == AccessSpec => []CodesAreSpentOnce
  <1>1. IdInv => CodesAreSpentOnce
    BY DEF IdInv
  <1>2. QED
    BY <1>1, IdentityInvariant, PTL

\* No request that was authenticated before brings a revoked session back, or
\* takes a session past the lifetime it was created with.
THEOREM SessionsEndForGood == AccessSpec => SessionsEnd
  <1>1. IdInv /\ [AccessNext]_access => [SessionStep]_identity
    BY IdentityStep
  <1>2. QED
    BY <1>1, IdentityInvariant, PTL DEF AccessSpec, SessionsEnd, SessionStep

-----------------------------------------------------------------------------
(* Grants.                                                                 *)

\* A revocation that passed its check is of a grant that exists.
GrantInv == AuthorizationTypeOK /\ \A x \in revoking : grant[x] # None

LEMMA GrantsTyped ==
  ASSUME GrantInv, [AccessNext]_access
  PROVE  GrantInv'
  <1> USE DEF GrantInv, AuthorizationTypeOK
  <1>1. CASE UNCHANGED authorization
    BY <1>1 DEF authorization
  <1>2. ASSUME NEW r \in Roles, NEW active \in BOOLEAN, NEW allows \in BOOLEAN,
               UpdateRole(r, active, allows)
        PROVE  GrantInv'
    BY <1>2 DEF UpdateRole, Role
  <1>3. ASSUME NEW g \in Groups, NEW active \in BOOLEAN, NEW members \in SUBSET Users,
               UpdateGroup(g, active, members)
        PROVE  GrantInv'
    BY <1>3 DEF UpdateGroup, Group
  <1>4. ASSUME NEW x \in Grants, NEW r \in Roles, NEW principal \in Users \union Groups,
               NEW scope \in Companies \union Establishments \union {None},
               CreateGrant(x, r, principal, scope)
        PROVE  GrantInv'
    BY <1>4 DEF CreateGrant, Grant
  <1>5. ASSUME NEW u, NEW x \in Grants, CheckRevocation(u, x)
        PROVE  GrantInv'
    BY <1>5 DEF CheckRevocation
  <1>6. ASSUME NEW x \in Grants, RevokeGrant(x)
        PROVE  GrantInv'
    <2>1. grant[x] \in Grant
      BY <1>6 DEF RevokeGrant
    <2>2. [grant[x] EXCEPT !.revoked = TRUE] \in Grant
      BY <2>1 DEF Grant
    <2>3. grant' \in [Grants -> Grant \union {None}]
      BY <1>6, <2>2 DEF RevokeGrant
    <2>4. QED
      BY <1>6, <2>3 DEF RevokeGrant
  <1>7. CASE ManageAccess
    BY <1>2, <1>3, <1>4, <1>5, <1>6, <1>7 DEF ManageAccess, ChangeAccess
  <1>8. QED
    BY <1>1, <1>7
       DEF AccessNext, access, ManageModules, SwitchModule, authorization

\* A list is filtered by company and by establishment with sets of its own; they
\* hold exactly what the check of one object would let through.
LEMMA FiltersAgree == AuthorizationTypeOK => ListsAgreeWithChecks
  <1> SUFFICES ASSUME AuthorizationTypeOK, NEW u \in Users
               PROVE  /\ \A c \in Companies :
                           c \in AuthorizedCompanies(u) <=> HasPermission(u, c, None)
                      /\ \A e \in Establishments :
                           e \in AuthorizedEstablishments(u)
                             <=> HasPermission(u, None, e)
    BY DEF ListsAgreeWithChecks
  <1>1. \A x \in AllowingGrants(u) :
           x \in Grants /\ grant[x].scope \in Companies \union Establishments \union {None}
    BY DEF AllowingGrants, ActiveGrants, AuthorizationTypeOK, Grant
  <1>2. ASSUME NEW x \in AllowingGrants(u), NEW c \in Companies
        PROVE  grant[x].scope \in {None, c} <=> ScopeCovers(x, c, None)
    BY <1>1, ScopesAreDistinct, NoneIsNoScope DEF ScopeCovers
  <1>3. ASSUME NEW x \in AllowingGrants(u), NEW e \in Establishments
        PROVE  grant[x].scope \in {None, e, CompanyOf[e]} <=> ScopeCovers(x, None, e)
    BY <1>1, ScopesAreDistinct, NoneIsNoScope, EstablishmentsHaveACompany DEF ScopeCovers
  <1>4. QED
    BY <1>2, <1>3 DEF AuthorizedCompanies, AuthorizedEstablishments, HasPermission

\* What a list shows a user is what each object's own check would allow, whatever
\* roles, groups and grants were made, changed and revoked.
THEOREM ListsAgree == AccessSpec => []ListsAgreeWithChecks
  <1>1. AccessInit => GrantInv
    BY AdminIsRole DEF AccessInit, AuthorizationInit, GrantInv, AuthorizationTypeOK,
                       Role, Group, Grant
  <1>2. GrantInv => ListsAgreeWithChecks
    BY FiltersAgree DEF GrantInv
  <1>3. QED
    BY <1>1, <1>2, GrantsTyped, PTL DEF AccessSpec

-----------------------------------------------------------------------------
(* Modules.                                                                *)

\* What a call that passed its checks found, and still finds while it is alone.
StillMaySwitch(m, enable) ==
    IF enable THEN \A d \in DependsOn[m] : IsEnabled(d)
    ELSE m \notin Required /\ \A n \in Dependents(m) : ~IsEnabled(n)

RegistryInv ==
    /\ DependenciesEnabled
    /\ \A x, y \in switching : x = y
    /\ \A m \in Modules, enable \in BOOLEAN :
          <<m, enable>> \in switching => StillMaySwitch(m, enable)

\* Only the endpoint of modules changes what is enabled.
LEMMA StepOfRegistry ==
  ASSUME [AccessNext]_access
  PROVE  \/ UNCHANGED registry
         \/ \E m \in Modules, enable \in BOOLEAN :
               CheckSwitch(m, enable) \/ Switch(m, enable)
  BY DEF AccessNext, access, ManageModules, SwitchModule

LEMMA RegistryTyped ==
  ASSUME RegistryTypeOK, [AccessNext]_access
  PROVE  RegistryTypeOK'
  <1> USE DEF RegistryTypeOK
  <1>1. ASSUME NEW m \in Modules, NEW enable \in BOOLEAN, CheckSwitch(m, enable)
        PROVE  RegistryTypeOK'
    BY <1>1 DEF CheckSwitch
  <1>2. ASSUME NEW m \in Modules, NEW enable \in BOOLEAN, Switch(m, enable)
        PROVE  RegistryTypeOK'
    BY <1>2 DEF Switch
  <1>3. CASE UNCHANGED registry
    BY <1>3 DEF registry
  <1>4. QED
    BY <1>1, <1>2, <1>3, StepOfRegistry

\* A check that finds nobody else under way.
LEMMA CheckAlone ==
  ASSUME RegistryTypeOK, RegistryInv, \A x, y \in switching' : x = y,
         NEW m \in Modules, NEW enable \in BOOLEAN, CheckSwitch(m, enable)
  PROVE  RegistryInv'
  <1>1. installation' = installation /\ <<m, enable>> \in switching'
    BY DEF CheckSwitch
  <1>2. \A n \in Modules : IsEnabled(n)' <=> IsEnabled(n)
    BY <1>1 DEF IsEnabled
  <1>3. DependenciesEnabled'
    BY <1>1 DEF RegistryInv, DependenciesEnabled, IsEnabled
  <1>4. StillMaySwitch(m, enable)'
    BY <1>1 DEF CheckSwitch, StillMaySwitch, IsEnabled
  <1>5. \A n \in Modules, e \in BOOLEAN :
           <<n, e>> \in switching' => n = m /\ e = enable
    BY <1>1
  <1>6. QED
    BY <1>3, <1>4, <1>5 DEF RegistryInv, StillMaySwitch

\* The switch that follows, with nobody else under way.
LEMMA SwitchAlone ==
  ASSUME RegistryTypeOK, RegistryInv,
         NEW m \in Modules, NEW enable \in BOOLEAN, Switch(m, enable)
  PROVE  RegistryInv'
  <1>1. switching' = {}
    BY DEF Switch, RegistryInv
  <1>2. StillMaySwitch(m, enable)
    BY DEF Switch, RegistryInv
  <1>3. /\ installation'[m] = IF enable THEN "enabled" ELSE "disabled"
        /\ \A n \in Modules \ {m} : installation'[n] = installation[n]
    BY DEF Switch, RegistryTypeOK
  <1>4. \A n \in Modules : DependsOn[n] \subseteq Modules /\ n \notin DependsOn[n]
    BY ManifestsAreWellFormed
  <1>5. DependenciesEnabled'
    <2>1. CASE enable
      <3>1. IsEnabled(m)' /\ \A n \in Modules \ {m} : IsEnabled(n)' <=> IsEnabled(n)
        BY <1>3, <2>1 DEF IsEnabled
      <3>2. \A d \in DependsOn[m] : IsEnabled(d)
        BY <1>2, <2>1 DEF StillMaySwitch
      <3> SUFFICES ASSUME NEW n \in Modules, IsEnabled(n)', NEW d \in DependsOn[n]
                   PROVE  IsEnabled(d)'
        BY DEF DependenciesEnabled
      <3>3. CASE d = m
        BY <3>1, <3>3
      <3>4. CASE d # m
        <4>1. IsEnabled(d)
          BY <1>4, <3>1, <3>2 DEF RegistryInv, DependenciesEnabled
        <4>2. QED
          BY <1>4, <3>1, <3>4, <4>1
      <3>5. QED
        BY <3>3, <3>4
    <2>2. CASE ~enable
      <3>1. ~IsEnabled(m)' /\ \A n \in Modules \ {m} : IsEnabled(n)' <=> IsEnabled(n)
        BY <1>2, <1>3, <2>2 DEF IsEnabled, StillMaySwitch
      <3>2. \A n \in Modules : m \in DependsOn[n] => ~IsEnabled(n)
        BY <1>2, <2>2 DEF StillMaySwitch, Dependents
      <3> SUFFICES ASSUME NEW n \in Modules, IsEnabled(n)', NEW d \in DependsOn[n]
                   PROVE  IsEnabled(d)'
        BY DEF DependenciesEnabled
      <3>3. n # m /\ IsEnabled(n)
        BY <3>1
      <3>4. d # m /\ IsEnabled(d)
        BY <3>2, <3>3 DEF RegistryInv, DependenciesEnabled
      <3>5. QED
        BY <1>4, <3>1, <3>4
    <2>3. QED
      BY <2>1, <2>2
  <1>6. QED
    BY <1>1, <1>5 DEF RegistryInv

\* The history variable is not set by a step with at most one switch under way.
LEMMA AloneStep ==
  ASSUME [WatchedNext]_<<access, overlapped>>, ~overlapped'
  PROVE  /\ ~overlapped
         /\ \/ UNCHANGED access
            \/ AccessNext /\ \A x, y \in switching' : x = y
  <1>1. CASE WatchedNext
    BY <1>1, Zenon DEF WatchedNext
  <1>2. CASE UNCHANGED <<access, overlapped>>
    <2>1. overlapped' = overlapped /\ UNCHANGED access
      BY <1>2
    <2>2. QED
      BY <2>1, Zenon
  <1>3. QED
    BY <1>1, <1>2

\* Every enabled module has those that it depends on, until two calls that switch
\* modules are under way at a time.
THEOREM DependenciesStayEnabled == WatchedSpec => []DependenciesWhileAlone
  <1> DEFINE WInv == RegistryTypeOK /\ (~overlapped => RegistryInv)
  <1>1. WatchedInit => WInv
    BY ManifestsAreWellFormed, DefaultsAreClosed
       DEF WatchedInit, AccessInit, RegistryInit, RegistryTypeOK, RegistryInv,
           DependenciesEnabled, IsEnabled
  <1>2. WInv /\ [WatchedNext]_<<access, overlapped>> => WInv'
    <2> SUFFICES ASSUME WInv, [WatchedNext]_<<access, overlapped>>
                 PROVE  WInv'
      OBVIOUS
    <2>1. [AccessNext]_access
      BY DEF WatchedNext
    <2>2. RegistryTypeOK'
      BY <2>1, RegistryTyped
    <2>3. ASSUME ~overlapped'
          PROVE  RegistryInv'
      <3>1. RegistryInv
        BY <2>3, AloneStep
      <3>2. CASE UNCHANGED registry
        BY <3>1, <3>2
           DEF registry, RegistryInv, DependenciesEnabled, StillMaySwitch, IsEnabled
      <3>3. CASE ~UNCHANGED registry
        <4>1. \A x, y \in switching' : x = y
          BY <2>3, <3>3, AloneStep DEF access
        <4>2. QED
          BY <2>1, <3>1, <3>3, <4>1, StepOfRegistry, CheckAlone, SwitchAlone
      <3>4. QED
        BY <3>2, <3>3
    <2>4. QED
      BY <2>2, <2>3
  <1>3. WInv => DependenciesWhileAlone
    BY DEF RegistryInv, DependenciesWhileAlone
  <1>4. QED
    BY <1>1, <1>2, <1>3, PTL DEF WatchedSpec

=============================================================================
