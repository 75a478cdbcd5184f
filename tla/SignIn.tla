------------------------------- MODULE SignIn -------------------------------
(***************************************************************************)
(* Signing in and out of the seller's and the administrators' web          *)
(* applications (context/AuthContext.tsx of both): the token and the       *)
(* organisation in the browser's storage, React's copies of the user and   *)
(* the organisation, and the answers that may come late.  An organisation  *)
(* is named by the user it belongs to.                                     *)
(***************************************************************************)
CONSTANTS
  Users,   \* the users of one browser
  NoUser   \* nobody

ASSUME SignInAssumption == NoUser \notin Users

VARIABLES
  app,       \* the application
  token,     \* localStorage: whose token it holds
  stored,    \* localStorage: whose organisation, seller_org_id
  user,      \* React: the user
  orgId,     \* React: whose organisation
  restore,   \* restoreSession waits for the user of this token
  login,     \* login waits for the user of this token
  save,      \* a profile save or an onboarding waits, for this organisation
  crossed    \* history: two users' steps have crossed (see OrgOfUser)

svars == <<app, token, stored, user, orgId, restore, login, save, crossed>>

SignInInit ==
  /\ app \in {"admin", "seller", "checkout"}
  /\ token = NoUser /\ stored = NoUser /\ user = NoUser /\ orgId = NoUser
  /\ restore = NoUser /\ login = NoUser /\ save = NoUser
  /\ crossed = FALSE

\* Mutant: the organisation stays in storage.
ClearOnlyToken == token' = NoUser /\ stored' = stored

ClearToken == token' = NoUser /\ stored' = NoUser

\* React's copies of the session.
Forget == user' = NoUser /\ orgId' = NoUser

\* fetchUser and restoreSession, answered: the organisation is the one in storage.
Welcome(u) ==
  /\ user' = u
  /\ orgId' = IF app = "seller" /\ stored # NoUser THEN stored ELSE orgId

\* The application is loaded: what React kept is gone, and a token is tried.
Visit ==
  /\ app # "checkout"
  /\ Forget /\ restore' = token /\ login' = NoUser /\ save' = NoUser
  /\ UNCHANGED <<app, token, stored, crossed>>

RestoreOk ==
  /\ restore # NoUser
  /\ Welcome(restore) /\ restore' = NoUser
  /\ UNCHANGED <<app, token, stored, login, save, crossed>>

RestoreFail ==
  /\ restore # NoUser
  /\ ClearToken /\ Forget /\ restore' = NoUser
  /\ UNCHANGED <<app, login, save, crossed>>

KeepToken(u) ==
  /\ token' = u
  /\ crossed' = (crossed \/ ~({token, stored, user, orgId, restore, login, save} \subseteq {u, NoUser}))
  /\ UNCHANGED <<app, stored, user, orgId, restore, save>>

\* The login page has verified a code and stores the token; the seller's application
\* shows the page only when no session is being restored.
Login(u) ==
  /\ app # "checkout" /\ login = NoUser
  /\ app = "seller" => restore = NoUser
  /\ login' = u /\ KeepToken(u)

\* The buyer's application stores a token that nothing reads.
BuyerLogin(u) == app = "checkout" /\ login' = login /\ KeepToken(u)

LoginOk ==
  /\ login # NoUser
  /\ Welcome(login) /\ login' = NoUser
  /\ UNCHANGED <<app, token, stored, restore, save, crossed>>

\* The seller's fetchUser forgets the user too.
LoginFail ==
  /\ login # NoUser
  /\ ClearToken /\ login' = NoUser
  /\ IF app = "seller" THEN Forget ELSE UNCHANGED <<user, orgId>>
  /\ UNCHANGED <<app, restore, save, crossed>>

\* The button is in the layout, which a seller without organisation does not get.
Logout ==
  /\ app # "checkout" /\ user # NoUser /\ restore = NoUser
  /\ app = "seller" => orgId # NoUser
  /\ ClearToken /\ Forget
  /\ crossed' = (crossed \/ login # NoUser)
  /\ UNCHANGED <<app, restore, login, save>>

\* ProfilePage saves the organisation, OnboardingPage creates one.
Save ==
  /\ app = "seller" /\ user # NoUser /\ restore = NoUser /\ save = NoUser
  /\ save' = IF orgId # NoUser THEN orgId ELSE token
  /\ crossed' = (crossed \/ login # NoUser)
  /\ UNCHANGED <<app, token, stored, user, orgId, restore, login>>

\* setOrg, whoever is signed in by now.
SaveOk ==
  /\ save # NoUser
  /\ orgId' = save /\ stored' = save /\ save' = NoUser
  /\ crossed' = (crossed \/ save # token)
  /\ UNCHANGED <<app, token, user, restore, login>>

SaveFail ==
  /\ save # NoUser
  /\ save' = NoUser
  /\ UNCHANGED <<app, token, stored, user, orgId, restore, login, crossed>>

SignInNext ==
  \/ Visit \/ RestoreOk \/ RestoreFail \/ LoginOk \/ LoginFail \/ Logout
  \/ Save \/ SaveOk \/ SaveFail
  \/ \E u \in Users : Login(u) \/ BuyerLogin(u)

\* Where a user sees pages: signed in, and a seller with an organisation.
Inside == app # "checkout" =>
  /\ user # NoUser /\ restore = NoUser
  /\ app = "seller" => orgId # NoUser

-----------------------------------------------------------------------------
\* The organisation in storage is of the user whose token is there, and the one on the
\* screen of the user on the screen, through any order of visits, sign-ins, sign-outs,
\* saves and failures: unless somebody signed in over another, went back from the login
\* page before its answer, or signed out before the answer to a save.
OrgOfUser == ~crossed =>
  /\ stored # NoUser => stored = token
  /\ user # NoUser /\ orgId # NoUser => orgId = user
=============================================================================
