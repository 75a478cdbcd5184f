------------------------------ MODULE WebProofs ------------------------------
(***************************************************************************)
(* That a browser never shows one seller another's organisation, for any   *)
(* users, pages and requests.                                              *)
(***************************************************************************)
EXTENDS Web, TLAPS

\* Everything the browser keeps of the session, or waits for, is one user's, or nobody's.
OneUser == \E u \in Users \cup {NoUser} :
  {token, stored, user, orgId, restore, login, save} \subseteq {u, NoUser}

\* OrgOfUser is not inductive: it says nothing of the answers that are still to come.
SInv == ~crossed => OneUser /\ (stored # NoUser => stored = token)

\* The invariant holds before anybody signed in.
LEMMA InitSInv ==
  ASSUME Init PROVE SInv
BY DEF Init, SignInInit, SInv, OneUser

\* Every step of a session keeps the invariant: only Login can bring in another user,
\* and it marks that it did.
LEMMA SessionSInv ==
  ASSUME SInv, SignInNext PROVE SInv'
<1> SUFFICES ASSUME ~crossed' PROVE OneUser' /\ (stored # NoUser => stored = token)'
  BY DEF SInv
<1> USE SignInAssumption
<1>1. CASE \E u \in Users : Login(u) \/ BuyerLogin(u)
  <2>1. PICK u \in Users : Login(u) \/ BuyerLogin(u)
    BY <1>1
  <2>2. /\ {token, stored, user, orgId, restore, login, save} \subseteq {u, NoUser}
        /\ stored' = stored /\ user' = user /\ orgId' = orgId
        /\ restore' = restore /\ save' = save /\ token' = u /\ login' \in {u, login}
    BY <2>1 DEF Login, BuyerLogin, KeepToken
  <2> QED
    BY <2>2 DEF OneUser
<1>2. CASE ~ \E u \in Users : Login(u) \/ BuyerLogin(u)
  <2>1. ~crossed
    BY <1>2 DEF SignInNext, Visit, RestoreOk, RestoreFail, LoginOk, LoginFail, Logout, Save,
      SaveOk, SaveFail
  <2>2. PICK u \in Users \cup {NoUser} :
          /\ {token, stored, user, orgId, restore, login, save} \subseteq {u, NoUser}
          /\ stored # NoUser => stored = token
    BY <2>1 DEF SInv, OneUser
  <2>3. CASE Visit
    BY <2>2, <2>3 DEF Visit, Forget, OneUser
  <2>4. CASE RestoreOk
    BY <2>2, <2>4 DEF RestoreOk, Welcome, OneUser
  <2>5. CASE RestoreFail
    BY <2>2, <2>5 DEF RestoreFail, ClearToken, Forget, OneUser
  <2>6. CASE LoginOk
    BY <2>2, <2>6 DEF LoginOk, Welcome, OneUser
  <2>7. CASE LoginFail
    BY <2>2, <2>7 DEF LoginFail, ClearToken, Forget, OneUser
  <2>8. CASE Logout
    BY <2>2, <2>8 DEF Logout, ClearToken, Forget, OneUser
  <2>9. CASE Save
    BY <2>2, <2>9 DEF Save, OneUser
  <2>10. CASE SaveOk
    <3>1. save = token
      BY <2>10, Zenon DEF SaveOk
    <3> QED
      BY <2>2, <2>10, <3>1 DEF SaveOk, OneUser
  <2>11. CASE SaveFail
    BY <2>2, <2>11 DEF SaveFail, OneUser
  <2> QED
    BY <1>2, <2>3, <2>4, <2>5, <2>6, <2>7, <2>8, <2>9, <2>10, <2>11 DEF SignInNext
<1> QED
  BY <1>1, <1>2

\* Whatever pages do, the organisation in storage and the one on the screen are of the
\* user who is there, as long as no two users' steps have crossed (AuthContext.tsx).
THEOREM OrgIsOfUser == Spec => []OrgOfUser
<1>1. Init => SInv
  BY InitSInv
<1>2. SInv /\ [Next]_vars => SInv'
  <2> SUFFICES ASSUME SInv, [Next]_vars PROVE SInv'
    OBVIOUS
  <2>1. CASE SignInNext
    BY <2>1, SessionSInv
  <2>2. CASE UNCHANGED svars
    BY <2>2 DEF svars, SInv, OneUser
  <2> QED
    BY <2>1, <2>2 DEF Next, Session, vars
<1>3. SInv => OrgOfUser
  BY DEF SInv, OneUser, OrgOfUser
<1> QED
  BY <1>1, <1>2, <1>3, PTL DEF Spec
=============================================================================
