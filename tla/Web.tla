-------------------------------- MODULE Web --------------------------------
(***************************************************************************)
(* The web applications: a user signs in (SignIn) and uses their pages     *)
(* (Pages).  A route shows a page only to whom the session lets in, and    *)
(* leaving, signing out or loading the application again unmounts it.      *)
(***************************************************************************)
EXTENDS Pages, SignIn

vars == <<pvars, svars>>

PagesOf == [a \in {"admin", "seller", "checkout"} |->
  CASE a = "admin" -> AdminPages [] a = "seller" -> SellerPages [] a = "checkout" -> CheckoutPages]

Init == PagesInit /\ SignInInit

\* The login and profile pages are routes of their own.
Elsewhere == Save \/ \E u \in Users : Login(u) \/ BuyerLogin(u)

Session ==
  /\ SignInNext
  /\ Elsewhere => page = NoPage
  /\ IF Inside' THEN UNCHANGED view ELSE Closed
  /\ UNCHANGED <<row, calm>>

\* Bound: one of the users opens pages, when nothing of the session is under way.
Settled ==
  /\ Inside /\ login = NoUser /\ save = NoUser /\ ~crossed
  /\ app # "checkout" => token = user
  /\ user \in {NoUser, CHOOSE u \in Users : TRUE}

Browse == \/ Settled /\ \E p \in PagesOf[app] : Open(p)
          \/ PagesNext

Next == Session \/ (Browse /\ UNCHANGED svars)

\* The browser ends every request, with an answer or an error.
Spec == Init /\ [][Next]_vars /\ WF_vars(Handle(1) /\ UNCHANGED svars)
=============================================================================
