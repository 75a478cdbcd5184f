---------------------------- MODULE PagesProofs ----------------------------
(***************************************************************************)
(* What a page of the web applications shows, for any rows and any number  *)
(* of requests under way: the rows that are ticked are rows it shows, and  *)
(* with nobody else about it ends up showing what is stored.               *)
(***************************************************************************)
EXTENDS Web, SequenceTheorems, TLAPS

\* RemoveAt takes one element away and keeps the order of the others.
LEMMA RemoveAtProperties ==
  ASSUME NEW S, NEW s \in Seq(S), NEW i \in 1 .. Len(s)
  PROVE  /\ RemoveAt(s, i) \in Seq(S)
         /\ Len(RemoveAt(s, i)) = Len(s) - 1
         /\ \A j \in 1 .. Len(s) - 1 : RemoveAt(s, i)[j] = IF j < i THEN s[j] ELSE s[j + 1]
<1> DEFINE before == SubSeq(s, 1, i - 1)
           after  == SubSeq(s, i + 1, Len(s))
<1>1. /\ before \in Seq(S) /\ Len(before) = i - 1
      /\ \A j \in 1 .. i - 1 : before[j] = s[j]
  <2>1. \A j \in 1 .. i - 1 : s[j] \in S
    BY ElementOfSeq, LenProperties
  <2> QED
    BY <2>1, SubSeqProperties, LenProperties
<1>2. /\ after \in Seq(S) /\ Len(after) = Len(s) - i
      /\ \A j \in 1 .. Len(s) - i : after[j] = s[j + i]
  <2>1. \A j \in i + 1 .. Len(s) : s[j] \in S
    BY ElementOfSeq, LenProperties
  <2> QED
    BY <2>1, SubSeqProperties, LenProperties
<1>3. /\ before \o after \in Seq(S)
      /\ Len(before \o after) = Len(before) + Len(after)
      /\ \A j \in 1 .. Len(before) + Len(after) : (before \o after)[j] =
           IF j <= Len(before) THEN before[j] ELSE after[j - Len(before)]
  BY <1>1, <1>2, ConcatProperties
<1> HIDE DEF before, after
<1>4. RemoveAt(s, i) = before \o after
  BY DEF RemoveAt, before, after
<1>5. Len(s) \in Nat /\ i \in Nat /\ Len(before) + Len(after) = Len(s) - 1
  BY <1>1, <1>2, LenProperties
<1>6. ASSUME NEW j \in 1 .. Len(s) - 1
      PROVE  (before \o after)[j] = IF j < i THEN s[j] ELSE s[j + 1]
  <2>1. CASE j < i
    BY <1>1, <1>3, <1>5, <2>1
  <2>2. CASE j >= i
    <3>1. j - (i - 1) \in 1 .. Len(s) - i /\ j - (i - 1) + i = j + 1
      BY <1>5, <2>2
    <3>2. after[j - (i - 1)] = s[j + 1]
      BY <1>2, <3>1
    <3> QED
      BY <1>1, <1>3, <1>5, <2>2, <3>2
  <2> QED
    BY <1>5, <2>1, <2>2
<1> QED
  BY <1>3, <1>4, <1>5, <1>6

-----------------------------------------------------------------------------
Changes == UNION {p.controls : p \in AdminPages \cup SellerPages \cup CheckoutPages}

\* A request of the page: only a load asks for no change, and the answer to a change
\* gives each row it names the status that was asked for.
Calls == {c \in [control : Changes \cup {Load}, rows : SUBSET Rows, to : Status \cup {"none"},
                 frees : BOOLEAN, stage : {"sent", "answered", "failed"},
                 got : [Rows -> Status \cup {"none"}]] :
            c.control # Load =>
              c.to \in Status /\ (c.stage = "answered" => \A r \in c.rows : c.got[r] = c.to)}

\* What is stored, shown and asked for.
ViewOK ==
  /\ app \in {"admin", "seller", "checkout"}
  /\ row \in [Rows -> Status \cup {"none"}]
  /\ shown \in [Rows -> Status \cup {"none"}]
  /\ ticked \subseteq Rows
  /\ calls \in Seq(Calls)
  /\ page.controls \subseteq Changes

\* A load is none of the controls: something follows every control's answer.  Of those that
\* the API may refuse after it has stored the row, the answer marks it.
LEMMA LoadIsNoChange == Load \notin Changes /\ \A c \in Changes : c.tears => c.after = "mark"
<1> DEFINE Follows(c) == /\ c.after \in {"merge", "mark", "reload", "leave"}
                         /\ c.tears => c.after = "mark"
<1>1. \A o, S, T, w, a :
        /\ Control(o, S, T, w, a).after = a /\ ~Control(o, S, T, w, a).tears
        /\ Refused(Control(o, S, T, w, a)).after = a /\ ~Refused(Control(o, S, T, w, a)).tears
        /\ Tearing(Control(o, S, T, w, a)).after = a
  BY DEF Control, Refused, Tearing
<1>2. \A p \in AdminPages : \A c \in p.controls : Follows(c)
  BY <1>1
  DEF AdminPages, RefundsPage, AdminOrgsPage, UsersPage, AdminOrdersPage, AdminDisputesPage,
      VerificationsPage, RiskHoldsPage, AuditLogsPage, AdminDashboard, Table, Hiding, Report, Page,
      Select, Bulk
<1>3. \A p \in SellerPages : \A c \in p.controls : Follows(c)
  BY <1>1
  DEF SellerPages, ProductsPage, CheckoutLinksPage, SellerOrdersPage, OrderDetailPage,
      ShipmentsPage, ShipmentDetailPage, SellerDashboard, Hiding, Report, Page, Form
<1>4. \A p \in CheckoutPages : \A c \in p.controls : Follows(c)
  BY <1>1
  DEF CheckoutPages, CheckoutPage, OrderPage, TrackPage, PaymentPage, DisputePage, Hiding, Report,
      Page, Form
<1>5. ~Follows(Load)
  BY <1>1 DEF Load
<1> HIDE DEF Follows
<1>6. \A c \in Changes : Follows(c)
  BY <1>2, <1>3, <1>4 DEF Changes
<1>7. Load \notin Changes
  BY <1>5, <1>6
<1> QED
  BY <1>6, <1>7 DEF Follows

-----------------------------------------------------------------------------
\* A load and a change, as they are sent, are requests of the page.
LEMMA SentIsCall ==
  /\ \A f \in BOOLEAN : LoadCall(f) \in Calls
  /\ \A c \in Changes, R \in SUBSET Rows, s \in Status, f \in BOOLEAN : Call(c, R, s, f) \in Calls
<1>1. Empty \in [Rows -> Status \cup {"none"}]
  BY DEF Empty
<1> HIDE DEF Empty
<1>2. ASSUME NEW f \in BOOLEAN PROVE LoadCall(f) \in Calls
  BY <1>1 DEF LoadCall, Call, Calls
<1>3. ASSUME NEW c \in Changes, NEW R \in SUBSET Rows, NEW s \in Status, NEW f \in BOOLEAN
      PROVE  Call(c, R, s, f) \in Calls
  BY <1>1, <1>3 DEF Call, Calls
<1> QED
  BY <1>2, <1>3

\* A request that is answered stays a request in its place.
LEMMA AnsweredCall ==
  ASSUME calls \in Seq(Calls), NEW i \in 1 .. Len(calls), NEW R \in SUBSET Rows,
         NEW got \in [Rows -> Status \cup {"none"}],
         calls[i].control # Load => \A r \in R : got[r] = calls[i].to,
         Answered(i, R, got)
  PROVE  /\ calls' \in Seq(Calls) /\ Len(calls') = Len(calls)
         /\ \A j \in 1 .. Len(calls) : j # i => calls'[j] = calls[j]
         /\ calls'[i].control = calls[i].control /\ calls'[i].to = calls[i].to
         /\ calls'[i].stage = "answered" /\ calls'[i].rows = R /\ calls'[i].got = got
<1> DEFINE c == [calls[i] EXCEPT !.stage = "answered", !.rows = R, !.got = got]
<1>1. calls[i] \in Calls
  BY ElementOfSeq
<1>2. c \in Calls
  BY <1>1 DEF Calls
<1>3. calls' = [calls EXCEPT ![i] = c]
  BY DEF Answered
<1>4. /\ c.control = calls[i].control /\ c.to = calls[i].to
      /\ c.stage = "answered" /\ c.rows = R /\ c.got = got
  BY <1>1 DEF Calls
<1> HIDE DEF c
<1> QED
  BY <1>2, <1>3, <1>4, ExceptSeq

\* So does one that fails.
LEMMA FailedCall ==
  ASSUME calls \in Seq(Calls), NEW i \in 1 .. Len(calls), Fail(i)
  PROVE  /\ calls' \in Seq(Calls) /\ Len(calls') = Len(calls)
         /\ \A j \in 1 .. Len(calls) : j # i => calls'[j] = calls[j]
         /\ calls'[i].control = calls[i].control /\ calls'[i].stage = "failed"
<1> DEFINE c == [calls[i] EXCEPT !.stage = "failed", !.rows = {}, !.got = Empty]
<1>1. calls[i] \in Calls
  BY ElementOfSeq
<1>2. c \in Calls
  BY <1>1 DEF Calls, Empty
<1>3. calls' = [calls EXCEPT ![i] = c]
  BY DEF Fail
<1>4. c.control = calls[i].control /\ c.stage = "failed"
  BY <1>1 DEF Calls
<1> HIDE DEF c
<1> QED
  BY <1>2, <1>3, <1>4, ExceptSeq

\* What the server answers: the rows it serves a load, and the rows a change changed.
LEMMA ServeAnswers ==
  ASSUME ViewOK, NEW i \in 1 .. Len(calls), Serve(i)
  PROVE  /\ row' \in [Rows -> Status \cup {"none"}]
         /\ \E R \in SUBSET Rows, got \in [Rows -> Status \cup {"none"}] :
              /\ Answered(i, R, got)
              /\ calls[i].control # Load => \A r \in R : got[r] = calls[i].to
              /\ \A r \in Rows : got[r] # "none" => got[r] = row'[r]
              /\ \A r \in Rows : row'[r] = row[r] \/ (calls[i].control # Load /\ r \in R)
<1>0. calls[i] \in Calls
  BY ElementOfSeq DEF ViewOK
<1>1. CASE ServeLoad(i)
  <2>1. PICK R \in SUBSET Rows : Answered(i, {}, Only({r \in R : row[r] \in page.lists}, row))
    BY <1>1 DEF ServeLoad
  <2> DEFINE got == Only({r \in R : row[r] \in page.lists}, row)
  <2>2. got \in [Rows -> Status \cup {"none"}] /\ \A r \in Rows : got[r] # "none" => got[r] = row[r]
    BY DEF Only, ViewOK
  <2> HIDE DEF got
  <2> QED
    BY <1>1, <2>1, <2>2 DEF ServeLoad, ViewOK, got
<1>2. CASE ServeWrite(i)
  <2> DEFINE R   == calls[i].rows
             got == Only(R, row')
  <2>1. R \in SUBSET Rows /\ calls[i].to \in Status
    BY <1>0, <1>2 DEF Calls, ServeWrite
  <2>2. \A r \in Rows : row'[r] = IF r \in R THEN calls[i].to ELSE row[r]
    BY <1>2 DEF ServeWrite
  <2>3. row' \in [Rows -> Status \cup {"none"}]
    BY <1>2, <2>1 DEF ServeWrite, ViewOK
  <2>4. got \in [Rows -> Status \cup {"none"}] /\ \A r \in Rows : got[r] = IF r \in R THEN row'[r] ELSE "none"
    BY <2>3 DEF Only
  <2>5. Answered(i, R, got) /\ calls[i].control # Load
    BY <1>2 DEF ServeWrite
  <2> HIDE DEF R, got
  <2> QED
    BY <2>1, <2>2, <2>3, <2>4, <2>5
<1>3. CASE ServeForm(i)
  <2>1. PICK r \in Rows : row' = [row EXCEPT ![r] = calls[i].to] /\ Answered(i, {r}, Only({r}, row'))
    BY <1>3 DEF ServeForm
  <2> DEFINE got == Only({r}, row')
  <2>2. calls[i].control # Load
    BY <1>3 DEF ServeForm, Load, Control
  <2>3. calls[i].to \in Status
    BY <1>0, <2>2 DEF Calls
  <2>4. row' \in [Rows -> Status \cup {"none"}] /\ \A s \in Rows : row'[s] = IF s = r THEN calls[i].to ELSE row[s]
    BY <2>1, <2>3 DEF ViewOK
  <2>5. got \in [Rows -> Status \cup {"none"}] /\ \A s \in Rows : got[s] = IF s = r THEN row'[s] ELSE "none"
    BY <2>4 DEF Only
  <2>6. Answered(i, {r}, got)
    BY <2>1
  <2> HIDE DEF got
  <2> QED
    BY <2>2, <2>3, <2>4, <2>5, <2>6
<1> QED
  BY <1>1, <1>2, <1>3 DEF Serve

\* What bringing an answer into the page leaves of the requests under way.
LEMMA AppliedCalls ==
  ASSUME ViewOK, NEW i \in 1 .. Len(calls), Apply(i)
  PROVE  \/ calls' = RemoveAt(calls, i)
         \/ \E f \in BOOLEAN : calls' = Append(RemoveAt(calls, i), LoadCall(f))
         \/ calls' = <<>>
<1>1. calls[i].frees \in BOOLEAN
  <2>1. calls[i] \in Calls
    BY ElementOfSeq DEF ViewOK
  <2> QED
    BY <2>1 DEF Calls
<1> QED
  BY <1>1 DEF Apply, Loaded, LoadFailed, Merged, Marked, Reloaded, ChangeFailed, Left, Closed

\* The page that is left shows nothing.
LEMMA ClosedView ==
  ASSUME ViewOK, Closed, row' = row, app' = app PROVE ViewOK' /\ ticked' = {}
BY EmptySeq DEF ViewOK, Closed, Empty, NoPage, Page

\* A session stays in its application, and so do the pages.
LEMMA SameApp ==
  ASSUME [Next]_vars PROVE app' = app
BY DEF Next, Session, SignInNext, Visit, RestoreOk, RestoreFail, LoginOk, LoginFail, Logout, Save,
       SaveOk, SaveFail, Login, BuyerLogin, KeepToken, vars, svars

\* Every step keeps the types.
LEMMA ViewStep == ASSUME ViewOK, [Next]_vars PROVE ViewOK'
<1> USE SameApp
<1>0. ASSUME NEW c \in Calls PROVE Append(calls, c) \in Seq(Calls)
  BY AppendProperties DEF ViewOK
<1>1. CASE Session
  <2>1. CASE Closed
    BY <1>1, <2>1, ClosedView DEF Session
  <2>2. CASE UNCHANGED view
    BY <1>1, <2>2 DEF Session, view, ViewOK
  <2> QED
    BY <1>1, <2>1, <2>2 DEF Session
<1>2. ASSUME Settled, NEW p \in PagesOf[app], Open(p) PROVE ViewOK'
  <2>1. p.controls \subseteq Changes
    BY DEF ViewOK, PagesOf, Changes
  <2>2. <<LoadCall(FALSE)>> \in Seq(Calls)
    <3>1. FALSE \in BOOLEAN
      OBVIOUS
    <3>2. LoadCall(FALSE) \in Calls
      BY <3>1, SentIsCall, Zenon
    <3>3. ASSUME NEW c \in Calls PROVE <<c>> \in Seq(Calls)
      OBVIOUS
    <3> QED
      BY <3>2, <3>3, Zenon
  <2> QED
    BY <1>2, <2>1, <2>2 DEF Open, ViewOK
<1>3. CASE Leave
  BY <1>3, ClosedView DEF Leave
<1>4. CASE LoadAgain
  BY <1>4, <1>0, SentIsCall DEF LoadAgain, ViewOK
<1>5. ASSUME NEW r \in Rows, Tick(r) PROVE ViewOK'
  BY <1>5 DEF Tick, ViewOK, Visible
<1>6. CASE TickAll
  BY <1>6 DEF TickAll, ViewOK, Visible
<1>7. CASE ClosePanel \/ \E r \in Rows : OpenPanel(r)
  BY <1>7 DEF OpenPanel, ClosePanel, ViewOK
<1>8. ASSUME NEW c \in page.controls, NEW R \in SUBSET Rows, NEW s \in Status, Press(c, R, s)
      PROVE  ViewOK'
  <2>1. c \in Changes
    BY DEF ViewOK
  <2> QED
    BY <1>8, <1>0, <2>1, SentIsCall DEF Press, ViewOK
<1>9. ASSUME NEW i \in DOMAIN calls, Serve(i) PROVE ViewOK'
  <2>1. i \in 1 .. Len(calls)
    BY LenProperties DEF ViewOK
  <2>2. row' \in [Rows -> Status \cup {"none"}] /\ calls' \in Seq(Calls)
    BY <1>9, <2>1, ServeAnswers, AnsweredCall DEF ViewOK
  <2> QED
    BY <1>9, <2>2 DEF Serve, ViewOK
<1>10. ASSUME NEW i \in DOMAIN calls, Fail(i) PROVE ViewOK'
  <2>1. i \in 1 .. Len(calls)
    BY LenProperties DEF ViewOK
  <2>2. calls' \in Seq(Calls)
    BY <1>10, <2>1, FailedCall DEF ViewOK
  <2> QED
    BY <1>10, <2>2 DEF Fail, ViewOK
<1>11. ASSUME NEW i \in DOMAIN calls, Apply(i) PROVE ViewOK'
  <2>1. i \in 1 .. Len(calls) /\ calls[i] \in Calls
    BY LenProperties, ElementOfSeq DEF ViewOK
  <2>2. calls' \in Seq(Calls)
    <3>1. RemoveAt(calls, i) \in Seq(Calls)
      BY <2>1, RemoveAtProperties DEF ViewOK
    <3>2. \A f \in BOOLEAN : Append(RemoveAt(calls, i), LoadCall(f)) \in Seq(Calls)
      BY <3>1, SentIsCall, AppendProperties
    <3> QED
      BY <1>11, <2>1, <3>1, <3>2, AppliedCalls, EmptySeq
  <2>3. CASE Left(i)
    BY <1>11, <2>3, ClosedView DEF Left, Apply
  <2>4. \/ shown' \in [Rows -> Status \cup {"none"}] /\ ticked' \subseteq Rows /\ page' = page
        \/ Left(i)
    BY <1>11, <2>1
    DEF Apply, Loaded, LoadFailed, Merged, Marked, Reloaded, ChangeFailed, ViewOK, Calls, Empty,
        Visible
  <2> QED
    BY <1>11, <2>2, <2>3, <2>4 DEF Apply, ViewOK
<1>12. ASSUME NEW r \in Rows, NEW s \in Status, Other(r, s) PROVE ViewOK'
  BY <1>12 DEF Other, view, ViewOK
<1>13. CASE UNCHANGED vars
  BY <1>13 DEF vars, pvars, view, ViewOK
<1> QED
  BY <1>1, <1>2, <1>3, <1>4, <1>5, <1>6, <1>7, <1>8, <1>9, <1>10, <1>11, <1>12, <1>13
  DEF Next, Browse, PagesNext, Use, Handle

-----------------------------------------------------------------------------
\* Every step keeps the ticks on rows that are shown.
LEMMA SelectionStep ==
  ASSUME ViewOK, SelectionIsShown, [Next]_vars PROVE SelectionIsShown'
<1> USE DEF SelectionIsShown, Visible
<1>1. CASE Session
  BY <1>1 DEF Session, Closed, view
<1>2. ASSUME NEW p, Open(p) PROVE SelectionIsShown'
  BY <1>2 DEF Open
<1>3. CASE Leave
  BY <1>3 DEF Leave, Closed
<1>4. CASE LoadAgain
  BY <1>4 DEF LoadAgain
<1>5. ASSUME NEW r \in Rows, Tick(r) PROVE SelectionIsShown'
  BY <1>5 DEF Tick
<1>6. CASE TickAll
  BY <1>6 DEF TickAll
<1>7. CASE ClosePanel \/ \E r \in Rows : OpenPanel(r)
  BY <1>7 DEF OpenPanel, ClosePanel
<1>8. ASSUME NEW c, NEW R, NEW s, Press(c, R, s) PROVE SelectionIsShown'
  BY <1>8 DEF Press
<1>9. ASSUME NEW i \in DOMAIN calls, Serve(i) \/ Fail(i) PROVE SelectionIsShown'
  BY <1>9 DEF Serve, Fail
<1>10. ASSUME NEW i \in DOMAIN calls, Apply(i) PROVE SelectionIsShown'
  <2>1. calls[i] \in Calls
    BY LenProperties, ElementOfSeq DEF ViewOK
  <2>2. CASE Loaded(i)
    BY <2>2 DEF Loaded, ViewOK
  <2>3. CASE LoadFailed(i)
    BY <2>3 DEF LoadFailed
  <2>4. CASE Merged(i) \/ Marked(i)
    <3>1. calls[i].control # Load
      BY <2>4 DEF Merged, Marked, Done, Load, Control
    <3>2. /\ calls[i].to # "none" /\ calls[i].stage = "answered"
          /\ \A r \in calls[i].rows : calls[i].got[r] # "none"
      BY <2>1, <2>4, <3>1 DEF Merged, Marked, Done, Calls, Status
    <3>3. \A r \in Rows : shown[r] # "none" => shown'[r] # "none"
      BY <2>4, <3>2 DEF Merged, Marked
    <3> QED
      BY <2>4, <3>3 DEF Merged, Marked
  <2>5. CASE Reloaded(i) \/ ChangeFailed(i)
    BY <2>5 DEF Reloaded, ChangeFailed
  <2>6. CASE Left(i)
    BY <2>6 DEF Left, Closed
  <2> QED
    BY <1>10, <2>2, <2>3, <2>4, <2>5, <2>6 DEF Apply
<1>11. ASSUME NEW r \in Rows, NEW s \in Status, Other(r, s) PROVE SelectionIsShown'
  BY <1>11 DEF Other, view
<1>12. CASE UNCHANGED vars
  BY <1>12 DEF vars, pvars, view
<1> HIDE DEF SelectionIsShown, Visible
<1> QED
  BY <1>1, <1>2, <1>3, <1>4, <1>5, <1>6, <1>7, <1>8, <1>9, <1>10, <1>11, <1>12
  DEF Next, Browse, PagesNext, Use, Handle

\* The initial states show nothing.
LEMMA InitView == Init => ViewOK /\ SelectionIsShown
<1> SUFFICES ASSUME Init PROVE ViewOK /\ SelectionIsShown
  OBVIOUS
<1> QED
  BY EmptySeq
  DEF Init, PagesInit, SignInInit, ViewOK, Empty, NoPage, Page, SelectionIsShown, Visible

\* What is shown and asked for keeps its types.
THEOREM ViewTypes == Spec => []ViewOK
<1>1. Init => ViewOK
  BY InitView
<1>2. ViewOK /\ [Next]_vars => ViewOK'
  BY ViewStep
<1> QED
  BY <1>1, <1>2, PTL DEF Spec

\* Of any table of the web applications: whatever was ticked while answers to other
\* filters, changes and reloads came in, a bulk change is sent for rows that are shown,
\* unless the last load failed (toggleSelection, toggleSelectAll).
THEOREM SelectionShown == Spec => []SelectionIsShown
<1>1. Init => SelectionIsShown
  BY InitView
<1>2. ViewOK /\ SelectionIsShown /\ [Next]_vars => SelectionIsShown'
  BY SelectionStep
<1> QED
  BY <1>1, <1>2, ViewTypes, PTL DEF Spec

-----------------------------------------------------------------------------
\* Bringing the answer to request k into the page settles what it shows of row r: the
\* rows are loaded, or will be, or the answer names the row.
Mends(k, r) ==
  \/ calls[k].control = Load
  \/ /\ calls[k].stage = "answered"
     /\ calls[k].control.after \in {"merge", "mark"} => r \in calls[k].rows

\* The answer to request k gives another status for row r than is stored by now.
Outdated(k, r) ==
  /\ calls[k].stage = "answered"
  /\ \/ calls[k].control = Load /\ calls[k].got[r] \notin {"none", row[r]}
     \/ calls[k].control # Load /\ r \in calls[k].rows /\ calls[k].to # row[r]

\* RowsAreFresh is not inductive: while requests are under way, what is shown and what
\* their answers say may be outdated, but then a request that comes later mends it, if
\* the row is not torn.
ServedInOrder == \A j, k \in 1 .. Len(calls) :
  j < k /\ calls[k].stage = "answered" => calls[j].stage # "sent"

AnswersAreMended == \A k \in 1 .. Len(calls), r \in Rows \ torn :
  Outdated(k, r) => \E m \in k + 1 .. Len(calls) : Mends(m, r)

RowsAreMended == ~blind => \A r \in Visible \ torn :
  shown[r] # row[r] => \E m \in 1 .. Len(calls) : Mends(m, r)

FreshInv == calm => ServedInOrder /\ AnswersAreMended /\ RowsAreMended

\* Nothing is under way and nothing is shown.
LEMMA FreshClosed ==
  ASSUME Closed PROVE FreshInv'
BY EmptySeq
DEF Closed, FreshInv, ServedInOrder, AnswersAreMended, RowsAreMended, Visible, Empty

\* Ticks and panels do not matter.
LEMMA FreshSame ==
  ASSUME FreshInv, UNCHANGED <<calm, row, shown, calls, blind, torn>> PROVE FreshInv'
BY DEF FreshInv, ServedInOrder, AnswersAreMended, RowsAreMended, Visible, Mends, Outdated

\* One more request that is sent says nothing yet, and leaves the others in their place.
LEMMA FreshSent ==
  ASSUME ViewOK, FreshInv, NEW c \in Calls, c.stage = "sent", calls' = Append(calls, c),
         UNCHANGED <<calm, row, shown, blind, torn>>
  PROVE  FreshInv'
<1> SUFFICES ASSUME calm PROVE ServedInOrder' /\ AnswersAreMended' /\ RowsAreMended'
  BY DEF FreshInv
<1>1. /\ Len(calls) \in Nat /\ Len(calls') = Len(calls) + 1
      /\ \A j \in 1 .. Len(calls) : calls'[j] = calls[j]
      /\ calls'[Len(calls) + 1] = c
  BY AppendProperties, LenProperties DEF ViewOK
<1>2. \A j \in 1 .. Len(calls'), r \in Rows :
        /\ j \in 1 .. Len(calls) => (Mends(j, r) => Mends(j, r)') /\ (Outdated(j, r)' => Outdated(j, r))
        /\ j \notin 1 .. Len(calls) => ~Outdated(j, r)' /\ calls'[j].stage # "answered"
  BY <1>1 DEF Mends, Outdated
<1>3. ServedInOrder'
  BY <1>1, <1>2 DEF FreshInv, ServedInOrder
<1>4. AnswersAreMended'
  <2> SUFFICES ASSUME NEW k \in 1 .. Len(calls'), NEW r \in Rows \ torn', Outdated(k, r)'
               PROVE  \E m \in k + 1 .. Len(calls') : Mends(m, r)'
    BY DEF AnswersAreMended
  <2>1. PICK m \in k + 1 .. Len(calls) : Mends(m, r)
    BY <1>2 DEF FreshInv, AnswersAreMended
  <2> QED
    BY <1>1, <1>2, <2>1
<1>5. RowsAreMended'
  BY <1>1, <1>2 DEF FreshInv, RowsAreMended, Visible
<1> QED
  BY <1>3, <1>4, <1>5

\* The first request goes.
LEMMA FirstGoes ==
  ASSUME ViewOK, 1 \in DOMAIN calls
  PROVE  /\ Len(RemoveAt(calls, 1)) = Len(calls) - 1 /\ Len(calls) \in Nat
         /\ RemoveAt(calls, 1) \in Seq(Calls)
         /\ \A j \in 1 .. Len(calls) - 1 : RemoveAt(calls, 1)[j] = calls[j + 1]
<1>1. 1 \in 1 .. Len(calls) /\ Len(calls) \in Nat
  BY LenProperties DEF ViewOK
<1>2. /\ RemoveAt(calls, 1) \in Seq(Calls)
      /\ Len(RemoveAt(calls, 1)) = Len(calls) - 1
      /\ \A j \in 1 .. Len(calls) - 1 : RemoveAt(calls, 1)[j] = IF j < 1 THEN calls[j] ELSE calls[j + 1]
  BY <1>1, RemoveAtProperties DEF ViewOK
<1> QED
  BY <1>1, <1>2

\* The answer to the first request is brought in: what the page shows of a row after it is
\* stored, or a later request mends it.
LEMMA FreshApplied ==
  ASSUME ViewOK, FreshInv, calm, 1 \in DOMAIN calls, calls' = RemoveAt(calls, 1),
         UNCHANGED <<calm, row, torn>>,
         ~blind' => \A r \in Rows \ torn : shown'[r] \notin {"none", row[r]} =>
                      \E m \in 2 .. Len(calls) : Mends(m, r)
  PROVE  FreshInv'
<1>1. /\ Len(calls) \in Nat /\ Len(calls') = Len(calls) - 1
      /\ \A j \in 1 .. Len(calls') : calls'[j] = calls[j + 1]
  BY FirstGoes
<1>2. \A j \in 1 .. Len(calls'), r \in Rows :
        (Mends(j + 1, r) => Mends(j, r)') /\ (Outdated(j, r)' => Outdated(j + 1, r))
  BY <1>1 DEF Mends, Outdated
<1>3. ServedInOrder'
  <2> SUFFICES ASSUME NEW j \in 1 .. Len(calls'), NEW k \in 1 .. Len(calls'),
                      j < k, calls'[k].stage = "answered"
               PROVE  calls'[j].stage # "sent"
    BY DEF ServedInOrder
  <2>1. j + 1 \in 1 .. Len(calls) /\ k + 1 \in 1 .. Len(calls) /\ j + 1 < k + 1
    BY <1>1
  <2> QED
    BY <1>1, <2>1 DEF FreshInv, ServedInOrder
<1>4. AnswersAreMended'
  <2> SUFFICES ASSUME NEW k \in 1 .. Len(calls'), NEW r \in Rows \ torn', Outdated(k, r)'
               PROVE  \E m \in k + 1 .. Len(calls') : Mends(m, r)'
    BY DEF AnswersAreMended
  <2>1. k + 1 \in 1 .. Len(calls) /\ Outdated(k + 1, r)
    BY <1>1, <1>2
  <2>2. PICK m \in (k + 1) + 1 .. Len(calls) : Mends(m, r)
    BY <2>1 DEF FreshInv, AnswersAreMended
  <2>3. m - 1 \in k + 1 .. Len(calls') /\ m - 1 \in 1 .. Len(calls') /\ (m - 1) + 1 = m
    BY <1>1, <2>2
  <2>4. Mends(m - 1, r)'
    BY <1>2, <2>2, <2>3
  <2> QED
    BY <2>3, <2>4
<1>5. RowsAreMended'
  <2> SUFFICES ASSUME ~blind', NEW r \in Rows \ torn', shown'[r] # "none", shown'[r] # row[r]
               PROVE  \E m \in 1 .. Len(calls') : Mends(m, r)'
    BY DEF RowsAreMended, Visible
  <2>1. PICK m \in 2 .. Len(calls) : Mends(m, r)
    OBVIOUS
  <2>2. m - 1 \in 1 .. Len(calls') /\ (m - 1) + 1 = m
    BY <1>1
  <2>3. Mends(m - 1, r)'
    BY <1>2, <2>1, <2>2
  <2> QED
    BY <2>2, <2>3
<1> QED
  BY <1>3, <1>4, <1>5 DEF FreshInv

\* A request is served: its own answer says what is stored by now, and mends the rows it
\* changed.
LEMMA FreshServed ==
  ASSUME ViewOK, FreshInv, calm, NEW i \in 1 .. Len(calls), Serve(i)
  PROVE  FreshInv'
<1>1. PICK R \in SUBSET Rows, got \in [Rows -> Status \cup {"none"}] :
        /\ Answered(i, R, got)
        /\ calls[i].control # Load => \A r \in R : got[r] = calls[i].to
        /\ \A r \in Rows : got[r] # "none" => got[r] = row'[r]
        /\ \A r \in Rows : row'[r] = row[r] \/ (calls[i].control # Load /\ r \in R)
  BY ServeAnswers
<1>2. calls[i] \in Calls /\ calls[i].stage = "sent" /\ Len(calls) \in Nat
  BY ElementOfSeq, LenProperties DEF ViewOK, Serve
<1>3. /\ Len(calls') = Len(calls)
      /\ \A j \in 1 .. Len(calls) : j # i => calls'[j] = calls[j]
      /\ calls'[i].control = calls[i].control /\ calls'[i].to = calls[i].to
      /\ calls'[i].stage = "answered" /\ calls'[i].rows = R /\ calls'[i].got = got
  BY <1>1, AnsweredCall DEF ViewOK
<1>4. \A j \in 1 .. i - 1 : calls[j].stage # "sent"
  BY DEF Serve
<1>5. \A k \in 1 .. Len(calls) : i < k => calls[k].stage # "answered"
  BY <1>2 DEF FreshInv, ServedInOrder
<1>6. ServedInOrder'
  BY <1>2, <1>3, <1>4, <1>5 DEF FreshInv, ServedInOrder
<1>7. \A r \in Rows : ~Outdated(i, r)'
  <2>1. calls[i].control # Load => calls[i].to # "none"
    BY <1>2 DEF Calls, Status
  <2> QED
    BY <1>1, <1>3, <2>1 DEF Outdated
<1>8. \A r \in Rows : row'[r] # row[r] => Mends(i, r)'
  BY <1>1, <1>3 DEF Mends
<1>9. \A j \in 1 .. Len(calls), r \in Rows : Mends(j, r) => Mends(j, r)'
  BY <1>2, <1>3 DEF Mends
<1>12. \A r \in torn : r \in torn' \/ Mends(i, r)'
  BY <1>3 DEF Serve, ServeLoad, ServeWrite, ServeForm, Mends
<1>10. AnswersAreMended'
  <2> SUFFICES ASSUME NEW k \in 1 .. Len(calls'), NEW r \in Rows \ torn', Outdated(k, r)'
               PROVE  \E m \in k + 1 .. Len(calls') : Mends(m, r)'
    BY DEF AnswersAreMended
  <2>1. k # i /\ k \in 1 .. Len(calls)
    BY <1>3, <1>7
  <2>2. k < i
    BY <1>2, <1>3, <1>5, <2>1 DEF Outdated
  <2>3. CASE row'[r] = row[r] /\ r \notin torn
    <3>1. Outdated(k, r)
      BY <1>3, <2>1, <2>3 DEF Outdated
    <3>2. PICK m \in k + 1 .. Len(calls) : Mends(m, r)
      BY <2>1, <2>3, <3>1 DEF FreshInv, AnswersAreMended
    <3>3. r \in Rows /\ m \in 1 .. Len(calls) /\ m \in k + 1 .. Len(calls')
      <4>1. k + 1 .. Len(calls) = k + 1 .. Len(calls')
        BY <1>3
      <4>2. \A x \in k + 1 .. Len(calls) : x \in 1 .. Len(calls)
        BY <1>2, <2>1
      <4> QED
        BY <4>1, <4>2
    <3>4. Mends(m, r)'
      BY <1>9, <3>2, <3>3
    <3> QED
      BY <3>3, <3>4
  <2>4. CASE row'[r] # row[r] \/ r \in torn
    BY <1>2, <1>3, <1>8, <1>12, <2>1, <2>2, <2>4
  <2> QED
    BY <2>3, <2>4
<1>11. RowsAreMended'
  <2>1. shown' = shown /\ blind' = blind
    BY DEF Serve
  <2> QED
    BY <1>2, <1>3, <1>8, <1>9, <1>12, <2>1 DEF FreshInv, RowsAreMended, Visible
<1> QED
  BY <1>6, <1>10, <1>11 DEF FreshInv

\* A request fails: a load that does mends nothing, but then the page will have been told
\* that it failed, and a change that was stored before tears the rows it would have mended.
LEMMA FreshFailed ==
  ASSUME ViewOK, FreshInv, calm, NEW i \in 1 .. Len(calls), Fail(i)
  PROVE  FreshInv'
<1>1. /\ Len(calls') = Len(calls) /\ Len(calls) \in Nat
      /\ \A j \in 1 .. Len(calls) : j # i => calls'[j] = calls[j]
      /\ calls'[i].control = calls[i].control /\ calls'[i].stage = "failed"
  BY FailedCall, LenProperties DEF ViewOK
<1>2. /\ UNCHANGED <<row, shown, blind>> /\ torn \subseteq torn'
      /\ \/ calls[i].stage = "sent"
         \/ calls[i].control.tears /\ torn' = torn \cup calls[i].rows
  BY DEF Fail
<1>3. calls[i].control \in Changes \cup {Load} /\ ~Load.tears
  BY ElementOfSeq DEF ViewOK, Calls, Load, Control
<1>4. ASSUME NEW r \in Rows \ torn', Mends(i, r) PROVE Mends(i, r)'
  <2>1. CASE calls[i].control = Load
    BY <1>1, <2>1 DEF Mends
  <2>2. CASE calls[i].control # Load
    BY <1>2, <1>3, <1>4, <2>2, LoadIsNoChange DEF Mends
  <2> QED
    BY <2>1, <2>2
<1>5. \A j \in 1 .. Len(calls), r \in Rows \ torn' :
        (Mends(j, r) => Mends(j, r)') /\ (Outdated(j, r)' => Outdated(j, r))
  BY <1>1, <1>2, <1>4 DEF Mends, Outdated
<1>6. ServedInOrder'
  BY <1>1, <1>2 DEF FreshInv, ServedInOrder
<1>7. AnswersAreMended' /\ RowsAreMended'
  BY <1>1, <1>2, <1>5 DEF FreshInv, AnswersAreMended, RowsAreMended, Visible
<1> QED
  BY <1>6, <1>7 DEF FreshInv

\* The answer to the first request is brought in.
LEMMA FreshFirst ==
  ASSUME ViewOK, FreshInv, calm, NEW i \in DOMAIN calls, Apply(i)
  PROVE  FreshInv'
<1>1. i = 1 /\ i \in 1 .. Len(calls) /\ Len(calls) \in Nat /\ UNCHANGED <<calm, row>>
  BY LenProperties DEF Apply, ViewOK
<1>2. calls[1] \in Calls
  BY <1>1, ElementOfSeq DEF ViewOK
<1>3. \A r \in Rows \ torn : Outdated(1, r) => \E m \in 2 .. Len(calls) : Mends(m, r)
  BY <1>1 DEF FreshInv, AnswersAreMended
<1>4. ~blind => \A r \in Rows \ torn : shown[r] \notin {"none", row[r]} =>
        Mends(1, r) \/ \E m \in 2 .. Len(calls) : Mends(m, r)
  BY <1>1 DEF FreshInv, RowsAreMended, Visible
<1>5. CASE Loaded(1)
  <2>1. \A r \in Rows : shown'[r] \notin {"none", row[r]} => Outdated(1, r)
    BY <1>5 DEF Loaded, Outdated
  <2> QED
    BY <1>1, <1>3, <1>5, <2>1, FreshApplied DEF Loaded
<1>6. CASE LoadFailed(1)
  BY <1>1, <1>6, FreshApplied DEF LoadFailed
<1>7. CASE Merged(1) \/ Marked(1)
  <2>1. calls[1].control # Load /\ calls[1].stage = "answered" /\ calls[1].control.after \in {"merge", "mark"}
    BY <1>7 DEF Merged, Marked, Done, Load, Control
  <2>2. \A r \in calls[1].rows : calls[1].got[r] = calls[1].to
    BY <1>2, <2>1 DEF Calls
  <2>3. blind' = blind /\ torn' = torn /\ calls' = RemoveAt(calls, 1)
    BY <1>7 DEF Merged, Marked
  <2>4. ASSUME NEW r \in Rows \ torn, ~blind, shown'[r] \notin {"none", row[r]}
        PROVE  \E m \in 2 .. Len(calls) : Mends(m, r)
    <3>1. CASE r \in calls[1].rows /\ shown'[r] = calls[1].to
      BY <1>3, <2>1, <2>4, <3>1 DEF Outdated
    <3>2. CASE ~(r \in calls[1].rows /\ shown'[r] = calls[1].to)
      <4>1. shown'[r] = shown[r] /\ (r \notin calls[1].rows \/ shown[r] = "none")
        BY <1>7, <2>2, <3>2 DEF Merged, Marked, Visible
      <4>2. ~Mends(1, r)
        BY <2>1, <2>4, <4>1 DEF Mends
      <4> QED
        BY <1>4, <2>4, <4>1, <4>2
    <3> QED
      BY <3>1, <3>2
  <2> QED
    BY <1>1, <2>3, <2>4, FreshApplied
<1>8. CASE ChangeFailed(1)
  <2>1. \A r \in Rows : ~Mends(1, r)
    BY <1>8 DEF ChangeFailed, Mends
  <2> QED
    BY <1>1, <1>4, <1>8, <2>1, FreshApplied DEF ChangeFailed
<1>9. CASE Reloaded(1)
  <2>1. calls' = Append(RemoveAt(calls, 1), LoadCall(calls[1].frees)) /\ shown' = shown /\ blind' = blind
    BY <1>9 DEF Reloaded
  <2>2. /\ Len(RemoveAt(calls, 1)) = Len(calls) - 1 /\ RemoveAt(calls, 1) \in Seq(Calls)
        /\ \A j \in 1 .. Len(calls) - 1 : RemoveAt(calls, 1)[j] = calls[j + 1]
    BY <1>1, FirstGoes DEF ViewOK
  <2>3. LoadCall(calls[1].frees) \in Calls
    BY <1>2, SentIsCall DEF Calls
  <2> PICK n \in 1 .. Len(calls) : n = Len(calls)
    BY <1>1
  <2>4. /\ Len(calls') = n
        /\ \A j \in 1 .. n - 1 : calls'[j] = calls[j + 1]
        /\ calls'[n] = LoadCall(calls[1].frees)
    BY <1>1, <2>1, <2>2, <2>3, AppendProperties
  <2>5. calls'[n].control = Load /\ calls'[n].stage = "sent"
    BY <2>4 DEF LoadCall, Call
  <2>6. \A r \in Rows : Mends(n, r)' /\ ~Outdated(n, r)'
    BY <2>5 DEF Mends, Outdated
  <2>7. ServedInOrder'
    <3> SUFFICES ASSUME NEW j \in 1 .. Len(calls'), NEW k \in 1 .. Len(calls'),
                        j < k, calls'[k].stage = "answered"
                 PROVE  calls'[j].stage # "sent"
      BY DEF ServedInOrder
    <3>1. j + 1 \in 1 .. Len(calls) /\ k + 1 \in 1 .. Len(calls) /\ j + 1 < k + 1
      BY <1>1, <2>4, <2>5
    <3> QED
      BY <1>1, <2>4, <3>1 DEF FreshInv, ServedInOrder
  <2>8. AnswersAreMended' /\ RowsAreMended'
    <3>1. \A k \in 1 .. Len(calls'), r \in Rows : Outdated(k, r)' => n \in k + 1 .. Len(calls')
      BY <1>1, <2>4, <2>6
    <3>2. n \in 1 .. Len(calls')
      BY <1>1, <2>4
    <3> QED
      BY <2>6, <3>1, <3>2 DEF AnswersAreMended, RowsAreMended, Visible
  <2> QED
    BY <2>7, <2>8 DEF FreshInv
<1>10. CASE Left(1)
  BY <1>10, FreshClosed DEF Left
<1> QED
  BY <1>1, <1>5, <1>6, <1>7, <1>8, <1>9, <1>10 DEF Apply

\* Every step keeps it.
LEMMA FreshStep ==
  ASSUME ViewOK, FreshInv, [Next]_vars PROVE FreshInv'
<1>0. calm' = calm
  BY DEF Next, Session, Browse, PagesNext, Use, Handle, Open, Leave, LoadAgain, Tick, TickAll,
         OpenPanel, ClosePanel, Press, Serve, Fail, Apply, Other, vars, pvars
<1>1. CASE ~calm
  BY <1>0, <1>1 DEF FreshInv
<1>2. CASE calm
  <2>1. CASE Session
    BY <1>0, <2>1, FreshClosed, FreshSame DEF Session, view
  <2>2. ASSUME NEW p, Open(p) PROVE FreshInv'
    <3>1. Len(calls') = 1 /\ calls'[1].control = Load /\ calls'[1].stage = "sent"
      BY <2>2 DEF Open, LoadCall, Call
    <3>2. \A r \in Rows : Mends(1, r)' /\ ~Outdated(1, r)'
      BY <3>1 DEF Mends, Outdated
    <3>3. ServedInOrder' /\ AnswersAreMended'
      BY <3>1, <3>2 DEF ServedInOrder, AnswersAreMended
    <3>4. RowsAreMended'
      BY <3>1, <3>2 DEF RowsAreMended, Visible
    <3> QED
      BY <3>3, <3>4 DEF FreshInv
  <2>3. CASE Leave
    BY <2>3, FreshClosed DEF Leave
  <2>4. CASE LoadAgain
    <3>1. FALSE \in BOOLEAN
      OBVIOUS
    <3>2. LoadCall(FALSE) \in Calls
      BY <3>1, SentIsCall, Zenon
    <3>3. LoadCall(FALSE).stage = "sent"
      BY DEF LoadCall, Call
    <3>4. calls' = Append(calls, LoadCall(FALSE)) /\ UNCHANGED <<calm, row, shown, blind, torn>>
      BY <2>4, Zenon DEF LoadAgain
    <3> HIDE DEF LoadCall
    <3> QED
      BY <3>2, <3>3, <3>4, FreshSent, Zenon
  <2>5. CASE TickAll \/ ClosePanel \/ \E r \in Rows : Tick(r) \/ OpenPanel(r)
    BY <2>5, FreshSame DEF Tick, TickAll, OpenPanel, ClosePanel
  <2>6. ASSUME NEW c \in page.controls, NEW R \in SUBSET Rows, NEW s \in Status, Press(c, R, s)
        PROVE  FreshInv'
    <3> DEFINE call == Call(c, R, s, c.waits # "none")
    <3>1. call \in Calls
      BY SentIsCall DEF ViewOK
    <3>2. call.stage = "sent"
      BY DEF Call
    <3>3. calls' = Append(calls, call) /\ UNCHANGED <<calm, row, shown, blind, torn>>
      BY <2>6, Zenon DEF Press
    <3> HIDE DEF call
    <3> QED
      BY <3>1, <3>2, <3>3, FreshSent
  <2>7. ASSUME NEW i \in DOMAIN calls, Serve(i) \/ Fail(i) \/ Apply(i) PROVE FreshInv'
    <3>1. i \in 1 .. Len(calls)
      BY LenProperties DEF ViewOK
    <3> QED
      BY <1>2, <2>7, <3>1, FreshServed, FreshFailed, FreshFirst
  <2>8. ASSUME NEW r \in Rows, NEW s \in Status, Other(r, s) PROVE FreshInv'
    BY <1>2, <2>8 DEF Other
  <2>9. CASE UNCHANGED vars
    BY <2>9, FreshSame DEF vars, pvars, view
  <2> QED
    BY <2>1, <2>2, <2>3, <2>4, <2>5, <2>6, <2>7, <2>8, <2>9 DEF Next, Browse, PagesNext, Use, Handle
<1> QED
  BY <1>1, <1>2

\* With nobody else about, and answers in order and none lost, a page that has its answers
\* shows each row as it is stored, for every page, any number of rows and of requests under
\* way: what setRows, the merges, the marks and the reloads leave out is mended by a later
\* answer, except after a failed load, and for a hold whose release was refused when it
\* was stored.
THEOREM RowsGetFresh == Spec => []RowsAreFresh
<1>1. Init => FreshInv
  BY EmptySeq
  DEF Init, PagesInit, FreshInv, ServedInOrder, AnswersAreMended, RowsAreMended, Visible, Empty
<1>2. ViewOK /\ FreshInv /\ [Next]_vars => FreshInv'
  BY FreshStep
<1>3. FreshInv => RowsAreFresh
  BY EmptySeq DEF FreshInv, RowsAreMended, RowsAreFresh
<1> QED
  BY <1>1, <1>2, <1>3, ViewTypes, PTL DEF Spec
=============================================================================
